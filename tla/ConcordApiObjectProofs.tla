----------------------- MODULE ConcordApiObjectProofs -----------------------
(***************************************************************************)
(* What objects are loaded with, for every number of keys, buckets, slots  *)
(* and requests and every choice of server answers.                        *)
(*                                                                         *)
(* LoadedOnce: pauses, resumes, retries, stale messages and recycled       *)
(* connections never hand an object to load_cb again.                      *)
(*                                                                         *)
(* The argument: no two connections have the same p_object, none has one   *)
(* that was loaded, and the request of a call that is not over yet (a      *)
(* registration, or a push that filled the queue and runs the transfers)   *)
(* is on no connection at all.                                             *)
(***************************************************************************)
EXTENDS ConcordApiProofs

\* A call of the user is under way and its request is on no connection yet.
CallPending == \/ pc = "sync"
               \/ caller = "build" /\ pc \in {"run", "loop", "socket", "drain"}

\* A request that was not made yet was not answered.
FutureUnloaded == \A r \in Requests : r > Len(calls) => loaded[r] = "no"

PendingUnloaded ==
    CallPending =>
        /\ Len(calls) \in Requests
        /\ loaded[Len(calls)] = "no"
        /\ \A b \in Buckets, i \in Slots : conns[b][i].object # Len(calls)

\* Object r is on a connection and was not loaded.
ObjectsUnloaded ==
    \A b \in Buckets, i \in Slots :
        conns[b][i].object # 0 => loaded[conns[b][i].object] = "no"

ObjectsDistinct ==
    \A b, d \in Buckets : \A i, j \in Slots :
        conns[b][i].object # 0 /\ conns[b][i].object = conns[d][j].object
            => b = d /\ i = j

ObjectsInv == /\ LoadedOnce
              /\ FutureUnloaded
              /\ PendingUnloaded
              /\ ObjectsUnloaded
              /\ ObjectsDistinct

-----------------------------------------------------------------------------
(* What steps do to objects *)

\* No connection gets an object it did not have.
NoNewObject ==
    \A b \in Buckets, i \in Slots :
        conns'[b][i].object \in {0, conns[b][i].object}

\* The steps that give a connection a new object.
Gives == LoopExit \/ \E k \in Keys : Enqueue(k)

\* The steps that load an object or start a call.
Loads == \/ \E n \in Remainders : SyncOk(n)
         \/ \E b \in Buckets, i \in Slots : Reply200(b, i)
         \/ \E k \in Keys : Register(k)

\* A pop or a resume changes the transfers of some connections, a pause too;
\* none of them changes what a connection is for.
LEMMA PopKeepsObjects ==
    ASSUME TypeOK, NEW b \in Buckets, NEW n, NEW i \in Slots
    PROVE  AfterPop(b, n)[i].object = conns[b][i].object
<1>1. conns[b][i] \in Conn
  BY DEF TypeOK
<1> QED
  BY <1>1, LaunchConn DEF AfterPop

\* A pause leaves every connection its object.
LEMMA PausedKeepsObjects ==
    ASSUME TypeOK, NEW b \in Buckets, NEW i \in Slots
    PROVE  Paused(b)[i] \in Conn /\ Paused(b)[i].object = conns[b][i].object
<1>1. conns[b][i] \in Conn
  BY DEF TypeOK
<1> QED
  BY <1>1 DEF Paused, Conn, Status, Transfer

\* Steps that neither give nor load objects leave calls and loaded alone, and
\* begin no call.
LEMMA PlainSteps ==
    ASSUME TypeOK, [Next]_vars, ~Gives, ~Loads
    PROVE  /\ UNCHANGED <<calls, loaded>>
           /\ NoNewObject
           /\ CallPending' => CallPending
<1> DEFINE Goal == /\ UNCHANGED <<calls, loaded>>
                   /\ NoNewObject
                   /\ CallPending' => CallPending
<1> USE DEF user
<1>0. conns \in [Buckets -> [Slots -> Conn]]
  BY DEF TypeOK
<1>1. ASSUME UNCHANGED conns PROVE NoNewObject
  BY <1>1 DEF NoNewObject
<1>2. CASE UNCHANGED vars
  BY <1>1, <1>2 DEF vars, CallPending
<1>3. CASE Dispatch
  BY <1>1, <1>3 DEF Dispatch, CallPending
<1>4. CASE SyncNext
  BY <1>1, <1>4 DEF SyncNext, SyncLimited, SyncFatal, CallPending, Loads
<1>5. CASE StartBuckets
  <2>1. NoNewObject
    BY <1>5, PopKeepsObjects DEF StartBuckets, NoNewObject
  <2> QED
    BY <1>5, <2>1 DEF StartBuckets, CallPending
<1>6. ASSUME NEW b \in Buckets, NEW i \in Slots, Network(b, i) PROVE Goal
  <2>1. conns[b][i] \in Conn
    BY DEF TypeOK
  <2>2. ASSUME NEW n \in Remainders, ReceiveHeaders(b, i, n) PROVE Goal
    <3>1. conns' = [conns EXCEPT ![b][i] = Received(conns[b][i])]
      BY <2>2 DEF ReceiveHeaders
    <3>2. NoNewObject
      BY <1>0, <2>1, <3>1, ReceivedConn DEF NoNewObject
    <3> QED
      BY <2>2, <3>2 DEF ReceiveHeaders, CallPending
  <2>3. ASSUME NEW reply, Complete(b, i, reply) PROVE NoNewObject
    BY <2>3 DEF Complete, NoNewObject, TypeOK, Conn
  <2>4. ASSUME NEW reply \in Replies \cup {"nourl"},
               SocketComplete(b, i, reply) \/ TimeoutComplete(b, i, reply)
        PROVE  Goal
    BY <2>3, <2>4 DEF SocketComplete, TimeoutComplete, Complete, CallPending
  <2> QED
    BY <1>6, <2>2, <2>4 DEF Network
<1>7. ASSUME NEW b \in Buckets, NEW i \in Slots, Message(b, i) PROVE Goal
  <2> USE DEF Draining
  <2>1. CASE CallNull(b, i)
    BY <1>1, <2>1 DEF CallNull, CallPending
  <2>2. CASE ReplyLimited(b, i)
    <3> DEFINE g == [Paused(b) EXCEPT
                        ![i].body = NoBody,
                        ![i].transfer = IF @ = "limited" THEN "spent" ELSE @]
    <3>1. conns' = [conns EXCEPT ![b] = g]
      BY <2>2 DEF ReplyLimited
    <3>2. ASSUME NEW j \in Slots PROVE g[j].object = conns[b][j].object
      <4>1. /\ Paused(b)[j] \in Conn
            /\ Paused(b)[j].object = conns[b][j].object
            /\ Paused(b) = [k \in Slots |-> Paused(b)[k]]
        BY PausedKeepsObjects DEF Paused
      <4> QED
        BY <4>1 DEF Conn
    <3> HIDE DEF g
    <3>3. NoNewObject
      BY <1>0, <3>1, <3>2 DEF NoNewObject
    <3> QED
      BY <2>2, <3>3 DEF ReplyLimited, CallPending
  <2>3. CASE ReplyGlobal(b, i)
    <3>1. NoNewObject
      BY <1>0, <2>3 DEF ReplyGlobal, NoNewObject, Conn
    <3> QED
      BY <2>3, <3>1 DEF ReplyGlobal, CallPending
  <2>4. CASE ReplyNoUrl(b, i)
    <3>1. NoNewObject
      BY <1>0, <2>4 DEF ReplyNoUrl, NoNewObject, Conn
    <3> QED
      BY <2>4, <3>1 DEF ReplyNoUrl, CallPending
  <2>5. CASE ReplyFatal(b, i)
    BY <1>1, <2>5 DEF ReplyFatal, CallPending
  <2> QED
    BY <1>7, <2>1, <2>2, <2>3, <2>4, <2>5 DEF Message, Loads
<1>8. CASE EndSocketEvent
  BY <1>1, <1>8 DEF EndSocketEvent, Draining, CallPending
<1>9. ASSUME NEW b \in Buckets, AddRemaining(b) PROVE Goal
  <2>1. conns' = [conns EXCEPT ![b] =
                    AfterPop(b, Popped(Held(b), remaining[b]))]
    BY <1>9 DEF AddRemaining
  <2>2. NoNewObject
    BY <1>0, <2>1, PopKeepsObjects DEF NoNewObject
  <2> QED
    BY <1>9, <2>2 DEF AddRemaining, CallPending
<1>10. ASSUME NEW b \in Buckets, Resume(b) PROVE Goal
  <2> DEFINE g == [i \in Slots |->
                     IF /\ bottom_running[b] <= i /\ i < separator[b]
                        /\ conns[b][i].status = "PAUSE"
                     THEN Launch(conns[b][i]) ELSE conns[b][i]]
  <2>1. conns' = [conns EXCEPT ![b] = g]
    BY <1>10 DEF Resume
  <2>2. \A i \in Slots : g[i].object = conns[b][i].object
    BY LaunchConn DEF TypeOK
  <2> HIDE DEF g
  <2>3. NoNewObject
    BY <1>0, <2>1, <2>2 DEF NoNewObject
  <2> QED
    BY <1>10, <2>3 DEF Resume, CallPending
<1>11. CASE LoopExitAborts
  BY <1>1, <1>11 DEF LoopExitAborts, CallPending
<1> QED
  BY <1>2, <1>3, <1>4, <1>5, <1>6, <1>7, <1>8, <1>9, <1>10, <1>11
  DEF Next, UserNext, LoopNext, Gives, Loads

-----------------------------------------------------------------------------
(* The invariant *)

\* The objects of the connections are numbers of requests that were made.
LEMMA ObjectRange ==
    ASSUME TypeOK, NEW b \in Buckets, NEW i \in Slots
    PROVE  /\ conns[b][i] \in Conn
           /\ conns[b][i].object \in Nat
           /\ conns[b][i].object <= Len(calls)
           /\ Len(calls) \in Nat /\ Len(calls) <= MaxRequests
           /\ conns[b][i].object # 0 => conns[b][i].object \in Requests
<1>1. conns[b][i] \in Conn /\ conns[b][i].object <= Len(calls)
  BY DEF TypeOK
<1>2. Len(calls) \in Nat /\ Len(calls) <= MaxRequests
  BY DEF TypeOK
<1>3. conns[b][i].object \in Nat
  BY <1>1, ConnFields
<1> QED
  BY <1>1, <1>2, <1>3, ConcordApiAssumption DEF ConcordApiAssumption, Requests

\* Dropping objects from connections leaves the others distinct.
LEMMA StillDistinct ==
    ASSUME ObjectsDistinct, NoNewObject
    PROVE  ObjectsDistinct'
BY DEF ObjectsDistinct, NoNewObject

\* Plain steps keep the invariant.
LEMMA PlainKeepsObjects ==
    ASSUME TypeOK, ObjectsInv, UNCHANGED <<calls, loaded>>, NoNewObject,
           CallPending' => CallPending
    PROVE  ObjectsInv'
<1>1. LoadedOnce' /\ FutureUnloaded'
  BY DEF ObjectsInv, LoadedOnce, FutureUnloaded
<1>2. PendingUnloaded'
  <2> SUFFICES ASSUME CallPending'
               PROVE  /\ Len(calls) \in Requests /\ loaded[Len(calls)] = "no"
                      /\ \A b \in Buckets, i \in Slots :
                            conns'[b][i].object # Len(calls)
    BY DEF PendingUnloaded
  <2>1. /\ Len(calls) \in Requests /\ loaded[Len(calls)] = "no"
        /\ \A b \in Buckets, i \in Slots : conns[b][i].object # Len(calls)
    BY DEF ObjectsInv, PendingUnloaded
  <2>2. Len(calls) # 0
    BY <2>1, ConcordApiAssumption DEF ConcordApiAssumption, Requests
  <2> QED
    BY <2>1, <2>2 DEF NoNewObject
<1>3. ObjectsUnloaded'
  BY DEF ObjectsInv, ObjectsUnloaded, NoNewObject
<1> QED
  BY <1>1, <1>2, <1>3, StillDistinct DEF ObjectsInv

\* A call begins: its request is new, so it was not loaded and is on no
\* connection.
LEMMA RegisterKeepsObjects ==
    ASSUME TypeOK, ObjectsInv, NEW k \in Keys, Register(k)
    PROVE  ObjectsInv'
<1>1. /\ Len(calls) \in Nat /\ Len(calls') = Len(calls) + 1
      /\ Len(calls) < MaxRequests
      /\ UNCHANGED <<conns, loaded>>
  BY CallsFacts DEF Register, TypeOK
<1>2. Len(calls') \in Requests
  BY <1>1, ConcordApiAssumption DEF ConcordApiAssumption, Requests
<1>3. LoadedOnce' /\ FutureUnloaded' /\ ObjectsUnloaded' /\ ObjectsDistinct'
  BY <1>1, ConcordApiAssumption
  DEF ConcordApiAssumption, ObjectsInv, LoadedOnce, FutureUnloaded,
      ObjectsUnloaded, ObjectsDistinct, Requests
<1>4. loaded'[Len(calls')] = "no"
  BY <1>1, <1>2 DEF ObjectsInv, FutureUnloaded
<1>5. \A b \in Buckets, i \in Slots : conns'[b][i].object # Len(calls')
  BY <1>1, ObjectRange
<1> QED
  BY <1>2, <1>3, <1>4, <1>5 DEF ObjectsInv, PendingUnloaded

\* The registration is answered: its request is loaded without a connection.
LEMMA SyncOkKeepsObjects ==
    ASSUME TypeOK, ObjectsInv, NEW n \in Remainders, SyncOk(n)
    PROVE  ObjectsInv'
<1> DEFINE r == Len(calls)
<1>1. /\ r \in Requests /\ loaded[r] = "no"
      /\ \A b \in Buckets, i \in Slots : conns[b][i].object # r
  BY DEF SyncOk, ObjectsInv, PendingUnloaded, CallPending
<1>2. /\ calls' = calls /\ loaded' = [loaded EXCEPT ![r] = "ok"]
      /\ pc' \in {"idle", "aborted", "crashed"}
  BY DEF SyncOk, user
<1>3. NoNewObject
  <2>1. CASE UNCHANGED conns
    BY <2>1 DEF NoNewObject
  <2>2. CASE \E b \in Buckets, i \in Slots :
                conns' = [conns EXCEPT ![b][i] = Registered(r)]
    <3>1. Registered(r).object = 0
      BY <1>1, RegisteredConn, ConcordApiAssumption
      DEF ConcordApiAssumption, Requests
    <3>2. conns \in [Buckets -> [Slots -> Conn]]
      BY DEF TypeOK
    <3> HIDE DEF r
    <3> QED
      BY <2>2, <3>1, <3>2 DEF NoNewObject
  <2>3. Headers(SyncKey, n).bucket \in Buckets \cup {NoBucket}
    <3>1. SyncKey \in Keys
      BY DEF SyncOk, TypeOK, SyncKey
    <3> QED
      BY <3>1, HeadersType DEF TypeOK
  <2> QED
    BY <2>1, <2>2, <2>3 DEF SyncOk
<1>4. loaded \in [Requests -> Outcome]
  BY DEF TypeOK
<1> HIDE DEF r
<1>5. LoadedOnce' /\ FutureUnloaded'
  <2>1. LoadedOnce'
    BY <1>1, <1>2, <1>4 DEF ObjectsInv, LoadedOnce
  <2>2. ASSUME NEW q \in Requests, q > Len(calls) PROVE loaded'[q] = "no"
    <3>1. q # r
      BY <2>2 DEF r, Requests, TypeOK
    <3> QED
      BY <1>2, <1>4, <2>2, <3>1 DEF ObjectsInv, FutureUnloaded
  <2> QED
    BY <1>2, <2>1, <2>2 DEF FutureUnloaded
<1>6. PendingUnloaded'
  BY <1>2 DEF PendingUnloaded, CallPending
<1>7. ObjectsUnloaded'
  <2> SUFFICES ASSUME NEW b \in Buckets, NEW i \in Slots,
                      conns'[b][i].object # 0
               PROVE  loaded'[conns'[b][i].object] = "no"
    BY DEF ObjectsUnloaded
  <2>1. conns'[b][i].object = conns[b][i].object
    BY <1>3 DEF NoNewObject
  <2>2. conns[b][i].object \in Requests /\ conns[b][i].object # r
    BY <1>1, <2>1, ObjectRange
  <2> QED
    BY <1>2, <1>4, <2>1, <2>2 DEF ObjectsInv, ObjectsUnloaded
<1> QED
  BY <1>3, <1>5, <1>6, <1>7, StillDistinct DEF ObjectsInv

\* A 200: the object is loaded for the first time, no other connection has it,
\* and this one forgets it.
LEMMA Reply200KeepsObjects ==
    ASSUME TypeOK, ObjectsInv, NEW b \in Buckets, NEW i \in Slots,
           Reply200(b, i)
    PROVE  ObjectsInv'
<1> DEFINE o == conns[b][i].object
           v == Verdict(conns[b][i])
<1>1. /\ o # 0 /\ calls' = calls /\ caller' = caller
      /\ loaded' = [loaded EXCEPT ![o] = v]
      /\ conns' = [conns EXCEPT ![b][i] = AfterLoad(conns[b][i])]
      /\ pc \in {"socket", "drain"} /\ pc' = "drain"
  BY DEF Reply200, Draining, user
<1>2. /\ o \in Requests /\ loaded[o] = "no" /\ o <= Len(calls)
      /\ conns[b][i] \in Conn /\ loaded \in [Requests -> Outcome]
  BY <1>1, ObjectRange DEF ObjectsInv, ObjectsUnloaded, TypeOK
<1>3. v # "again"
  BY <1>2 DEF Verdict
<1>4. ASSUME NEW d \in Buckets, NEW j \in Slots
      PROVE  conns'[d][j].object = IF d = b /\ j = i THEN 0
                                                     ELSE conns[d][j].object
  <2>1. conns'[d][j] = IF d = b /\ j = i THEN AfterLoad(conns[b][i])
                                         ELSE conns[d][j]
    BY <1>1 DEF TypeOK
  <2> QED
    BY <1>2, <2>1, AfterLoadConn
<1>5. NoNewObject
  BY <1>4 DEF NoNewObject
<1>6. CallPending' => CallPending
  BY <1>1 DEF CallPending
<1>7. ASSUME NEW d \in Buckets, NEW j \in Slots, conns'[d][j].object # 0
      PROVE  /\ conns'[d][j].object = conns[d][j].object
             /\ conns[d][j].object # o
  BY <1>1, <1>4, <1>7 DEF ObjectsInv, ObjectsDistinct
<1> HIDE DEF o, v
<1>8. LoadedOnce'
  BY <1>1, <1>2, <1>3 DEF ObjectsInv, LoadedOnce
<1>9. FutureUnloaded'
  <2> SUFFICES ASSUME NEW q \in Requests, q > Len(calls)
               PROVE  loaded'[q] = "no"
    BY <1>1 DEF FutureUnloaded
  <2>1. q # o
    BY <1>2 DEF Requests, TypeOK
  <2> QED
    BY <1>1, <1>2, <2>1 DEF ObjectsInv, FutureUnloaded
<1>10. PendingUnloaded'
  <2> SUFFICES ASSUME CallPending'
               PROVE  /\ Len(calls) \in Requests /\ loaded'[Len(calls)] = "no"
                      /\ \A d \in Buckets, j \in Slots :
                            conns'[d][j].object # Len(calls)
    BY <1>1 DEF PendingUnloaded
  <2>1. /\ Len(calls) \in Requests /\ loaded[Len(calls)] = "no"
        /\ \A d \in Buckets, j \in Slots : conns[d][j].object # Len(calls)
    BY <1>6 DEF ObjectsInv, PendingUnloaded
  <2>2. o # Len(calls)
    BY <2>1 DEF o
  <2>3. Len(calls) # 0
    BY <2>1, ConcordApiAssumption DEF ConcordApiAssumption, Requests
  <2> QED
    BY <1>1, <1>2, <1>5, <2>1, <2>2, <2>3 DEF NoNewObject
<1>11. ObjectsUnloaded'
  <2> SUFFICES ASSUME NEW d \in Buckets, NEW j \in Slots,
                      conns'[d][j].object # 0
               PROVE  loaded'[conns'[d][j].object] = "no"
    BY DEF ObjectsUnloaded
  <2>1. /\ conns'[d][j].object = conns[d][j].object
        /\ conns[d][j].object # o
    BY <1>7
  <2>2. conns[d][j].object \in Requests
    BY <2>1, ObjectRange
  <2> QED
    BY <1>1, <1>2, <2>1, <2>2 DEF ObjectsInv, ObjectsUnloaded
<1> QED
  BY <1>5, <1>8, <1>9, <1>10, <1>11, StillDistinct DEF ObjectsInv

\* A request is pushed or recycled: either its connection gets it now, or the
\* queue is full, the transfers run, and it stays pending.
LEMMA EnqueueKeepsObjects ==
    ASSUME TypeOK, QueueShape, ObjectsInv, NEW k \in Keys, Enqueue(k)
    PROVE  ObjectsInv'
<1> DEFINE b == bucket_dict[k]
           i == top_onhold[b]
           r == Len(calls) + 1
           c == OnHold(conns[b][i])
<1>1. b \in Buckets /\ i \in Slots
  BY ConcordApiAssumption
  DEF ConcordApiAssumption, TypeOK, QueueShape, Enqueue, Slots
<1>2. /\ Len(calls) \in Nat /\ Len(calls') = r
      /\ Len(calls) < MaxRequests /\ loaded' = loaded
  BY CallsFacts DEF Enqueue, TypeOK
<1>3. r \in Requests /\ r # 0
  BY <1>2, ConcordApiAssumption DEF ConcordApiAssumption, Requests
<1>4. loaded[r] = "no"
  BY <1>2, <1>3 DEF ObjectsInv, FutureUnloaded
<1>5. \A d \in Buckets, j \in Slots : conns[d][j].object # r
  BY <1>2, ObjectRange
<1>6. LoadedOnce' /\ FutureUnloaded'
  BY <1>2, ConcordApiAssumption
  DEF ConcordApiAssumption, ObjectsInv, LoadedOnce, FutureUnloaded, Requests
<1>7. /\ conns[b][i] \in Conn /\ c \in Conn
      /\ c.object = conns[b][i].object
      /\ conns \in [Buckets -> [Slots -> Conn]]
  BY <1>1, ObjectRange, OnHoldConn DEF TypeOK
<1>8. CASE Fills(b)
  <2>1. conns' = [conns EXCEPT ![b][i] = c]
    BY <1>8 DEF Enqueue
  <2> HIDE DEF b, i, c, r
  <2>2. NoNewObject
    BY <1>1, <1>7, <2>1 DEF NoNewObject
  <2>3. PendingUnloaded'
    BY <1>2, <1>3, <1>4, <1>5, <2>2 DEF PendingUnloaded, NoNewObject
  <2>4. ObjectsUnloaded'
    BY <1>2, <2>2 DEF ObjectsInv, ObjectsUnloaded, NoNewObject
  <2> QED
    BY <1>6, <2>2, <2>3, <2>4, StillDistinct DEF ObjectsInv
<1>9. CASE ~Fills(b)
  <2>1. /\ conns' = [conns EXCEPT ![b][i] = Filled(c, r)]
        /\ pc' = "idle"
    BY <1>9 DEF Enqueue
  <2>2. Filled(c, r).object = r
    <3>1. c \in Conn /\ r \in Nat
      BY <1>2, <1>7
    <3> HIDE DEF c, r
    <3> QED
      BY <3>1, FilledConn
  <2> HIDE DEF b, i, c, r
  <2>3. PendingUnloaded'
    BY <2>1 DEF PendingUnloaded, CallPending
  <2>4. ASSUME NEW d \in Buckets, NEW j \in Slots
        PROVE  conns'[d][j].object = IF d = b /\ j = i THEN r
                                                       ELSE conns[d][j].object
    <3>1. conns'[d][j] = IF d = b /\ j = i THEN Filled(c, r) ELSE conns[d][j]
      BY <1>1, <1>7, <2>1
    <3> QED
      BY <2>2, <3>1
  <2>5. ObjectsUnloaded'
    BY <1>2, <1>4, <2>4 DEF ObjectsInv, ObjectsUnloaded
  <2>6. ObjectsDistinct'
    BY <1>5, <2>4 DEF ObjectsInv, ObjectsDistinct
  <2> QED
    BY <1>6, <2>3, <2>5, <2>6 DEF ObjectsInv
<1> QED
  BY <1>8, <1>9

\* The loop ends; a push that waited for it gives its connection the request.
LEMMA LoopExitKeepsObjects ==
    ASSUME TypeOK, ObjectsInv, LoopExit
    PROVE  ObjectsInv'
<1>1. /\ UNCHANGED <<calls, loaded, caller>> /\ pc = "loop" /\ pc' = "idle"
  BY DEF LoopExit, LoopEnds, user
<1>2. CASE caller = "user"
  <2>1. conns' = conns
    BY <1>2 DEF LoopExit
  <2>2. NoNewObject
    BY <2>1 DEF NoNewObject
  <2>3. CallPending' => CallPending
    BY <1>1 DEF CallPending
  <2> QED
    BY <1>1, <2>2, <2>3, PlainKeepsObjects
<1>3. CASE caller # "user"
  <2> DEFINE b == bucket_dict[SyncKey]
             i == QueueSize - 1
             r == Len(calls)
  <2>1. /\ caller = "build"
        /\ conns' = [conns EXCEPT ![b][i] = Filled(conns[b][i], r)]
    BY <1>3 DEF LoopExit, TypeOK
  <2>2. /\ r \in Requests /\ loaded[r] = "no"
        /\ \A d \in Buckets, j \in Slots : conns[d][j].object # r
    BY <1>1, <2>1 DEF ObjectsInv, PendingUnloaded, CallPending
  <2>3. /\ i \in Slots /\ r \in Nat
        /\ conns \in [Buckets -> [Slots -> Conn]]
    BY <2>2, ConcordApiAssumption
    DEF ConcordApiAssumption, Slots, Requests, TypeOK
  <2>4. LoadedOnce' /\ FutureUnloaded'
    BY <1>1 DEF ObjectsInv, LoadedOnce, FutureUnloaded
  <2>5. PendingUnloaded'
    BY <1>1 DEF PendingUnloaded, CallPending
  <2>6. CASE b \notin Buckets
    <3>1. conns' = conns
      BY <2>1, <2>6, ExceptOutside DEF TypeOK
    <3> QED
      BY <1>1, <2>4, <2>5, <3>1
      DEF ObjectsInv, ObjectsUnloaded, ObjectsDistinct
  <2>7. CASE b \in Buckets
    <3>1. Filled(conns[b][i], r).object = r
      BY <2>3, <2>7, ObjectRange, FilledConn
    <3> HIDE DEF b, i, r
    <3>2. ASSUME NEW d \in Buckets, NEW j \in Slots
          PROVE  conns'[d][j].object =
                    IF d = b /\ j = i THEN r ELSE conns[d][j].object
      <4>1. conns'[d][j] = IF d = b /\ j = i THEN Filled(conns[b][i], r)
                                             ELSE conns[d][j]
        BY <2>1, <2>3, <2>7
      <4> QED
        BY <3>1, <4>1
    <3>3. ObjectsUnloaded'
      BY <1>1, <2>2, <3>2 DEF ObjectsInv, ObjectsUnloaded
    <3>4. ObjectsDistinct'
      BY <2>2, <3>2 DEF ObjectsInv, ObjectsDistinct
    <3> QED
      BY <2>4, <2>5, <3>3, <3>4 DEF ObjectsInv
  <2> QED
    BY <2>6, <2>7
<1> QED
  BY <1>2, <1>3

\* Objects stay distinct and unloaded in every state.
LEMMA ObjectsAlways == Spec => []ObjectsInv
<1>1. Init => ObjectsInv
  <2> SUFFICES ASSUME Init PROVE ObjectsInv
    OBVIOUS
  <2>1. \A b \in Buckets, i \in Slots : conns[b][i].object = 0
    BY DEF Init, Empty
  <2>2. pc = "idle" /\ \A r \in Requests : loaded[r] = "no"
    BY DEF Init
  <2> QED
    BY <2>1, <2>2
    DEF ObjectsInv, LoadedOnce, FutureUnloaded, PendingUnloaded, CallPending,
        ObjectsUnloaded, ObjectsDistinct
<1>2. TypeOK /\ QueueShape /\ ObjectsInv /\ [Next]_vars => ObjectsInv'
  <2> SUFFICES ASSUME TypeOK, QueueShape, ObjectsInv, [Next]_vars
               PROVE  ObjectsInv'
    OBVIOUS
  <2>1. CASE Gives
    BY <2>1, EnqueueKeepsObjects, LoopExitKeepsObjects DEF Gives
  <2>2. CASE Loads
    BY <2>2, SyncOkKeepsObjects, Reply200KeepsObjects, RegisterKeepsObjects
    DEF Loads
  <2>3. CASE ~Gives /\ ~Loads
    BY <2>3, PlainSteps, PlainKeepsObjects
  <2> QED
    BY <2>1, <2>2, <2>3
<1> QED
  BY <1>1, <1>2, TypeCorrect, QueueShapeCorrect, PTL DEF Spec

\* No request's object is handed to load_cb twice: whatever is paused, resumed,
\* sent again or left in the multi handle, each response is for an object that
\* only this connection has and that was not loaded.
THEOREM LoadedOnceCorrect == Spec => []LoadedOnce
<1>1. ObjectsInv => LoadedOnce
  BY DEF ObjectsInv
<1> QED
  BY <1>1, ObjectsAlways, PTL

-----------------------------------------------------------------------------
(* AnswersOwn: without TimeoutCompletes the messages are read before the    *)
(* loop goes on, so a connection has no response left when it gets its next *)
(* request, and the last it then receives is its own.                       *)

\* What is always true of one connection: its object is the one its URL is
\* for, and a response under way or complete is its own, whatever its body
\* held before.  (Without a connection to the server there is no response.)
OwnBody(c) == /\ c.object \in {0, c.url}
              /\ c.transfer \in {"recv"} \cup (AllReplies \ {"fatal"})
                    => c.body.last = c.url

\* No reply of the server waits to be read; nothing is on the wire either.
Read(c) == c.transfer \notin AllReplies
Resting(c) == c.transfer \in {"out", "nourl", "spent"}

BodyInv ==
    /\ AnswersOwn
    /\ \A b \in Buckets, i \in Slots : OwnBody(conns[b][i])
    /\ pc \in {"idle", "sync", "run", "loop"} =>
            \A b \in Buckets, i \in Slots : Read(conns[b][i])
    /\ pc \in {"idle", "sync", "run"} =>
            \A b \in Buckets, i \in Slots : Resting(conns[b][i])

\* The operations on a connection keep its body its own; a new request may
\* only be given to a connection at rest.
LEMMA OwnBodyOperations ==
    ASSUME NEW c \in Conn, OwnBody(c)
    PROVE  /\ OwnBody(Launch(c)) /\ (Read(c) => Read(Launch(c)))
           /\ OwnBody(OnHold(c)) /\ (Resting(c) => Resting(OnHold(c)))
           /\ c.transfer = "sent" => OwnBody(Received(c))
           /\ OwnBody(AfterLoad(c)) /\ Read(AfterLoad(c))
BY DEF Conn, OwnBody, Read, Resting, AllReplies, Launch, Added, OnHold,
       Received, AfterLoad, NoBody

\* A connection at rest may be given any request.
LEMMA FilledOwnBody ==
    ASSUME NEW c \in Conn, NEW r \in Nat, Resting(c)
    PROVE  OwnBody(Filled(c, r)) /\ Resting(Filled(c, r))
BY DEF Conn, OwnBody, Resting, AllReplies, Filled

\* The connection of a registration is at rest.
LEMMA RegisteredOwnBody ==
    ASSUME NEW r \in Nat
    PROVE  OwnBody(Registered(r)) /\ Resting(Registered(r))
BY DEF Registered, Empty, OwnBody, Resting, AllReplies

\* A connection at rest has no reply that waits to be read.
LEMMA RestingRead ==
    ASSUME NEW c, Resting(c)
    PROVE  Read(c)
BY DEF Resting, Read, AllReplies

\* The verdict on a connection's own response is never "foreign".
LEMMA OwnVerdict ==
    ASSUME NEW b \in Buckets, NEW i \in Slots, OwnBody(conns[b][i]),
           conns[b][i].object # 0, Is200(conns[b][i])
    PROVE  Verdict(conns[b][i]) # "foreign"
<1> DEFINE c == conns[b][i]
<1>1. c.body.last = c.object
  BY DEF OwnBody, AllReplies, Is200
<1> HIDE DEF c
<1>2. Verdict(c) # "foreign"
  BY <1>1 DEF Verdict
<1> QED
  BY <1>2 DEF c

\* A pause leaves the paused connections with what they had, off the wire.
LEMMA PausedOwnBody ==
    ASSUME TypeOK, BodyInv, NEW b \in Buckets, NEW i \in Slots
    PROVE  OwnBody(Paused(b)[i])
<1>1. conns[b][i] \in Conn /\ OwnBody(conns[b][i])
  BY DEF TypeOK, BodyInv
<1> QED
  BY <1>1 DEF Paused, OwnBody, Conn, AllReplies

\* A step that touches no connection and loads nothing.
LEMMA IdleKeepsBodies ==
    ASSUME BodyInv, UNCHANGED <<conns, loaded>>,
           pc' \in {"idle", "sync", "run"} => pc \in {"idle", "sync", "run"},
           pc' = "loop" => \A b \in Buckets, i \in Slots : Read(conns[b][i])
    PROVE  BodyInv'
<1>1. AnswersOwn'
  BY DEF BodyInv, AnswersOwn
<1>2. \A b \in Buckets, i \in Slots :
        /\ conns'[b][i] = conns[b][i]
        /\ OwnBody(conns[b][i])
        /\ pc' \in {"idle", "sync", "run"} => Resting(conns[b][i])
        /\ pc' \in {"idle", "sync", "run", "loop"} => Read(conns[b][i])
  BY DEF BodyInv
<1> QED
  BY <1>1, <1>2 DEF BodyInv

\* Between a socket action and the end of its messages only the bodies count.
LEMMA BusyKeepsBodies ==
    ASSUME AnswersOwn', pc' \in {"socket", "drain"},
           \A b \in Buckets, i \in Slots : OwnBody(conns'[b][i])
    PROVE  BodyInv'
BY DEF BodyInv

\* The calls of the user, and the answers to a registration.
LEMMA UserKeepsBodies ==
    ASSUME TypeOK, QueueShape, BodyInv, UserNext \/ SyncNext
    PROVE  BodyInv'
<1> USE DEF user
<1>0. /\ conns \in [Buckets -> [Slots -> Conn]] /\ Len(calls) \in Nat
      /\ loaded \in [Requests -> Outcome]
  BY DEF TypeOK
<1>1. CASE UNCHANGED <<conns, loaded>>
           /\ pc \in {"idle", "sync"}
           /\ pc' \in {"idle", "sync", "run", "aborted", "crashed"}
  BY <1>1, IdleKeepsBodies
<1>2. ASSUME NEW k \in Keys, Enqueue(k) PROVE BodyInv'
  <2> DEFINE b == bucket_dict[k]
             i == top_onhold[b]
             r == Len(calls) + 1
             c == OnHold(conns[b][i])
  <2>1. b \in Buckets /\ i \in Slots
    BY <1>2, ConcordApiAssumption
    DEF ConcordApiAssumption, TypeOK, QueueShape, Enqueue, Slots
  <2>2. /\ pc = "idle" /\ pc' \in {"idle", "run"} /\ loaded' = loaded
    BY <1>2 DEF Enqueue
  <2>3. \A d \in Buckets, j \in Slots :
            conns[d][j] \in Conn /\ OwnBody(conns[d][j]) /\ Resting(conns[d][j])
    BY <1>0, <2>2 DEF BodyInv
  <2>4. c \in Conn /\ OwnBody(c) /\ Resting(c)
    BY <2>1, <2>3, OnHoldConn, OwnBodyOperations
  <2>5. \E f \in {c, Filled(c, r)} : conns' = [conns EXCEPT ![b][i] = f]
    BY <1>2 DEF Enqueue
  <2>6. r \in Nat
    BY <1>0
  <2> HIDE DEF b, i, c, r
  <2>7. ASSUME NEW f \in {c, Filled(c, r)},
               conns' = [conns EXCEPT ![b][i] = f],
               NEW d \in Buckets, NEW j \in Slots
        PROVE  OwnBody(conns'[d][j]) /\ Resting(conns'[d][j])
    <3>1. OwnBody(f) /\ Resting(f)
      BY <2>4, <2>6, FilledOwnBody
    <3>2. conns'[d][j] = IF d = b /\ j = i THEN f ELSE conns[d][j]
      BY <1>0, <2>1, <2>7
    <3> QED
      BY <2>3, <3>1, <3>2
  <2>8. \A d \in Buckets, j \in Slots :
            /\ OwnBody(conns'[d][j]) /\ Resting(conns'[d][j])
            /\ Read(conns'[d][j])
    BY <2>5, <2>7, RestingRead
  <2> QED
    BY <2>2, <2>8 DEF BodyInv, AnswersOwn
<1>3. ASSUME NEW n \in Remainders, SyncOk(n) PROVE BodyInv'
  <2> DEFINE r == Len(calls)
  <2>1. /\ pc = "sync" /\ loaded' = [loaded EXCEPT ![r] = "ok"]
    BY <1>3 DEF SyncOk
  <2>2. AnswersOwn'
    BY <1>0, <2>1 DEF BodyInv, AnswersOwn
  <2>3. \A d \in Buckets, j \in Slots :
            OwnBody(conns[d][j]) /\ Resting(conns[d][j])
    BY <2>1 DEF BodyInv
  <2>4. \/ UNCHANGED conns
        \/ \E b \in Buckets \cup {NoBucket}, i \in Slots :
                conns' = [conns EXCEPT ![b][i] = Registered(r)]
    <3>1. SyncKey \in Keys
      BY <1>3 DEF SyncOk, TypeOK, SyncKey
    <3>2. Headers(SyncKey, n).bucket \in Buckets \cup {NoBucket}
      BY <3>1, HeadersType DEF TypeOK
    <3> QED
      BY <1>3, <3>2 DEF SyncOk
  <2>5. OwnBody(Registered(r)) /\ Resting(Registered(r))
    BY <1>0, RegisteredOwnBody
  <2> HIDE DEF r
  <2>6. \A d \in Buckets, j \in Slots :
            conns'[d][j] \in {conns[d][j], Registered(r)}
    BY <1>0, <2>4
  <2>7. \A d \in Buckets, j \in Slots :
            /\ OwnBody(conns'[d][j]) /\ Resting(conns'[d][j])
            /\ Read(conns'[d][j])
    BY <2>3, <2>5, <2>6, RestingRead
  <2> QED
    BY <2>2, <2>7 DEF BodyInv
<1>4. CASE \/ \E k \in Keys : Register(k)
           \/ Dispatch
           \/ \E n \in Remainders : SyncLimited(n)
           \/ SyncFatal
  BY <1>1, <1>4 DEF Register, Dispatch, SyncLimited, SyncFatal
<1> QED
  BY <1>2, <1>3, <1>4 DEF UserNext, SyncNext

\* The callbacks of the loop.
LEMMA LoopKeepsBodies ==
    ASSUME ~TimeoutCompletes, TypeOK, BodyInv, LoopNext
    PROVE  BodyInv'
<1> USE DEF user
<1>0. /\ conns \in [Buckets -> [Slots -> Conn]] /\ Len(calls) \in Nat
      /\ loaded \in [Requests -> Outcome]
      /\ \A d \in Buckets, j \in Slots :
            conns[d][j] \in Conn /\ OwnBody(conns[d][j])
  BY DEF TypeOK, BodyInv
<1>1. CASE StartBuckets
  <2>1. /\ pc = "run" /\ pc' = "loop" /\ loaded' = loaded
        /\ \A d \in Buckets, j \in Slots :
              conns'[d][j] \in {conns[d][j], Launch(conns[d][j])}
    BY <1>1 DEF StartBuckets, AfterPop
  <2>2. \A d \in Buckets, j \in Slots :
            OwnBody(conns'[d][j]) /\ Read(conns'[d][j])
    BY <1>0, <2>1, OwnBodyOperations DEF BodyInv
  <2> QED
    BY <2>1, <2>2 DEF BodyInv, AnswersOwn
<1>2. ASSUME NEW b \in Buckets, NEW i \in Slots, Network(b, i) PROVE BodyInv'
  <2>1. conns[b][i] \in Conn /\ OwnBody(conns[b][i])
    BY <1>0
  <2>2. ASSUME NEW n \in Remainders, ReceiveHeaders(b, i, n) PROVE BodyInv'
    <3>1. /\ conns' = [conns EXCEPT ![b][i] = Received(conns[b][i])]
          /\ conns[b][i].transfer = "sent"
          /\ pc' = "socket" /\ loaded' = loaded
      BY <2>2 DEF ReceiveHeaders
    <3>2. OwnBody(Received(conns[b][i]))
      BY <2>1, <3>1, OwnBodyOperations
    <3>3. \A d \in Buckets, j \in Slots : OwnBody(conns'[d][j])
      BY <1>0, <3>1, <3>2
    <3>4. AnswersOwn'
      BY <3>1 DEF BodyInv, AnswersOwn
    <3> QED
      BY <3>1, <3>3, <3>4, BusyKeepsBodies
  <2>3. ASSUME NEW reply \in Replies \cup {"nourl"}, Complete(b, i, reply)
        PROVE  /\ loaded' = loaded
               /\ \A d \in Buckets, j \in Slots : OwnBody(conns'[d][j])
               /\ reply = "nourl" =>
                    \A d \in Buckets, j \in Slots :
                        Read(conns[d][j]) => Read(conns'[d][j])
    <3> DEFINE c == [conns[b][i] EXCEPT !.transfer = reply]
    <3>1. conns' = [conns EXCEPT ![b][i] = c]
      BY <1>0, <2>3 DEF Complete
    <3>2. conns[b][i].transfer = "recv" \/ reply \in {"nourl", "fatal"}
      BY <2>3 DEF Complete
    <3>3. reply \in AllReplies \cup {"nourl"}
      BY <2>3, ConcordApiAssumption DEF ConcordApiAssumption
    <3>4. OwnBody(c) /\ (reply = "nourl" => Read(c))
      BY <2>1, <3>2, <3>3 DEF OwnBody, Read, Conn, AllReplies
    <3> HIDE DEF c
    <3>5. \A d \in Buckets, j \in Slots : conns'[d][j] \in {conns[d][j], c}
      BY <1>0, <3>1
    <3> QED
      BY <1>0, <2>3, <3>4, <3>5 DEF Complete
  <2>4. ASSUME NEW reply \in Replies \cup {"nourl"},
               SocketComplete(b, i, reply)
        PROVE  BodyInv'
    <3>1. pc' = "socket" /\ Complete(b, i, reply)
      BY <2>4 DEF SocketComplete
    <3>2. AnswersOwn'
      BY <2>3, <3>1 DEF BodyInv, AnswersOwn
    <3> QED
      BY <2>3, <3>1, <3>2, BusyKeepsBodies
  <2>5. ASSUME NEW reply \in Replies \cup {"nourl"},
               TimeoutComplete(b, i, reply)
        PROVE  BodyInv'
    <3>1. /\ pc = "loop" /\ pc' = pc /\ reply = "nourl"
          /\ Complete(b, i, reply)
      BY <2>5 DEF TimeoutComplete
    <3>2. AnswersOwn'
      BY <2>3, <3>1 DEF BodyInv, AnswersOwn
    <3>3. \A d \in Buckets, j \in Slots :
                OwnBody(conns'[d][j]) /\ Read(conns'[d][j])
      BY <2>3, <3>1 DEF BodyInv
    <3> QED
      BY <3>1, <3>2, <3>3 DEF BodyInv
  <2> QED
    BY <1>2, <2>2, <2>4, <2>5 DEF Network
<1>3. ASSUME NEW b \in Buckets, NEW i \in Slots, Message(b, i) PROVE BodyInv'
  <2>1. conns[b][i] \in Conn /\ OwnBody(conns[b][i])
    BY <1>0
  <2>2. CASE Reply200(b, i)
    <3> DEFINE o == conns[b][i].object
               v == Verdict(conns[b][i])
    <3>1. /\ conns' = [conns EXCEPT ![b][i] = AfterLoad(conns[b][i])]
          /\ Is200(conns[b][i]) /\ o # 0
          /\ pc' = "drain" /\ loaded' = [loaded EXCEPT ![o] = v]
      BY <2>2 DEF Reply200
    <3>2. v # "foreign"
      BY <2>1, <3>1, OwnVerdict
    <3> HIDE DEF o, v
    <3>3. AnswersOwn'
      BY <1>0, <3>1, <3>2 DEF BodyInv, AnswersOwn
    <3>4. OwnBody(AfterLoad(conns[b][i]))
      BY <2>1, OwnBodyOperations
    <3>5. \A d \in Buckets, j \in Slots : OwnBody(conns'[d][j])
      BY <1>0, <3>1, <3>4
    <3> QED
      BY <3>1, <3>3, <3>5, BusyKeepsBodies
  <2>3. CASE ReplyLimited(b, i)
    <3> DEFINE g == [Paused(b) EXCEPT
                        ![i].body = NoBody,
                        ![i].transfer = IF @ = "limited" THEN "spent" ELSE @]
    <3>1. /\ conns' = [conns EXCEPT ![b] = g]
          /\ pc' = "drain" /\ loaded' = loaded
          /\ conns[b][i].transfer = "limited"
      BY <2>3 DEF ReplyLimited
    <3>2. ASSUME NEW j \in Slots PROVE OwnBody(g[j])
      <4>1. /\ Paused(b)[j] \in Conn /\ OwnBody(Paused(b)[j])
            /\ Paused(b) = [k \in Slots |-> Paused(b)[k]]
        BY PausedKeepsObjects, PausedOwnBody DEF Paused
      <4>2. Paused(b)[i].transfer \in {"limited", "out"}
        BY <2>1, <3>1 DEF Paused, Conn
      <4> QED
        BY <4>1, <4>2 DEF Conn, OwnBody, AllReplies
    <3> HIDE DEF g
    <3>3. \A d \in Buckets, j \in Slots : OwnBody(conns'[d][j])
      BY <1>0, <3>1, <3>2
    <3>4. AnswersOwn'
      BY <3>1 DEF BodyInv, AnswersOwn
    <3> QED
      BY <3>1, <3>3, <3>4, BusyKeepsBodies
  <2>4. CASE ReplyGlobal(b, i) \/ ReplyNoUrl(b, i)
    <3>1. /\ pc' = "drain" /\ loaded' = loaded
          /\ \E t \in {"sent", "out"}, body \in {NoBody, conns[b][i].body} :
                conns' = [conns EXCEPT ![b][i].transfer = t,
                                       ![b][i].body = body]
      <4>1. CASE ReplyGlobal(b, i)
        BY <4>1 DEF ReplyGlobal
      <4>2. CASE ReplyNoUrl(b, i)
        <5>1. conns' = [conns EXCEPT ![b][i].transfer = "out",
                                     ![b][i].body = conns[b][i].body]
          BY <1>0, <4>2 DEF ReplyNoUrl, Conn
        <5> QED
          BY <4>2, <5>1 DEF ReplyNoUrl
      <4> QED
        BY <2>4, <4>1, <4>2
    <3>2. \A d \in Buckets, j \in Slots : OwnBody(conns'[d][j])
      BY <1>0, <3>1 DEF OwnBody, Conn, AllReplies
    <3>3. AnswersOwn'
      BY <3>1 DEF BodyInv, AnswersOwn
    <3> QED
      BY <3>1, <3>2, <3>3, BusyKeepsBodies
  <2>5. CASE CallNull(b, i) \/ ReplyFatal(b, i)
    BY <2>5, IdleKeepsBodies DEF CallNull, ReplyFatal
  <2> QED
    BY <1>3, <2>2, <2>3, <2>4, <2>5 DEF Message
<1>4. CASE EndSocketEvent
  <2>1. /\ UNCHANGED <<conns, loaded>> /\ pc' = "loop"
        /\ \A d \in Buckets, j \in Slots : Read(conns[d][j])
    BY <1>4 DEF EndSocketEvent, Unread, Read
  <2> QED
    BY <2>1, IdleKeepsBodies
<1>5. ASSUME NEW b \in Buckets, AddRemaining(b) \/ Resume(b) PROVE BodyInv'
  <2>1. /\ pc = "loop" /\ pc' = "loop" /\ loaded' = loaded
        /\ \A d \in Buckets, j \in Slots :
              conns'[d][j] \in {conns[d][j], Launch(conns[d][j])}
    <3>1. CASE AddRemaining(b)
      <4> DEFINE g == AfterPop(b, Popped(Held(b), remaining[b]))
      <4>1. conns' = [conns EXCEPT ![b] = g]
        BY <3>1 DEF AddRemaining
      <4>2. \A j \in Slots : g[j] \in {conns[b][j], Launch(conns[b][j])}
        BY DEF AfterPop
      <4> HIDE DEF g
      <4> QED
        BY <1>0, <3>1, <4>1, <4>2 DEF AddRemaining
    <3>2. CASE Resume(b)
      BY <1>0, <3>2 DEF Resume
    <3> QED
      BY <1>5, <3>1, <3>2
  <2>2. \A d \in Buckets, j \in Slots :
            OwnBody(conns'[d][j]) /\ Read(conns'[d][j])
    BY <1>0, <2>1, OwnBodyOperations DEF BodyInv
  <2> QED
    BY <2>1, <2>2 DEF BodyInv, AnswersOwn
<1>6. CASE LoopExitAborts
  BY <1>6, IdleKeepsBodies DEF LoopExitAborts
<1>7. CASE LoopExit
  <2> DEFINE b == bucket_dict[SyncKey]
             i == QueueSize - 1
             r == Len(calls)
  <2>1. /\ pc = "loop" /\ pc' = "idle" /\ loaded' = loaded /\ InFlight = {}
        /\ \/ conns' = conns
           \/ conns' = [conns EXCEPT ![b][i] = Filled(conns[b][i], r)]
    BY <1>7 DEF LoopExit, LoopEnds
  <2>2. ASSUME NEW d \in Buckets, NEW j \in Slots
        PROVE  Resting(conns[d][j])
    <3>1. /\ conns[d][j].transfer \in Transfer
          /\ conns[d][j].transfer \notin AllReplies
      BY <1>0, <2>1, ConnFields DEF BodyInv, Read
    <3>2. conns[d][j].transfer \notin {"sent", "recv"}
      <4>1. <<d, j>> \in Buckets \X Slots /\ <<d, j>> \notin InFlight
        BY <2>1
      <4> QED
        BY <4>1 DEF InFlight
    <3> QED
      BY <3>1, <3>2 DEF Transfer, Resting
  <2> HIDE DEF b, i, r
  <2>3. \A d \in Buckets, j \in Slots :
            conns'[d][j] \in {conns[d][j], Filled(conns[d][j], r)}
    <3>1. CASE b \notin Buckets
      <4>1. conns' = conns
        BY <1>0, <2>1, <3>1, ExceptOutside
      <4> QED
        BY <4>1
    <3>2. CASE b \in Buckets
      <4>1. i \in Slots
        BY ConcordApiAssumption DEF ConcordApiAssumption, Slots, i
      <4> QED
        BY <1>0, <2>1, <3>2, <4>1
    <3> QED
      BY <3>1, <3>2
  <2>4. \A d \in Buckets, j \in Slots :
            /\ OwnBody(conns'[d][j]) /\ Resting(conns'[d][j])
            /\ Read(conns'[d][j])
    BY <1>0, <2>2, <2>3, FilledOwnBody, RestingRead DEF r
  <2> QED
    BY <2>1, <2>4 DEF BodyInv, AnswersOwn
<1> QED
  BY <1>1, <1>2, <1>3, <1>4, <1>5, <1>6, <1>7 DEF LoopNext

\* BodyInv holds in every state.
LEMMA BodyAlways ==
    ASSUME ~TimeoutCompletes
    PROVE  Spec => []BodyInv
<1>1. Init => BodyInv
  <2> SUFFICES ASSUME Init PROVE BodyInv
    OBVIOUS
  <2>1. \A b \in Buckets, i \in Slots : conns[b][i] = Empty
    BY DEF Init
  <2>2. OwnBody(Empty) /\ Resting(Empty) /\ Read(Empty)
    BY DEF Empty, OwnBody, Resting, Read, AllReplies
  <2>3. AnswersOwn
    BY DEF Init, AnswersOwn
  <2> QED
    BY <2>1, <2>2, <2>3 DEF BodyInv
<1>2. TypeOK /\ QueueShape /\ BodyInv /\ [Next]_vars => BodyInv'
  <2> SUFFICES ASSUME TypeOK, QueueShape, BodyInv, [Next]_vars
               PROVE  BodyInv'
    OBVIOUS
  <2>1. CASE UNCHANGED vars
    BY <2>1, IdleKeepsBodies DEF vars, BodyInv
  <2> QED
    BY <2>1, UserKeepsBodies, LoopKeepsBodies DEF Next
<1> QED
  BY <1>1, <1>2, TypeCorrect, QueueShapeCorrect, PTL DEF Spec

\* As long as curl ends no transfer in its timeout action, an object is only
\* loaded by the end of its own request's transfer, through every pause, retry
\* and reuse of a connection.
THEOREM AnswersOwnCorrect ==
    ASSUME ~TimeoutCompletes
    PROVE  Spec => []AnswersOwn
<1>1. BodyInv => AnswersOwn
  BY DEF BodyInv
<1> QED
  BY <1>1, BodyAlways, PTL

-----------------------------------------------------------------------------
(* LoadsOwnIfPausesEnd: bytes of an earlier response stay with a connection *)
(* only while it is paused or its request is sent again.  When no pause     *)
(* outlives the loop, every body is freed before its connection gets its    *)
(* next request.                                                            *)

\* What is left in a body is of the connection's own request, and goes with
\* the transfer or the pause it is from.
CleanBody(c) ==
    c.body # NoBody =>
        /\ c.url # 0 /\ c.body.last = c.url /\ c.body.before \subseteq {c.url}
        /\ \/ c.transfer \in {"sent", "recv"} \cup AllReplies
           \/ c.status = "PAUSE" /\ c.transfer = "out"

CleanInv ==
    /\ NoForeignLoad
    /\ \A b \in Buckets, i \in Slots : CleanBody(conns[b][i])
    /\ pc \in {"idle", "sync", "run"} =>
            \A b \in Buckets, i \in Slots : conns[b][i].body = NoBody

\* What a step inside the loop can make of a connection.
PauseConn(c) == [c EXCEPT !.status = "PAUSE", !.transfer = "out"]
WithoutBody(c, t) == [c EXCEPT !.transfer = t, !.body = NoBody]
WithReply(c, t) == [c EXCEPT !.transfer = t]

Becomes(c, d) ==
    \/ d = c \/ d = Launch(c) \/ d = AfterLoad(c) \/ d = PauseConn(c)
    \/ \E t \in Transfer : d \in {WithoutBody(c, t), WithoutBody(PauseConn(c), t)}
    \/ c.url # 0 /\ d = Received(c)
    \/ \E t \in AllReplies :
            (c.transfer \in {"sent", "recv"}) /\ d = WithReply(c, t)
    \/ c.url = 0 /\ d = WithReply(c, "nourl")
    \/ c.transfer = "nourl" /\ d = WithReply(c, "out")

\* None of them leaves foreign bytes in a body, or any in one that is done.
LEMMA BecomesClean ==
    ASSUME NEW c \in Conn, NEW d, CleanBody(c), Becomes(c, d)
    PROVE  CleanBody(d)
<1> USE DEF CleanBody, Conn
<1>1. CASE d = c \/ d = AfterLoad(c) \/ d = PauseConn(c)
  BY <1>1 DEF AfterLoad, PauseConn
<1>2. CASE d = Launch(c)
  BY <1>2 DEF Launch, Added
<1>3. CASE \E t \in Transfer :
                d \in {WithoutBody(c, t), WithoutBody(PauseConn(c), t)}
  BY <1>3 DEF WithoutBody, PauseConn
<1>4. CASE c.url # 0 /\ d = Received(c)
  <2>1. /\ d.url = c.url /\ d.transfer = "recv" /\ d.body.last = c.url
        /\ d.body.before = (c.body.before \cup {c.body.last}) \ {0}
    BY <1>4 DEF Received
  <2>2. d.body.before \subseteq {c.url}
    BY <2>1 DEF NoBody
  <2> QED
    BY <1>4, <2>1, <2>2
<1>5. CASE \E t \in AllReplies :
                c.transfer \in {"sent", "recv"} /\ d = WithReply(c, t)
  BY <1>5 DEF WithReply
<1>6. CASE c.url = 0 /\ d = WithReply(c, "nourl")
  BY <1>6 DEF WithReply
<1>7. CASE c.transfer = "nourl" /\ d = WithReply(c, "out")
  BY <1>7 DEF WithReply, AllReplies
<1> QED
  BY <1>1, <1>2, <1>3, <1>4, <1>5, <1>6, <1>7 DEF Becomes

\* Every step of the loop but its exit, connection by connection.
LEMMA LoopBecomes ==
    ASSUME TypeOK, LoopNext, ~LoopExit, NEW d \in Buckets, NEW j \in Slots
    PROVE  Becomes(conns[d][j], conns'[d][j])
<1> DEFINE Same == conns'[d][j] = conns[d][j]
           Goal == Becomes(conns[d][j], conns'[d][j])
<1>0. /\ conns \in [Buckets -> [Slots -> Conn]] /\ conns[d][j] \in Conn
      /\ Same => Goal
  BY DEF TypeOK, Becomes
<1>1. CASE StartBuckets
  BY <1>1 DEF StartBuckets, AfterPop, Becomes
<1>2. ASSUME NEW b \in Buckets, NEW i \in Slots, Network(b, i) PROVE Goal
  <2>1. CASE ~(d = b /\ j = i)
    <3>1. Same
      BY <1>0, <1>2, <2>1
      DEF Network, ReceiveHeaders, SocketComplete, TimeoutComplete, Complete
    <3> QED
      BY <1>0, <3>1
  <2>2. CASE d = b /\ j = i
    <3>1. ASSUME NEW n \in Remainders, ReceiveHeaders(b, i, n) PROVE Goal
      <4>1. conns[d][j].url # 0 /\ conns'[d][j] = Received(conns[d][j])
        BY <1>0, <2>2, <3>1 DEF ReceiveHeaders
      <4> QED
        BY <4>1 DEF Becomes
    <3>2. ASSUME NEW t \in Replies \cup {"nourl"}, Complete(b, i, t) PROVE Goal
      <4>1. conns'[d][j] = WithReply(conns[d][j], t)
        BY <1>0, <2>2, <3>2 DEF Complete, WithReply
      <4>2. \/ t \in AllReplies /\ conns[d][j].transfer \in {"sent", "recv"}
            \/ t = "nourl" /\ conns[d][j].url = 0
        BY <2>2, <3>2, ConcordApiAssumption
        DEF ConcordApiAssumption, Complete, AllReplies
      <4> QED
        BY <4>1, <4>2 DEF Becomes
    <3> QED
      BY <1>2, <3>1, <3>2 DEF Network, SocketComplete, TimeoutComplete
  <2> QED
    BY <2>1, <2>2
<1>3. ASSUME NEW b \in Buckets, NEW i \in Slots, Message(b, i) PROVE Goal
  <2>1. CASE CallNull(b, i) \/ ReplyFatal(b, i)
    BY <1>0, <2>1 DEF CallNull, ReplyFatal
  <2>2. CASE Reply200(b, i)
    <3>1. conns'[d][j] \in {conns[d][j], AfterLoad(conns[d][j])}
      BY <1>0, <2>2 DEF Reply200
    <3> QED
      BY <3>1 DEF Becomes
  <2>3. CASE ReplyLimited(b, i)
    <3> DEFINE g == [Paused(b) EXCEPT
                        ![i].body = NoBody,
                        ![i].transfer = IF @ = "limited" THEN "spent" ELSE @]
    <3>1. conns' = [conns EXCEPT ![b] = g]
      BY <2>3 DEF ReplyLimited
    <3>2. CASE d # b
      BY <1>0, <3>1, <3>2
    <3>3. CASE d = b
      <4>1. conns'[d][j] = g[j]
        BY <1>0, <3>1, <3>3
      <4>2. /\ Paused(b)[j] \in {conns[d][j], PauseConn(conns[d][j])}
            /\ Paused(b)[j] \in Conn
            /\ Paused(b) = [k \in Slots |-> Paused(b)[k]]
        BY <3>3, PausedKeepsObjects DEF Paused, PauseConn
      <4>3. CASE j # i
        <5>1. g[j] = Paused(b)[j]
          BY <4>2, <4>3
        <5> QED
          BY <4>1, <4>2, <5>1 DEF Becomes
      <4>4. CASE j = i
        <5>1. conns[d][j].transfer = "limited"
          BY <2>3, <3>3, <4>4 DEF ReplyLimited
        <5>2. CASE Paused(b)[j] = conns[d][j]
          <6>1. g[j] = WithoutBody(conns[d][j], "spent")
            BY <4>2, <4>4, <5>1, <5>2 DEF WithoutBody, Conn
          <6> QED
            BY <4>1, <6>1 DEF Becomes, Transfer
        <5>3. CASE Paused(b)[j] = PauseConn(conns[d][j])
          <6>1. g[j] = WithoutBody(PauseConn(conns[d][j]), "out")
            BY <1>0, <4>2, <4>4, <5>3 DEF PauseConn, WithoutBody, Conn
          <6> QED
            BY <4>1, <6>1 DEF Becomes, Transfer
        <5> QED
          BY <4>2, <5>2, <5>3
      <4> QED
        BY <4>3, <4>4
    <3> QED
      BY <3>2, <3>3
  <2>4. CASE ReplyGlobal(b, i)
    <3>1. conns'[d][j] \in {conns[d][j], WithoutBody(conns[d][j], "sent")}
      BY <1>0, <2>4 DEF ReplyGlobal, WithoutBody, Conn
    <3> QED
      BY <3>1 DEF Becomes, Transfer
  <2>5. CASE ReplyNoUrl(b, i)
    <3>1. CASE d = b /\ j = i
      <4>1. /\ conns[d][j].transfer = "nourl"
            /\ conns'[d][j] = WithReply(conns[d][j], "out")
        BY <1>0, <2>5, <3>1 DEF ReplyNoUrl, WithReply
      <4> QED
        BY <4>1 DEF Becomes
    <3>2. CASE ~(d = b /\ j = i)
      BY <1>0, <2>5, <3>2 DEF ReplyNoUrl
    <3> QED
      BY <3>1, <3>2
  <2> QED
    BY <1>3, <2>1, <2>2, <2>3, <2>4, <2>5 DEF Message
<1>4. CASE EndSocketEvent \/ LoopExitAborts
  BY <1>0, <1>4 DEF EndSocketEvent, LoopExitAborts
<1>5. ASSUME NEW b \in Buckets, AddRemaining(b) \/ Resume(b) PROVE Goal
  <2>1. CASE AddRemaining(b)
    <3> DEFINE g == AfterPop(b, Popped(Held(b), remaining[b]))
    <3>1. conns' = [conns EXCEPT ![b] = g]
      BY <2>1 DEF AddRemaining
    <3>2. g[j] \in {conns[b][j], Launch(conns[b][j])}
      BY DEF AfterPop
    <3> HIDE DEF g
    <3> QED
      BY <1>0, <3>1, <3>2 DEF Becomes
  <2>2. CASE Resume(b)
    <3>1. conns'[d][j] \in {conns[d][j], Launch(conns[d][j])}
      BY <1>0, <2>2 DEF Resume
    <3> QED
      BY <3>1 DEF Becomes
  <2> QED
    BY <1>5, <2>1, <2>2
<1> QED
  BY <1>1, <1>2, <1>3, <1>4, <1>5 DEF LoopNext

\* The verdict on a clean connection with a response of its own.
LEMMA CleanVerdict ==
    ASSUME NEW b \in Buckets, NEW i \in Slots, OwnBody(conns[b][i]),
           CleanBody(conns[b][i]), conns[b][i].object # 0, Is200(conns[b][i])
    PROVE  Verdict(conns[b][i]) \notin {"foreign", "stale"}
<1> DEFINE c == conns[b][i]
<1>1. c.body.last = c.object /\ c.object = c.url
  BY DEF OwnBody, AllReplies, Is200
<1>2. c.body.before \subseteq {c.object}
  BY <1>1 DEF CleanBody, NoBody
<1> HIDE DEF c
<1>3. Verdict(c) \notin {"foreign", "stale"}
  BY <1>1, <1>2 DEF Verdict
<1> QED
  BY <1>3 DEF c

\* The user's calls find every body freed, and give connections none.
LEMMA UserKeepsClean ==
    ASSUME TypeOK, QueueShape, CleanInv, UserNext \/ SyncNext
    PROVE  CleanInv'
<1> USE DEF user
<1>0. /\ conns \in [Buckets -> [Slots -> Conn]]
      /\ loaded \in [Requests -> Outcome]
      /\ pc \in {"idle", "sync"}
      /\ \A d \in Buckets, j \in Slots : conns[d][j].body = NoBody
  <2>1. pc \in {"idle", "sync"}
    BY DEF UserNext, SyncNext, Register, Enqueue, Dispatch, SyncOk,
           SyncLimited, SyncFatal
  <2> QED
    BY <2>1 DEF TypeOK, CleanInv
<1>1. ASSUME NEW k \in Keys, Enqueue(k)
      PROVE  /\ loaded' = loaded
             /\ \A d \in Buckets, j \in Slots : conns'[d][j].body = NoBody
  <2> DEFINE b == bucket_dict[k]
             i == top_onhold[b]
             r == Len(calls) + 1
             c == OnHold(conns[b][i])
  <2>1. b \in Buckets /\ i \in Slots
    BY <1>1, ConcordApiAssumption
    DEF ConcordApiAssumption, TypeOK, QueueShape, Enqueue, Slots
  <2>2. c.body = NoBody /\ Filled(c, r).body = NoBody
    BY <1>0, <2>1 DEF OnHold, Filled, Conn
  <2>3. \E f \in {c, Filled(c, r)} : conns' = [conns EXCEPT ![b][i] = f]
    BY <1>1 DEF Enqueue
  <2> HIDE DEF b, i, r, c
  <2>4. \A d \in Buckets, j \in Slots : conns'[d][j].body = NoBody
    BY <1>0, <2>1, <2>2, <2>3
  <2> QED
    BY <1>1, <2>4 DEF Enqueue
<1>2. ASSUME NEW n \in Remainders, SyncOk(n)
      PROVE  /\ loaded' = [loaded EXCEPT ![Len(calls)] = "ok"]
             /\ \A d \in Buckets, j \in Slots : conns'[d][j].body = NoBody
  <2> DEFINE r == Len(calls)
  <2>1. \/ UNCHANGED conns
        \/ \E b \in Buckets \cup {NoBucket}, i \in Slots :
                conns' = [conns EXCEPT ![b][i] = Registered(r)]
    <3>1. SyncKey \in Keys
      BY <1>2 DEF SyncOk, TypeOK, SyncKey
    <3>2. Headers(SyncKey, n).bucket \in Buckets \cup {NoBucket}
      BY <3>1, HeadersType DEF TypeOK
    <3> QED
      BY <1>2, <3>2 DEF SyncOk
  <2>2. Registered(r).body = NoBody
    BY DEF Registered, Empty
  <2> HIDE DEF r
  <2>3. \A d \in Buckets, j \in Slots :
            conns'[d][j] \in {conns[d][j], Registered(r)}
    BY <1>0, <2>1
  <2>4. \A d \in Buckets, j \in Slots : conns'[d][j].body = NoBody
    BY <1>0, <2>2, <2>3
  <2> QED
    BY <1>2, <2>4 DEF SyncOk
<1>3. CASE \/ \E k \in Keys : Register(k)
           \/ Dispatch
           \/ \E n \in Remainders : SyncLimited(n)
           \/ SyncFatal
  BY <1>0, <1>3 DEF Register, Dispatch, SyncLimited, SyncFatal, CleanInv,
     NoForeignLoad
<1>4. CASE \E k \in Keys : Enqueue(k)
  BY <1>1, <1>4 DEF CleanInv, CleanBody, NoForeignLoad
<1>5. CASE \E n \in Remainders : SyncOk(n)
  <2>1. NoForeignLoad'
    BY <1>0, <1>2, <1>5 DEF CleanInv, NoForeignLoad
  <2> QED
    BY <1>2, <1>5, <2>1 DEF CleanInv, CleanBody
<1> QED
  BY <1>3, <1>4, <1>5 DEF UserNext, SyncNext

\* A step of the loop but its exit stays in the loop or ends the program, and
\* loads an object only for a 200.
LEMMA LoopGoesOn ==
    ASSUME LoopNext, ~LoopExit
    PROVE  /\ pc' \notin {"idle", "sync", "run"}
           /\ \/ loaded' = loaded
              \/ \E b \in Buckets, i \in Slots : Reply200(b, i)
<1> DEFINE Goal == /\ pc' \notin {"idle", "sync", "run"}
                   /\ \/ loaded' = loaded
                      \/ \E b \in Buckets, i \in Slots : Reply200(b, i)
<1>1. CASE StartBuckets \/ EndSocketEvent \/ LoopExitAborts
  BY <1>1 DEF StartBuckets, EndSocketEvent, LoopExitAborts
<1>2. ASSUME NEW b \in Buckets, NEW i \in Slots, Network(b, i) PROVE Goal
  BY <1>2 DEF Network, ReceiveHeaders, SocketComplete, TimeoutComplete,
     Complete
<1>3. ASSUME NEW b \in Buckets, NEW i \in Slots, Message(b, i) PROVE Goal
  <2>1. CASE Reply200(b, i)
    <3>1. pc' = "drain"
      BY <2>1 DEF Reply200
    <3> QED
      BY <2>1, <3>1
  <2>2. CASE ~Reply200(b, i)
    BY <1>3, <2>2 DEF Message, CallNull, ReplyLimited, ReplyGlobal, ReplyNoUrl,
       ReplyFatal
  <2> QED
    BY <2>1, <2>2
<1>4. ASSUME NEW b \in Buckets, AddRemaining(b) \/ Resume(b) PROVE Goal
  BY <1>4 DEF AddRemaining, Resume
<1> QED
  BY <1>1, <1>2, <1>3, <1>4 DEF LoopNext

\* Inside the loop.
LEMMA LoopKeepsClean ==
    ASSUME TypeOK, BodyInv, CleanInv, LoopNext, ~LoopExit
    PROVE  CleanInv'
<1>0. /\ loaded \in [Requests -> Outcome]
      /\ \A d \in Buckets, j \in Slots : conns[d][j] \in Conn
  BY DEF TypeOK
<1>1. \A d \in Buckets, j \in Slots : CleanBody(conns'[d][j])
  BY <1>0, LoopBecomes, BecomesClean DEF CleanInv
<1>2. pc' \notin {"idle", "sync", "run"}
  BY LoopGoesOn
<1>3. CASE \E b \in Buckets, i \in Slots : Reply200(b, i)
  <2>1. PICK b \in Buckets, i \in Slots : Reply200(b, i)
    BY <1>3
  <2> DEFINE o == conns[b][i].object
             v == Verdict(conns[b][i])
  <2>2. /\ loaded' = [loaded EXCEPT ![o] = v]
        /\ o # 0 /\ Is200(conns[b][i])
    BY <2>1 DEF Reply200
  <2>3. v \notin {"foreign", "stale"}
    BY <2>2, CleanVerdict DEF BodyInv, CleanInv
  <2> HIDE DEF o, v
  <2>4. NoForeignLoad'
    BY <1>0, <2>2, <2>3 DEF CleanInv, NoForeignLoad
  <2> QED
    BY <1>1, <1>2, <2>4 DEF CleanInv
<1>4. CASE loaded' = loaded
  BY <1>1, <1>2, <1>4 DEF CleanInv, NoForeignLoad
<1> QED
  BY <1>3, <1>4, LoopGoesOn

\* When the loop ends without a paused connection, no body is left.
LEMMA ExitKeepsClean ==
    ASSUME TypeOK, BodyInv, CleanInv, LoopExit, PausesEnd'
    PROVE  CleanInv'
<1> DEFINE b == bucket_dict[SyncKey]
           i == QueueSize - 1
           r == Len(calls)
<1>0. conns \in [Buckets -> [Slots -> Conn]]
  BY DEF TypeOK
<1>1. /\ pc = "loop" /\ pc' = "idle" /\ loaded' = loaded /\ InFlight = {}
      /\ \/ conns' = conns
         \/ conns' = [conns EXCEPT ![b][i] = Filled(conns[b][i], r)]
  BY DEF LoopExit, LoopEnds
<1> HIDE DEF b, i, r
<1>2. ASSUME NEW d \in Buckets, NEW j \in Slots
      PROVE  /\ conns'[d][j].status = conns[d][j].status
             /\ conns'[d][j].body = conns[d][j].body
  <2>1. CASE b \notin Buckets
    <3>1. conns' = conns
      BY <1>0, <1>1, <2>1, ExceptOutside
    <3> QED
      BY <3>1
  <2>2. CASE b \in Buckets
    <3>1. i \in Slots
      BY ConcordApiAssumption DEF ConcordApiAssumption, Slots, i
    <3>2. conns'[d][j] \in {conns[d][j], Filled(conns[d][j], r)}
      BY <1>0, <1>1, <2>2, <3>1
    <3>3. \A c \in Conn : /\ Filled(c, r).status = c.status
                          /\ Filled(c, r).body = c.body
      BY DEF Filled, Conn
    <3> QED
      BY <1>0, <3>2, <3>3
  <2> QED
    BY <2>1, <2>2
<1>3. ASSUME NEW d \in Buckets, NEW j \in Slots
      PROVE  conns'[d][j].body = NoBody
  <2>1. conns[d][j].status # "PAUSE"
    BY <1>1, <1>2 DEF PausesEnd
  <2>2. conns[d][j].transfer \notin AllReplies
    BY <1>1 DEF BodyInv, Read
  <2>3. conns[d][j].transfer \notin {"sent", "recv"}
    <3>1. <<d, j>> \in Buckets \X Slots /\ <<d, j>> \notin InFlight
      BY <1>1
    <3> QED
      BY <3>1 DEF InFlight
  <2> QED
    BY <1>2, <2>1, <2>2, <2>3 DEF CleanInv, CleanBody
<1>4. NoForeignLoad'
  BY <1>1 DEF CleanInv, NoForeignLoad
<1> QED
  BY <1>3, <1>4 DEF CleanInv, CleanBody

\* As long as no run of the loop leaves a connection paused (and curl ends no
\* transfer in its timeout action), no object is loaded with bytes of another
\* request's response, through every pause, retry and reuse of a connection.
THEOREM LoadsOwnIfPausesEndCorrect ==
    ASSUME ~TimeoutCompletes
    PROVE  Spec => LoadsOwnIfPausesEnd
<1>1. Init => CleanInv
  <2> SUFFICES ASSUME Init PROVE CleanInv
    OBVIOUS
  <2>1. \A b \in Buckets, i \in Slots : conns[b][i].body = NoBody
    BY DEF Init, Empty
  <2>2. NoForeignLoad
    BY DEF Init, NoForeignLoad
  <2> QED
    BY <2>1, <2>2 DEF CleanInv, CleanBody
<1>2. /\ TypeOK /\ QueueShape /\ BodyInv /\ PausesEnd' /\ CleanInv
      /\ [Next]_vars
      => CleanInv'
  <2> SUFFICES ASSUME TypeOK, QueueShape, BodyInv, PausesEnd', CleanInv,
                      [Next]_vars
               PROVE  CleanInv'
    OBVIOUS
  <2>1. CASE UNCHANGED vars
    BY <2>1 DEF vars, CleanInv, NoForeignLoad
  <2> QED
    BY <2>1, UserKeepsClean, LoopKeepsClean, ExitKeepsClean DEF Next
<1>3. CleanInv => NoForeignLoad
  BY DEF CleanInv
<1> QED
  BY <1>1, <1>2, <1>3, BodyAlways, TypeCorrect, QueueShapeCorrect, PTL
  DEF Spec, LoadsOwnIfPausesEnd

=============================================================================
