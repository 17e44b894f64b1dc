----------------------- MODULE ConcordApiServiceProofs -----------------------
(***************************************************************************)
(* ConcordApi keeps what RequestService promises as long as the server     *)
(* limits no single bucket, no queue fills up, and transfers end in socket *)
(* events; and of these, only the first is needed for NoLostWakeup.        *)
(***************************************************************************)
EXTENDS ConcordApiObjectProofs, ConcordApiService, ConcordApiClaims

-----------------------------------------------------------------------------
(* What steps do to each connection *)

\* The connection in slot i of bucket b is now c, the others are what they were.
Now(b, i, c) ==
    \A d \in Buckets, j \in Slots :
        conns'[d][j] = IF d = b /\ j = i THEN c ELSE conns[d][j]

\* Connections are popped from the bottom of those on hold.
Popping ==
    /\ UNCHANGED top_onhold
    /\ \A b \in Buckets : /\ separator[b] <= separator'[b]
                          /\ separator'[b] <= top_onhold[b]
    /\ \A b \in Buckets, i \in Slots :
            conns'[b][i] = IF separator[b] <= i /\ i < separator'[b]
                           THEN Launch(conns[b][i]) ELSE conns[b][i]

\* An assignment to one connection, as Now states it.
LEMMA OneConn ==
    ASSUME TypeOK, NEW b \in Buckets, NEW i \in Slots, NEW c,
           conns' = [conns EXCEPT ![b][i] = c]
    PROVE  Now(b, i, c)
BY DEF TypeOK, Now

\* A registration aborts or puts its connection in a free slot.
LEMMA SyncOkEffect ==
    ASSUME TypeOK, NEW n \in Remainders, SyncOk(n)
    PROVE  /\ UNCHANGED <<caller, calls, queues, limits>> /\ pc = "sync"
           /\ \/ UNCHANGED conns /\ pc' \in {"aborted", "crashed"}
              \/ /\ pc' = "idle"
                 /\ \E b \in Buckets, i \in Slots :
                        FreeSlot(b, i) /\ Now(b, i, Registered(Len(calls)))
<1>1. UNCHANGED <<caller, calls, queues, limits>> /\ pc = "sync"
  BY DEF SyncOk
<1>2. SyncKey \in Keys
  BY CallsFacts DEF TypeOK, SyncOk
<1>3. header' \in [bucket : Buckets \cup {NoBucket}, remaining : Nat]
  BY <1>2, HeadersType DEF TypeOK, SyncOk
<1>4. \/ UNCHANGED conns /\ pc' \in {"aborted", "crashed"}
      \/ /\ pc' = "idle"
         /\ \E b \in Buckets, i \in Slots :
                /\ FreeSlot(b, i)
                /\ conns' = [conns EXCEPT ![b][i] = Registered(Len(calls))]
  BY <1>3 DEF SyncOk
<1> QED
  BY <1>1, <1>4, OneConn

\* A request changes the connection at the old top of its queue, and only that.
LEMMA EnqueueEffect ==
    ASSUME TypeOK, QueueShape, NEW k \in Keys, Enqueue(k),
           NEW b, b = bucket_dict[k], NEW i, i = top_onhold[b]
    PROVE  /\ b \in Buckets /\ i \in Slots /\ separator[b] <= i
           /\ Len(calls) \in Nat
           /\ Now(b, i, IF Fills(b) THEN OnHold(conns[b][i])
                        ELSE Filled(OnHold(conns[b][i]), Len(calls) + 1))
<1>1. b \in Buckets /\ i \in Slots /\ separator[b] <= i /\ Len(calls) \in Nat
  <2>1. b \in Buckets /\ pc = "idle"
    BY DEF TypeOK, Enqueue
  <2>2. Len(calls) \in Nat
    BY DEF TypeOK
  <2>3. /\ i \in Nat /\ i < QueueSize /\ separator[b] <= i
    BY <2>1 DEF TypeOK, QueueShape
  <2> QED
    BY <2>1, <2>2, <2>3, ConcordApiAssumption
    DEF ConcordApiAssumption, Slots
<1>2. CASE Fills(b)
  <2>1. conns' = [conns EXCEPT ![b][i] = OnHold(conns[b][i])]
    BY <1>2 DEF Enqueue
  <2>2. Now(b, i, OnHold(conns[b][i]))
    BY <1>1, <2>1, OneConn
  <2> QED
    BY <1>1, <1>2, <2>2
<1>3. CASE ~Fills(b)
  <2>1. conns' = [conns EXCEPT ![b][i] =
                    Filled(OnHold(conns[b][i]), Len(calls) + 1)]
    BY <1>3 DEF Enqueue
  <2>2. Now(b, i, Filled(OnHold(conns[b][i]), Len(calls) + 1))
    BY <1>1, <2>1, OneConn
  <2> QED
    BY <1>1, <1>3, <2>2
<1> QED
  BY <1>2, <1>3

\* Both the start of the buckets and their timers pop from the bottom of the
\* connections on hold.
LEMMA PopEffect ==
    ASSUME TypeOK, QueueShape,
           StartBuckets \/ \E b \in Buckets : AddRemaining(b)
    PROVE  Popping
<1>1. \A b \in Buckets :
        /\ separator[b] \in Nat /\ top_onhold[b] \in Nat /\ Held(b) \in Nat
        /\ top_onhold[b] = separator[b] + Held(b) /\ remaining[b] \in Nat
  BY HeldNat DEF TypeOK
<1>2. CASE StartBuckets
  <2>1. \A b \in Buckets : /\ Popped(Held(b), 1) \in Nat
                           /\ Popped(Held(b), 1) <= Held(b)
    BY <1>1, PoppedBounds
  <2>2. /\ UNCHANGED top_onhold
        /\ separator' = [b \in Buckets |-> separator[b] + Popped(Held(b), 1)]
        /\ conns' = [b \in Buckets |-> AfterPop(b, Popped(Held(b), 1))]
    BY <1>2 DEF StartBuckets
  <2> QED
    BY <1>1, <2>1, <2>2 DEF Popping, AfterPop
<1>3. ASSUME NEW b \in Buckets, AddRemaining(b) PROVE Popping
  <2> DEFINE n == Popped(Held(b), remaining[b])
  <2>1. n \in Nat /\ n <= Held(b)
    BY <1>1, PoppedBounds
  <2>2. /\ UNCHANGED top_onhold
        /\ separator' = [separator EXCEPT ![b] = separator[b] + n]
        /\ conns' = [conns EXCEPT ![b] = AfterPop(b, n)]
    BY <1>3 DEF AddRemaining
  <2> HIDE DEF n
  <2>3. \A d \in Buckets :
            /\ separator'[d] = IF d = b THEN separator[b] + n ELSE separator[d]
            /\ conns'[d] = IF d = b THEN AfterPop(b, n) ELSE conns[d]
    BY <2>2 DEF TypeOK
  <2>4. \A d \in Buckets : /\ separator[d] <= separator'[d]
                           /\ separator'[d] <= top_onhold[d]
    BY <1>1, <2>1, <2>3
  <2>5. \A d \in Buckets, i \in Slots :
            conns'[d][i] = IF separator[d] <= i /\ i < separator'[d]
                           THEN Launch(conns[d][i]) ELSE conns[d][i]
    <3> TAKE d \in Buckets, i \in Slots
    <3>1. CASE d = b
      <4>1. separator'[b] = separator[b] + n /\ conns'[b] = AfterPop(b, n)
        BY <2>3
      <4>2. conns'[b][i] = IF separator[b] <= i /\ i < separator'[b]
                           THEN Launch(conns[b][i]) ELSE conns[b][i]
        BY <4>1 DEF AfterPop
      <4> QED
        BY <3>1, <4>2
    <3>2. CASE d # b
      <4>1. i \in Int
        BY ConcordApiAssumption DEF Slots, ConcordApiAssumption
      <4> QED
        BY <1>1, <2>3, <3>2, <4>1
    <3> QED
      BY <3>1, <3>2
  <2> QED
    BY <2>2, <2>4, <2>5 DEF Popping
<1> QED
  BY <1>2, <1>3

Repeats(c) == [c EXCEPT !.transfer = "sent", !.body = NoBody]
Ends(c, reply) == [c EXCEPT !.transfer = reply]

\* The network advances one transfer: it receives, or it ends.
LEMMA NetworkEffect ==
    ASSUME TypeOK, NEW b \in Buckets, NEW i \in Slots, Network(b, i)
    PROVE  /\ UNCHANGED <<caller, user, loaded, queues, limits>>
           /\ pc' \in {"loop", "socket"} /\ pc \in {"loop", "socket"}
           /\ \/ /\ pc' = "socket" /\ conns[b][i].transfer = "sent"
                 /\ conns[b][i].url # 0 /\ Now(b, i, Received(conns[b][i]))
              \/ \E reply \in Replies \cup {"nourl"} :
                    /\ Complete(b, i, reply)
                    /\ pc' = "socket" \/ TimeoutCompletes \/ reply = "nourl"
                    /\ Now(b, i, Ends(conns[b][i], reply))
<1> USE DEF user
<1>1. ASSUME NEW n \in Remainders, ReceiveHeaders(b, i, n)
      PROVE  Now(b, i, Received(conns[b][i]))
  <2>1. conns' = [conns EXCEPT ![b][i] = Received(conns[b][i])]
    BY <1>1 DEF ReceiveHeaders, TypeOK
  <2> QED
    BY <2>1, OneConn
<1>2. ASSUME NEW reply, Complete(b, i, reply)
      PROVE  Now(b, i, Ends(conns[b][i], reply))
  <2>1. conns' = [conns EXCEPT ![b][i] = Ends(conns[b][i], reply)]
    BY <1>2 DEF Complete, TypeOK, Conn, Ends
  <2> QED
    BY <2>1, OneConn
<1>3. CASE \E n \in Remainders : ReceiveHeaders(b, i, n)
  BY <1>1, <1>3 DEF ReceiveHeaders
<1>4. ASSUME NEW reply \in Replies \cup {"nourl"},
             SocketComplete(b, i, reply) \/ TimeoutComplete(b, i, reply)
      PROVE  /\ UNCHANGED <<caller, user, loaded, queues, limits>>
             /\ pc' \in {"loop", "socket"} /\ pc \in {"loop", "socket"}
             /\ Complete(b, i, reply)
             /\ pc' = "socket" \/ TimeoutCompletes \/ reply = "nourl"
  BY <1>4 DEF SocketComplete, TimeoutComplete, Complete
<1> QED
  BY <1>2, <1>3, <1>4 DEF Network

\* A reply that is read changes its own connection, and only that.
LEMMA ReplyEffect ==
    ASSUME TypeOK, NEW b \in Buckets, NEW i \in Slots
    PROVE  /\ Reply200(b, i) => Now(b, i, AfterLoad(conns[b][i]))
           /\ ReplyGlobal(b, i) => Now(b, i, Repeats(conns[b][i]))
           /\ ReplyNoUrl(b, i) => Now(b, i, Ends(conns[b][i], "out"))
<1>1. ASSUME Reply200(b, i) PROVE Now(b, i, AfterLoad(conns[b][i]))
  <2>1. conns' = [conns EXCEPT ![b][i] = AfterLoad(conns[b][i])]
    BY <1>1 DEF Reply200
  <2> QED
    BY <2>1, OneConn
<1>2. ASSUME ReplyGlobal(b, i) PROVE Now(b, i, Repeats(conns[b][i]))
  <2>1. conns' = [conns EXCEPT ![b][i] = Repeats(conns[b][i])]
    BY <1>2 DEF ReplyGlobal, Repeats, TypeOK, Conn
  <2> QED
    BY <2>1, OneConn
<1>3. ASSUME ReplyNoUrl(b, i) PROVE Now(b, i, Ends(conns[b][i], "out"))
  <2>1. conns' = [conns EXCEPT ![b][i] = Ends(conns[b][i], "out")]
    BY <1>3 DEF ReplyNoUrl, Ends, TypeOK, Conn
  <2> QED
    BY <2>1, OneConn
<1> QED
  BY <1>1, <1>2, <1>3

\* A bucket with connections on hold launches at least the first of them.
LEMMA PopLaunches ==
    ASSUME TypeOK, QueueShape
    PROVE  /\ StartBuckets => \A b \in Buckets :
                Held(b) # 0 => separator[b] < separator'[b]
           /\ \A b \in Buckets : AddRemaining(b) =>
                /\ Held(b) # 0 => separator[b] < separator'[b]
                /\ \A d \in Buckets : d # b => separator'[d] = separator[d]
<1>1. \A b \in Buckets : /\ separator[b] \in Nat /\ Held(b) \in Nat
                         /\ remaining[b] \in Nat
  BY HeldNat DEF TypeOK
<1>2. ASSUME StartBuckets, NEW b \in Buckets, Held(b) # 0
      PROVE  separator[b] < separator'[b]
  <2>1. Popped(Held(b), 1) \in Nat /\ Popped(Held(b), 1) # 0
    BY <1>1, <1>2, PoppedBounds
  <2>2. separator'[b] = separator[b] + Popped(Held(b), 1)
    BY <1>2 DEF StartBuckets
  <2> QED
    BY <1>1, <2>1, <2>2
<1>3. ASSUME NEW b \in Buckets, AddRemaining(b)
      PROVE  /\ Held(b) # 0 => separator[b] < separator'[b]
             /\ \A d \in Buckets : d # b => separator'[d] = separator[d]
  <2> DEFINE n == Popped(Held(b), remaining[b])
  <2>1. n \in Nat /\ (Held(b) # 0 => n # 0)
    BY <1>1, PoppedBounds
  <2>2. separator' = [separator EXCEPT ![b] = separator[b] + n]
    BY <1>3 DEF AddRemaining
  <2> HIDE DEF n
  <2> QED
    BY <1>1, <2>1, <2>2 DEF TypeOK
<1> QED
  BY <1>2, <1>3

-----------------------------------------------------------------------------
(* NoLostWakeup: while the server limits no single bucket, a bucket's timer *)
(* is armed for nothing but more pops, and a bucket whose timer is off has  *)
(* its counters at zero, so that the next 200 arms it again.                *)

CalmTimers ==
    \A b \in Buckets :
        /\ ratelimit_timer[b] # "resume"
        /\ ratelimit_timer[b] = "off" => finished[b] = 0 /\ remaining[b] = 0

\* The connection c of slot i: nothing is left of a transfer that ended, and
\* only the last slot, whose request comes after its pop, goes without a URL.
Usual(c, i) ==
    /\ c.transfer \notin {"spent", "limited"}
    /\ c.status = "NULL" => c.transfer = "out"
    /\ c.status # "NULL" /\ c.url = 0 => i = QueueSize - 1
    /\ c.transfer = "nourl" => i = QueueSize - 1

UsualConns == \A b \in Buckets, i \in Slots : Usual(conns[b][i], i)

WakeInv == CalmTimers /\ UsualConns /\ NoLostWakeup

\* The operations inside a transfer keep a connection usual, and a launched
\* one has a transfer that is not done.
LEMMA UsualOperations ==
    ASSUME NEW c \in Conn, NEW i, Usual(c, i)
    PROVE  /\ c.status # "NULL" => Usual(Launch(c), i)
           /\ c.status # "NULL" => Launch(c).transfer \notin {"out", "spent"}
           /\ c.transfer = "sent" => Usual(Received(c), i)
           /\ Is200(c) => Usual(AfterLoad(c), i)
           /\ c.transfer = "global" => Usual(Repeats(c), i)
           /\ Usual(Ends(c, "out"), i)
           /\ c.url = 0 /\ c.transfer = "sent" => Usual(Ends(c, "nourl"), i)
           /\ \A reply \in {"ok", "cut", "global", "fatal"} :
                /\ c.transfer = "recv" => Usual(Ends(c, reply), i)
                /\ c.transfer = "sent" /\ c.url # 0 => Usual(Ends(c, reply), i)
BY DEF Usual, Conn, Status, Transfer, AllReplies, Launch, Added, Received,
       AfterLoad, Repeats, Ends, Is200

\* A new request keeps it usual; without a URL only in the last slot.
LEMMA UsualRequests ==
    ASSUME NEW c \in Conn, NEW i, Usual(c, i), NEW r \in Nat
    PROVE  /\ i = QueueSize - 1 => Usual(OnHold(c), i) /\ Usual(Filled(c, r), i)
           /\ r # 0 => Usual(Filled(OnHold(c), r), i) /\ Usual(Registered(r), i)
BY DEF Usual, Conn, Status, Transfer, AllReplies, OnHold, Filled, Registered,
       Empty

\* One connection changes and stays usual.
LEMMA UsualNow ==
    ASSUME UsualConns, NEW b \in Buckets, NEW i \in Slots, NEW c,
           Now(b, i, c), Usual(c, i)
    PROVE  UsualConns'
BY DEF UsualConns, Now

\* The calls of the user and the answers to a registration: the loop does not
\* run, so only the connections matter.
LEMMA UserKeepsWake ==
    ASSUME TypeOK, QueueShape, WakeInv, UserNext \/ SyncNext
    PROVE  WakeInv'
<1>0. /\ UNCHANGED limits
      /\ pc' \in {"idle", "sync", "run", "aborted", "crashed"}
  <2>1. CASE UserNext
    BY <2>1 DEF UserNext, Register, Enqueue, Dispatch
  <2>2. CASE SyncNext
    BY <2>2 DEF SyncNext, SyncOk, SyncLimited, SyncFatal
  <2> QED
    BY <2>1, <2>2
<1>1. CalmTimers' /\ NoLostWakeup'
  BY <1>0 DEF WakeInv, CalmTimers, NoLostWakeup, limits
<1>2. \A b \in Buckets, i \in Slots :
        conns[b][i] \in Conn /\ Usual(conns[b][i], i)
  BY DEF TypeOK, WakeInv, UsualConns
<1>3. CASE UNCHANGED conns
  BY <1>1, <1>3 DEF WakeInv, UsualConns
<1>4. ASSUME NEW n \in Remainders, SyncOk(n) PROVE WakeInv'
  <2>1. Len(calls) \in Nat /\ Len(calls) # 0
    BY <1>4, CallsFacts DEF TypeOK, SyncOk
  <2>2. ASSUME NEW b \in Buckets, NEW i \in Slots,
               Now(b, i, Registered(Len(calls)))
        PROVE  UsualConns'
    BY <1>2, <2>1, <2>2, UsualRequests, UsualNow DEF WakeInv
  <2> QED
    BY <1>1, <1>3, <1>4, <2>2, SyncOkEffect DEF WakeInv
<1>5. ASSUME NEW k \in Keys, Enqueue(k) PROVE WakeInv'
  <2>1. PICK b, i : b = bucket_dict[k] /\ i = top_onhold[b]
    OBVIOUS
  <2>2. /\ b \in Buckets /\ i \in Slots /\ Len(calls) \in Nat
        /\ Now(b, i, IF Fills(b) THEN OnHold(conns[b][i])
                     ELSE Filled(OnHold(conns[b][i]), Len(calls) + 1))
    BY <1>5, <2>1, EnqueueEffect
  <2>3. conns[b][i] \in Conn /\ Usual(conns[b][i], i)
    BY <1>2, <2>2
  <2>4. CASE Fills(b)
    <3>1. i = QueueSize - 1
      BY <2>1, <2>2, <2>4, ConcordApiAssumption
      DEF ConcordApiAssumption, Fills, TypeOK
    <3>2. Usual(OnHold(conns[b][i]), i)
      BY <2>2, <2>3, <3>1, UsualRequests
    <3> QED
      BY <1>1, <2>2, <2>4, <3>2, UsualNow DEF WakeInv
  <2>5. CASE ~Fills(b)
    <3>1. Len(calls) + 1 \in Nat /\ Len(calls) + 1 # 0
      BY <2>2
    <3>2. Usual(Filled(OnHold(conns[b][i]), Len(calls) + 1), i)
      BY <2>3, <3>1, UsualRequests
    <3> QED
      BY <1>1, <2>2, <2>5, <3>2, UsualNow DEF WakeInv
  <2> QED
    BY <2>4, <2>5
<1> QED
  BY <1>3, <1>4, <1>5
  DEF UserNext, SyncNext, Register, Dispatch, SyncLimited, SyncFatal

\* A pop takes the first connection on hold, which then is a transfer of the
\* bucket that is not done.
LEMMA PopKeepsWake ==
    ASSUME TypeOK, QueueShape, WakeInv,
           StartBuckets \/ \E b \in Buckets : AddRemaining(b)
    PROVE  WakeInv'
<1>1. Popping
  BY PopEffect
<1>2. /\ \A b \in Buckets : separator[b] \in Nat /\ top_onhold[b] \in Nat
                             /\ separator'[b] \in Nat
      /\ Slots \subseteq Int
  <2>1. TypeOK'
    BY TypeNext DEF Next, LoopNext
  <2> QED
    BY <2>1 DEF TypeOK, Slots
<1>3. \A b \in Buckets, i \in Slots :
        /\ conns[b][i] \in Conn /\ Usual(conns[b][i], i)
        /\ i < top_onhold[b] => conns[b][i].status # "NULL"
  BY DEF TypeOK, WakeInv, UsualConns, QueueShape
<1>4. UsualConns'
  <2> SUFFICES ASSUME NEW b \in Buckets, NEW i \in Slots
               PROVE  Usual(conns'[b][i], i)
    BY DEF UsualConns
  <2>1. CASE separator[b] <= i /\ i < separator'[b]
    <3>1. i < top_onhold[b] /\ conns'[b][i] = Launch(conns[b][i])
      BY <1>1, <1>2, <2>1 DEF Popping
    <3> QED
      BY <1>3, <3>1, UsualOperations
  <2>2. CASE ~(separator[b] <= i /\ i < separator'[b])
    BY <1>1, <1>3, <2>2 DEF Popping
  <2> QED
    BY <2>1, <2>2
<1>5. CalmTimers'
  <2>1. CASE StartBuckets
    BY <2>1 DEF WakeInv, CalmTimers, StartBuckets, limits
  <2>2. ASSUME NEW b \in Buckets, AddRemaining(b) PROVE CalmTimers'
    BY <2>2 DEF WakeInv, CalmTimers, AddRemaining, TypeOK
  <2> QED
    BY <2>1, <2>2
\* A bucket that pops has a running transfer below its new separator.
<1>6. ASSUME NEW b \in Buckets, separator[b] < separator'[b]
      PROVE  \E i \in Slots : /\ i < separator'[b]
                              /\ conns'[b][i].transfer \notin {"out", "spent"}
  <2>1. separator[b] \in Slots /\ separator[b] < top_onhold[b]
    BY <1>1, <1>2, <1>6, ConcordApiAssumption
    DEF Popping, QueueShape, Slots, ConcordApiAssumption
  <2>2. conns'[b][separator[b]] = Launch(conns[b][separator[b]])
    BY <1>1, <1>2, <1>6, <2>1 DEF Popping
  <2>3. conns'[b][separator[b]].transfer \notin {"out", "spent"}
    BY <1>3, <2>1, <2>2, UsualOperations
  <2> QED
    BY <1>6, <2>1, <2>3
<1>7. ASSUME NEW b \in Buckets, Held(b)' # 0
      PROVE  Held(b) # 0
  <2>1. /\ top_onhold'[b] = top_onhold[b] /\ separator[b] <= separator'[b]
        /\ separator'[b] <= top_onhold[b]
    BY <1>1 DEF Popping
  <2> QED
    BY <1>2, <1>7, <2>1 DEF Held
<1>8. NoLostWakeup'
  <2> SUFFICES ASSUME NEW b \in Buckets, Held(b)' # 0
               PROVE  \/ ratelimit_timer'[b] = "add"
                      \/ \E i \in Slots :
                            /\ i < separator'[b]
                            /\ conns'[b][i].transfer \notin {"out", "spent"}
    BY DEF NoLostWakeup
  <2>1. CASE separator[b] < separator'[b]
    BY <1>6, <2>1
  <2>2. CASE ~(separator[b] < separator'[b])
    <3>1. PICK d \in Buckets : AddRemaining(d) /\ d # b
      BY <1>7, <2>2, PopLaunches
    <3>2. /\ ratelimit_timer'[b] = ratelimit_timer[b] /\ pc = "loop"
          /\ separator'[b] = separator[b]
      BY <3>1, PopLaunches DEF AddRemaining, TypeOK
    <3>3. \A i \in Slots : i < separator[b] => conns'[b][i] = conns[b][i]
      BY <1>1, <1>2, <3>2 DEF Popping
    <3> QED
      BY <1>7, <3>2, <3>3 DEF WakeInv, NoLostWakeup
  <2> QED
    BY <2>1, <2>2
<1> QED
  BY <1>4, <1>5, <1>8 DEF WakeInv

\* A connection changes and is not done: nothing else is asked of the queues.
LEMMA NowKeepsWake ==
    ASSUME UNCHANGED <<queues, limits>>, WakeInv,
           NEW b \in Buckets, NEW i \in Slots, NEW c,
           Now(b, i, c), Usual(c, i), c.transfer \notin {"out", "spent"},
           pc \in {"loop", "socket", "drain"}
    PROVE  WakeInv'
<1>1. UsualConns' /\ CalmTimers'
  BY UsualNow DEF WakeInv, CalmTimers, limits
<1>2. \A d \in Buckets : Held(d)' = Held(d) /\ separator'[d] = separator[d]
        /\ ratelimit_timer'[d] = ratelimit_timer[d]
  BY DEF Held, queues, limits
<1>3. \A d \in Buckets, j \in Slots :
        conns[d][j].transfer \notin {"out", "spent"} =>
            conns'[d][j].transfer \notin {"out", "spent"}
  BY DEF Now
<1>4. NoLostWakeup'
  BY <1>2, <1>3 DEF WakeInv, NoLostWakeup
<1> QED
  BY <1>1, <1>4 DEF WakeInv

\* A reply is read.  A 200 of a bucket with connections on hold leaves its timer
\* armed: if it was off, both counters were zero and the bucket fetches.
LEMMA ReplyKeepsWake ==
    ASSUME TypeOK, QueueShape, WakeInv, NEW b \in Buckets, NEW i \in Slots,
           Message(b, i)
    PROVE  WakeInv'
<1> USE DEF Draining
<1>0. conns[b][i] \in Conn /\ Usual(conns[b][i], i) /\ UsualConns
  BY DEF TypeOK, WakeInv, UsualConns
<1>1. CASE Reply200(b, i)
  <2>1. /\ UNCHANGED queues /\ pc \in {"socket", "drain"}
        /\ Now(b, i, AfterLoad(conns[b][i])) /\ Is200(conns[b][i])
    BY <1>1, ReplyEffect DEF Reply200
  <2>2. UsualConns'
    BY <1>0, <2>1, UsualOperations, UsualNow
  <2>3. \A d \in Buckets :
            Held(d)' = Held(d) /\ separator'[d] = separator[d]
    BY <2>1 DEF queues, Held
  <2>4. \A d \in Buckets, j \in Slots :
            d # b => conns'[d][j] = conns[d][j]
    BY <2>1 DEF Now
  <2>5. CASE Held(b) = 0
    <3>1. UNCHANGED limits
      BY <1>1, <2>5 DEF Reply200
    <3>2. CalmTimers'
      BY <3>1 DEF WakeInv, CalmTimers, limits
    <3>3. NoLostWakeup'
      BY <2>1, <2>3, <2>4, <2>5, <3>1 DEF WakeInv, NoLostWakeup, limits
    <3> QED
      BY <2>2, <3>2, <3>3 DEF WakeInv
  <2>6. CASE Held(b) # 0
    <3>1. ratelimit_timer'[b] = "add"
      <4>1. CASE ShouldFetch(b)
        <5>1. ratelimit_timer' = [ratelimit_timer EXCEPT ![b] = "add"]
          BY <1>1, <2>6, <4>1 DEF Reply200
        <5> QED
          BY <5>1 DEF TypeOK
      <4>2. CASE ~ShouldFetch(b)
        <5>1. ratelimit_timer[b] # "off" /\ ratelimit_timer[b] # "resume"
          BY <4>2 DEF WakeInv, CalmTimers, ShouldFetch
        <5>2. ratelimit_timer'[b] = ratelimit_timer[b]
          BY <1>1, <2>6, <4>2 DEF Reply200
        <5> QED
          BY <5>1, <5>2 DEF TypeOK
      <4> QED
        BY <4>1, <4>2
    <3>2. \A d \in Buckets : d # b =>
            /\ ratelimit_timer'[d] = ratelimit_timer[d]
            /\ finished'[d] = finished[d] /\ remaining'[d] = remaining[d]
      <4>1. /\ finished' = [finished EXCEPT ![b] = finished[b] + 1]
            /\ \/ UNCHANGED <<remaining, ratelimit_timer>>
               \/ /\ remaining' = [remaining EXCEPT ![b] = header.remaining]
                  /\ ratelimit_timer' = [ratelimit_timer EXCEPT ![b] = "add"]
        BY <1>1, <2>6 DEF Reply200
      <4> QED
        BY <4>1 DEF TypeOK
    <3>3. CalmTimers'
      BY <3>1, <3>2 DEF WakeInv, CalmTimers
    <3>4. NoLostWakeup'
      BY <2>1, <2>3, <2>4, <3>1, <3>2 DEF WakeInv, NoLostWakeup
    <3> QED
      BY <2>2, <3>3, <3>4 DEF WakeInv
  <2> QED
    BY <2>5, <2>6
<1>2. CASE ReplyLimited(b, i)
  BY <1>0, <1>2 DEF ReplyLimited, Usual
<1>3. CASE ReplyGlobal(b, i)
  <2>1. /\ UNCHANGED <<queues, limits>> /\ pc \in {"socket", "drain"}
        /\ Now(b, i, Repeats(conns[b][i])) /\ conns[b][i].transfer = "global"
    BY <1>3, ReplyEffect DEF ReplyGlobal
  <2>2. /\ Usual(Repeats(conns[b][i]), i)
        /\ Repeats(conns[b][i]).transfer = "sent"
    BY <1>0, <2>1, UsualOperations DEF Repeats, Conn
  <2> QED
    BY <2>1, <2>2, NowKeepsWake
\* A connection that curl refused is in the last slot: if it was popped, its
\* bucket has nothing left on hold.
<1>4. CASE ReplyNoUrl(b, i)
  <2>1. /\ UNCHANGED <<queues, limits>> /\ pc \in {"socket", "drain"}
        /\ Now(b, i, Ends(conns[b][i], "out"))
        /\ conns[b][i].transfer = "nourl"
    BY <1>4, ReplyEffect DEF ReplyNoUrl
  <2>2. UsualConns' /\ CalmTimers'
    BY <1>0, <2>1, UsualOperations, UsualNow DEF WakeInv, CalmTimers, limits
  <2>3. \A d \in Buckets :
            /\ Held(d)' = Held(d) /\ separator'[d] = separator[d]
            /\ ratelimit_timer'[d] = ratelimit_timer[d]
    BY <2>1 DEF queues, limits, Held
  <2>4. i < separator[b] => Held(b) = 0
    <3>1. i = QueueSize - 1
      BY <1>0, <2>1 DEF Usual
    <3> QED
      BY <3>1, ConcordApiAssumption
      DEF ConcordApiAssumption, TypeOK, QueueShape, Held
  <2>5. \A d \in Buckets, j \in Slots :
            ~(d = b /\ j = i) => conns'[d][j] = conns[d][j]
    BY <2>1 DEF Now
  <2>6. NoLostWakeup'
    BY <2>1, <2>3, <2>4, <2>5 DEF WakeInv, NoLostWakeup
  <2> QED
    BY <2>2, <2>6 DEF WakeInv
<1>5. CASE CallNull(b, i) \/ ReplyFatal(b, i)
  BY <1>5 DEF CallNull, ReplyFatal, WakeInv, UsualConns, CalmTimers,
              NoLostWakeup, limits
<1> QED
  BY <1>1, <1>2, <1>3, <1>4, <1>5 DEF Message

\* The network: parts of responses arrive, transfers end, curl refuses handles.
LEMMA NetworkKeepsWake ==
    ASSUME "limited" \notin Replies, TypeOK, WakeInv,
           NEW b \in Buckets, NEW i \in Slots, Network(b, i)
    PROVE  WakeInv'
<1>0. /\ conns[b][i] \in Conn /\ Usual(conns[b][i], i)
      /\ Replies \subseteq {"ok", "cut", "global", "fatal"}
  BY ConcordApiAssumption
  DEF ConcordApiAssumption, TypeOK, WakeInv, UsualConns, AllReplies
<1>1. UNCHANGED <<queues, limits>> /\ pc \in {"loop", "socket"}
  BY NetworkEffect
<1>2. CASE /\ conns[b][i].transfer = "sent"
           /\ Now(b, i, Received(conns[b][i]))
  <2>1. /\ Usual(Received(conns[b][i]), i)
        /\ Received(conns[b][i]).transfer = "recv"
    BY <1>0, <1>2, UsualOperations DEF Received, Conn
  <2> QED
    BY <1>1, <1>2, <2>1, NowKeepsWake
<1>3. ASSUME NEW reply \in Replies \cup {"nourl"}, Complete(b, i, reply),
             Now(b, i, Ends(conns[b][i], reply))
      PROVE  WakeInv'
  <2>1. \/ /\ conns[b][i].transfer = "recv"
           /\ reply \in {"ok", "cut", "global", "fatal"}
        \/ /\ conns[b][i].transfer = "sent" /\ conns[b][i].url # 0
           /\ reply = "fatal"
        \/ /\ conns[b][i].transfer = "sent" /\ conns[b][i].url = 0
           /\ reply = "nourl"
    BY <1>0, <1>3 DEF Complete
  <2>2. /\ Usual(Ends(conns[b][i], reply), i)
        /\ Ends(conns[b][i], reply).transfer \notin {"out", "spent"}
    BY <1>0, <2>1, UsualOperations DEF Ends, Conn
  <2> QED
    BY <1>1, <1>3, <2>2, NowKeepsWake
<1> QED
  BY <1>2, <1>3, NetworkEffect

\* The end of the loop leaves no timer armed, and gives at most the last slot
\* its request.
LEMMA ExitKeepsWake ==
    ASSUME TypeOK, WakeInv, LoopExit
    PROVE  WakeInv'
<1>1. UNCHANGED limits /\ pc' = "idle" /\ Len(calls) \in Nat
  BY DEF LoopExit, TypeOK
<1>2. CalmTimers' /\ NoLostWakeup'
  BY <1>1 DEF WakeInv, CalmTimers, NoLostWakeup, limits
<1>3. UsualConns'
  <2> SUFFICES ASSUME NEW d \in Buckets, NEW j \in Slots
               PROVE  Usual(conns'[d][j], j)
    BY DEF UsualConns
  <2>1. conns[d][j] \in Conn /\ Usual(conns[d][j], j)
    BY DEF TypeOK, WakeInv, UsualConns
  <2>2. \/ conns'[d][j] = conns[d][j]
        \/ j = QueueSize - 1 /\ conns'[d][j] = Filled(conns[d][j], Len(calls))
    <3>1. CASE UNCHANGED conns
      BY <3>1
    <3>2. ASSUME NEW b, NEW i, i = QueueSize - 1,
                 conns' = [conns EXCEPT ![b][i] =
                                Filled(conns[b][i], Len(calls))]
          PROVE  \/ conns'[d][j] = conns[d][j]
                 \/ /\ j = QueueSize - 1
                    /\ conns'[d][j] = Filled(conns[d][j], Len(calls))
      BY <3>2 DEF TypeOK
    <3> QED
      BY <3>1, <3>2 DEF LoopExit
  <2> QED
    BY <1>1, <2>1, <2>2, UsualRequests
<1> QED
  BY <1>2, <1>3 DEF WakeInv

\* WakeInv holds in every state.
LEMMA WakeAlways ==
    ASSUME "limited" \notin Replies
    PROVE  Spec => []WakeInv
<1>1. Init => WakeInv
  BY DEF Init, WakeInv, CalmTimers, UsualConns, Usual, Empty, NoLostWakeup
<1>2. TypeOK /\ QueueShape /\ WakeInv /\ [Next]_vars => WakeInv'
  <2> SUFFICES ASSUME TypeOK, QueueShape, WakeInv, [Next]_vars PROVE WakeInv'
    OBVIOUS
  <2>1. CASE UserNext \/ SyncNext
    BY <2>1, UserKeepsWake
  <2>2. CASE StartBuckets \/ \E b \in Buckets : AddRemaining(b)
    BY <2>2, PopKeepsWake
  <2>3. CASE \E b \in Buckets, i \in Slots : Network(b, i) \/ Message(b, i)
    BY <2>3, NetworkKeepsWake, ReplyKeepsWake
  <2>4. CASE \E b \in Buckets : Resume(b)
    BY <2>4 DEF Resume, WakeInv, CalmTimers
  <2>5. CASE LoopExit
    BY <2>5, ExitKeepsWake
  <2>6. CASE UNCHANGED vars
    BY <2>6 DEF vars, queues, limits, WakeInv, CalmTimers, UsualConns,
                NoLostWakeup, Held
  <2>7. CASE EndSocketEvent \/ LoopExitAborts
    BY <2>7 DEF EndSocketEvent, LoopExitAborts, Draining, queues, limits,
                WakeInv, CalmTimers, UsualConns, NoLostWakeup, Held
  <2> QED
    BY <2>1, <2>2, <2>3, <2>4, <2>5, <2>6, <2>7 DEF Next, LoopNext
<1> QED
  BY <1>1, <1>2, TypeCorrect, QueueShapeCorrect, PTL DEF Spec

\* While the server limits no single bucket, no bucket is left with connections
\* on hold and nothing that will let them go.
THEOREM NoLostWakeupCorrect ==
    ASSUME "limited" \notin Replies
    PROVE  Spec => []NoLostWakeup
<1>1. WakeInv => NoLostWakeup
  BY DEF WakeInv
<1> QED
  BY <1>1, WakeAlways, PTL

-----------------------------------------------------------------------------
(* NothingLeftBehind: the loop only ends when nothing is in flight and no   *)
(* timer is armed, so that nothing is on hold either; and curl's count of   *)
(* running handles never exceeds the handles that are added.                *)

RunningBound == transfers_running <= Cardinality(InFlight)

\* A step that leaves every transfer in flight there keeps the bound.
LEMMA StillInFlight ==
    ASSUME TypeOK, RunningBound, UNCHANGED transfers_running,
           \A b \in Buckets, i \in Slots :
                conns[b][i].transfer \in {"sent", "recv"} =>
                    conns'[b][i].transfer \in {"sent", "recv"}
    PROVE  RunningBound'
<1>1. InFlight \subseteq InFlight'
  BY DEF InFlight
<1>2. IsFiniteSet(InFlight')
  BY InFlightFinite, FS_Subset DEF InFlight
<1>3. /\ Cardinality(InFlight) <= Cardinality(InFlight')
      /\ Cardinality(InFlight) \in Nat /\ Cardinality(InFlight') \in Nat
  BY <1>1, <1>2, FS_Subset, FS_CardinalityType, InFlightFinite
<1>4. transfers_running \in Nat
  BY DEF TypeOK
<1> QED
  BY <1>3, <1>4 DEF RunningBound

\* The socket action of curl stores the number of handles that still run.
LEMMA NetworkCounts ==
    ASSUME TypeOK, NEW b \in Buckets, NEW i \in Slots, Network(b, i)
    PROVE  RunningBound'
<1> USE DEF RunningBound
<1>1. ASSUME NEW n \in Remainders, ReceiveHeaders(b, i, n)
      PROVE  RunningBound'
  <2>1. /\ conns' = [conns EXCEPT ![b][i] = Received(conns[b][i])]
        /\ transfers_running' = Cardinality(InFlight)
        /\ conns[b][i].transfer = "sent" /\ conns[b][i] \in Conn
    BY <1>1 DEF ReceiveHeaders, TypeOK
  <2>2. Received(conns[b][i]).transfer = "recv"
    BY <2>1 DEF Received, Conn
  <2>3. \A s \in Buckets \X Slots :
            conns'[s[1]][s[2]].transfer \in {"sent", "recv"} <=>
                conns[s[1]][s[2]].transfer \in {"sent", "recv"}
    BY <2>1, <2>2, OneConn DEF Now
  <2>4. InFlight' = InFlight
    BY <2>3 DEF InFlight
  <2> QED
    BY <2>1, <2>4, InFlightFinite
<1>2. ASSUME NEW reply \in Replies \cup {"nourl"}, Complete(b, i, reply)
      PROVE  RunningBound'
  <2>1. conns[b][i] \in Conn
    BY DEF TypeOK
  <2>2. conns' = [conns EXCEPT ![b][i] = Ends(conns[b][i], reply)]
    BY <1>2 DEF Complete, TypeOK, Conn, Ends
  <2>3. reply \notin {"sent", "recv"}
    <3>1. reply \in AllReplies \cup {"nourl"}
      BY ConcordApiAssumption DEF ConcordApiAssumption
    <3> QED
      BY <3>1 DEF AllReplies
  <2>4. Ends(conns[b][i], reply).transfer \notin {"sent", "recv"}
    BY <2>1, <2>3 DEF Ends, Conn
  <2>5. \A d \in Buckets, j \in Slots :
            conns'[d][j].transfer \in {"sent", "recv"} <=>
                /\ conns[d][j].transfer \in {"sent", "recv"}
                /\ <<d, j>> # <<b, i>>
    <3>1. Now(b, i, Ends(conns[b][i], reply))
      BY <2>2, OneConn
    <3> QED
      BY <2>4, <3>1 DEF Now
  <2>6. InFlight' = InFlight \ {<<b, i>>}
    <3>1. ASSUME NEW s \in Buckets \X Slots
          PROVE  s \in InFlight' <=> s \in InFlight /\ s # <<b, i>>
      <4>1. PICK d \in Buckets, j \in Slots : s = <<d, j>>
        OBVIOUS
      <4> QED
        BY <2>5, <4>1 DEF InFlight
    <3>2. InFlight \subseteq Buckets \X Slots
      BY DEF InFlight
    <3>3. InFlight' \subseteq Buckets \X Slots
      BY DEF InFlight
    <3> QED
      BY <3>1, <3>2, <3>3
  <2>7. /\ transfers_running' = Cardinality(InFlight \ {<<b, i>>})
        /\ Cardinality(InFlight \ {<<b, i>>}) \in Nat
    BY <1>2, InFlightFinite DEF Complete
  <2> HIDE DEF InFlight
  <2>8. /\ transfers_running' = Cardinality(InFlight')
        /\ transfers_running' \in Nat
    BY <2>6, <2>7
  <2> QED
    BY <2>8
<1> QED
  BY <1>1, <1>2 DEF Network, SocketComplete, TimeoutComplete

\* Nothing but the end of a transfer takes it out of flight: without pauses no
\* handle is removed while it runs.
LEMMA BoundNext ==
    ASSUME TypeOK, QueueShape, WakeInv, RunningBound, [Next]_vars
    PROVE  RunningBound'
<1>0. \A b \in Buckets, i \in Slots :
        conns[b][i] \in Conn /\ Usual(conns[b][i], i)
  BY DEF TypeOK, WakeInv, UsualConns
<1>1. ASSUME NEW b \in Buckets, NEW i \in Slots, NEW c, Now(b, i, c),
             conns[b][i].transfer \in {"sent", "recv"} =>
                c.transfer \in {"sent", "recv"},
             UNCHANGED transfers_running
      PROVE  RunningBound'
  BY <1>1, StillInFlight DEF Now
<1>2. ASSUME NEW n \in Remainders, SyncOk(n) PROVE RunningBound'
  <2>1. UNCHANGED transfers_running
    BY <1>2 DEF SyncOk
  <2>2. CASE UNCHANGED conns
    BY <2>1, <2>2, StillInFlight
  <2>3. ASSUME NEW b \in Buckets, NEW i \in Slots, FreeSlot(b, i),
               Now(b, i, Registered(Len(calls)))
        PROVE  RunningBound'
    <3>1. conns[b][i].transfer = "out"
      BY <1>0, <2>3 DEF FreeSlot, Usual
    <3> QED
      BY <1>1, <2>1, <2>3, <3>1
  <2> QED
    BY <1>2, <2>2, <2>3, SyncOkEffect
<1>3. ASSUME NEW k \in Keys, Enqueue(k) PROVE RunningBound'
  <2>1. PICK b, i : b = bucket_dict[k] /\ i = top_onhold[b]
    OBVIOUS
  <2>2. /\ b \in Buckets /\ i \in Slots /\ UNCHANGED transfers_running
        /\ Now(b, i, IF Fills(b) THEN OnHold(conns[b][i])
                     ELSE Filled(OnHold(conns[b][i]), Len(calls) + 1))
    BY <1>3, <2>1, EnqueueEffect DEF Enqueue
  <2>3. /\ OnHold(conns[b][i]).transfer = conns[b][i].transfer
        /\ Filled(OnHold(conns[b][i]), Len(calls) + 1).transfer
                = conns[b][i].transfer
    BY <1>0, <2>2 DEF OnHold, Filled, Conn
  <2>4. CASE Fills(b)
    BY <1>1, <2>2, <2>3, <2>4
  <2>5. CASE ~Fills(b)
    BY <1>1, <2>2, <2>3, <2>5
  <2> QED
    BY <2>4, <2>5
<1>4. CASE StartBuckets \/ \E b \in Buckets : AddRemaining(b)
  <2>1. Popping /\ UNCHANGED transfers_running
    BY <1>4, PopEffect DEF StartBuckets, AddRemaining
  <2>2. \A b \in Buckets, i \in Slots :
            conns[b][i].transfer \in {"sent", "recv"} =>
                Launch(conns[b][i]).transfer \in {"sent", "recv"}
    BY <1>0 DEF Launch, Added, Conn
  <2> QED
    BY <2>1, <2>2, StillInFlight DEF Popping
<1>5. ASSUME NEW b \in Buckets, NEW i \in Slots, Message(b, i)
      PROVE  RunningBound'
  <2>1. CASE Reply200(b, i)
    BY <1>1, <2>1, ReplyEffect DEF Reply200, Is200
  <2>2. CASE ReplyLimited(b, i)
    BY <1>0, <2>2 DEF ReplyLimited, Usual
  <2>3. CASE ReplyGlobal(b, i)
    BY <1>1, <2>3, ReplyEffect DEF ReplyGlobal
  <2>4. CASE ReplyNoUrl(b, i)
    BY <1>1, <2>4, ReplyEffect DEF ReplyNoUrl
  <2>5. CASE CallNull(b, i) \/ ReplyFatal(b, i)
    BY <2>5, StillInFlight DEF CallNull, ReplyFatal
  <2> QED
    BY <1>5, <2>1, <2>2, <2>3, <2>4, <2>5 DEF Message
<1>6. CASE LoopExit
  <2>1. InFlight = {} /\ UNCHANGED transfers_running
    BY <1>6 DEF LoopExit, LoopEnds
  <2>2. \A b \in Buckets, i \in Slots :
            <<b, i>> \in Buckets \X Slots /\ <<b, i>> \notin InFlight
    BY <2>1
  <2>3. \A b \in Buckets, i \in Slots :
            conns[b][i].transfer \notin {"sent", "recv"}
    BY <2>2 DEF InFlight
  <2> QED
    BY <2>1, <2>3, StillInFlight
<1>7. CASE \E b \in Buckets : Resume(b)
  BY <1>7 DEF Resume, WakeInv, CalmTimers
<1>8. CASE \/ \E k \in Keys : Register(k)
           \/ Dispatch \/ SyncFatal \/ EndSocketEvent \/ LoopExitAborts
           \/ \E n \in Remainders : SyncLimited(n)
           \/ UNCHANGED vars
  BY <1>8, StillInFlight
  DEF Register, Dispatch, SyncFatal, EndSocketEvent, LoopExitAborts,
      SyncLimited, vars
<1> QED
  BY <1>2, <1>3, <1>4, <1>5, <1>6, <1>7, <1>8, NetworkCounts
  DEF Next, UserNext, SyncNext, LoopNext

\* When the loop ends, the only message that may be unread is that of the last
\* slot of a queue, and below it nothing of its bucket is on hold.
LEMMA EndHoldsNothing ==
    ASSUME TypeOK, QueueShape, WakeInv, BodyInv, LoopEnds,
           NEW b \in Buckets
    PROVE  Held(b) = 0
<1> SUFFICES ASSUME Held(b) # 0 PROVE FALSE
  OBVIOUS
<1>1. /\ pc = "loop" /\ InFlight = {} /\ ratelimit_timer[b] = "off"
  BY DEF LoopEnds
<1>2. PICK i \in Slots : /\ i < separator[b]
                         /\ conns[b][i].transfer \notin {"out", "spent"}
  BY <1>1 DEF WakeInv, NoLostWakeup
<1>3. conns[b][i].transfer \notin {"sent", "recv"}
  <2>1. <<b, i>> \in Buckets \X Slots /\ <<b, i>> \notin InFlight
    BY <1>1
  <2> QED
    BY <2>1 DEF InFlight
<1>4. conns[b][i].transfer = "nourl"
  <2>1. conns[b][i] \in Conn /\ Read(conns[b][i])
    BY <1>1 DEF TypeOK, BodyInv
  <2> QED
    BY <1>2, <1>3, <2>1 DEF Conn, Transfer, Read
<1>5. i = QueueSize - 1
  BY <1>4 DEF WakeInv, UsualConns, Usual
<1> QED
  BY <1>2, <1>5, ConcordApiAssumption
  DEF ConcordApiAssumption, TypeOK, QueueShape, Held

\* While the server limits no single bucket and transfers end in socket events,
\* both assertions after uv_run hold, full queues and refused handles included.
THEOREM NothingLeftBehindCorrect ==
    ASSUME "limited" \notin Replies, ~TimeoutCompletes
    PROVE  Spec => []NothingLeftBehind
<1>1. Init => RunningBound
  BY InFlightFinite DEF Init, RunningBound
<1>2. TypeOK /\ QueueShape /\ WakeInv /\ RunningBound /\ [Next]_vars
        => RunningBound'
  BY BoundNext
<1>3. TypeOK /\ QueueShape /\ OnholdCount /\ WakeInv /\ BodyInv
        /\ RunningBound => NothingLeftBehind
  <2> SUFFICES ASSUME TypeOK, QueueShape, OnholdCount, WakeInv, BodyInv,
                      RunningBound, LoopEnds
               PROVE  transfers_onhold = 0 /\ transfers_running = 0
    BY DEF NothingLeftBehind, LeftOver
  <2>1. HeldConns = {}
    <3> SUFFICES ASSUME NEW s \in HeldConns PROVE FALSE
      OBVIOUS
    <3>1. /\ s[1] \in Buckets /\ s[2] \in Int
          /\ separator[s[1]] <= s[2] /\ s[2] < top_onhold[s[1]]
      BY DEF HeldConns, Slots
    <3>2. /\ Held(s[1]) = 0 /\ separator[s[1]] \in Nat
          /\ top_onhold[s[1]] = separator[s[1]] + Held(s[1])
      BY <3>1, EndHoldsNothing, HeldNat
    <3> QED
      BY <3>1, <3>2
  <2>2. transfers_onhold = 0
    BY <2>1, FS_EmptySet DEF OnholdCount
  <2>3. transfers_running = 0
    <3>1. InFlight = {} /\ transfers_running \in Nat
      BY DEF LoopEnds, TypeOK
    <3> QED
      BY <3>1, FS_EmptySet DEF RunningBound
  <2> QED
    BY <2>2, <2>3
<1> QED
  BY <1>1, <1>2, <1>3, TypeCorrect, QueueShapeCorrect, OnholdCountCorrect,
     WakeAlways, BodyAlways, PTL DEF Spec

-----------------------------------------------------------------------------
(* HeldReady, and what the refinement needs: as long as no queue fills up,  *)
(* an object is on a connection exactly while its request waits on hold or  *)
(* its transfer is under way.                                               *)

\* No queue has its last slot on hold.
RoomLeft == \A b \in Buckets : top_onhold[b] < QueueSize

OnHoldAt(b, i) == separator[b] <= i /\ i < top_onhold[b]

\* A body with the response to request r and nothing else.
Only(r) == [last |-> r, before |-> {}]

\* What is true of one connection by itself.
Whole(c) ==
    /\ c.status = "NULL" => c.transfer = "out" /\ c.object = 0
    /\ c.status # "NULL" => c.url # 0
    /\ \/ c.transfer \in {"out", "sent"} /\ c.body = NoBody
       \/ c.transfer \in {"recv", "ok", "cut", "global"} /\ c.body = Only(c.url)
       \/ c.transfer = "fatal"
    /\ c.transfer = "cut" => "cut" \in Replies
    /\ c.object \in {0, c.url}

\* Where a connection may be, below separator or on hold.
Placed(c, below, held) ==
    /\ c.transfer # "out" => below /\ c.object # 0
    /\ c.object # 0 /\ c.transfer = "out" => held
    /\ held => c.status = "ONHOLD" /\ c.transfer = "out" /\ c.object # 0

\* What the thread leaves of the transfers when it goes on.
Settled(c) ==
    /\ pc \in {"idle", "sync", "run"} => c.transfer = "out"
    /\ pc = "loop" => c.transfer \in {"out", "sent", "recv"}

PlacedAt(b, i) == /\ Whole(conns[b][i])
                  /\ Placed(conns[b][i], i < separator[b], OnHoldAt(b, i))
                  /\ Settled(conns[b][i])

ServiceInv == /\ caller = "user"
              /\ \A b \in Buckets, i \in Slots : PlacedAt(b, i)

\* The operations on a connection keep it whole; a new request may only be
\* given to one that is off the wire.
LEMMA WholeOperations ==
    ASSUME NEW c \in Conn, Whole(c)
    PROVE  /\ c.status # "NULL" => Whole(Launch(c))
           /\ c.transfer = "sent" => Whole(Received(c))
           /\ Is200(c) => Whole(AfterLoad(c))
           /\ c.transfer = "global" => Whole(Repeats(c))
           /\ c.transfer = "recv" => \A reply \in Replies \ {"limited"} :
                Whole(Ends(c, reply))
           /\ c.transfer = "sent" => Whole(Ends(c, "fatal"))
           /\ c.transfer = "out" => \A r \in Nat \ {0} :
                Whole(Filled(OnHold(c), r)) /\ Whole(Registered(r))
<1>1. c.transfer = "out" => \A r \in Nat \ {0} :
                Whole(Filled(OnHold(c), r)) /\ Whole(Registered(r))
  BY DEF Whole, Conn, Filled, OnHold, Registered, Empty
<1>2. c.transfer = "recv" => \A reply \in Replies \ {"limited"} :
                Whole(Ends(c, reply))
  BY ConcordApiAssumption
  DEF ConcordApiAssumption, AllReplies, Whole, Conn, Ends
<1>7. c.transfer = "sent" => Whole(Ends(c, "fatal"))
  BY DEF Whole, Conn, Ends
<1>3. c.transfer = "global" => Whole(Repeats(c))
  BY DEF Whole, Conn, Repeats
<1>4. Is200(c) => Whole(AfterLoad(c))
  BY DEF Whole, Conn, AfterLoad, Is200
<1>5. c.transfer = "sent" => Whole(Received(c))
  <2> SUFFICES ASSUME c.transfer = "sent" PROVE Whole(Received(c))
    OBVIOUS
  <2>1. c.body = NoBody
    BY DEF Whole
  <2>2. (c.body.before \cup {c.body.last}) \ {0} = {}
    BY <2>1 DEF NoBody
  <2>3. Received(c) = [c EXCEPT !.transfer = "recv", !.body = Only(c.url)]
    BY <2>2 DEF Received, Only, Conn
  <2> QED
    BY <2>3 DEF Whole, Conn
<1>6. c.status # "NULL" => Whole(Launch(c))
  BY DEF Whole, Conn, Launch, Added
<1> QED
  BY <1>1, <1>2, <1>3, <1>4, <1>5, <1>6, <1>7

\* A connection in flight changes while the indices stay.
LEMMA NowKeepsPlaces ==
    ASSUME TypeOK, ServiceInv, UNCHANGED <<caller, queues>>,
           NEW b \in Buckets, NEW i \in Slots, NEW c, Now(b, i, c),
           Whole(c), Placed(c, i < separator[b], OnHoldAt(b, i)),
           pc' \in {"socket", "drain"}
    PROVE  ServiceInv'
<1> SUFFICES ASSUME NEW d \in Buckets, NEW j \in Slots
             PROVE  PlacedAt(d, j)'
  BY DEF ServiceInv
<1>1. PlacedAt(d, j) /\ UNCHANGED <<separator, top_onhold>>
  BY DEF ServiceInv, queues
<1>2. OnHoldAt(d, j)' = OnHoldAt(d, j)
  BY <1>1 DEF OnHoldAt
<1>3. Settled(conns[d][j])'
  BY DEF Settled
<1>4. CASE d = b /\ j = i
  <2>1. conns'[d][j] = c
    BY <1>4 DEF Now
  <2> QED
    BY <1>1, <1>2, <1>3, <1>4, <2>1 DEF PlacedAt
<1>5. CASE ~(d = b /\ j = i)
  <2>1. conns'[d][j] = conns[d][j]
    BY <1>5 DEF Now
  <2> QED
    BY <1>1, <1>2, <1>3, <2>1 DEF PlacedAt
<1> QED
  BY <1>4, <1>5

\* A step that leaves connections and indices alone.
LEMMA StillKeepsPlaces ==
    ASSUME ServiceInv, UNCHANGED <<conns, queues>>, caller' = "user",
           \A b \in Buckets, i \in Slots :
                Settled(conns[b][i]) => Settled(conns[b][i])'
    PROVE  ServiceInv'
BY DEF ServiceInv, PlacedAt, OnHoldAt, queues

\* The user's calls and the answers to a registration: a request goes on hold
\* on a connection that is off the wire.
LEMMA UserKeepsPlaces ==
    ASSUME TypeOK, QueueShape, RoomLeft, RoomLeft', ServiceInv,
           UserNext \/ SyncNext
    PROVE  ServiceInv'
<1>0. \A b \in Buckets, i \in Slots :
        /\ conns[b][i] \in Conn /\ PlacedAt(b, i) /\ i \in Int
        /\ separator[b] \in Nat /\ top_onhold[b] \in Nat
        /\ separator[b] <= top_onhold[b]
  <2> SUFFICES ASSUME NEW b \in Buckets, NEW i \in Slots
               PROVE  /\ conns[b][i] \in Conn /\ PlacedAt(b, i) /\ i \in Int
                      /\ separator[b] \in Nat /\ top_onhold[b] \in Nat
                      /\ separator[b] <= top_onhold[b]
    OBVIOUS
  <2>1. PlacedAt(b, i)
    BY DEF ServiceInv
  <2>2. i \in Int
    BY DEF Slots
  <2> QED
    BY <2>1, <2>2 DEF TypeOK, QueueShape
<1>1. CASE \/ \E k \in Keys : Register(k)
           \/ Dispatch
           \/ \E n \in Remainders : SyncLimited(n)
           \/ SyncFatal
  <2>1. /\ UNCHANGED <<conns, queues>> /\ caller' = "user"
        /\ pc \in {"idle", "sync"}
        /\ pc' \in {"idle", "sync", "run", "aborted"}
    BY <1>1 DEF Register, Dispatch, SyncLimited, SyncFatal, ServiceInv
  <2> QED
    BY <2>1, StillKeepsPlaces DEF Settled
<1>2. ASSUME NEW n \in Remainders, SyncOk(n) PROVE ServiceInv'
  <2>1. /\ UNCHANGED <<caller, queues>> /\ pc = "sync"
    BY <1>2, SyncOkEffect
  <2>2. Len(calls) \in Nat \ {0}
    BY <1>2, CallsFacts DEF TypeOK, SyncOk
  <2>3. CASE UNCHANGED conns /\ pc' \in {"aborted", "crashed"}
    BY <2>1, <2>3, StillKeepsPlaces DEF Settled, ServiceInv
  <2>4. ASSUME pc' = "idle", NEW b \in Buckets, NEW i \in Slots,
               FreeSlot(b, i), Now(b, i, Registered(Len(calls)))
        PROVE  ServiceInv'
    <3> SUFFICES ASSUME NEW d \in Buckets, NEW j \in Slots
                 PROVE  PlacedAt(d, j)'
      BY <2>1 DEF ServiceInv
    <3>1. UNCHANGED <<separator, top_onhold>>
      BY <2>1 DEF queues
    <3>2. conns[d][j].transfer = "out"
      BY <1>0, <2>1 DEF PlacedAt, Settled
    <3>3. CASE d = b /\ j = i
      <4>1. conns'[d][j] = Registered(Len(calls)) /\ top_onhold[d] <= j
        BY <2>4, <3>3 DEF Now, FreeSlot
      <4>2. /\ Whole(Registered(Len(calls)))
            /\ Registered(Len(calls)).object = 0
            /\ Registered(Len(calls)).transfer = "out"
        BY <1>0, <2>2, <3>2, WholeOperations, RegisteredConn
        DEF PlacedAt, Registered, Empty
      <4>3. ~OnHoldAt(d, j)'
        BY <1>0, <3>1, <4>1 DEF OnHoldAt
      <4> QED
        BY <4>1, <4>2, <4>3 DEF PlacedAt, Placed, Settled
    <3>4. CASE ~(d = b /\ j = i)
      <4>1. conns'[d][j] = conns[d][j]
        BY <2>4, <3>4 DEF Now
      <4> QED
        BY <1>0, <3>1, <3>2, <4>1 DEF PlacedAt, Settled, OnHoldAt
    <3> QED
      BY <3>3, <3>4
  <2> QED
    BY <1>2, <2>3, <2>4, SyncOkEffect
<1>3. ASSUME NEW k \in Keys, Enqueue(k) PROVE ServiceInv'
  <2>1. PICK b, i : b = bucket_dict[k] /\ i = top_onhold[b]
    OBVIOUS
  <2>2. /\ b \in Buckets /\ i \in Slots /\ Len(calls) \in Nat
        /\ Now(b, i, IF Fills(b) THEN OnHold(conns[b][i])
                     ELSE Filled(OnHold(conns[b][i]), Len(calls) + 1))
        /\ pc = "idle" /\ separator' = separator
        /\ top_onhold' = [top_onhold EXCEPT ![b] = i + 1]
    BY <1>3, <2>1, EnqueueEffect DEF Enqueue
  <2>3. ~Fills(b)
    BY <2>1, <2>2 DEF RoomLeft, Fills, TypeOK
  <2>4. pc' = "idle" /\ caller' = "user"
    BY <1>3, <2>1, <2>3 DEF Enqueue, ServiceInv
  <2> SUFFICES ASSUME NEW d \in Buckets, NEW j \in Slots
               PROVE  PlacedAt(d, j)'
    BY <2>4 DEF ServiceInv
  <2>5. conns[d][j].transfer = "out"
    BY <1>0, <2>2 DEF PlacedAt, Settled
  <2>6. top_onhold'[d] = IF d = b THEN i + 1 ELSE top_onhold[d]
    BY <2>2 DEF TypeOK
  <2>7. CASE d = b /\ j = i
    <3> DEFINE c == Filled(OnHold(conns[b][i]), Len(calls) + 1)
    <3>1. conns'[d][j] = c
      BY <2>2, <2>3, <2>7 DEF Now
    <3>2. Len(calls) + 1 \in Nat \ {0} /\ conns[b][i] \in Conn
      BY <1>0, <2>2
    <3>3. Whole(c)
      BY <1>0, <2>2, <2>5, <2>7, <3>2, WholeOperations DEF PlacedAt
    <3>4. c.object # 0 /\ c.transfer = "out" /\ c.status = "ONHOLD"
      BY <2>5, <2>7, <3>2 DEF Filled, OnHold, Conn
    <3>5. OnHoldAt(d, j)'
      BY <1>0, <2>1, <2>2, <2>6, <2>7 DEF OnHoldAt
    <3> HIDE DEF c
    <3> QED
      BY <2>4, <3>1, <3>3, <3>4, <3>5 DEF PlacedAt, Placed, Settled
  <2>8. CASE ~(d = b /\ j = i)
    <3>1. conns'[d][j] = conns[d][j]
      BY <2>2, <2>8 DEF Now
    <3>2. OnHoldAt(d, j)' <=> OnHoldAt(d, j)
      BY <1>0, <2>1, <2>2, <2>6, <2>8 DEF OnHoldAt
    <3> QED
      BY <1>0, <2>2, <2>4, <3>1, <3>2 DEF PlacedAt, Placed, Settled
  <2> QED
    BY <2>7, <2>8
<1> QED
  BY <1>1, <1>2, <1>3 DEF UserNext, SyncNext

\* What is popped goes from on hold to below separator, and on the wire.
LEMMA PopKeepsPlaces ==
    ASSUME TypeOK, QueueShape, ServiceInv,
           StartBuckets \/ \E b \in Buckets : AddRemaining(b)
    PROVE  ServiceInv'
<1>1. Popping
  BY PopEffect
<1>2. /\ pc \in {"run", "loop"} /\ pc' = "loop" /\ caller' = "user"
      /\ \A b \in Buckets : /\ separator[b] \in Nat /\ top_onhold[b] \in Nat
                            /\ separator'[b] \in Nat
      /\ Slots \subseteq Int
  <2>1. TypeOK'
    BY TypeNext DEF Next, LoopNext
  <2> QED
    BY <2>1 DEF TypeOK, Slots, StartBuckets, AddRemaining, ServiceInv
<1> SUFFICES ASSUME NEW b \in Buckets, NEW i \in Slots
             PROVE  PlacedAt(b, i)'
  BY <1>2 DEF ServiceInv
<1>3. conns[b][i] \in Conn /\ PlacedAt(b, i)
  BY DEF TypeOK, ServiceInv
<1>4. /\ top_onhold'[b] = top_onhold[b] /\ separator[b] <= separator'[b]
      /\ separator'[b] <= top_onhold[b]
      /\ conns'[b][i] = IF separator[b] <= i /\ i < separator'[b]
                        THEN Launch(conns[b][i]) ELSE conns[b][i]
  BY <1>1 DEF Popping
<1>5. CASE separator[b] <= i /\ i < separator'[b]
  <2>1. OnHoldAt(b, i) /\ ~OnHoldAt(b, i)'
    BY <1>2, <1>4, <1>5 DEF OnHoldAt
  <2>2. /\ conns[b][i].status = "ONHOLD" /\ conns[b][i].transfer = "out"
        /\ conns[b][i].object # 0
    BY <1>3, <2>1 DEF PlacedAt, Placed
  <2>3. /\ Whole(Launch(conns[b][i])) /\ Launch(conns[b][i]).transfer = "sent"
        /\ Launch(conns[b][i]).object # 0
    BY <1>3, <2>2, WholeOperations DEF PlacedAt, Launch, Added, Conn
  <2> QED
    BY <1>2, <1>4, <1>5, <2>1, <2>3 DEF PlacedAt, Placed, Settled
<1>6. CASE ~(separator[b] <= i /\ i < separator'[b])
  <2>1. /\ conns'[b][i] = conns[b][i]
        /\ OnHoldAt(b, i)' <=> OnHoldAt(b, i)
        /\ i < separator[b] => i < separator'[b]
    BY <1>2, <1>4, <1>6 DEF OnHoldAt
  <2>2. Settled(conns[b][i])'
    BY <1>2, <1>3, <2>1 DEF PlacedAt, Settled
  <2> QED
    BY <1>3, <2>1, <2>2 DEF PlacedAt, Placed
<1> QED
  BY <1>5, <1>6

\* The network: only requests with an object are on the wire, so each has a URL
\* and ends with its own response, in a socket event.
LEMMA NetworkKeepsPlaces ==
    ASSUME "limited" \notin Replies, ~TimeoutCompletes, TypeOK, ServiceInv,
           NEW b \in Buckets, NEW i \in Slots, Network(b, i)
    PROVE  ServiceInv'
<1>0. /\ conns[b][i] \in Conn /\ PlacedAt(b, i)
      /\ Replies \subseteq {"ok", "cut", "global", "fatal"}
  BY ConcordApiAssumption
  DEF ConcordApiAssumption, TypeOK, ServiceInv, AllReplies
<1>1. UNCHANGED <<caller, queues>>
  BY NetworkEffect
<1>2. CASE /\ pc' = "socket" /\ conns[b][i].transfer = "sent"
           /\ Now(b, i, Received(conns[b][i]))
  <2>1. Whole(Received(conns[b][i]))
    BY <1>0, <1>2, WholeOperations DEF PlacedAt
  <2>2. Placed(Received(conns[b][i]), i < separator[b], OnHoldAt(b, i))
    BY <1>0, <1>2 DEF PlacedAt, Placed, Received, Conn
  <2> QED
    BY <1>1, <1>2, <2>1, <2>2, NowKeepsPlaces
<1>3. ASSUME NEW reply \in Replies \cup {"nourl"}, Complete(b, i, reply),
             pc' = "socket" \/ TimeoutCompletes \/ reply = "nourl",
             Now(b, i, Ends(conns[b][i], reply))
      PROVE  ServiceInv'
  <2>1. /\ \/ conns[b][i].transfer = "recv" /\ reply \in Replies \ {"limited"}
           \/ conns[b][i].transfer = "sent" /\ reply = "fatal"
        /\ reply # "out" /\ pc' = "socket"
    <3>1. ~(conns[b][i].transfer = "sent" /\ conns[b][i].url = 0)
      BY <1>0 DEF PlacedAt, Whole
    <3> QED
      BY <1>0, <1>3, <3>1 DEF Complete
  <2>2. Whole(Ends(conns[b][i], reply))
    BY <1>0, <2>1, WholeOperations DEF PlacedAt
  <2>3. Placed(Ends(conns[b][i], reply), i < separator[b], OnHoldAt(b, i))
    BY <1>0, <2>1 DEF PlacedAt, Placed, Ends, Conn
  <2> QED
    BY <1>1, <1>3, <2>1, <2>2, <2>3, NowKeepsPlaces
<1> QED
  BY <1>2, <1>3, NetworkEffect

\* A reply is read: the object is loaded and forgotten, or sent for again.
LEMMA ReplyKeepsPlaces ==
    ASSUME TypeOK, ServiceInv, NEW b \in Buckets, NEW i \in Slots,
           Message(b, i)
    PROVE  ServiceInv'
<1>0. conns[b][i] \in Conn /\ PlacedAt(b, i)
  BY DEF TypeOK, ServiceInv
<1>1. CASE Reply200(b, i)
  <2>1. /\ UNCHANGED <<caller, queues>> /\ pc' = "drain"
        /\ Now(b, i, AfterLoad(conns[b][i])) /\ Is200(conns[b][i])
    BY <1>1, ReplyEffect DEF Reply200
  <2>2. Whole(AfterLoad(conns[b][i]))
    BY <1>0, <2>1, WholeOperations DEF PlacedAt
  <2>3. Placed(AfterLoad(conns[b][i]), i < separator[b], OnHoldAt(b, i))
    BY <1>0, <2>1 DEF PlacedAt, Placed, AfterLoad, Conn, Is200
  <2> QED
    BY <2>1, <2>2, <2>3, NowKeepsPlaces
<1>2. CASE ReplyGlobal(b, i)
  <2>1. /\ UNCHANGED <<caller, queues>> /\ pc' = "drain"
        /\ Now(b, i, Repeats(conns[b][i])) /\ conns[b][i].transfer = "global"
    BY <1>2, ReplyEffect DEF ReplyGlobal
  <2>2. Whole(Repeats(conns[b][i]))
    BY <1>0, <2>1, WholeOperations DEF PlacedAt
  <2>3. Placed(Repeats(conns[b][i]), i < separator[b], OnHoldAt(b, i))
    BY <1>0, <2>1 DEF PlacedAt, Placed, Repeats, Conn
  <2> QED
    BY <2>1, <2>2, <2>3, NowKeepsPlaces
<1>3. CASE ReplyLimited(b, i) \/ ReplyNoUrl(b, i)
  BY <1>0, <1>3 DEF ReplyLimited, ReplyNoUrl, PlacedAt, Whole
<1>4. CASE CallNull(b, i) \/ ReplyFatal(b, i)
  <2>1. /\ UNCHANGED <<caller, conns, queues>>
        /\ pc' \in {"aborted", "crashed"}
    BY <1>4 DEF CallNull, ReplyFatal
  <2> QED
    BY <2>1, StillKeepsPlaces DEF Settled, ServiceInv
<1> QED
  BY <1>1, <1>2, <1>3, <1>4 DEF Message

\* The loop ends with nothing in flight and nothing on hold: no connection has
\* an object any more.
LEMMA ExitEmpty ==
    ASSUME TypeOK, QueueShape, OnholdCount, ServiceInv, LoopExit
    PROVE  /\ UNCHANGED conns
           /\ \A b \in Buckets, i \in Slots :
                /\ ~OnHoldAt(b, i) /\ conns[b][i].transfer = "out"
                /\ conns[b][i].object = 0
<1>1. UNCHANGED conns
  BY DEF LoopExit, ServiceInv
<1>2. transfers_onhold = 0 /\ InFlight = {} /\ pc = "loop"
  BY DEF LoopExit, LoopEnds, LeftOver
<1> SUFFICES ASSUME NEW b \in Buckets, NEW i \in Slots
             PROVE  /\ ~OnHoldAt(b, i) /\ conns[b][i].transfer = "out"
                    /\ conns[b][i].object = 0
  BY <1>1
<1>3. PlacedAt(b, i)
  BY DEF ServiceInv
<1>4. ~OnHoldAt(b, i)
  <2>1. /\ Held(b) = 0 /\ separator[b] \in Nat
        /\ top_onhold[b] = separator[b] + Held(b)
    BY <1>2, NothingHeld, HeldNat
  <2>2. i \in Int
    BY DEF Slots
  <2> QED
    BY <2>1, <2>2 DEF OnHoldAt
<1>5. conns[b][i].transfer = "out"
  <2>1. conns[b][i].transfer \notin {"sent", "recv"}
    <3>1. <<b, i>> \in Buckets \X Slots /\ <<b, i>> \notin InFlight
      BY <1>2
    <3> QED
      BY <3>1 DEF InFlight
  <2> QED
    BY <1>2, <1>3, <2>1 DEF PlacedAt, Settled
<1> QED
  BY <1>3, <1>4, <1>5 DEF PlacedAt, Placed

\* The end of the loop resets the indices of connections that are all free.
LEMMA ExitKeepsPlaces ==
    ASSUME TypeOK, QueueShape, OnholdCount, ServiceInv, LoopExit
    PROVE  ServiceInv'
<1>1. caller' = "user"
  BY DEF LoopExit, ServiceInv
<1> SUFFICES ASSUME NEW b \in Buckets, NEW i \in Slots
             PROVE  PlacedAt(b, i)'
  BY <1>1 DEF ServiceInv
<1>2. /\ conns'[b][i] = conns[b][i] /\ conns[b][i].transfer = "out"
      /\ conns[b][i].object = 0 /\ PlacedAt(b, i)
  BY ExitEmpty DEF ServiceInv
<1>3. ~OnHoldAt(b, i)'
  BY DEF LoopExit, OnHoldAt, Slots
<1> QED
  BY <1>2, <1>3 DEF PlacedAt, Placed, Settled

\* Every step keeps ServiceInv while the queues have room.
LEMMA ServiceNext ==
    ASSUME "limited" \notin Replies, ~TimeoutCompletes
    PROVE  TypeOK /\ QueueShape /\ OnholdCount /\ WakeInv /\ RoomLeft
             /\ RoomLeft' /\ ServiceInv /\ [Next]_vars => ServiceInv'
<1> SUFFICES ASSUME TypeOK, QueueShape, OnholdCount, WakeInv, RoomLeft,
                    RoomLeft', ServiceInv, [Next]_vars
             PROVE  ServiceInv'
  OBVIOUS
<1>1. CASE UserNext \/ SyncNext
  BY <1>1, UserKeepsPlaces
<1>2. CASE StartBuckets \/ \E b \in Buckets : AddRemaining(b)
  BY <1>2, PopKeepsPlaces
<1>3. CASE \E b \in Buckets, i \in Slots : Network(b, i) \/ Message(b, i)
  BY <1>3, NetworkKeepsPlaces, ReplyKeepsPlaces
<1>4. CASE EndSocketEvent
  <2>1. /\ UNCHANGED <<caller, conns, queues>> /\ pc' = "loop"
        /\ \A b \in Buckets, i \in Slots : ~Unread(conns[b][i])
    BY <1>4 DEF EndSocketEvent
  <2>2. ASSUME NEW b \in Buckets, NEW i \in Slots
        PROVE  Settled(conns[b][i])'
    <3>1. PlacedAt(b, i) /\ ~Unread(conns[b][i])
      BY <2>1 DEF ServiceInv
    <3>2. conns[b][i].transfer \in {"out", "sent", "recv"}
      BY <3>1 DEF PlacedAt, Whole, Unread, AllReplies
    <3> QED
      BY <2>1, <3>2 DEF Settled
  <2> QED
    BY <2>1, <2>2, StillKeepsPlaces DEF ServiceInv
<1>5. CASE \E b \in Buckets : Resume(b)
  BY <1>5 DEF Resume, WakeInv, CalmTimers
<1>6. CASE LoopExit
  BY <1>6, ExitKeepsPlaces
<1>7. CASE LoopExitAborts
  BY <1>7, StillKeepsPlaces DEF LoopExitAborts, ServiceInv, Settled
<1>8. CASE UNCHANGED vars
  BY <1>8, StillKeepsPlaces DEF vars, ServiceInv, Settled
<1> QED
  BY <1>1, <1>2, <1>3, <1>4, <1>5, <1>6, <1>7, <1>8 DEF Next, LoopNext

\* ServiceInv holds as long as no queue fills up.
LEMMA ServiceAlways ==
    ASSUME "limited" \notin Replies, ~TimeoutCompletes
    PROVE  Spec /\ []RoomLeft => []ServiceInv
<1>1. Init => ServiceInv
  <2> SUFFICES ASSUME Init, NEW b \in Buckets, NEW i \in Slots
               PROVE  PlacedAt(b, i) /\ caller = "user"
    BY DEF ServiceInv, Init
  <2>1. conns[b][i] = Empty /\ ~OnHoldAt(b, i) /\ caller = "user"
    BY DEF Init, OnHoldAt, Slots
  <2> QED
    BY <2>1 DEF PlacedAt, Whole, Placed, Settled, Empty
<1>2. TypeOK /\ QueueShape /\ OnholdCount /\ WakeInv /\ RoomLeft
        /\ RoomLeft' /\ ServiceInv /\ [Next]_vars => ServiceInv'
  BY ServiceNext
<1> QED
  BY <1>1, <1>2, TypeCorrect, QueueShapeCorrect, OnholdCountCorrect,
     WakeAlways, PTL DEF Spec

\* A request that waits on hold is not on the wire, has its callback, and was
\* never answered, as long as no queue fills up: a connection only gets a
\* request when nothing of its last one is left.
THEOREM HeldReadyCorrect ==
    ASSUME "limited" \notin Replies, ~TimeoutCompletes
    PROVE  Spec /\ []RoomLeft => []HeldReady
<1>1. TypeOK /\ ObjectsInv /\ ServiceInv => HeldReady
  <2> SUFFICES ASSUME TypeOK, ObjectsInv, ServiceInv,
                      NEW b \in Buckets, NEW i \in Slots, OnHoldAt(b, i)
               PROVE  LET c == conns[b][i]
                      IN /\ c.status = "ONHOLD" /\ c.transfer = "out"
                         /\ c.body = NoBody /\ c.object # 0 /\ c.object = c.url
                         /\ loaded[c.object] = "no"
    BY DEF HeldReady, HeldConns, OnHoldAt
  <2>1. PlacedAt(b, i)
    BY DEF ServiceInv
  <2>2. conns[b][i].object # 0 => loaded[conns[b][i].object] = "no"
    BY DEF ObjectsInv, ObjectsUnloaded
  <2> QED
    BY <2>1, <2>2 DEF PlacedAt, Whole, Placed
<1> QED
  BY <1>1, TypeCorrect, ObjectsAlways, ServiceAlways, PTL

\* A queue with room for every request the user makes never fills up: a request
\* on hold is not the one that registered its bucket.
EarlierCalls ==
    /\ \A k \in Keys : bucket_dict[k] # NoBucket => Len(calls) >= 1
    /\ \A b \in Buckets : top_onhold[b] = 0 \/ top_onhold[b] < Len(calls)

\* No queue fills up if it has a slot for every request of the user: one of
\* them, the registration, was never on hold.
THEOREM RoomEnough ==
    ASSUME MaxRequests <= QueueSize
    PROVE  Spec => []RoomLeft
<1>1. Init => EarlierCalls
  BY DEF Init, EarlierCalls
<1>2. TypeOK /\ EarlierCalls /\ [Next]_vars => EarlierCalls'
  <2> SUFFICES ASSUME TypeOK, EarlierCalls, [Next]_vars PROVE EarlierCalls'
    OBVIOUS
  <2>0. Len(calls) \in Nat /\ \A b \in Buckets : top_onhold[b] \in Nat
    BY DEF TypeOK
  <2>1. ASSUME UNCHANGED <<top_onhold, bucket_dict>>,
               Len(calls') \in Nat, Len(calls) <= Len(calls')
        PROVE  EarlierCalls'
    BY <2>0, <2>1 DEF EarlierCalls
  <2>2. ASSUME NEW k \in Keys, Register(k) PROVE EarlierCalls'
    <3>1. Len(calls') = Len(calls) + 1
      BY <2>2, CallsFacts DEF Register, TypeOK
    <3> QED
      BY <2>0, <2>1, <2>2, <3>1 DEF Register, queues
  <2>3. ASSUME NEW k \in Keys, Enqueue(k) PROVE EarlierCalls'
    <3>1. Len(calls') = Len(calls) + 1 /\ bucket_dict' = bucket_dict
      BY <2>3, CallsFacts DEF Enqueue, TypeOK
    <3>2. top_onhold' = [top_onhold EXCEPT ![bucket_dict[k]] =
                                top_onhold[bucket_dict[k]] + 1]
      BY <2>3 DEF Enqueue
    <3>3. Len(calls) >= 1 /\ bucket_dict[k] \in Buckets
      BY <2>3 DEF EarlierCalls, Enqueue, TypeOK
    <3>4. \A b \in Buckets : top_onhold'[b] =
                IF b = bucket_dict[k] THEN top_onhold[b] + 1 ELSE top_onhold[b]
      BY <3>2 DEF TypeOK
    <3> QED
      BY <2>0, <3>1, <3>3, <3>4 DEF EarlierCalls
  <2>4. ASSUME NEW n \in Remainders, SyncOk(n) PROVE EarlierCalls'
    <3>1. /\ UNCHANGED <<calls, top_onhold>> /\ Len(calls) >= 1
      BY <2>0, <2>4, CallsFacts DEF SyncOk, TypeOK, queues
    <3> QED
      BY <3>1 DEF EarlierCalls
  <2>5. CASE LoopExit
    <3>1. /\ UNCHANGED <<calls, bucket_dict>>
          /\ \A b \in Buckets : top_onhold'[b] = 0
      BY <2>5 DEF LoopExit, user
    <3> QED
      BY <3>1 DEF EarlierCalls
  <2>6. CASE UNCHANGED <<calls, top_onhold, bucket_dict>>
    BY <2>0, <2>1, <2>6
  <2>7. ASSUME NEW b \in Buckets, NEW i \in Slots,
               Network(b, i) \/ Message(b, i)
        PROVE  UNCHANGED <<calls, top_onhold, bucket_dict>>
    <3>1. Network(b, i) => UNCHANGED <<calls, top_onhold, bucket_dict>>
      BY NetworkEffect DEF user, queues
    <3>2. Message(b, i) => UNCHANGED <<calls, top_onhold, bucket_dict>>
      BY DEF Message, Reply200, CallNull, ReplyLimited, ReplyGlobal,
             ReplyNoUrl, ReplyFatal, user, queues
    <3> QED
      BY <2>7, <3>1, <3>2
  <2>8. ASSUME \/ Dispatch \/ SyncFatal
               \/ \E n \in Remainders : SyncLimited(n)
               \/ StartBuckets \/ EndSocketEvent \/ LoopExitAborts
               \/ \E b \in Buckets : AddRemaining(b) \/ Resume(b)
               \/ UNCHANGED vars
        PROVE  UNCHANGED <<calls, top_onhold, bucket_dict>>
    BY <2>8 DEF Dispatch, SyncFatal, SyncLimited, StartBuckets, EndSocketEvent,
                LoopExitAborts, AddRemaining, Resume, vars, user, queues
  <2> QED
    BY <2>2, <2>3, <2>4, <2>5, <2>6, <2>7, <2>8
    DEF Next, UserNext, SyncNext, LoopNext
<1>3. TypeOK /\ EarlierCalls => RoomLeft
  BY ConcordApiAssumption
  DEF ConcordApiAssumption, TypeOK, EarlierCalls, RoomLeft
<1> QED
  BY <1>1, <1>2, <1>3, TypeCorrect, PTL DEF Spec

-----------------------------------------------------------------------------
(* Every step is one of RequestService, or one it does not see *)

SameObjects ==
    \A b \in Buckets, i \in Slots : conns'[b][i].object = conns[b][i].object

\* The phase of the service follows pc.
LEMMA Phases ==
    /\ pc = "idle" => ServicePhase = "open"
    /\ pc = "sync" => ServicePhase = "asking"
    /\ pc \in {"run", "loop", "socket", "drain"} => ServicePhase = "serving"
    /\ pc \in {"aborted", "crashed"} => ServicePhase = "down"
    /\ pc' = "idle" => ServicePhase' = "open"
    /\ pc' = "sync" => ServicePhase' = "asking"
    /\ pc' \in {"run", "loop", "socket", "drain"} => ServicePhase' = "serving"
    /\ pc' \in {"aborted", "crashed"} => ServicePhase' = "down"
    /\ pc' = pc => ServicePhase' = ServicePhase
BY DEF ServicePhase

\* The objects of the connections f.
ObjectsOf(f) == {f[s[1]][s[2]].object : s \in Buckets \X Slots}

\* What ObjectsWaiting is made of, before and after a step.
LEMMA WaitingObjects ==
    /\ \A r : r \in ObjectsWaiting <=>
            r # 0 /\ \E b \in Buckets, i \in Slots : conns[b][i].object = r
    /\ \A r : r \in ObjectsWaiting' <=>
            r # 0 /\ \E b \in Buckets, i \in Slots : conns'[b][i].object = r
<1>1. ASSUME NEW f, NEW r
      PROVE  r \in ObjectsOf(f) <=>
                \E b \in Buckets, i \in Slots : f[b][i].object = r
  <2>1. ASSUME NEW b \in Buckets, NEW i \in Slots, f[b][i].object = r
        PROVE  \E s \in Buckets \X Slots : f[s[1]][s[2]].object = r
    <3>1. /\ <<b, i>> \in Buckets \X Slots
          /\ f[<<b, i>>[1]][<<b, i>>[2]].object = r
      BY <2>1
    <3> QED
      BY <3>1
  <2>2. ASSUME NEW s \in Buckets \X Slots, f[s[1]][s[2]].object = r
        PROVE  \E b \in Buckets, i \in Slots : f[b][i].object = r
    <3>1. s[1] \in Buckets /\ s[2] \in Slots
      OBVIOUS
    <3> QED
      BY <2>2, <3>1
  <2> QED
    BY <2>1, <2>2 DEF ObjectsOf
<1>2. /\ ObjectsWaiting = ObjectsOf(conns) \ {0}
      /\ ObjectsWaiting' = ObjectsOf(conns') \ {0}
  BY DEF ObjectsWaiting, ObjectsOf
<1>3. \A r : r \in ObjectsWaiting <=>
            r # 0 /\ \E b \in Buckets, i \in Slots : conns[b][i].object = r
  BY <1>1, <1>2
<1>4. \A r : r \in ObjectsWaiting' <=>
            r # 0 /\ \E b \in Buckets, i \in Slots : conns'[b][i].object = r
  BY <1>1, <1>2
<1> QED
  BY <1>3, <1>4

\* The same objects wait on connections that keep their objects.
LEMMA SameWaiting ==
    ASSUME SameObjects
    PROVE  ObjectsWaiting' = ObjectsWaiting
<1>1. \A r : r \in ObjectsWaiting' <=> r \in ObjectsWaiting
  BY WaitingObjects DEF SameObjects
<1> QED
  BY <1>1

\* The operations inside a transfer keep a connection's object.
LEMMA SameObjectOperations ==
    ASSUME NEW c \in Conn
    PROVE  /\ Launch(c).object = c.object /\ Received(c).object = c.object
           /\ Repeats(c).object = c.object
           /\ \A reply : Ends(c, reply).object = c.object
BY DEF Conn, Launch, Received, Repeats, Ends

\* A connection that changes and keeps its object.
LEMMA NowSame ==
    ASSUME NEW b \in Buckets, NEW i \in Slots, NEW c, Now(b, i, c),
           c.object = conns[b][i].object
    PROVE  SameObjects
BY DEF Now, SameObjects

\* The request that follows the calls made so far is fresh, and so is the one
\* of a registration that waits for its answer.
LEMMA NextFresh ==
    ASSUME TypeOK, ObjectsInv, Len(calls) < MaxRequests
    PROVE  Len(calls) + 1 \in Service!Fresh
<1>1. Len(calls) + 1 \in Requests /\ Len(calls) \in Nat
  BY ConcordApiAssumption DEF ConcordApiAssumption, Requests, TypeOK
<1>2. loaded[Len(calls) + 1] = "no"
  BY <1>1 DEF ObjectsInv, FutureUnloaded
<1>3. Len(calls) + 1 \notin ObjectsWaiting
  BY <1>1, ObjectRange, WaitingObjects
<1> QED
  BY <1>1, <1>2, <1>3 DEF Service!Fresh, ObjectsServed

\* The request of a registration was neither waiting nor served.
LEMMA SyncFresh ==
    ASSUME ObjectsInv, pc = "sync"
    PROVE  Len(calls) \in Requests /\ Len(calls) \in Service!Fresh
<1>1. /\ Len(calls) \in Requests /\ loaded[Len(calls)] = "no"
      /\ \A b \in Buckets, i \in Slots : conns[b][i].object # Len(calls)
  BY DEF ObjectsInv, PendingUnloaded, CallPending
<1>2. Len(calls) \notin ObjectsWaiting
  BY <1>1, WaitingObjects
<1> QED
  BY <1>1, <1>2 DEF Service!Fresh, ObjectsServed

\* Loading one object as "ok" serves that request.
LEMMA LoadServes ==
    ASSUME TypeOK, NEW r \in Requests, loaded' = [loaded EXCEPT ![r] = "ok"]
    PROVE  ObjectsServed' = ObjectsServed \cup {r}
BY DEF TypeOK, ObjectsServed

\* What the service does not see.
LEMMA Unseen ==
    ASSUME SameObjects, UNCHANGED loaded, ServicePhase' = ServicePhase
    PROVE  UNCHANGED Service!vars
<1>1. ObjectsServed' = ObjectsServed
  BY DEF ObjectsServed
<1> QED
  BY <1>1, SameWaiting DEF Service!vars

\* What ends the program in a call or in a dispatch.
LEMMA Ended ==
    ASSUME SameObjects, UNCHANGED loaded, pc' \in {"aborted", "crashed"},
           pc \in {"sync", "run", "loop", "socket", "drain"}
    PROVE  Service!Stop
<1>1. ObjectsServed' = ObjectsServed
  BY DEF ObjectsServed
<1> QED
  BY <1>1, Phases, SameWaiting DEF Service!Stop

\* Each of the user's calls is a step of RequestService or not seen by it.
LEMMA UserSteps ==
    ASSUME TypeOK, QueueShape, OnholdCount, ObjectsInv, ServiceInv, RoomLeft',
           UserNext
    PROVE  [Service!Next]_(Service!vars)
<1>1. UNCHANGED loaded /\ pc = "idle"
  BY DEF UserNext, Register, Enqueue, Dispatch
<1>2. ObjectsServed' = ObjectsServed
  BY <1>1 DEF ObjectsServed
<1>3. ASSUME NEW k \in Keys, Register(k) PROVE Service!Ask
  <2>1. SameObjects /\ pc' = "sync" /\ Len(calls) < MaxRequests
    BY <1>3 DEF Register, SameObjects
  <2>2. Service!Fresh # {}
    BY <2>1, NextFresh
  <2> QED
    BY <1>1, <1>2, <2>1, <2>2, SameWaiting, Phases DEF Service!Ask
<1>4. ASSUME NEW k \in Keys, Enqueue(k)
      PROVE  Len(calls) + 1 \in Requests /\ Service!Submit(Len(calls) + 1)
  <2> DEFINE r == Len(calls) + 1
  <2>1. PICK b, i : b = bucket_dict[k] /\ i = top_onhold[b]
    OBVIOUS
  <2>2. /\ b \in Buckets /\ i \in Slots /\ Len(calls) \in Nat
        /\ Now(b, i, IF Fills(b) THEN OnHold(conns[b][i])
                     ELSE Filled(OnHold(conns[b][i]), Len(calls) + 1))
        /\ top_onhold' = [top_onhold EXCEPT ![b] = i + 1]
    BY <1>4, <2>1, EnqueueEffect DEF Enqueue
  <2>3. ~Fills(b)
    BY <2>1, <2>2 DEF RoomLeft, Fills, TypeOK
  <2>4. pc' = "idle" /\ Len(calls) < MaxRequests
    BY <1>4, <2>1, <2>3 DEF Enqueue
  <2>5. r \in Service!Fresh
    BY <2>4, NextFresh
  <2>6. conns[b][i].object = 0
    <3>1. /\ PlacedAt(b, i) /\ i = top_onhold[b] /\ top_onhold[b] \in Nat
      BY <2>1, <2>2 DEF ServiceInv, TypeOK
    <3>2. ~OnHoldAt(b, i)
      BY <3>1 DEF OnHoldAt
    <3> QED
      BY <1>1, <3>1, <3>2 DEF PlacedAt, Placed, Settled
  <2>7. Filled(OnHold(conns[b][i]), r).object = r
    <3>1. conns[b][i] \in Conn /\ r \in Nat
      BY <2>2 DEF TypeOK
    <3> HIDE DEF r
    <3> QED
      BY <3>1, OnHoldConn, FilledConn
  <2>8. \A d \in Buckets, j \in Slots : conns'[d][j].object =
            IF d = b /\ j = i THEN r ELSE conns[d][j].object
    BY <2>2, <2>3, <2>7 DEF Now
  <2>9. r \in Requests /\ r # 0
    BY <2>2, <2>5 DEF Service!Fresh
  <2> HIDE DEF r
  <2>10. \A o : o \in ObjectsWaiting' <=> o \in ObjectsWaiting \/ o = r
    BY <2>2, <2>6, <2>8, <2>9, WaitingObjects
  <2>11. ObjectsWaiting' = ObjectsWaiting \cup {r}
    BY <2>10
  <2>12. Service!Submit(r)
    BY <1>1, <1>2, <2>4, <2>5, <2>11, Phases DEF Service!Submit
  <2> QED
    BY <2>9, <2>12 DEF r
<1>5. CASE Dispatch
  <2>1. SameObjects
    BY <1>5 DEF Dispatch, SameObjects
  <2>2. CASE transfers_onhold = 0
    <3>1. pc' = pc
      BY <1>5, <2>2 DEF Dispatch
    <3> QED
      BY <1>1, <2>1, <3>1, Phases, Unseen
  <2>3. CASE transfers_onhold # 0
    <3>1. pc' = "run"
      BY <1>5, <2>3 DEF Dispatch
    <3>2. HeldConns # {}
      BY <2>3, FS_EmptySet DEF OnholdCount
    <3>3. PICK b \in Buckets, i \in Slots : OnHoldAt(b, i)
      BY <3>2 DEF HeldConns, OnHoldAt
    <3>4. conns[b][i].object # 0
      BY <3>3 DEF ServiceInv, PlacedAt, Placed
    <3>5. conns[b][i].object \in ObjectsWaiting
      BY <3>4, WaitingObjects
    <3>6. Service!Start
      BY <1>1, <1>2, <2>1, <3>1, <3>5, SameWaiting, Phases
      DEF Service!Start
    <3> QED
      BY <3>6 DEF Service!Next
  <2> QED
    BY <2>2, <2>3
<1> QED
  BY <1>3, <1>4, <1>5 DEF UserNext, Service!Next

\* An answer to a registration serves its request, stops the program or is
\* not seen.
LEMMA SyncSteps ==
    ASSUME TypeOK, ObjectsInv, ServiceInv, SyncNext
    PROVE  [Service!Next]_(Service!vars)
<1> DEFINE r == Len(calls)
<1>0. pc = "sync"
  BY DEF SyncNext, SyncOk, SyncLimited, SyncFatal
<1>1. ASSUME NEW n \in Remainders, SyncOk(n)
      PROVE  Service!Answer(r) \/ Service!Stop
  <2>1. r \in Requests /\ r \in Service!Fresh
    BY <1>0, SyncFresh
  <2>2. ObjectsServed' = ObjectsServed \cup {r}
    <3>1. loaded' = [loaded EXCEPT ![r] = "ok"]
      BY <1>1 DEF SyncOk
    <3> QED
      BY <2>1, <3>1, LoadServes
  <2>3. CASE UNCHANGED conns /\ pc' \in {"aborted", "crashed"}
    <3>1. ObjectsWaiting' = ObjectsWaiting
      BY <2>3, SameWaiting DEF SameObjects
    <3> HIDE DEF r
    <3> QED
      BY <1>0, <2>1, <2>2, <2>3, <3>1, Phases DEF Service!Stop
  <2>4. ASSUME pc' = "idle", NEW b \in Buckets, NEW i \in Slots,
               FreeSlot(b, i), Now(b, i, Registered(r))
        PROVE  Service!Answer(r)
    <3>1. Registered(r).object = 0 /\ conns[b][i].object = 0
      BY <2>4 DEF Registered, Empty, FreeSlot, ServiceInv, PlacedAt, Whole
    <3>2. ObjectsWaiting' = ObjectsWaiting
      BY <2>4, <3>1, NowSame, SameWaiting
    <3> HIDE DEF r
    <3> QED
      BY <1>0, <2>1, <2>2, <2>4, <3>2, Phases DEF Service!Answer
  <2> QED
    BY <1>1, <2>3, <2>4, SyncOkEffect
<1>2. ASSUME NEW n \in Remainders, SyncLimited(n)
      PROVE  UNCHANGED Service!vars
  BY <1>2, Unseen, Phases DEF SyncLimited, SameObjects
<1>3. CASE SyncFatal
  <2>1. Service!Stop
    BY <1>0, <1>3, Ended DEF SyncFatal, SameObjects
  <2> QED
    BY <2>1 DEF Service!Next
<1>4. r \in Requests
  BY <1>0, SyncFresh
<1> QED
  BY <1>1, <1>2, <1>3, <1>4 DEF SyncNext, Service!Next

\* RequestService does not see the network.
LEMMA NetworkSteps ==
    ASSUME TypeOK, NEW b \in Buckets, NEW i \in Slots, Network(b, i)
    PROVE  UNCHANGED Service!vars
<1>1. /\ UNCHANGED loaded /\ pc \in {"loop", "socket"}
      /\ pc' \in {"loop", "socket"} /\ conns[b][i] \in Conn
  BY NetworkEffect DEF TypeOK
<1>2. SameObjects
  BY <1>1, NetworkEffect, NowSame, SameObjectOperations
<1> QED
  BY <1>1, <1>2, Phases, Unseen

\* A 200 serves the request of its connection, with that request's response.
LEMMA Reply200Steps ==
    ASSUME "cut" \notin Replies, TypeOK, ObjectsInv, ServiceInv,
           NEW b \in Buckets, NEW i \in Slots, Reply200(b, i)
    PROVE  /\ conns[b][i].object \in Requests
           /\ Service!Serve(conns[b][i].object)
<1> DEFINE c == conns[b][i]
           o == c.object
<1>1. /\ c \in Conn /\ o # 0 /\ o \in Requests /\ c.transfer = "ok"
      /\ loaded[o] = "no" /\ Whole(c)
      /\ pc \in {"socket", "drain"} /\ pc' = "drain"
      /\ Now(b, i, AfterLoad(c))
  BY ObjectRange, ReplyEffect
  DEF Reply200, Draining, ObjectsInv, ObjectsUnloaded, ServiceInv, PlacedAt,
      Is200, Whole
<1>2. loaded' = [loaded EXCEPT ![o] = Verdict(c)]
  BY DEF Reply200
<1>3. AfterLoad(c).object = 0
  BY <1>1, AfterLoadConn
<1>4. \A d \in Buckets, j \in Slots :
        /\ conns'[d][j].object = IF d = b /\ j = i THEN 0
                                 ELSE conns[d][j].object
        /\ conns[d][j].object = o <=> d = b /\ j = i
  BY <1>1, <1>3 DEF Now, ObjectsInv, ObjectsDistinct
<1>5. o \in ObjectsWaiting
  BY <1>1, WaitingObjects
<1> HIDE DEF c, o
<1>6. Verdict(c) = "ok"
  <2>1. c.object = o /\ c.object # 0
    BY <1>1 DEF o
  <2>2. c.body = Only(c.object)
    BY <1>1, <2>1 DEF Whole
  <2> QED
    BY <1>1, <2>1, <2>2 DEF Verdict, Only
<1>7. ObjectsServed' = ObjectsServed \cup {o}
  BY <1>1, <1>2, <1>6, LoadServes
<1>8. \A r : r \in ObjectsWaiting' <=> r \in ObjectsWaiting /\ r # o
  BY <1>1, <1>4, WaitingObjects
<1>9. ObjectsWaiting' = ObjectsWaiting \ {o}
  BY <1>8
<1>10. Service!Serve(o)
  BY <1>1, <1>5, <1>7, <1>9, Phases DEF Service!Serve
<1> QED
  BY <1>1, <1>10 DEF o, c

\* A reply that is read serves a request, stops the program or is not seen.
LEMMA MessageSteps ==
    ASSUME "cut" \notin Replies, TypeOK, ObjectsInv, ServiceInv,
           NEW b \in Buckets, NEW i \in Slots, Message(b, i)
    PROVE  [Service!Next]_(Service!vars)
<1>0. conns[b][i] \in Conn /\ PlacedAt(b, i)
  BY DEF TypeOK, ServiceInv
<1>1. CASE Reply200(b, i)
  BY <1>1, Reply200Steps DEF Service!Next
<1>2. CASE ReplyGlobal(b, i)
  <2>1. SameObjects
    BY <1>0, <1>2, ReplyEffect, NowSame, SameObjectOperations
  <2> QED
    BY <1>2, <2>1, Phases, Unseen DEF ReplyGlobal, Draining
<1>3. CASE ReplyLimited(b, i) \/ ReplyNoUrl(b, i)
  BY <1>0, <1>3 DEF ReplyLimited, ReplyNoUrl, PlacedAt, Whole
<1>4. CASE CallNull(b, i) \/ ReplyFatal(b, i)
  <2>1. Service!Stop
    BY <1>4, Ended DEF CallNull, ReplyFatal, Draining, SameObjects
  <2> QED
    BY <2>1 DEF Service!Next
<1> QED
  BY <1>1, <1>2, <1>3, <1>4 DEF Message

\* The dispatch returns when no connection has an object any more.
LEMMA ExitSteps ==
    ASSUME TypeOK, QueueShape, OnholdCount, ServiceInv, LoopExit
    PROVE  Service!Return
<1>1. /\ UNCHANGED loaded /\ pc = "loop" /\ pc' = "idle"
  BY DEF LoopExit, LoopEnds
<1>2. SameObjects /\ \A b \in Buckets, i \in Slots : conns[b][i].object = 0
  BY ExitEmpty DEF SameObjects
<1>3. ObjectsWaiting = {} /\ ObjectsWaiting' = ObjectsWaiting
  BY <1>2, SameWaiting, WaitingObjects
<1>4. ObjectsServed' = ObjectsServed
  BY <1>1 DEF ObjectsServed
<1> QED
  BY <1>1, <1>3, <1>4, Phases DEF Service!Return

\* Every step of ConcordApi is a step of RequestService or not seen by it.
LEMMA ServiceStep ==
    ASSUME Replies \cap {"limited", "cut"} = {}, TypeOK, QueueShape, OnholdCount,
           ObjectsInv, WakeInv, ServiceInv, RoomLeft', [Next]_vars
    PROVE  [Service!Next]_(Service!vars)
<1>1. CASE UserNext
  BY <1>1, UserSteps
<1>2. CASE SyncNext
  BY <1>2, SyncSteps
<1>3. CASE StartBuckets \/ \E b \in Buckets : AddRemaining(b)
  <2>1. /\ UNCHANGED loaded /\ pc \in {"run", "loop"} /\ pc' = "loop"
    BY <1>3 DEF StartBuckets, AddRemaining
  <2>2. \A b \in Buckets, i \in Slots :
            /\ conns[b][i] \in Conn
            /\ conns'[b][i] \in {conns[b][i], Launch(conns[b][i])}
    BY <1>3, PopEffect DEF Popping, TypeOK
  <2>3. SameObjects
    BY <2>2, SameObjectOperations DEF SameObjects
  <2> QED
    BY <2>1, <2>3, Phases, Unseen
<1>4. CASE \E b \in Buckets, i \in Slots : Network(b, i) \/ Message(b, i)
  BY <1>4, NetworkSteps, MessageSteps
<1>5. CASE EndSocketEvent \/ UNCHANGED vars
  <2>1. /\ UNCHANGED <<loaded, conns>>
        /\ \/ pc' = pc
           \/ pc \in {"socket", "drain"} /\ pc' = "loop"
    BY <1>5 DEF EndSocketEvent, Draining, vars
  <2> QED
    BY <2>1, Phases, Unseen DEF SameObjects
<1>6. CASE \E b \in Buckets : Resume(b)
  BY <1>6 DEF Resume, WakeInv, CalmTimers
<1>7. CASE LoopExitAborts
  <2>1. Service!Stop
    BY <1>7, Ended DEF LoopExitAborts, LoopEnds, SameObjects
  <2> QED
    BY <2>1 DEF Service!Next
<1>8. CASE LoopExit
  BY <1>8, ExitSteps DEF Service!Next
<1> QED
  BY <1>1, <1>2, <1>3, <1>4, <1>5, <1>6, <1>7, <1>8 DEF Next, LoopNext

\* As long as the server limits no single bucket and sends no 200 cut short,
\* transfers end in socket events and no queue fills up, every behaviour of
\* the queues and the loop is one of RequestService: a dispatch gives the
\* thread back to its user only when each request on hold was served, once,
\* with its own response.
THEOREM ServiceCorrect ==
    ASSUME Replies \cap {"limited", "cut"} = {}, ~TimeoutCompletes
    PROVE  Spec /\ []RoomLeft => ImplementsService
<1>0. "limited" \notin Replies
  OBVIOUS
<1>1. Init => Service!Init
  <2> SUFFICES ASSUME Init PROVE Service!Init
    OBVIOUS
  <2>1. \A b \in Buckets, i \in Slots : conns[b][i].object = 0
    BY DEF Init, Empty
  <2>2. ObjectsWaiting = {}
    BY <2>1, WaitingObjects
  <2>3. ObjectsServed = {} /\ pc = "idle"
    BY DEF Init, ObjectsServed
  <2> QED
    BY <2>2, <2>3, Phases DEF Service!Init
<1>2. TypeOK /\ QueueShape /\ OnholdCount /\ ObjectsInv /\ WakeInv
        /\ ServiceInv /\ RoomLeft' /\ [Next]_vars
            => [Service!Next]_(Service!vars)
  BY ServiceStep
<1> QED
  BY <1>0, <1>1, <1>2, TypeCorrect, QueueShapeCorrect, OnholdCountCorrect,
     ObjectsAlways, WakeAlways, ServiceAlways, PTL
  DEF Spec, Service!Spec, ImplementsService

\* In particular with queues that have a slot for every request the user makes.
COROLLARY ServiceWithRoom ==
    ASSUME Replies \cap {"limited", "cut"} = {}, ~TimeoutCompletes,
           MaxRequests <= QueueSize
    PROVE  Spec => []HeldReady /\ ImplementsService
<1>0. "limited" \notin Replies
  OBVIOUS
<1> QED
  BY <1>0, RoomEnough, HeldReadyCorrect, ServiceCorrect, PTL
=============================================================================
