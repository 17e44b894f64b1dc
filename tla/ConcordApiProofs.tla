-------------------------- MODULE ConcordApiProofs --------------------------
(***************************************************************************)
(* Theorems about ConcordApi, for every number of keys, buckets, slots and *)
(* requests, every remaining count and every choice of server answers.     *)
(***************************************************************************)
EXTENDS ConcordApi, FiniteSetTheorems, SequenceTheorems, TLAPS

-----------------------------------------------------------------------------
(* What the operations on one connection return *)

\* A connection is its five fields.
LEMMA ConnFields ==
    ASSUME NEW c \in Conn
    PROVE  /\ c.status \in Status /\ c.url \in Nat /\ c.object \in Nat
           /\ c.transfer \in Transfer /\ c.body \in Body
BY DEF Conn

\* A freed response body is a body.
LEMMA NoBodyIsBody == NoBody \in Body
BY DEF NoBody, Body

\* The operations on a connection return connections, and keep the fields
\* that these lemmas say.
LEMMA LaunchConn ==
    ASSUME NEW c \in Conn
    PROVE  /\ Launch(c) \in Conn
           /\ Launch(c).url = c.url /\ Launch(c).object = c.object
           /\ Launch(c).status = "RUNNING"
BY DEF Conn, Launch, Added, Status, Transfer

\* A loaded connection has given its object back.
LEMMA AfterLoadConn ==
    ASSUME NEW c \in Conn
    PROVE  /\ AfterLoad(c) \in Conn
           /\ AfterLoad(c).url = c.url /\ AfterLoad(c).object = 0
           /\ AfterLoad(c).status = "INNACTIVE"
BY NoBodyIsBody DEF Conn, AfterLoad, Status, Transfer

\* A response under way keeps the request and its object.
LEMMA ReceivedConn ==
    ASSUME NEW c \in Conn
    PROVE  /\ Received(c) \in Conn
           /\ Received(c).url = c.url /\ Received(c).object = c.object
           /\ Received(c).status = c.status
<1> DEFINE body == [last |-> c.url,
                    before |-> (c.body.before \cup {c.body.last}) \ {0}]
<1>1. body \in Body
  BY DEF Conn, Body
<1>2. Received(c) = [c EXCEPT !.transfer = "recv", !.body = body]
  BY DEF Received, Conn
<1> HIDE DEF body
<1> QED
  BY <1>1, <1>2 DEF Conn, Transfer

\* A new request comes with its URL and its object.
LEMMA FilledConn ==
    ASSUME NEW c \in Conn, NEW r \in Nat
    PROVE  /\ Filled(c, r) \in Conn
           /\ Filled(c, r).url = r /\ Filled(c, r).object = r
           /\ Filled(c, r).status = c.status
BY DEF Conn, Filled

\* Waiting in the queue changes nothing but the status.
LEMMA OnHoldConn ==
    ASSUME NEW c \in Conn
    PROVE  /\ OnHold(c) \in Conn
           /\ OnHold(c).url = c.url /\ OnHold(c).object = c.object
           /\ OnHold(c).status = "ONHOLD"
BY DEF Conn, OnHold, Status

WithTransfer(c, t, body) == [c EXCEPT !.transfer = t, !.body = body]

\* The state of the transfer and the body do not touch the rest.
LEMMA WithTransferConn ==
    ASSUME NEW c \in Conn, NEW t \in Transfer, NEW body \in Body
    PROVE  /\ WithTransfer(c, t, body) \in Conn
           /\ WithTransfer(c, t, body).url = c.url
           /\ WithTransfer(c, t, body).object = c.object
           /\ WithTransfer(c, t, body).status = c.status
BY DEF Conn, WithTransfer

\* The connection of a registration has a URL and no object.
LEMMA RegisteredConn ==
    ASSUME NEW r \in Nat
    PROVE  /\ Registered(r) \in Conn
           /\ Registered(r).url = r /\ Registered(r).object = 0
           /\ Registered(r).status = "INNACTIVE"
BY NoBodyIsBody DEF Registered, Empty, Conn, Status, Transfer

\* A paused connection is one, and keeps its request and its object.
LEMMA PausedConn ==
    ASSUME NEW b \in Buckets, NEW i \in Slots, conns[b][i] \in Conn
    PROVE  /\ Paused(b)[i] \in Conn
           /\ Paused(b)[i].url = conns[b][i].url
           /\ Paused(b)[i].object = conns[b][i].object
           /\ conns[b][i].status # "NULL" => Paused(b)[i].status # "NULL"
<1> DEFINE c == conns[b][i]
           p == [c EXCEPT !.status = "PAUSE", !.transfer = "out"]
<1>1. Paused(b)[i] \in {c, p}
  BY DEF Paused
<1> HIDE DEF c
<1>2. /\ p \in Conn /\ p.url = c.url /\ p.object = c.object
      /\ p.status = "PAUSE"
  BY DEF c, Conn, Status, Transfer
<1> HIDE DEF p
<1> QED
  BY <1>1, <1>2 DEF c

\* An update outside the domain of a function changes nothing.
LEMMA ExceptOutside ==
    ASSUME NEW S, NEW T, NEW f \in [S -> T], NEW i, i \notin S, NEW x
    PROVE  [f EXCEPT ![i] = x] = f
OBVIOUS

\* Popping takes no more than what is held, and all of it if num is 0.
LEMMA PoppedBounds ==
    ASSUME NEW held \in Nat, NEW num \in Nat
    PROVE  /\ Popped(held, num) \in Nat
           /\ Popped(held, num) <= held
           /\ held # 0 => Popped(held, num) # 0
           /\ num = 1 => Popped(held, num) \in {0, 1}
           /\ num = 0 => Popped(held, num) = held
BY DEF Popped

\* A header keeps its type, also when the response carries none of it.
LEMMA HeadersType ==
    ASSUME header \in [bucket : Buckets \cup {NoBucket}, remaining : Nat],
           NEW k \in Keys, NEW n \in Remainders
    PROVE  Headers(k, n) \in [bucket : Buckets \cup {NoBucket}, remaining : Nat]
BY ConcordApiAssumption DEF ConcordApiAssumption, Headers, Remainders


-----------------------------------------------------------------------------
(* Types *)

\* The initial state is typed.
LEMMA TypeInit == Init => TypeOK
<1> SUFFICES ASSUME Init PROVE TypeOK
  OBVIOUS
<1>1. Empty \in Conn /\ Empty.url = 0 /\ Empty.object = 0
  BY NoBodyIsBody DEF Empty, Conn, Status, Transfer
<1>2. calls \in Seq(Keys) /\ Len(calls) = 0
  BY DEF Init
<1> QED
  BY <1>1, <1>2, ConcordApiAssumption
  DEF ConcordApiAssumption, Init, TypeOK, Outcome

\* What TypeOK says of the connections, for any function of them.
ConnsOK(f, n) ==
    /\ f \in [Buckets -> [Slots -> Conn]]
    /\ \A b \in Buckets, i \in Slots : f[b][i].url <= n /\ f[b][i].object <= n

\* Replacing one connection, or those of one bucket, keeps the type.
LEMMA ConnUpdate ==
    ASSUME NEW f, NEW n \in Nat, ConnsOK(f, n), NEW b \in Buckets,
           NEW i \in Slots, NEW c \in Conn, c.url <= n, c.object <= n
    PROVE  ConnsOK([f EXCEPT ![b][i] = c], n)
BY DEF ConnsOK

\* The same of all the connections of one bucket.
LEMMA BucketUpdate ==
    ASSUME NEW f, NEW n \in Nat, ConnsOK(f, n), NEW b \in Buckets,
           NEW g \in [Slots -> Conn],
           \A i \in Slots : g[i].url <= n /\ g[i].object <= n
    PROVE  ConnsOK([f EXCEPT ![b] = g], n)
BY DEF ConnsOK

\* More requests leave the connections typed.
LEMMA ConnsMonotonic ==
    ASSUME NEW f, NEW n \in Nat, NEW m \in Nat, n <= m, ConnsOK(f, n)
    PROVE  ConnsOK(f, m)
BY DEF ConnsOK, Conn

\* The calls made so far: a new one is one more, and the last one has a key.
LEMMA CallsFacts ==
    ASSUME calls \in Seq(Keys), NEW k \in Keys
    PROVE  /\ Len(calls) \in Nat
           /\ Append(calls, k) \in Seq(Keys)
           /\ Len(Append(calls, k)) = Len(calls) + 1
           /\ Append(calls, k) # << >>
           /\ calls # << >> => SyncKey \in Keys /\ Len(calls) > 0
           /\ \A r \in 1 .. Len(calls) : calls[r] \in Keys
<1>1. Len(calls) \in Nat /\ \A r \in 1 .. Len(calls) : calls[r] \in Keys
  OBVIOUS
<1>2. calls # << >> => Len(calls) > 0
  BY EmptySeq, <1>1
<1>3. /\ Append(calls, k) \in Seq(Keys)
      /\ Len(Append(calls, k)) = Len(calls) + 1
      /\ Append(calls, k) # << >>
  BY AppendProperties
<1> QED
  BY <1>1, <1>2, <1>3 DEF SyncKey

\* The number of transfers in flight is a number.
LEMMA InFlightFinite ==
    /\ IsFiniteSet(Buckets \X Slots)
    /\ IsFiniteSet(InFlight) /\ Cardinality(InFlight) \in Nat
    /\ \A s : Cardinality(InFlight \ {s}) \in Nat
<1>0. 0 \in Int /\ QueueSize - 1 \in Int
  BY ConcordApiAssumption DEF ConcordApiAssumption
<1>1. IsFiniteSet(Slots)
  BY <1>0, FS_Interval DEF Slots
<1>2. IsFiniteSet(Buckets \X Slots)
  BY <1>1, FS_Product, ConcordApiAssumption DEF ConcordApiAssumption
<1>3. IsFiniteSet(InFlight)
  BY <1>2, FS_Subset DEF InFlight
<1>4. \A s : IsFiniteSet(InFlight \ {s})
  BY <1>3, FS_Subset
<1> QED
  BY <1>2, <1>3, <1>4, FS_CardinalityType

\* No step of the queues or of the loop breaks the types.
LEMMA TypeNext == TypeOK /\ [Next]_vars => TypeOK'
<1> SUFFICES ASSUME TypeOK, [Next]_vars PROVE TypeOK'
  OBVIOUS
<1> USE ConcordApiAssumption DEF ConcordApiAssumption
<1>1. /\ Len(calls) \in Nat
      /\ ConnsOK(conns, Len(calls))
      /\ \A b \in Buckets, i \in Slots : conns[b][i] \in Conn
  BY LenProperties DEF TypeOK, ConnsOK
<1>2. ASSUME NEW b \in Buckets, NEW n
      PROVE  /\ AfterPop(b, n) \in [Slots -> Conn]
             /\ \A i \in Slots : /\ AfterPop(b, n)[i].url <= Len(calls)
                                 /\ AfterPop(b, n)[i].object <= Len(calls)
  <2>1. \A i \in Slots :
            /\ AfterPop(b, n)[i] \in {conns[b][i], Launch(conns[b][i])}
            /\ conns[b][i].url <= Len(calls)
            /\ conns[b][i].object <= Len(calls)
    BY <1>1 DEF AfterPop, ConnsOK
  <2>2. AfterPop(b, n) = [i \in Slots |-> AfterPop(b, n)[i]]
    BY DEF AfterPop
  <2> QED
    BY <1>1, <2>1, <2>2, LaunchConn
<1>3. ASSUME NEW k \in Keys, Register(k) PROVE TypeOK'
  <2>1. ConnsOK(conns, Len(calls')) /\ calls' \in Seq(Keys) /\ calls' # << >>
        /\ Len(calls') <= MaxRequests
    BY <1>1, <1>3, CallsFacts, ConnsMonotonic DEF TypeOK, Register
  <2> QED
    BY <1>3, <2>1 DEF TypeOK, ConnsOK, Register, queues, limits
<1>4. ASSUME NEW n \in Remainders, SyncOk(n) PROVE TypeOK'
  <2>1. SyncKey \in Keys /\ Len(calls) \in Nat
    BY <1>4, CallsFacts DEF TypeOK, SyncOk
  <2>2. header' \in [bucket : Buckets \cup {NoBucket}, remaining : Nat]
    BY <1>4, <2>1, HeadersType DEF TypeOK, SyncOk
  <2>3. bucket_dict' \in [Keys -> Buckets \cup {NoBucket}]
    BY <1>4, <2>1, <2>2 DEF TypeOK, SyncOk
  <2>4. ConnsOK(conns', Len(calls))
    <3> DEFINE c == Registered(Len(calls))
    <3>1. c \in Conn /\ c.url <= Len(calls) /\ c.object <= Len(calls)
      BY <1>1, RegisteredConn
    <3>2. CASE UNCHANGED conns
      BY <1>1, <3>2
    <3>3. ASSUME NEW b \in Buckets, NEW i \in Slots,
                 conns' = [conns EXCEPT ![b][i] = c]
          PROVE  ConnsOK(conns', Len(calls))
      BY <1>1, <3>1, <3>3, ConnUpdate
    <3>4. \/ UNCHANGED conns
          \/ \E b \in Buckets, i \in Slots : conns' = [conns EXCEPT ![b][i] = c]
      BY <1>4, <2>2 DEF SyncOk
    <3> QED
      BY <3>2, <3>3, <3>4
  <2>5. loaded' \in [Requests -> Outcome]
    BY <1>4 DEF TypeOK, SyncOk, Outcome
  <2>6. pc' \in {"idle", "aborted", "crashed"}
    BY <1>4 DEF SyncOk
  <2> QED
    BY <1>4, <2>2, <2>3, <2>4, <2>5, <2>6
    DEF TypeOK, ConnsOK, SyncOk, queues, limits
<1>5. ASSUME NEW n \in Remainders, SyncLimited(n) PROVE TypeOK'
  <2>1. SyncKey \in Keys
    BY <1>5, CallsFacts DEF TypeOK, SyncLimited
  <2>2. header' \in [bucket : Buckets \cup {NoBucket}, remaining : Nat]
    BY <1>5, <2>1, HeadersType DEF TypeOK, SyncLimited
  <2> QED
    BY <1>5, <2>2 DEF TypeOK, SyncLimited, user, queues, limits
<1>6. CASE SyncFatal
  BY <1>6 DEF TypeOK, SyncFatal, user, queues, limits
<1>7. ASSUME NEW k \in Keys, Enqueue(k) PROVE TypeOK'
  <2> DEFINE b == bucket_dict[k]
             i == top_onhold[b]
             held == OnHold(conns[b][i])
  <2>1. /\ calls' \in Seq(Keys) /\ Len(calls') = Len(calls) + 1
        /\ calls' # << >> /\ Len(calls') <= MaxRequests
    <3>1. calls' = Append(calls, k) /\ Len(calls) < MaxRequests
      BY <1>7 DEF Enqueue
    <3>2. calls \in Seq(Keys)
      BY DEF TypeOK
    <3>3. /\ Append(calls, k) \in Seq(Keys)
          /\ Len(Append(calls, k)) = Len(calls) + 1
          /\ Append(calls, k) # << >>
      BY <3>2, CallsFacts
    <3> QED
      BY <1>1, <3>1, <3>3
  <2>2. b \in Buckets /\ i \in Nat
    BY <1>7 DEF TypeOK, Enqueue
  <2>3. ConnsOK(conns, Len(calls'))
    BY <1>1, <2>1, ConnsMonotonic
  <2>4. i \in Slots =>
            /\ held \in Conn /\ held.url <= Len(calls')
            /\ held.object <= Len(calls')
            /\ Filled(held, Len(calls) + 1) \in Conn
            /\ Filled(held, Len(calls) + 1).url <= Len(calls')
            /\ Filled(held, Len(calls) + 1).object <= Len(calls')
    <3> SUFFICES ASSUME i \in Slots
                 PROVE  /\ held \in Conn /\ held.url <= Len(calls')
                        /\ held.object <= Len(calls')
                        /\ Filled(held, Len(calls) + 1) \in Conn
                        /\ Filled(held, Len(calls) + 1).url <= Len(calls')
                        /\ Filled(held, Len(calls) + 1).object <= Len(calls')
      OBVIOUS
    <3>1. conns[b][i] \in Conn /\ conns[b][i].url <= Len(calls')
          /\ conns[b][i].object <= Len(calls')
      BY <2>2, <2>3 DEF ConnsOK
    <3>2. held \in Conn /\ held.url <= Len(calls') /\ held.object <= Len(calls')
      BY <3>1, OnHoldConn
    <3>3. Len(calls) + 1 \in Nat /\ Len(calls) + 1 <= Len(calls')
      BY <1>1, <2>1
    <3>4. /\ Filled(held, Len(calls) + 1) \in Conn
          /\ Filled(held, Len(calls) + 1).url = Len(calls) + 1
          /\ Filled(held, Len(calls) + 1).object = Len(calls) + 1
      BY <3>2, <3>3, FilledConn
    <3> QED
      BY <3>2, <3>3, <3>4
  <2>5. ConnsOK(conns', Len(calls'))
    <3>1. CASE i \in Slots
      <4>1. ConnsOK([conns EXCEPT ![b][i] = held], Len(calls'))
        BY <1>1, <2>1, <2>2, <2>3, <2>4, <3>1, ConnUpdate
      <4>2. ConnsOK([conns EXCEPT ![b][i] = Filled(held, Len(calls) + 1)],
                    Len(calls'))
        BY <1>1, <2>1, <2>2, <2>3, <2>4, <3>1, ConnUpdate
      <4>3. \/ conns' = [conns EXCEPT ![b][i] = held]
            \/ conns' = [conns EXCEPT ![b][i] = Filled(held, Len(calls) + 1)]
        BY <1>1, <1>7, <2>2, <3>1 DEF Enqueue, ConnsOK
      <4> QED
        BY <4>1, <4>2, <4>3
    <3>2. CASE i \notin Slots
      <4>1. \A x : [conns[b] EXCEPT ![i] = x] = conns[b]
        BY <1>1, <2>2, <3>2, ExceptOutside DEF ConnsOK
      <4>2. \A x : [conns EXCEPT ![b][i] = x] = conns
        BY <1>1, <2>2, <4>1 DEF ConnsOK
      <4>3. conns' = conns
        BY <1>7, <4>2 DEF Enqueue
      <4> QED
        BY <2>3, <4>3
    <3> QED
      BY <3>1, <3>2
  <2>6. top_onhold' \in [Buckets -> Nat] /\ transfers_onhold' \in Int
    BY <1>7, <2>2 DEF TypeOK, Enqueue
  <2>7. pc' \in {"idle", "run"} /\ caller' \in {"user", "build"}
    BY <1>7 DEF TypeOK, Enqueue
  <2> QED
    BY <1>7, <2>1, <2>5, <2>6, <2>7 DEF TypeOK, ConnsOK, Enqueue, limits
<1>8. CASE Dispatch
  BY <1>8 DEF TypeOK, Dispatch, user, queues, limits
<1>9. CASE StartBuckets
  <2> DEFINE n == [b \in Buckets |-> Popped(Held(b), 1)]
  <2>1. ConnsOK(conns', Len(calls))
    BY <1>2, <1>9 DEF StartBuckets, ConnsOK
  <2>2. separator' \in [Buckets -> Nat] /\ bottom_running' \in [Buckets -> Nat]
    <3>1. \A b \in Buckets : separator[b] + n[b] \in Nat
      BY DEF TypeOK, Popped, Held
    <3> QED
      BY <1>9, <3>1 DEF TypeOK, StartBuckets
  <2>3. transfers_onhold' \in Int
    <3>1. Cardinality({b \in Buckets : n[b] = 1}) \in Nat
      BY FS_Subset, FS_CardinalityType
    <3> QED
      BY <1>9, <3>1 DEF TypeOK, StartBuckets
  <2> QED
    BY <1>9, <2>1, <2>2, <2>3 DEF TypeOK, ConnsOK, StartBuckets, user, limits
<1>10. ASSUME NEW b \in Buckets, NEW i \in Slots, NEW n \in Remainders,
              ReceiveHeaders(b, i, n)
       PROVE  TypeOK'
  <2>1. calls[conns[b][i].url] \in Keys
    <3>1. conns[b][i].url \in 1 .. Len(calls)
      <4>1. conns[b][i].url \in Nat /\ conns[b][i].url <= Len(calls)
        BY <1>1, ConnFields DEF ConnsOK
      <4>2. conns[b][i].url # 0
        BY <1>10 DEF ReceiveHeaders
      <4> QED
        BY <1>1, <4>1, <4>2
    <3>2. calls \in Seq(Keys)
      BY DEF TypeOK
    <3> QED
      BY <3>1, <3>2
  <2>2. header' \in [bucket : Buckets \cup {NoBucket}, remaining : Nat]
    BY <1>10, <2>1, HeadersType DEF TypeOK, ReceiveHeaders
  <2>3. ConnsOK(conns', Len(calls))
    <3>1. /\ Received(conns[b][i]) \in Conn
          /\ Received(conns[b][i]).url <= Len(calls)
          /\ Received(conns[b][i]).object <= Len(calls)
      BY <1>1, ReceivedConn DEF ConnsOK
    <3>2. conns' = [conns EXCEPT ![b][i] = Received(conns[b][i])]
      BY <1>1, <1>10 DEF ReceiveHeaders, ConnsOK
    <3> QED
      BY <1>1, <3>1, <3>2, ConnUpdate
  <2>4. transfers_running' \in Nat /\ pc' = "socket"
    BY <1>10, InFlightFinite DEF ReceiveHeaders
  <2> QED
    BY <1>10, <2>2, <2>3, <2>4
    DEF TypeOK, ConnsOK, ReceiveHeaders, user, queues, limits
\* One connection gets other values in fields that name no request.
<1>11. ASSUME NEW b \in Buckets, NEW i \in Slots, NEW t \in Transfer,
              NEW body \in {NoBody, conns[b][i].body},
              conns' = [conns EXCEPT ![b][i].transfer = t, ![b][i].body = body]
       PROVE  ConnsOK(conns', Len(calls))
  <2> DEFINE c == WithTransfer(conns[b][i], t, body)
  <2>1. c \in Conn /\ c.url <= Len(calls) /\ c.object <= Len(calls)
    <3>1. /\ conns[b][i] \in Conn /\ conns[b][i].body \in Body
          /\ conns[b][i].url <= Len(calls) /\ conns[b][i].object <= Len(calls)
      BY <1>1, ConnFields DEF ConnsOK
    <3>2. body \in Body
      BY <3>1, NoBodyIsBody
    <3>3. /\ c \in Conn /\ c.url = conns[b][i].url
          /\ c.object = conns[b][i].object
      BY <3>1, <3>2, WithTransferConn
    <3> QED
      BY <3>1, <3>3
  <2>2. conns' = [conns EXCEPT ![b][i] = c]
    BY <1>1, <1>11 DEF ConnsOK, Conn, WithTransfer
  <2> QED
    BY <1>1, <2>1, <2>2, ConnUpdate
<1>12. ASSUME NEW b \in Buckets, NEW i \in Slots,
              NEW reply \in Replies \cup {"nourl"},
              SocketComplete(b, i, reply) \/ TimeoutComplete(b, i, reply)
       PROVE  TypeOK'
  <2>1. Complete(b, i, reply) /\ pc' \in {"socket", "loop"}
    BY <1>12 DEF SocketComplete, TimeoutComplete
  <2>2. ConnsOK(conns', Len(calls))
    <3>1. conns[b][i].body = conns[b][i].body /\ reply \in Transfer
      BY DEF Transfer
    <3>2. conns' = [conns EXCEPT ![b][i].transfer = reply,
                                 ![b][i].body = conns[b][i].body]
      BY <1>1, <2>1 DEF Complete, ConnsOK, Conn
    <3> QED
      BY <1>11, <3>1, <3>2
  <2>3. transfers_running' \in Nat
    BY <2>1, InFlightFinite DEF Complete
  <2> QED
    BY <2>1, <2>2, <2>3 DEF TypeOK, ConnsOK, Complete, user, queues, limits
<1>13. ASSUME NEW b \in Buckets, NEW i \in Slots, Message(b, i) PROVE TypeOK'
  <2>1. CASE Reply200(b, i)
    <3>1. ConnsOK(conns', Len(calls))
      <4>1. /\ AfterLoad(conns[b][i]) \in Conn
            /\ AfterLoad(conns[b][i]).url <= Len(calls)
            /\ AfterLoad(conns[b][i]).object <= Len(calls)
        BY <1>1, AfterLoadConn DEF ConnsOK
      <4>2. conns' = [conns EXCEPT ![b][i] = AfterLoad(conns[b][i])]
        BY <1>1, <2>1 DEF Reply200, ConnsOK
      <4> QED
        BY <1>1, <4>1, <4>2, ConnUpdate
    <3>2. loaded' \in [Requests -> Outcome]
      <4>1. Verdict(conns[b][i]) \in Outcome
        BY DEF Verdict, Outcome
      <4> QED
        BY <2>1, <4>1 DEF TypeOK, Reply200
    <3>3. /\ remaining' \in [Buckets -> Nat] /\ finished' \in [Buckets -> Nat]
          /\ ratelimit_timer' \in [Buckets -> {"off", "add", "resume"}]
      <4>1. CASE UNCHANGED limits
        BY <4>1 DEF TypeOK, limits
      <4>2. CASE finished' = [finished EXCEPT ![b] = @ + 1]
                 /\ UNCHANGED <<remaining, ratelimit_timer>>
        BY <4>2 DEF TypeOK
      <4>3. CASE /\ finished' = [finished EXCEPT ![b] = @ + 1]
                 /\ remaining' = [remaining EXCEPT ![b] = header.remaining]
                 /\ ratelimit_timer' = [ratelimit_timer EXCEPT ![b] = "add"]
        BY <4>3 DEF TypeOK
      <4> QED
        BY <2>1, <4>1, <4>2, <4>3 DEF Reply200
    <3> QED
      BY <2>1, <3>1, <3>2, <3>3 DEF TypeOK, ConnsOK, Reply200, user, queues
  <2>2. CASE CallNull(b, i)
    BY <2>2 DEF TypeOK, CallNull, user, queues, limits
  <2>3. CASE ReplyLimited(b, i)
    <3> DEFINE g == [Paused(b) EXCEPT
                        ![i].body = NoBody,
                        ![i].transfer = IF @ = "limited" THEN "spent" ELSE @]
    <3>1. \A j \in Slots :
            /\ conns[b][j].url <= Len(calls) /\ conns[b][j].object <= Len(calls)
            /\ Paused(b)[j] \in Conn
            /\ Paused(b)[j].url = conns[b][j].url
            /\ Paused(b)[j].object = conns[b][j].object
      BY <1>1, PausedConn DEF ConnsOK
    <3>2. Paused(b) \in [Slots -> Conn]
      BY <3>1 DEF Paused
    <3>3. \A j \in Slots : /\ g[j] \in Conn
                           /\ g[j].url = Paused(b)[j].url
                           /\ g[j].object = Paused(b)[j].object
      BY <3>2, NoBodyIsBody DEF Conn, Transfer
    <3>4. g \in [Slots -> Conn]
      BY <3>2, <3>3
    <3>5. conns' = [conns EXCEPT ![b] = g]
      BY <2>3 DEF ReplyLimited
    <3> HIDE DEF g
    <3>6. ConnsOK(conns', Len(calls))
      BY <1>1, <3>1, <3>3, <3>4, <3>5, BucketUpdate
    <3> QED
      BY <2>3, <3>6 DEF TypeOK, ConnsOK, ReplyLimited, user, queues
  <2>4. CASE ReplyGlobal(b, i)
    <3>1. ConnsOK(conns', Len(calls))
      BY <1>11, <2>4 DEF ReplyGlobal, Transfer
    <3> QED
      BY <2>4, <3>1 DEF TypeOK, ConnsOK, ReplyGlobal, user, queues, limits
  <2>5. CASE ReplyNoUrl(b, i)
    <3>1. conns' = [conns EXCEPT ![b][i].transfer = "out",
                                 ![b][i].body = conns[b][i].body]
      BY <1>1, <2>5 DEF ReplyNoUrl, ConnsOK, Conn
    <3>2. ConnsOK(conns', Len(calls))
      BY <1>11, <3>1 DEF Transfer
    <3> QED
      BY <2>5, <3>2 DEF TypeOK, ConnsOK, ReplyNoUrl, user, queues, limits
  <2>6. CASE ReplyFatal(b, i)
    BY <2>6 DEF TypeOK, ReplyFatal, user, queues, limits
  <2> QED
    BY <1>13, <2>1, <2>2, <2>3, <2>4, <2>5, <2>6 DEF Message
<1>14. CASE EndSocketEvent
  BY <1>14 DEF TypeOK, EndSocketEvent, user, queues, limits
<1>15. ASSUME NEW b \in Buckets, AddRemaining(b) PROVE TypeOK'
  <2> DEFINE n == Popped(Held(b), remaining[b])
  <2>1. ConnsOK(conns', Len(calls))
    BY <1>1, <1>2, <1>15, BucketUpdate DEF AddRemaining
  <2>2. n \in Int /\ separator[b] + n \in Nat
    <3>1. /\ separator[b] \in Nat /\ top_onhold[b] \in Nat
          /\ remaining[b] \in Nat
      BY DEF TypeOK
    <3> QED
      BY <3>1 DEF Popped, Held
  <2>3. /\ separator' \in [Buckets -> Nat]
        /\ bottom_running' \in [Buckets -> Nat]
        /\ transfers_onhold' \in Int
    BY <1>15, <2>2 DEF TypeOK, AddRemaining
  <2> QED
    BY <1>15, <2>1, <2>3 DEF TypeOK, ConnsOK, AddRemaining, user
<1>16. ASSUME NEW b \in Buckets, Resume(b) PROVE TypeOK'
  <2> DEFINE g == [j \in Slots |->
                    IF /\ bottom_running[b] <= j /\ j < separator[b]
                       /\ conns[b][j].status = "PAUSE"
                    THEN Launch(conns[b][j]) ELSE conns[b][j]]
  <2>1. \A j \in Slots : /\ conns[b][j] \in Conn
                         /\ conns[b][j].url <= Len(calls)
                         /\ conns[b][j].object <= Len(calls)
    BY <1>1 DEF ConnsOK
  <2>2. \A j \in Slots : /\ g[j] \in Conn /\ g[j].url <= Len(calls)
                         /\ g[j].object <= Len(calls)
    BY <2>1, LaunchConn
  <2>3. ConnsOK([conns EXCEPT ![b] = g], Len(calls))
    BY <1>1, <2>2, BucketUpdate
  <2>4. conns' = [conns EXCEPT ![b] = g]
    BY <1>16 DEF Resume
  <2> QED
    BY <1>16, <2>3, <2>4 DEF TypeOK, ConnsOK, Resume, user, queues
<1>17. CASE LoopExitAborts
  BY <1>17 DEF TypeOK, LoopExitAborts, user, queues, limits
<1>18. CASE LoopExit
  <2>1. ConnsOK(conns', Len(calls))
    <3>1. CASE UNCHANGED conns
      BY <1>1, <3>1
    <3>2. ASSUME NEW b, NEW i,
                 conns' = [conns EXCEPT ![b][i] = Filled(@, Len(calls))]
          PROVE  ConnsOK(conns', Len(calls))
      <4>1. CASE b \in Buckets /\ i \in Slots
        <5>1. /\ Filled(conns[b][i], Len(calls)) \in Conn
              /\ Filled(conns[b][i], Len(calls)).url <= Len(calls)
              /\ Filled(conns[b][i], Len(calls)).object <= Len(calls)
          BY <1>1, <4>1, FilledConn
        <5>2. conns' = [conns EXCEPT ![b][i] = Filled(conns[b][i], Len(calls))]
          BY <1>1, <3>2, <4>1 DEF ConnsOK
        <5> QED
          BY <1>1, <4>1, <5>1, <5>2, ConnUpdate
      <4>2. CASE ~(b \in Buckets /\ i \in Slots)
        <5>1. CASE b \notin Buckets
          BY <1>1, <3>2, <5>1, ExceptOutside DEF ConnsOK
        <5>2. CASE b \in Buckets /\ i \notin Slots
          <6>1. \A x : [conns[b] EXCEPT ![i] = x] = conns[b]
            BY <1>1, <5>2, ExceptOutside DEF ConnsOK
          <6>2. conns' = conns
            BY <1>1, <3>2, <5>2, <6>1 DEF ConnsOK
          <6> QED
            BY <1>1, <6>2
        <5> QED
          BY <4>2, <5>1, <5>2
      <4> QED
        BY <4>1, <4>2
    <3> QED
      BY <1>18, <3>1, <3>2 DEF LoopExit
  <2> QED
    BY <1>18, <2>1 DEF TypeOK, ConnsOK, LoopExit, user, limits
<1>19. CASE UNCHANGED vars
  BY <1>19 DEF TypeOK, vars, user, queues, limits
<1> QED
  BY <1>3, <1>4, <1>5, <1>6, <1>7, <1>8, <1>9, <1>10, <1>12, <1>13, <1>14,
     <1>15, <1>16, <1>17, <1>18, <1>19
  DEF Next, UserNext, SyncNext, LoopNext, Network

\* Type correctness of the whole REST half, whatever the server answers.
THEOREM TypeCorrect == Spec => []TypeOK
<1>1. Init => TypeOK
  BY TypeInit
<1>2. TypeOK /\ [Next]_vars => TypeOK'
  BY TypeNext
<1> QED
  BY <1>1, <1>2, PTL DEF Spec

-----------------------------------------------------------------------------
(* The shape of the queues *)

\* A slot that holds a connection holds one for ever.
SlotsStayFilled ==
    \A b \in Buckets, i \in Slots :
        conns[b][i].status # "NULL" => conns'[b][i].status # "NULL"

\* An update of one connection that does not make the slot empty.
LEMMA FilledUpdate ==
    ASSUME conns \in [Buckets -> [Slots -> Conn]],
           NEW b, NEW i, NEW c, c.status # "NULL",
           conns' = [conns EXCEPT ![b][i] = c]
    PROVE  SlotsStayFilled
BY DEF SlotsStayFilled

\* The same for the connections of one bucket.
LEMMA FilledBucketUpdate ==
    ASSUME conns \in [Buckets -> [Slots -> Conn]],
           NEW b \in Buckets, NEW g,
           \A i \in Slots : conns[b][i].status # "NULL" => g[i].status # "NULL",
           conns' = [conns EXCEPT ![b] = g]
    PROVE  SlotsStayFilled
BY DEF SlotsStayFilled

\* No step empties a slot.
LEMMA NextKeepsFilled == TypeOK /\ [Next]_vars => SlotsStayFilled
<1> SUFFICES ASSUME TypeOK, [Next]_vars PROVE SlotsStayFilled
  OBVIOUS
<1>1. /\ conns \in [Buckets -> [Slots -> Conn]]
      /\ \A b \in Buckets, i \in Slots : conns[b][i] \in Conn
      /\ Len(calls) \in Nat
  BY LenProperties DEF TypeOK
<1>2. CASE UNCHANGED conns
  BY <1>2 DEF SlotsStayFilled
<1>3. ASSUME NEW n \in Remainders, SyncOk(n) PROVE SlotsStayFilled
  <2>1. Registered(Len(calls)).status # "NULL"
    BY <1>1, RegisteredConn
  <2>2. \/ UNCHANGED conns
        \/ \E b, i : conns' = [conns EXCEPT ![b][i] = Registered(Len(calls))]
    BY <1>3 DEF SyncOk
  <2> QED
    BY <1>1, <1>2, <2>1, <2>2, FilledUpdate
<1>4. ASSUME NEW k \in Keys, Enqueue(k) PROVE SlotsStayFilled
  <2> DEFINE b == bucket_dict[k]
             i == top_onhold[b]
  <2>1. b \in Buckets
    BY <1>4 DEF TypeOK, Enqueue
  <2>2. CASE i \in Slots
    <3> DEFINE held == OnHold(conns[b][i])
    <3>1. held \in Conn /\ held.status = "ONHOLD"
      BY <1>1, <2>1, <2>2, OnHoldConn
    <3>2. Filled(held, Len(calls) + 1).status = "ONHOLD"
      <4> HIDE DEF held
      <4>1. Len(calls) + 1 \in Nat
        BY <1>1
      <4> QED
        BY <3>1, <4>1, FilledConn
    <3>3. \/ conns' = [conns EXCEPT ![b][i] = held]
          \/ conns' = [conns EXCEPT ![b][i] = Filled(held, Len(calls) + 1)]
      BY <1>1, <1>4, <2>1, <2>2 DEF Enqueue
    <3> QED
      BY <1>1, <3>1, <3>2, <3>3, FilledUpdate
  <2>3. CASE i \notin Slots
    <3>1. PICK c : conns' = [conns EXCEPT ![b][i] = c]
      BY <1>4 DEF Enqueue
    <3> HIDE DEF b, i
    <3>2. \A d \in Buckets, j \in Slots : conns'[d][j] = conns[d][j]
      BY <1>1, <2>1, <2>3, <3>1
    <3> QED
      BY <3>2 DEF SlotsStayFilled
  <2> QED
    BY <2>2, <2>3
<1>5. ASSUME NEW b \in Buckets, NEW n, NEW i \in Slots
      PROVE  conns[b][i].status # "NULL" => AfterPop(b, n)[i].status # "NULL"
  BY <1>1, LaunchConn DEF AfterPop
<1>6. CASE StartBuckets
  BY <1>5, <1>6 DEF StartBuckets, SlotsStayFilled
<1>7. ASSUME NEW b \in Buckets, AddRemaining(b) PROVE SlotsStayFilled
  <2> DEFINE g == AfterPop(b, Popped(Held(b), remaining[b]))
  <2>1. conns' = [conns EXCEPT ![b] = g]
    BY <1>7 DEF AddRemaining
  <2>2. \A i \in Slots : conns[b][i].status # "NULL" => g[i].status # "NULL"
    BY <1>5
  <2> HIDE DEF g
  <2>3. conns \in [Buckets -> [Slots -> Conn]]
    BY <1>1
  <2> QED
    BY <2>1, <2>2, <2>3, FilledBucketUpdate
<1>8. ASSUME NEW b \in Buckets, NEW i \in Slots, Network(b, i)
      PROVE  SlotsStayFilled
  <2>1. ASSUME NEW n \in Remainders, ReceiveHeaders(b, i, n)
        PROVE  SlotsStayFilled
    BY <1>1, <2>1, ReceivedConn DEF ReceiveHeaders, SlotsStayFilled
  <2>2. ASSUME NEW reply, Complete(b, i, reply) PROVE SlotsStayFilled
    BY <1>1, <2>2 DEF Complete, SlotsStayFilled, Conn
  <2> QED
    BY <1>8, <2>1, <2>2 DEF Network, SocketComplete, TimeoutComplete
<1>9. ASSUME NEW b \in Buckets, NEW i \in Slots, Message(b, i)
      PROVE  SlotsStayFilled
  <2>1. CASE Reply200(b, i)
    BY <1>1, <2>1, AfterLoadConn DEF Reply200, SlotsStayFilled
  <2>2. CASE ReplyLimited(b, i)
    <3>1. \A j \in Slots : conns[b][j].status # "NULL" =>
                            /\ Paused(b)[j] \in Conn
                            /\ Paused(b)[j].status # "NULL"
      BY <1>1, PausedConn
    <3>2. \A j \in Slots : conns[b][j].status # "NULL" =>
            [Paused(b) EXCEPT
                ![i].body = NoBody,
                ![i].transfer = IF @ = "limited" THEN "spent" ELSE @][j].status
            # "NULL"
      BY <3>1 DEF Paused, Conn
    <3> QED
      BY <1>1, <2>2, <3>2, FilledBucketUpdate DEF ReplyLimited
  <2>3. CASE ReplyGlobal(b, i)
    BY <1>1, <2>3 DEF ReplyGlobal, SlotsStayFilled, Conn
  <2>4. CASE ReplyNoUrl(b, i)
    BY <1>1, <2>4 DEF ReplyNoUrl, SlotsStayFilled, Conn
  <2>5. CASE CallNull(b, i) \/ ReplyFatal(b, i)
    BY <1>2, <2>5 DEF CallNull, ReplyFatal
  <2> QED
    BY <1>9, <2>1, <2>2, <2>3, <2>4, <2>5 DEF Message
<1>10. ASSUME NEW b \in Buckets, Resume(b) PROVE SlotsStayFilled
  BY <1>1, <1>10, LaunchConn DEF Resume, SlotsStayFilled
<1>11. CASE LoopExit
  <2>1. ASSUME NEW b, NEW i,
               conns' = [conns EXCEPT ![b][i] = Filled(@, Len(calls))]
        PROVE  SlotsStayFilled
    <3>1. \A d \in Buckets, j \in Slots :
            conns'[d][j] \in {conns[d][j], Filled(conns[d][j], Len(calls))}
      BY <1>1, <2>1
    <3>2. \A d \in Buckets, j \in Slots :
            Filled(conns[d][j], Len(calls)).status = conns[d][j].status
      BY <1>1, FilledConn
    <3> QED
      BY <3>1, <3>2 DEF SlotsStayFilled
  <2> QED
    BY <1>2, <1>11, <2>1 DEF LoopExit
<1>12. ASSUME \/ \E k \in Keys : Register(k)
              \/ \E n \in Remainders : SyncLimited(n)
              \/ SyncFatal \/ Dispatch \/ EndSocketEvent \/ LoopExitAborts
              \/ UNCHANGED vars
       PROVE  UNCHANGED conns
  BY <1>12 DEF Register, SyncLimited, SyncFatal, Dispatch, EndSocketEvent,
               LoopExitAborts, vars
<1> QED
  BY <1>2, <1>3, <1>4, <1>6, <1>7, <1>8, <1>9, <1>10, <1>11, <1>12
  DEF Next, UserNext, SyncNext, LoopNext

\* The steps that move an index of a queue; the others only look at them.
Moves == \/ \E k \in Keys : Enqueue(k)
         \/ StartBuckets
         \/ \E b \in Buckets : AddRemaining(b)
         \/ LoopExit

\* A step that moves no index starts no run and ends none, and only a 200 for
\* a bucket with connections on hold touches that bucket's counters.
LEMMA QuietSteps ==
    ASSUME TypeOK, [Next]_vars, ~Moves
    PROVE  /\ UNCHANGED queues
           /\ pc' \in {"idle", "sync", "run"} => pc \in {"idle", "sync", "run"}
           /\ pc' \in {"idle", "sync"} => pc \in {"idle", "sync"}
           /\ \/ UNCHANGED <<finished, remaining>>
              \/ \E b \in Buckets :
                    /\ Held(b) # 0
                    /\ pc' \notin {"idle", "sync", "run"}
                    /\ pc \notin {"idle", "sync", "run"}
                    /\ \E f, r : finished' = [finished EXCEPT ![b] = f]
                                 /\ remaining' = [remaining EXCEPT ![b] = r]
<1>1. ASSUME NEW k \in Keys, Register(k)
      PROVE  /\ UNCHANGED queues /\ UNCHANGED <<finished, remaining>>
             /\ pc = "idle"
  BY <1>1 DEF Register, queues, limits
<1>2. ASSUME NEW n \in Remainders, SyncOk(n) \/ SyncLimited(n)
      PROVE  UNCHANGED <<queues, finished, remaining>> /\ pc = "sync"
  BY <1>2 DEF SyncOk, SyncLimited, queues, limits
<1>3. CASE SyncFatal
  BY <1>3 DEF SyncFatal, queues, limits
<1>4. CASE Dispatch
  BY <1>4 DEF Dispatch, queues, limits
<1>5. ASSUME NEW b \in Buckets, NEW i \in Slots, Network(b, i)
      PROVE  /\ UNCHANGED queues /\ UNCHANGED <<finished, remaining>>
             /\ pc' \in {"socket", "loop"}
  BY <1>5 DEF Network, ReceiveHeaders, SocketComplete, TimeoutComplete,
              Complete, queues, limits
<1>6. ASSUME NEW b \in Buckets, NEW i \in Slots, Message(b, i)
      PROVE  /\ UNCHANGED queues
             /\ pc \in {"socket", "drain"}
             /\ pc' \in {"drain", "aborted", "crashed"}
             /\ \/ UNCHANGED <<finished, remaining>>
                \/ /\ Held(b) # 0
                   /\ \E f, r : finished' = [finished EXCEPT ![b] = f]
                                /\ remaining' = [remaining EXCEPT ![b] = r]
  <2>1. CASE Reply200(b, i)
    <3>1. CASE UNCHANGED limits
      BY <2>1, <3>1 DEF Reply200, Draining, queues, limits
    <3>2. ASSUME Held(b) # 0, finished' = [finished EXCEPT ![b] = @ + 1],
                 \/ remaining' = [remaining EXCEPT ![b] = header.remaining]
                 \/ remaining' = remaining
          PROVE  \E f, r : finished' = [finished EXCEPT ![b] = f]
                           /\ remaining' = [remaining EXCEPT ![b] = r]
      <4>1. finished' = [finished EXCEPT ![b] = finished[b] + 1]
        BY <3>2
      <4>2. CASE remaining' = [remaining EXCEPT ![b] = header.remaining]
        BY <4>1, <4>2
      <4>3. CASE remaining' = remaining
        <5>1. remaining' = [remaining EXCEPT ![b] = remaining[b]]
          BY <4>3 DEF TypeOK
        <5> QED
          BY <4>1, <5>1
      <4> QED
        BY <3>2, <4>2, <4>3
    <3>3. \/ UNCHANGED limits
          \/ /\ Held(b) # 0 /\ finished' = [finished EXCEPT ![b] = @ + 1]
             /\ \/ remaining' = [remaining EXCEPT ![b] = header.remaining]
                \/ remaining' = remaining
      BY <2>1 DEF Reply200
    <3>4. /\ UNCHANGED queues /\ pc \in {"socket", "drain"} /\ pc' = "drain"
      BY <2>1 DEF Reply200, Draining, queues
    <3> QED
      BY <3>1, <3>2, <3>3, <3>4
  <2>2. CASE ReplyLimited(b, i)
    BY <2>2 DEF ReplyLimited, Draining, queues
  <2>3. CASE \/ CallNull(b, i) \/ ReplyGlobal(b, i) \/ ReplyNoUrl(b, i)
             \/ ReplyFatal(b, i)
    BY <2>3 DEF CallNull, ReplyGlobal, ReplyNoUrl, ReplyFatal, Draining,
                queues, limits
  <2> QED
    BY <1>6, <2>1, <2>2, <2>3 DEF Message
<1>7. CASE EndSocketEvent
  BY <1>7 DEF EndSocketEvent, queues, limits
<1>8. ASSUME NEW b \in Buckets, Resume(b)
      PROVE  UNCHANGED <<queues, finished, remaining, pc>>
  BY <1>8 DEF Resume, queues
<1>9. CASE LoopExitAborts
  BY <1>9 DEF LoopExitAborts, queues, limits
<1>10. CASE UNCHANGED vars
  BY <1>10 DEF vars, queues, limits
<1> QED
  BY <1>1, <1>2, <1>3, <1>4, <1>5, <1>6, <1>7, <1>8, <1>9, <1>10
  DEF Next, UserNext, SyncNext, LoopNext, Moves

\* The number of connections on hold is a number.
LEMMA HeldNat ==
    ASSUME TypeOK, QueueShape, NEW b \in Buckets
    PROVE  /\ Held(b) \in Nat
           /\ separator[b] \in Nat /\ top_onhold[b] \in Nat
           /\ top_onhold[b] = separator[b] + Held(b)
BY DEF TypeOK, QueueShape, Held

\* The queues keep their shape.
LEMMA ShapeNext == TypeOK /\ QueueShape /\ [Next]_vars => QueueShape'
<1> SUFFICES ASSUME TypeOK, QueueShape, [Next]_vars PROVE QueueShape'
  OBVIOUS
<1> USE ConcordApiAssumption DEF ConcordApiAssumption
<1>1. SlotsStayFilled
  BY NextKeepsFilled
<1>2. CASE ~Moves
  BY <1>1, <1>2, QuietSteps DEF QueueShape, SlotsStayFilled, queues
<1>3. ASSUME NEW k \in Keys, Enqueue(k) PROVE QueueShape'
  <2> DEFINE b == bucket_dict[k]
             i == top_onhold[b]
  <2>1. b \in Buckets /\ i \in Slots /\ Len(calls) \in Nat
    BY <1>3, LenProperties DEF TypeOK, QueueShape, Enqueue, Slots
  <2>2. conns'[b][i].status # "NULL"
    <3>1. OnHold(conns[b][i]) \in Conn /\ OnHold(conns[b][i]).status = "ONHOLD"
      BY <2>1, OnHoldConn DEF TypeOK
    <3>2. Filled(OnHold(conns[b][i]), Len(calls) + 1).status = "ONHOLD"
      <4> DEFINE held == OnHold(conns[b][i])
      <4>1. held \in Conn /\ held.status = "ONHOLD" /\ Len(calls) + 1 \in Nat
        BY <2>1, <3>1
      <4> HIDE DEF held
      <4>2. Filled(held, Len(calls) + 1).status = held.status
        BY <4>1, FilledConn
      <4> QED
        BY <4>1, <4>2 DEF held
    <3>3. conns'[b][i] \in {OnHold(conns[b][i]),
                            Filled(OnHold(conns[b][i]), Len(calls) + 1)}
      BY <1>3, <2>1 DEF TypeOK, Enqueue
    <3> QED
      BY <3>1, <3>2, <3>3
  <2>3. /\ top_onhold' = [top_onhold EXCEPT ![b] = i + 1]
        /\ UNCHANGED <<bottom_running, separator>>
        /\ pc = "idle"
        /\ pc' \in {"idle", "sync"} => i + 1 # QueueSize
    BY <1>3 DEF Enqueue, Fills
  <2>4. ASSUME NEW d \in Buckets
        PROVE  /\ bottom_running'[d] <= separator'[d]
               /\ separator'[d] <= top_onhold'[d]
               /\ top_onhold'[d] <= QueueSize
               /\ pc' \in {"idle", "sync"} => top_onhold'[d] < QueueSize
    <3>1. /\ bottom_running[d] <= separator[d] /\ separator[d] <= top_onhold[d]
          /\ top_onhold[d] < QueueSize /\ top_onhold \in [Buckets -> Nat]
          /\ separator[d] \in Nat
      BY <2>3 DEF TypeOK, QueueShape
    <3>2. CASE d = b
      BY <2>1, <2>3, <3>1, <3>2 DEF Slots
    <3>3. CASE d # b
      BY <2>3, <3>1, <3>3
    <3> QED
      BY <3>2, <3>3
  <2>5. ASSUME NEW d \in Buckets, NEW j \in Slots, j < top_onhold'[d]
        PROVE  conns'[d][j].status # "NULL"
    <3>1. CASE d = b /\ j = i
      BY <2>2, <3>1
    <3>2. CASE ~(d = b /\ j = i)
      <4>1. j < top_onhold[d]
        BY <2>1, <2>3, <2>5, <3>2 DEF TypeOK, Slots
      <4> QED
        BY <1>1, <4>1 DEF QueueShape, SlotsStayFilled
    <3> QED
      BY <3>1, <3>2
  <2> QED
    BY <2>4, <2>5 DEF QueueShape
<1>4. CASE StartBuckets
  <2>1. ASSUME NEW b \in Buckets
        PROVE  /\ Popped(Held(b), 1) \in Nat
               /\ separator[b] + Popped(Held(b), 1) <= top_onhold[b]
    BY HeldNat, PoppedBounds
  <2>2. /\ bottom_running' = separator /\ UNCHANGED top_onhold /\ pc' = "loop"
        /\ separator' = [b \in Buckets |-> separator[b] + Popped(Held(b), 1)]
    BY <1>4 DEF StartBuckets
  <2>3. ASSUME NEW b \in Buckets
        PROVE  /\ bottom_running'[b] <= separator'[b]
               /\ separator'[b] <= top_onhold'[b]
               /\ top_onhold'[b] <= QueueSize
    BY <2>1, <2>2, HeldNat DEF QueueShape
  <2> QED
    BY <1>1, <2>2, <2>3 DEF QueueShape, SlotsStayFilled
<1>5. ASSUME NEW b \in Buckets, AddRemaining(b) PROVE QueueShape'
  <2> DEFINE n == Popped(Held(b), remaining[b])
  <2>1. n \in Nat /\ separator[b] + n <= top_onhold[b]
    <3>1. /\ Held(b) \in Nat /\ remaining[b] \in Nat /\ separator[b] \in Nat
          /\ top_onhold[b] = separator[b] + Held(b)
      BY HeldNat DEF TypeOK
    <3>2. n \in Nat /\ n <= Held(b)
      BY <3>1, PoppedBounds
    <3> QED
      BY <3>1, <3>2
  <2>2. /\ separator' = [separator EXCEPT ![b] = separator[b] + n]
        /\ bottom_running' = [bottom_running EXCEPT ![b] = separator[b]]
        /\ UNCHANGED <<top_onhold, pc>>
    BY <1>5 DEF AddRemaining
  <2> HIDE DEF n
  <2>3. ASSUME NEW d \in Buckets
        PROVE  /\ bottom_running'[d] <= separator'[d]
               /\ separator'[d] <= top_onhold'[d]
    <3>1. /\ separator[d] \in Nat /\ bottom_running[d] \in Nat
          /\ bottom_running[d] <= separator[d] /\ separator[d] <= top_onhold[d]
      BY DEF TypeOK, QueueShape
    <3>2. CASE d = b
      BY <2>1, <2>2, <3>1, <3>2 DEF TypeOK
    <3>3. CASE d # b
      BY <2>2, <3>1, <3>3
    <3> QED
      BY <3>2, <3>3
  <2> QED
    BY <1>1, <2>2, <2>3 DEF QueueShape, SlotsStayFilled
<1>6. CASE LoopExit
  BY <1>6 DEF LoopExit, QueueShape, Slots
<1> QED
  BY <1>2, <1>3, <1>4, <1>5, <1>6 DEF Moves

\* Every queue keeps its shape: no index leaves the array or meets a NULL slot.
THEOREM QueueShapeCorrect == Spec => []QueueShape
<1>1. Init => QueueShape
  BY ConcordApiAssumption DEF ConcordApiAssumption, Init, QueueShape, Slots
<1>2. TypeOK /\ QueueShape /\ [Next]_vars => QueueShape'
  BY ShapeNext
<1> QED
  BY <1>1, <1>2, TypeCorrect, PTL DEF Spec

-----------------------------------------------------------------------------
(* transfers_onhold counts the connections on hold *)

\* Tagging each element of a finite set makes a set of the same size.
LEMMA TaggedCardinality ==
    ASSUME NEW S, IsFiniteSet(S), NEW T, NEW f \in [S -> T],
           \A x, y \in S : f[x] = f[y] => x = y,
           \A z \in T : \E x \in S : f[x] = z
    PROVE  IsFiniteSet(T) /\ Cardinality(T) = Cardinality(S)
<1>1. f \in Bijection(S, T)
  BY DEF Bijection, Injection, Surjection, IsInjective
<1> QED
  BY <1>1, FS_Bijection DEF ExistsBijection

\* The set that transfers_onhold counts is finite.
LEMMA HeldFinite == IsFiniteSet(HeldConns) /\ Cardinality(HeldConns) \in Nat
<1>1. IsFiniteSet(HeldConns)
  BY InFlightFinite, FS_Subset DEF HeldConns
<1> QED
  BY <1>1, FS_CardinalityType

\* Taking a set of connections out of the held ones takes its size away.
LEMMA HeldRemoved ==
    ASSUME NEW D \in SUBSET HeldConns
    PROVE  /\ IsFiniteSet(D) /\ Cardinality(D) \in Nat
           /\ Cardinality(HeldConns \ D) =
                Cardinality(HeldConns) - Cardinality(D)
<1>1. IsFiniteSet(D)
  BY HeldFinite, FS_Subset
<1>2. HeldConns \cap D = D
  OBVIOUS
<1> QED
  BY <1>1, <1>2, HeldFinite, FS_Difference, FS_CardinalityType

\* Push, pop and reset keep transfers_onhold and the indices in step.
LEMMA CountNext ==
    TypeOK /\ QueueShape /\ OnholdCount /\ [Next]_vars => OnholdCount'
<1> SUFFICES ASSUME TypeOK, QueueShape, OnholdCount, [Next]_vars
             PROVE  OnholdCount'
  OBVIOUS
<1>1. CASE ~Moves
  <2>1. UNCHANGED queues
    BY <1>1, QuietSteps
  <2> QED
    BY <2>1 DEF OnholdCount, HeldConns, queues
<1>2. ASSUME NEW k \in Keys, Enqueue(k) PROVE OnholdCount'
  <2> DEFINE b == bucket_dict[k]
             i == top_onhold[b]
  <2>1. /\ b \in Buckets /\ i \in Slots /\ separator[b] <= i
        /\ i \in Int
    BY <1>2, ConcordApiAssumption
    DEF ConcordApiAssumption, TypeOK, QueueShape, Enqueue, Slots
  <2>2. /\ top_onhold' = [top_onhold EXCEPT ![b] = i + 1]
        /\ UNCHANGED separator /\ transfers_onhold' = transfers_onhold + 1
    BY <1>2 DEF Enqueue
  <2>3. HeldConns' = HeldConns \cup {<<b, i>>}
    <3>1. separator' = separator
      BY <2>2
    <3>2. ASSUME NEW d \in Buckets
          PROVE  top_onhold'[d] = IF d = b THEN top_onhold[b] + 1
                                           ELSE top_onhold[d]
      BY <2>2 DEF TypeOK
    <3>3. top_onhold[b] \in Int /\ separator[b] <= top_onhold[b]
      BY <2>1
    <3>4. ASSUME NEW d \in Buckets, NEW j \in Slots
          PROVE  separator'[d] <= j /\ j < top_onhold'[d]
                    <=> \/ separator[d] <= j /\ j < top_onhold[d]
                        \/ d = b /\ j = i
      <4>1. separator[d] \in Int /\ j \in Int
        BY DEF TypeOK, Slots
      <4>2. CASE d = b
        <5>1. separator'[d] = separator[b] /\ top_onhold'[d] = i + 1
              /\ separator[d] = separator[b] /\ top_onhold[d] = i
          BY <3>1, <3>2, <4>2
        <5> HIDE DEF i, b
        <5> QED
          BY <2>1, <4>1, <4>2, <5>1
      <4>3. CASE d # b
        BY <3>1, <3>2, <4>3
      <4> QED
        BY <4>2, <4>3
    <3>5. <<b, i>> \in Buckets \X Slots
      BY <2>1
    <3> HIDE DEF i, b
    <3> QED
      BY <3>4, <3>5 DEF HeldConns
  <2>4. <<b, i>> \notin HeldConns
    BY <2>1 DEF HeldConns
  <2> QED
    BY <2>2, <2>3, <2>4, HeldFinite, FS_AddElement DEF OnholdCount
<1>3. CASE StartBuckets
  <2> DEFINE E == {b \in Buckets : Popped(Held(b), 1) = 1}
             D == {<<b, separator[b]>> : b \in E}
  <2>1. ASSUME NEW b \in Buckets
        PROVE  /\ Popped(Held(b), 1) \in {0, 1}
               /\ Popped(Held(b), 1) = 1 <=> Held(b) # 0
               /\ separator[b] \in Nat /\ Held(b) \in Nat
               /\ top_onhold[b] = separator[b] + Held(b)
               /\ top_onhold[b] <= QueueSize
    BY HeldNat, PoppedBounds DEF Popped, QueueShape
  <2>2. D \subseteq HeldConns
    BY <2>1, ConcordApiAssumption DEF ConcordApiAssumption, HeldConns, Slots
  <2>3. HeldConns' = HeldConns \ D
    <3>1. separator' = [b \in Buckets |-> separator[b] + Popped(Held(b), 1)]
          /\ UNCHANGED top_onhold
      BY <1>3 DEF StartBuckets
    <3>2. ASSUME NEW d \in Buckets, NEW j \in Slots
          PROVE  separator'[d] <= j /\ j < top_onhold'[d]
                    <=> /\ separator[d] <= j /\ j < top_onhold[d]
                        /\ ~(d \in E /\ j = separator[d])
      BY <2>1, <3>1 DEF Slots
    <3> QED
      BY <3>2 DEF HeldConns
  <2>4. Cardinality(D) = Cardinality(E)
    <3> DEFINE f == [b \in E |-> <<b, separator[b]>>]
    <3>1. f \in [E -> D]
      OBVIOUS
    <3>2. \A x, y \in E : f[x] = f[y] => x = y
      OBVIOUS
    <3>3. \A z \in D : \E x \in E : f[x] = z
      OBVIOUS
    <3>4. IsFiniteSet(E)
      BY FS_Subset, ConcordApiAssumption DEF ConcordApiAssumption
    <3> HIDE DEF f, D, E
    <3> QED
      BY <3>1, <3>2, <3>3, <3>4, TaggedCardinality
  <2>5. transfers_onhold' = transfers_onhold - Cardinality(E)
    BY <1>3 DEF StartBuckets
  <2> HIDE DEF D, E
  <2> QED
    BY <2>2, <2>3, <2>4, <2>5, HeldRemoved DEF OnholdCount
<1>4. ASSUME NEW b \in Buckets, AddRemaining(b) PROVE OnholdCount'
  <2> DEFINE n == Popped(Held(b), remaining[b])
             I == separator[b] .. separator[b] + n - 1
             D == {<<b, j>> : j \in I}
  <2>1. /\ n \in Nat /\ n <= Held(b) /\ separator[b] \in Nat
        /\ Held(b) \in Nat /\ top_onhold[b] = separator[b] + Held(b)
        /\ top_onhold[b] <= QueueSize
    <3>1. /\ Held(b) \in Nat /\ remaining[b] \in Nat /\ separator[b] \in Nat
          /\ top_onhold[b] = separator[b] + Held(b)
          /\ top_onhold[b] <= QueueSize
      BY HeldNat DEF TypeOK, QueueShape
    <3> QED
      BY <3>1, PoppedBounds
  <2>2. /\ separator' = [separator EXCEPT ![b] = separator[b] + n]
        /\ UNCHANGED top_onhold /\ transfers_onhold' = transfers_onhold - n
    BY <1>4 DEF AddRemaining
  <2> HIDE DEF n
  <2>3. D \subseteq HeldConns
    BY <2>1, ConcordApiAssumption DEF ConcordApiAssumption, HeldConns, Slots
  <2>4. HeldConns' = HeldConns \ D
    <3>1. ASSUME NEW d \in Buckets, NEW j \in Slots
          PROVE  separator'[d] <= j /\ j < top_onhold'[d]
                    <=> /\ separator[d] <= j /\ j < top_onhold[d]
                        /\ ~(d = b /\ j \in I)
      <4>1. CASE d = b
        BY <2>1, <2>2, <4>1 DEF TypeOK, Slots
      <4>2. CASE d # b
        BY <2>2, <4>2
      <4> QED
        BY <4>1, <4>2
    <3> QED
      BY <3>1 DEF HeldConns
  <2>5. Cardinality(D) = n
    <3> DEFINE f == [j \in I |-> <<b, j>>]
    <3>1. f \in [I -> D]
      OBVIOUS
    <3>2. \A x, y \in I : f[x] = f[y] => x = y
      OBVIOUS
    <3>3. \A z \in D : \E x \in I : f[x] = z
      OBVIOUS
    <3>4. IsFiniteSet(I) /\ Cardinality(I) = n
      <4> DEFINE lo == separator[b]
                 hi == separator[b] + n - 1
      <4>1. lo \in Int /\ hi \in Int /\ hi - lo + 1 = n /\ (lo > hi => n = 0)
        BY <2>1
      <4> HIDE DEF lo, hi, f, D
      <4>2. /\ IsFiniteSet(lo .. hi)
            /\ Cardinality(lo .. hi) = IF lo > hi THEN 0 ELSE hi - lo + 1
        BY <4>1, FS_Interval
      <4>3. I = lo .. hi
        BY DEF lo, hi
      <4> HIDE DEF I
      <4> QED
        BY <4>1, <4>2, <4>3
    <3> HIDE DEF f, D, I
    <3>5. Cardinality(D) = Cardinality(I)
      BY <3>1, <3>2, <3>3, <3>4, TaggedCardinality
    <3> QED
      BY <3>4, <3>5
  <2> HIDE DEF D
  <2> QED
    BY <2>2, <2>3, <2>4, <2>5, HeldRemoved DEF OnholdCount
<1>5. CASE LoopExit
  <2>1. transfers_onhold' = 0
    BY <1>5 DEF LoopExit, LeftOver
  <2>2. HeldConns' = {}
    BY <1>5 DEF LoopExit, HeldConns, Slots
  <2> QED
    BY <2>1, <2>2, FS_EmptySet DEF OnholdCount
<1> QED
  BY <1>1, <1>2, <1>3, <1>4, <1>5 DEF Moves

\* transfers_onhold is exact: concord_dispatch's early return skips no waiting
\* request, and the assertion after the loop fails exactly when one is left.
THEOREM OnholdCountCorrect == Spec => []OnholdCount
<1>1. Init => OnholdCount
  <2> SUFFICES ASSUME Init PROVE OnholdCount
    OBVIOUS
  <2>1. HeldConns = {} /\ transfers_onhold = 0
    BY DEF Init, HeldConns, Slots
  <2> QED
    BY <2>1, FS_EmptySet DEF OnholdCount
<1>2. TypeOK /\ QueueShape /\ OnholdCount /\ [Next]_vars => OnholdCount'
  BY CountNext
<1> QED
  BY <1>1, <1>2, TypeCorrect, QueueShapeCorrect, PTL DEF Spec

-----------------------------------------------------------------------------
(* FreshCounters *)

\* With nothing on hold no bucket has a held connection.
LEMMA NothingHeld ==
    ASSUME TypeOK, QueueShape, OnholdCount, transfers_onhold = 0,
           NEW b \in Buckets
    PROVE  Held(b) = 0
<1>1. HeldConns = {}
  BY HeldFinite, FS_EmptySet DEF OnholdCount
<1>2. Held(b) \in Nat /\ separator[b] \in Nat
      /\ top_onhold[b] = separator[b] + Held(b) /\ top_onhold[b] <= QueueSize
  BY HeldNat DEF QueueShape
<1>3. ASSUME Held(b) # 0 PROVE <<b, separator[b]>> \in HeldConns
  BY <1>2, <1>3, ConcordApiAssumption
  DEF ConcordApiAssumption, HeldConns, Slots
<1> QED
  BY <1>1, <1>3

\* A bucket counts only while it has connections on hold: the step that takes
\* the last of them clears the counters, and the loop ends with none.
LEMMA CountersNext ==
    TypeOK /\ QueueShape /\ OnholdCount /\ FreshCounters /\ [Next]_vars
        => FreshCounters'
<1> SUFFICES ASSUME TypeOK, QueueShape, OnholdCount, FreshCounters, [Next]_vars,
                    NEW d \in Buckets
             PROVE  \/ finished'[d] = 0 /\ remaining'[d] = 0
                    \/ Held(d)' > 0 /\ pc' \notin {"idle", "sync", "run"}
  BY DEF FreshCounters
<1>0. \/ finished[d] = 0 /\ remaining[d] = 0
      \/ Held(d) > 0 /\ pc \notin {"idle", "sync", "run"}
  BY DEF FreshCounters
<1>1. CASE ~Moves
  <2>1. Held(d)' = Held(d)
    BY <1>1, QuietSteps DEF Held, queues
  <2>2. CASE UNCHANGED <<finished, remaining>>
    BY <1>0, <1>1, <2>1, <2>2, QuietSteps
  <2>3. CASE ~UNCHANGED <<finished, remaining>>
    <3>1. PICK b \in Buckets :
             /\ Held(b) # 0
             /\ pc' \notin {"idle", "sync", "run"}
             /\ \E f, r : finished' = [finished EXCEPT ![b] = f]
                          /\ remaining' = [remaining EXCEPT ![b] = r]
      BY <1>1, <2>3, QuietSteps
    <3>2. CASE d = b
      BY <2>1, <3>1, <3>2, HeldNat
    <3>3. CASE d # b
      <4>1. finished'[d] = finished[d] /\ remaining'[d] = remaining[d]
        BY <3>1, <3>3 DEF TypeOK
      <4> QED
        BY <1>0, <2>1, <3>1, <4>1
    <3> QED
      BY <3>2, <3>3
  <2> QED
    BY <2>2, <2>3
<1>2. ASSUME NEW k \in Keys, Enqueue(k)
      PROVE  finished'[d] = 0 /\ remaining'[d] = 0
  BY <1>0, <1>2 DEF Enqueue, limits
<1>3. CASE StartBuckets
  BY <1>0, <1>3 DEF StartBuckets, limits
<1>4. ASSUME NEW b \in Buckets, AddRemaining(b)
      PROVE  \/ finished'[d] = 0 /\ remaining'[d] = 0
             \/ Held(d)' > 0 /\ pc' \notin {"idle", "sync", "run"}
  <2>1. /\ finished' = [finished EXCEPT ![b] = 0]
        /\ remaining' = [remaining EXCEPT ![b] = 0]
        /\ \E n : separator' = [separator EXCEPT ![b] = n]
        /\ UNCHANGED <<top_onhold, pc>>
    BY <1>4 DEF AddRemaining
  <2>2. CASE d = b
    BY <2>1, <2>2 DEF TypeOK
  <2>3. CASE d # b
    <3>1. /\ finished'[d] = finished[d] /\ remaining'[d] = remaining[d]
          /\ Held(d)' = Held(d)
      BY <2>1, <2>3 DEF TypeOK, Held
    <3> QED
      BY <1>0, <2>1, <3>1
  <2> QED
    BY <2>2, <2>3
<1>5. CASE LoopExit
  <2>1. transfers_onhold = 0 /\ UNCHANGED <<finished, remaining>>
    BY <1>5 DEF LoopExit, LeftOver, limits
  <2>2. Held(d) = 0
    BY <2>1, NothingHeld
  <2> QED
    BY <1>0, <2>1, <2>2
<1> QED
  BY <1>1, <1>2, <1>3, <1>4, <1>5 DEF Moves

\* Every dispatch starts with the counters of all buckets at zero, although
\* Concord_stop_client_buckets only resets the indices of their queues.
THEOREM FreshCountersCorrect == Spec => []FreshCounters
<1>1. Init => FreshCounters
  BY DEF Init, FreshCounters
<1>2. TypeOK /\ QueueShape /\ OnholdCount /\ FreshCounters /\ [Next]_vars
        => FreshCounters'
  BY CountersNext
<1> QED
  BY <1>1, <1>2, TypeCorrect, QueueShapeCorrect, OnholdCountCorrect, PTL
  DEF Spec

==============================================================================
