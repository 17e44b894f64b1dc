------------------------ MODULE WebSocketFramesProofs ------------------------
(***************************************************************************)
(* Theorems about WebSocketFrames, for any frames the server may send, any *)
(* number of them, and any way to cut them into reads.                     *)
(***************************************************************************)
EXTENDS WebSocketFrames, SequenceTheorems, TLAPS

-----------------------------------------------------------------------------
(* Sending *)

SendInv ==
    /\ written \in Nat /\ out \in Nat /\ out <= written
    /\ pause_flags \in BOOLEAN /\ paused \in BOOLEAN
    /\ OutInOrder

\* The numbers of the units from a to b.
Units(a, b) == [i \in 1 .. b - a |-> a + i]

\* What is written next follows what was written.
LEMMA UnitsAppend ==
    ASSUME NEW a \in Nat, NEW b \in Nat, NEW m \in Nat, a <= b
    PROVE  Units(a, b) \o [i \in 1 .. m |-> b + i] = Units(a, b + m)
<1> DEFINE s == Units(a, b)
           t == [i \in 1 .. m |-> b + i]
           u == Units(a, b + m)
<1>1. s \in Seq(Nat) /\ Len(s) = b - a /\ \A i \in 1 .. b - a : s[i] = a + i
    BY DEF Units
<1>2. t \in Seq(Nat) /\ Len(t) = m /\ \A i \in 1 .. m : t[i] = b + i
    OBVIOUS
<1>3. u \in Seq(Nat) /\ Len(u) = b + m - a
      /\ \A i \in 1 .. b + m - a : u[i] = a + i
    BY DEF Units
<1> HIDE DEF s, t, u
<1>4. /\ s \o t \in Seq(Nat) /\ Len(s \o t) = Len(s) + Len(t)
      /\ \A i \in 1 .. Len(s) + Len(t) :
            (s \o t)[i] = IF i <= Len(s) THEN s[i] ELSE t[i - Len(s)]
    BY <1>1, <1>2, ConcatProperties
<1> DEFINE w == s \o t
<1> HIDE DEF w
<1>5. w \in Seq(Nat) /\ Len(w) = b + m - a
      /\ \A i \in 1 .. b + m - a :
            w[i] = IF i <= b - a THEN s[i] ELSE t[i - (b - a)]
    BY <1>1, <1>2, <1>4 DEF w
<1>6. ASSUME NEW i \in 1 .. b + m - a PROVE w[i] = u[i]
    <2>1. CASE i <= b - a
        BY <2>1, <1>1, <1>3, <1>5
    <2>2. CASE i > b - a
        <3> DEFINE j == i - (b - a)
        <3>1. j \in 1 .. m /\ b + j = a + i
            BY <2>2
        <3>2. w[i] = t[j]
            BY <2>2, <1>5
        <3> HIDE DEF j
        <3>3. t[j] = b + j
            BY <3>1, <1>2
        <3>4. u[i] = a + i
            BY <1>3
        <3> QED
            BY <3>1, <3>2, <3>3, <3>4
    <2> QED
        BY <2>1, <2>2
<1>7. w = u
    BY <1>3, <1>5, <1>6, SeqEqual
<1> QED
    BY <1>7 DEF s, t, u, w

\* What curl takes is the beginning of what is there.
LEMMA UnitsTake ==
    ASSUME NEW a \in Nat, NEW b \in Nat, NEW n \in 1 .. b - a
    PROVE  /\ Units(a, b)[n] = a + n
           /\ SubSeq(Units(a, b), n + 1, Len(Units(a, b))) = Units(a + n, b)
<1> DEFINE s == Units(a, b)
           u == Units(a + n, b)
           t == SubSeq(s, n + 1, Len(s))
<1>1. s \in Seq(Nat) /\ Len(s) = b - a /\ \A i \in 1 .. b - a : s[i] = a + i
    BY DEF Units
<1>2. u \in Seq(Nat) /\ Len(u) = b - a - n
      /\ \A i \in 1 .. b - a - n : u[i] = a + n + i
    BY DEF Units
<1> HIDE DEF s, u
<1>3. t \in Seq(Nat) /\ Len(t) = b - a - n
      /\ \A i \in 1 .. b - a - n : t[i] = s[n + i]
    BY <1>1
<1>4. \A i \in 1 .. b - a - n : t[i] = u[i]
    BY <1>1, <1>2, <1>3
<1> HIDE DEF t
<1>5. t = u
    BY <1>2, <1>3, <1>4
<1> QED
    BY <1>1, <1>5 DEF s, t, u

\* Queued frames go to the end of the buffer, in order.
LEMMA QueueKeeps ==
    ASSUME SendInv, NEW n \in Nat, Queue(n)
    PROVE  SendInv'
<1> DEFINE m == n * UnitsPerFrame
<1>1. m \in Nat
    BY DEF UnitsPerFrame
<1>2. /\ buffer' = buffer \o [i \in 1 .. m |-> written + i]
      /\ written' = written + m /\ out' = out
    BY DEF Queue
<1> HIDE DEF m
<1>3. buffer = Units(out, written) /\ out <= written
      /\ written \in Nat /\ out \in Nat
    BY DEF SendInv, OutInOrder, Units
<1>4. buffer' = Units(out', written')
    BY <1>1, <1>2, <1>3, UnitsAppend
<1>5. written' \in Nat /\ out' \in Nat /\ out' <= written'
    BY <1>1, <1>2, <1>3
<1>6. OutInOrder'
    BY <1>4 DEF OutInOrder, Units
<1>7. pause_flags' \in BOOLEAN /\ paused' \in BOOLEAN
    BY DEF Queue, SendInv
<1> QED
    BY <1>5, <1>6, <1>7 DEF SendInv

\* What curl takes leaves the front of the buffer.
LEMMA SendDataKeeps ==
    ASSUME SendInv, SendData
    PROVE  SendInv'
<1>1. buffer = Units(out, written) /\ out <= written
      /\ written \in Nat /\ out \in Nat
    BY DEF SendInv, OutInOrder, Units
<1>2. Len(buffer) = written - out
    BY <1>1 DEF Units
<1>3. written' = written
    BY DEF SendData
<1>4. CASE UNCHANGED <<buffer, out>>
    BY <1>3, <1>4 DEF SendData, SendInv, OutInOrder
<1>5. CASE ~UNCHANGED <<buffer, out>>
    <2>1. PICK n \in 1 .. Len(buffer) :
             out' = buffer[n] /\ buffer' = SubSeq(buffer, n + 1, Len(buffer))
        BY <1>5 DEF SendData
    <2>2. n \in 1 .. written - out
        BY <1>2
    <2>3. out' = out + n /\ buffer' = Units(out + n, written)
        BY <1>1, <2>1, <2>2, UnitsTake
    <2>4. OutInOrder'
        BY <1>3, <2>3 DEF OutInOrder, Units
    <2>5. pause_flags' \in BOOLEAN /\ paused' \in BOOLEAN
        BY <1>5 DEF SendData, SendInv
    <2> QED
        BY <1>1, <1>3, <2>2, <2>3, <2>4, <2>5 DEF SendInv
<1> QED
    BY <1>4, <1>5

\* A close frame is queued like any other.
LEMMA CloseQueues == QueueClose => \E n \in Nat : Queue(n)
BY DEF QueueClose

\* A violation queues at most a close frame.
LEMMA MayCloseQueues ==
    ASSUME NEW b, MayClose(b)
    PROVE  (\E n \in Nat : Queue(n)) \/ UNCHANGED sending
BY CloseQueues DEF MayClose

\* A step queues frames, hands bytes to curl or leaves the sending side alone.
LEMMA SendCases ==
    [Next]_vars => \/ \E n \in Nat : Queue(n)
                   \/ SendData
                   \/ UNCHANGED sending
<1> SUFFICES ASSUME [Next]_vars
             PROVE  (\E n \in Nat : Queue(n)) \/ SendData \/ UNCHANGED sending
    OBVIOUS
<1>1. CASE SendText \/ CloseByProgram
    BY <1>1, CloseQueues DEF SendText, CloseByProgram
<1>2. CASE ParseLong \/ ParseShort \/ ParseLength
    BY <1>2, MayCloseQueues DEF ParseLong, ParseShort, ParseLength
<1>3. CASE Dispatch
    BY <1>3, CloseQueues
    DEF Dispatch, Ignore, Deliver, KeepFragment, OnClose, OnPing, OnPong,
        Unexpected
<1>4. CASE StatusLine \/ AcceptHeader \/ EndOfHeaders \/ Receive
    BY <1>4 DEF StatusLine, AcceptHeader, EndOfHeaders, Receive
<1>5. CASE (\E f \in Frames : NextFrame(f)) \/ ReadHeader \/ Fill
    BY <1>5 DEF NextFrame, ReadHeader, Fill
<1>6. CASE TransferEnds \/ Free \/ UNCHANGED vars
    BY <1>6 DEF TransferEnds, Free, vars
<1> QED
    BY <1>1, <1>2, <1>3, <1>4, <1>5, <1>6 DEF Next, Reading

\* SendInv holds in every state.
LEMMA SendAlways == Spec => []SendInv
<1>1. Init => SendInv
    <2> SUFFICES ASSUME Init PROVE SendInv
        OBVIOUS
    <2>1. written = 0 /\ out = 0 /\ buffer = << >>
        BY DEF Init
    <2>2. Units(0, 0) = << >>
        BY DEF Units
    <2>3. OutInOrder
        <3>1. OutInOrder <=> buffer = Units(out, written)
            BY DEF OutInOrder, Units
        <3> QED
            BY <2>1, <2>2, <3>1
    <2>4. pause_flags \in BOOLEAN /\ paused \in BOOLEAN
        BY DEF Init
    <2>5. written \in Nat /\ out \in Nat /\ out <= written
        BY <2>1
    <2> QED
        BY <2>3, <2>4, <2>5 DEF SendInv
<1>2. SendInv /\ [Next]_vars => SendInv'
    BY SendCases, QueueKeeps, SendDataKeeps DEF SendInv, OutInOrder, sending
<1> QED
    BY <1>1, <1>2, PTL DEF Spec

\* What curl takes is what was written, in order, nothing twice or skipped,
\* however it cuts the frames up.
THEOREM OutInOrderCorrect == Spec => []OutInOrder
<1>1. SendInv => OutInOrder
    BY DEF SendInv
<1> QED
    BY <1>1, SendAlways, PTL

-----------------------------------------------------------------------------
(* Where a read is *)

\* The header of the frame is complete and its payload is being read.
InPayload == done = needed /\ pc # "parse"

PositionTypes ==
    /\ phase \in {"opening", "open", "refused", "over", "freed"}
    /\ accepted \in BOOLEAN
    /\ wire \in Frames \cup {NoFrame}
    /\ count \in 0 .. MaxFrames
    /\ pc \in {"idle", "header", "parse", "fill", "dispatch"}
    /\ more \in BOOLEAN
    /\ needed \in {2, 4, 10} /\ done \in 0 .. needed

\* What the place in the code says of the header, and of the bytes that are
\* left: they are of this frame, or the server may send another.
Position ==
    /\ pc # "idle" => phase = "open"
    /\ pc = "header" => done < needed
    /\ pc \in {"parse", "fill", "dispatch"} => done = needed
    /\ wire = NoFrame => done = 0 /\ needed = HeaderSize
    /\ wire # NoFrame => count >= 1
    /\ pc = "header" /\ wire = NoFrame => count < MaxFrames
    /\ pc = "parse" /\ more => \/ wire.len > 0 \/ count < MaxFrames
                               \/ needed = HeaderSize /\ wire.ext > 0
    /\ pc = "fill" /\ more => Left > 0 \/ count < MaxFrames
    /\ pc = "dispatch" /\ more => count < MaxFrames

Opcodes == {"cont", "text", "binary", "close", "ping", "pong", "reserved"}

CurrentType == [buf : {NULL} \cup Buffers, data : Seq(1 .. MaxFrames),
                total : Nat, fin : BOOLEAN, op : Opcodes]
FragmentedType == [buf : {NULL} \cup Buffers, data : Seq(1 .. MaxFrames),
                   total : Nat, op : {"cont", "text", "binary"}]

\* used and total of the two messages; between frames recv.current is empty.
Payloads ==
    /\ current \in CurrentType /\ fragmented \in FragmentedType
    /\ fragmented.total = Len(fragmented.data)
    /\ Len(current.data) <= current.total
    /\ ~InPayload => current.data = << >> /\ current.total = 0
    /\ pc = "idle" /\ InPayload => Left > 0
    /\ pc = "dispatch" => Left = 0

\* Who owns which buffer; a continuation has taken the one of its message, and
\* a message within a message made this side close.
Ownership ==
    /\ heap \in [Buffers -> Nat]
    /\ closed \in BOOLEAN
    /\ BuffersOwned
    /\ FitsBuffer
    /\ fragmented.buf = NULL => fragmented.total = 0
    /\ fragmented.op = "cont" => fragmented.buf = NULL
    /\ InPayload /\ current.op = "cont" => fragmented.buf = NULL
    /\ InPayload /\ ~closed => ~OutOfTurn(current.op)

ReadInv == PositionTypes /\ Position /\ Payloads /\ Ownership

\* ReadInv holds before the handshake.
LEMMA ReadInit == Init => ReadInv
<1> SUFFICES ASSUME Init PROVE ReadInv
    OBVIOUS
<1>1. PositionTypes
    <2>1. count = 0 /\ MaxFrames \in Nat
        BY WebSocketAssumption DEF Init
    <2>2. needed = 2 /\ done = 0 /\ phase = "opening" /\ pc = "idle"
        BY DEF Init, HeaderSize
    <2>3. accepted \in BOOLEAN /\ more \in BOOLEAN /\ wire = NoFrame
        BY DEF Init
    <2> QED
        BY <2>1, <2>2, <2>3 DEF PositionTypes
<1>2. Position /\ pc = "idle" /\ ~InPayload
    BY DEF Init, Position, InPayload, HeaderSize, NoFrame
<1>3. Payloads
    <2>1. current \in CurrentType /\ fragmented \in FragmentedType
        BY DEF Init, CurrentType, FragmentedType, Opcodes
    <2>2. current.data = << >> /\ current.total = 0
          /\ fragmented.data = << >> /\ fragmented.total = 0
        BY DEF Init
    <2> QED
        BY <1>2, <2>1, <2>2 DEF Payloads
<1>4. Ownership
    <2>1. heap \in [Buffers -> Nat] /\ \A b \in Buffers : heap[b] = 0
        BY DEF Init
    <2>2. current.buf = NULL /\ fragmented.buf = NULL
          /\ current.total = 0 /\ fragmented.total = 0 /\ current.data = << >>
        BY DEF Init
    <2>3. phase # "freed" /\ closed \in BOOLEAN
        BY DEF Init
    <2>4. BuffersOwned
        BY <2>1, <2>2, <2>3 DEF BuffersOwned
    <2>5. FitsBuffer
        BY <2>2 DEF FitsBuffer
    <2> QED
        BY <1>2, <2>1, <2>2, <2>3, <2>4, <2>5 DEF Ownership
<1> QED
    BY <1>1, <1>2, <1>3, <1>4 DEF ReadInv

\* Steps between reads that have nothing to do with what was read.
Quiet ==
    /\ UNCHANGED reading
    /\ phase' \in {"opening", "open", "refused", "over", "freed"}
    /\ pc # "idle" => phase' = phase
    /\ phase' = "freed" <=> phase = "freed"
    /\ accepted' \in BOOLEAN
    /\ closed' \in BOOLEAN
    /\ closed => closed'

\* The steps of the receiving side, and those that leave it alone.
LEMMA NextCases ==
    ASSUME ReadInv, [Next]_vars
    PROVE  \/ Quiet \/ Receive \/ Free \/ ReadHeader \/ Fill \/ Dispatch
           \/ ParseLong \/ ParseShort \/ ParseLength
           \/ \E f \in Frames : NextFrame(f)
<1> USE DEF ReadInv
<1>1. CASE SendText \/ CloseByProgram \/ SendData
    <2>1. UNCHANGED <<reading, phase, accepted>>
        BY <1>1 DEF SendText, CloseByProgram, SendData
    <2>2. closed' = closed \/ closed' = TRUE
        BY <1>1 DEF SendText, CloseByProgram, SendData, QueueClose
    <2>3. closed' \in BOOLEAN /\ (closed => closed')
        BY <2>2 DEF Ownership
    <2> QED
        BY <2>1, <2>3 DEF Quiet, PositionTypes
<1>2. CASE StatusLine \/ AcceptHeader
    <2>1. UNCHANGED <<reading, phase, closed>>
        BY <1>2 DEF StatusLine, AcceptHeader
    <2>2. accepted' \in BOOLEAN
        BY <1>2 DEF StatusLine, AcceptHeader
    <2> QED
        BY <2>1, <2>2 DEF Quiet, PositionTypes, Ownership
<1>3. CASE EndOfHeaders \/ TransferEnds
    <2>1. /\ UNCHANGED <<reading, accepted, closed>>
          /\ pc # "idle" => phase = "open"
        BY <1>3 DEF EndOfHeaders, TransferEnds, Position
    <2>2. /\ phase' \in {"open", "refused", "over"}
          /\ phase \in {"opening", "open", "refused"}
          /\ pc = "idle"
        BY <1>3 DEF EndOfHeaders, TransferEnds, Position
    <2> QED
        BY <2>1, <2>2 DEF Quiet, PositionTypes, Ownership
<1>4. CASE UNCHANGED vars
    BY <1>4 DEF vars, Quiet, PositionTypes, Ownership
<1> QED
    BY <1>1, <1>2, <1>3, <1>4 DEF Next, Reading

\* Steps that leave the receiving side alone.
LEMMA QuietKeeps == ASSUME ReadInv, Quiet PROVE ReadInv'
<1>1. /\ wire' = wire /\ count' = count /\ pc' = pc /\ more' = more
      /\ done' = done /\ needed' = needed /\ current' = current
      /\ fragmented' = fragmented /\ heap' = heap
    BY DEF Quiet, reading
<1>2. PositionTypes'
    BY <1>1 DEF ReadInv, PositionTypes, Quiet
<1>3. Position'
    BY <1>1 DEF ReadInv, Position, Quiet, Left
<1>4. Payloads'
    BY <1>1 DEF ReadInv, Payloads, InPayload, Left
<1>5. BuffersOwned' /\ FitsBuffer'
    BY <1>1 DEF ReadInv, Ownership, BuffersOwned, FitsBuffer, Quiet
<1>6. (InPayload /\ ~closed => ~OutOfTurn(current.op))'
    BY <1>1 DEF ReadInv, Ownership, InPayload, OutOfTurn, Quiet
<1>7. Ownership'
    BY <1>1, <1>5, <1>6 DEF ReadInv, Ownership, InPayload, Quiet
<1> QED
    BY <1>2, <1>3, <1>4, <1>7 DEF ReadInv

\* A frame that is read is one of Frames.
LEMMA WireType ==
    ASSUME PositionTypes, wire # NoFrame
    PROVE  wire.op \in Opcodes /\ wire.fin \in BOOLEAN /\ wire.len \in Nat
           /\ wire.ext \in {0, 2, 8}
<1>1. wire \in FrameType
    BY WebSocketAssumption DEF PositionTypes
<1> QED
    BY <1>1 DEF FrameType, Opcodes

\* The types that Payloads implies.
LEMMA PayloadTypes ==
    ASSUME Payloads
    PROVE  /\ current.total \in Nat /\ Len(current.data) \in Nat
           /\ Left \in Nat
           /\ current.data \in Seq(1 .. MaxFrames)
           /\ fragmented.data \in Seq(1 .. MaxFrames)
           /\ fragmented.total \in Nat
           /\ current.op \in Opcodes /\ current.fin \in BOOLEAN
           /\ fragmented.op \in {"cont", "text", "binary"}
           /\ current.buf \in {NULL} \cup Buffers
           /\ fragmented.buf \in {NULL} \cup Buffers
<1>1. /\ current.total \in Nat /\ current.data \in Seq(1 .. MaxFrames)
      /\ current.op \in Opcodes /\ current.fin \in BOOLEAN
      /\ current.buf \in {NULL} \cup Buffers
    BY DEF Payloads, CurrentType
<1>2. /\ fragmented.total \in Nat /\ fragmented.data \in Seq(1 .. MaxFrames)
      /\ fragmented.op \in {"cont", "text", "binary"}
      /\ fragmented.buf \in {NULL} \cup Buffers
    BY DEF Payloads, FragmentedType
<1>3. Len(current.data) \in Nat /\ Len(current.data) <= current.total
    BY <1>1 DEF Payloads
<1>4. Left \in Nat
    BY <1>1, <1>3 DEF Left
<1> QED
    BY <1>1, <1>2, <1>3, <1>4

\* A step that leaves both messages, their buffers and closed alone.
LEMMA MessagesKept ==
    ASSUME ReadInv, UNCHANGED <<current, fragmented, heap, closed, phase>>,
           InPayload' <=> InPayload,
           (pc = "idle" /\ InPayload => Left > 0)',
           (pc = "dispatch" => Left = 0)'
    PROVE  Payloads' /\ Ownership'
<1>1. Payloads'
    BY DEF ReadInv, Payloads
<1>2. BuffersOwned' /\ FitsBuffer'
    BY DEF ReadInv, Ownership, BuffersOwned, FitsBuffer
<1>3. (InPayload /\ ~closed => ~OutOfTurn(current.op))'
    BY DEF ReadInv, Ownership, OutOfTurn
<1>4. Ownership'
    BY <1>2, <1>3 DEF ReadInv, Ownership
<1> QED
    BY <1>1, <1>4

\* Bytes arrive.
LEMMA ReceiveKeeps == ASSUME ReadInv, Receive PROVE ReadInv'
<1>1. /\ UNCHANGED <<current, fragmented, heap, closed, phase, accepted, wire,
                     count, done, needed>>
      /\ pc = "idle" /\ more' = TRUE /\ phase = "open"
      /\ wire # NoFrame \/ count < MaxFrames
      /\ pc' = IF done < needed THEN "header" ELSE "fill"
    BY DEF Receive, Entry
<1>2. needed \in {2, 4, 10} /\ done \in 0 .. needed /\ Left \in Nat
    BY PayloadTypes DEF ReadInv, PositionTypes
<1>3. PositionTypes'
    BY <1>1 DEF ReadInv, PositionTypes
<1>4. InPayload' <=> InPayload
    BY <1>1 DEF InPayload
<1>5. Left' = Left /\ pc' \in {"header", "fill"}
    BY <1>1 DEF Left
<1>6. Payloads' /\ Ownership'
    BY <1>1, <1>4, <1>5, MessagesKept
<1>7. Position'
    <2>1. CASE done < needed
        BY <2>1, <1>1, <1>2 DEF ReadInv, Position
    <2>2. CASE ~(done < needed)
        <3>1. done = needed /\ pc' = "fill" /\ InPayload
            BY <2>2, <1>1, <1>2 DEF InPayload
        <3>2. Left > 0
            BY <3>1, <1>1 DEF ReadInv, Payloads
        <3> QED
            BY <3>1, <3>2, <1>1, <1>5 DEF ReadInv, Position
    <2> QED
        BY <2>1, <2>2
<1> QED
    BY <1>3, <1>6, <1>7 DEF ReadInv

\* The server sends a frame.
LEMMA NextFrameKeeps ==
    ASSUME ReadInv, NEW f \in Frames, NextFrame(f) PROVE ReadInv'
<1>1. /\ UNCHANGED <<current, fragmented, heap, closed, phase, accepted, pc,
                     more, done, needed>>
      /\ pc = "header" /\ wire = NoFrame /\ wire' = f /\ count' = count + 1
    BY DEF NextFrame
<1>2. count \in 0 .. MaxFrames /\ count < MaxFrames /\ MaxFrames \in Nat
    BY <1>1, WebSocketAssumption DEF ReadInv, PositionTypes, Position
<1>3. f # NoFrame
    <2>1. f \in FrameType
        BY WebSocketAssumption
    <2>2. f.op # "none"
        BY <2>1 DEF FrameType
    <2> QED
        BY <2>2 DEF NoFrame
<1>4. PositionTypes'
    BY <1>1, <1>2 DEF ReadInv, PositionTypes
<1>5. Position'
    BY <1>1, <1>2, <1>3 DEF ReadInv, Position
<1>6. InPayload' <=> InPayload
    BY <1>1 DEF InPayload
<1>7. Payloads' /\ Ownership'
    BY <1>1, <1>6, MessagesKept
<1> QED
    BY <1>4, <1>5, <1>7 DEF ReadInv

\* Bytes of a header are copied.
LEMMA ReadHeaderKeeps == ASSUME ReadInv, ReadHeader PROVE ReadInv'
<1>1. /\ UNCHANGED <<current, fragmented, heap, closed, phase, accepted, wire,
                     count, needed>>
      /\ pc = "header" /\ wire # NoFrame /\ phase = "open"
    BY DEF ReadHeader, ReadInv, Position
<1>2. needed \in {2, 4, 10} /\ done \in 0 .. needed /\ done < needed
    BY <1>1 DEF ReadInv, PositionTypes, Position
<1>3. PICK k \in 1 .. needed - done :
         /\ done' = done + k
         /\ \/ done' # needed /\ pc' = "idle" /\ more' = FALSE
            \/ /\ done' = needed /\ pc' = "parse"
               /\ GoesOn(wire.len > 0 \/ (needed = HeaderSize /\ wire.ext > 0))
    BY DEF ReadHeader, Todo
<1>4. done' \in 1 .. needed /\ more' \in BOOLEAN /\ pc' \in {"idle", "parse"}
    <2>1. done' \in 1 .. needed
        BY <1>2, <1>3
    <2>2. more' \in BOOLEAN
        BY <1>3, Zenon DEF GoesOn
    <2>3. pc' \in {"idle", "parse"}
        BY <1>3
    <2> QED
        BY <2>1, <2>2, <2>3
<1>5. PositionTypes'
    BY <1>1, <1>2, <1>4 DEF ReadInv, PositionTypes
<1>6. Position'
    <2>1. CASE done' # needed /\ pc' = "idle" /\ more' = FALSE
        BY <2>1, <1>1 DEF ReadInv, Position
    <2>2. CASE /\ done' = needed /\ pc' = "parse"
               /\ GoesOn(wire.len > 0 \/ (needed = HeaderSize /\ wire.ext > 0))
        BY <2>2, <1>1 DEF ReadInv, Position, GoesOn
    <2> QED
        BY <1>3, <2>1, <2>2
<1>7. ~InPayload /\ ~InPayload' /\ pc' # "dispatch"
    BY <1>1, <1>2, <1>3 DEF InPayload
<1>8. Payloads' /\ Ownership'
    BY <1>1, <1>7, MessagesKept
<1> QED
    BY <1>5, <1>6, <1>8 DEF ReadInv

\* cws_free releases both payload buffers.
LEMMA FreeKeeps == ASSUME ReadInv, Free PROVE ReadInv'
<1>1. /\ UNCHANGED <<current, fragmented, closed, accepted, pc, more, wire,
                     count, done, needed>>
      /\ phase = "over" /\ phase' = "freed" /\ pc = "idle"
      /\ heap' = [b \in Buffers |->
                     IF b \in {current.buf, fragmented.buf} THEN 0
                     ELSE heap[b]]
    BY DEF Free
<1>2. PositionTypes' /\ Position'
    BY <1>1 DEF ReadInv, PositionTypes, Position
<1>3. (InPayload' <=> InPayload) /\ Left' = Left
    BY <1>1 DEF InPayload, Left
<1>4. Payloads'
    BY <1>1, <1>3 DEF ReadInv, Payloads
<1>5. heap' \in [Buffers -> Nat]
    BY <1>1 DEF ReadInv, Ownership
<1>6. BuffersOwned'
    <2>1. {b \in Buffers : heap[b] > 0}
              = {current.buf, fragmented.buf} \ {NULL}
        BY <1>1 DEF ReadInv, Ownership, BuffersOwned
    <2>2. \A b \in Buffers : heap[b] \in Nat
        BY DEF ReadInv, Ownership
    <2>3. \A b \in Buffers : heap'[b] = 0
        BY <1>1, <2>1, <2>2
    <2> QED
        BY <1>1, <2>3 DEF BuffersOwned
<1>7. FitsBuffer'
    BY <1>1 DEF ReadInv, Ownership, FitsBuffer
<1>8. (InPayload /\ ~closed => ~OutOfTurn(current.op))'
    BY <1>1, <1>3 DEF ReadInv, Ownership, OutOfTurn
<1>9. Ownership'
    BY <1>1, <1>3, <1>5, <1>6, <1>7, <1>8 DEF ReadInv, Ownership
<1> QED
    BY <1>2, <1>4, <1>9 DEF ReadInv

\* A byte of payload for each k that the read has.
LEMMA FilledData ==
    ASSUME NEW d \in Seq(1 .. MaxFrames), NEW k \in Nat, NEW n \in 1 .. MaxFrames
    PROVE  /\ d \o [i \in 1 .. k |-> n] \in Seq(1 .. MaxFrames)
           /\ Len(d \o [i \in 1 .. k |-> n]) = Len(d) + k
<1> DEFINE t == [i \in 1 .. k |-> n]
<1>1. t \in Seq(1 .. MaxFrames) /\ Len(t) = k
    OBVIOUS
<1> HIDE DEF t
<1>2. d \o t \in Seq(1 .. MaxFrames) /\ Len(d \o t) = Len(d) + k
    BY <1>1, ConcatProperties
<1> QED
    BY <1>2 DEF t

\* Bytes of a payload are copied.
LEMMA FillKeeps == ASSUME ReadInv, Fill PROVE ReadInv'
<1>1. /\ UNCHANGED <<fragmented, heap, closed, phase, accepted, wire, count,
                     done, needed>>
      /\ pc = "fill" /\ phase = "open" /\ done = needed /\ wire # NoFrame
    <2>1. done = needed /\ phase = "open" /\ pc = "fill"
        BY DEF Fill, ReadInv, Position
    <2>2. needed # 0
        BY DEF ReadInv, PositionTypes
    <2> QED
        BY <2>1, <2>2 DEF Fill, ReadInv, Position
<1>2. count \in 1 .. MaxFrames
    BY <1>1, WebSocketAssumption DEF ReadInv, PositionTypes, Position
<1>3. InPayload
    BY <1>1 DEF InPayload
<1>4. CASE more /\ Left > 0
    <2>0. Left \in Nat
        BY PayloadTypes DEF ReadInv
    <2>1. PICK k \in 1 .. Left :
             /\ current' = [current EXCEPT
                              !.data = @ \o [i \in 1 .. k |-> count]]
             /\ \/ k < Left /\ pc' = "idle" /\ more' = FALSE
                \/ k = Left /\ pc' = "dispatch" /\ GoesOn(FALSE)
        <3>1. ~(~more \/ Left = 0)
            BY <1>4, <2>0
        <3> QED
            BY <3>1, Zenon DEF Fill
    <2>2. Left \in Nat /\ k \in Nat /\ Left = current.total - Len(current.data)
        BY PayloadTypes DEF ReadInv, Left
    <2> DEFINE d == current.data \o [i \in 1 .. k |-> count]
    <2>3. d \in Seq(1 .. MaxFrames) /\ Len(d) = Len(current.data) + k
        BY <1>2, <2>2, FilledData, PayloadTypes DEF ReadInv
    <2>4. current' = [current EXCEPT !.data = d]
        BY <2>1
    <2> HIDE DEF d
    <2>5. current' \in CurrentType /\ current'.data = d
          /\ current'.total = current.total /\ current'.buf = current.buf
          /\ current'.op = current.op
        BY <2>3, <2>4 DEF ReadInv, Payloads, CurrentType
    <2>6. Left' = Left - k /\ Len(current'.data) <= current'.total
        BY <2>2, <2>3, <2>5, PayloadTypes DEF ReadInv, Left
    <2>7. more' \in BOOLEAN
        BY <2>1, Zenon DEF GoesOn
    <2>8. PositionTypes'
        BY <1>1, <2>1, <2>7 DEF ReadInv, PositionTypes
    <2>9. Position'
        BY <1>1, <2>1 DEF ReadInv, Position, GoesOn
    <2>10. InPayload'
        BY <1>1, <2>1 DEF InPayload
    <2>11. Payloads'
        <3>1. (pc = "idle" => Left > 0)' /\ (pc = "dispatch" => Left = 0)'
            <4>1. \/ k < Left /\ pc' = "idle"
                  \/ k = Left /\ pc' = "dispatch"
                BY <2>1, Zenon
            <4> HIDE DEF Left
            <4> QED
                BY <2>2, <2>6, <4>1
        <3>2. UNCHANGED fragmented
            BY <1>1
        <3> QED
            BY <2>5, <2>6, <2>10, <3>1, <3>2 DEF ReadInv, Payloads
    <2>12. BuffersOwned' /\ FitsBuffer'
        BY <1>1, <2>5, <2>6 DEF ReadInv, Ownership, BuffersOwned, FitsBuffer
    <2>13. (InPayload /\ ~closed => ~OutOfTurn(current.op))'
        BY <1>1, <1>3, <2>5 DEF ReadInv, Ownership, OutOfTurn
    <2>14. Ownership'
        BY <1>1, <1>3, <2>5, <2>12, <2>13 DEF ReadInv, Ownership
    <2> QED
        BY <2>8, <2>9, <2>11, <2>14 DEF ReadInv
<1>5. CASE ~(more /\ Left > 0)
    <2>1. /\ UNCHANGED <<current, more>>
          /\ pc' = IF Left > 0 THEN "idle" ELSE "dispatch"
          /\ ~more \/ Left = 0
        BY <1>5 DEF Fill
    <2>2. Left' = Left /\ Left \in Nat
        BY <2>1, PayloadTypes DEF ReadInv, Left
    <2>3. InPayload'
        BY <1>1, <2>1 DEF InPayload
    <2>4. Payloads' /\ Ownership'
        BY <1>1, <1>3, <2>1, <2>2, <2>3, MessagesKept
    <2>5. PositionTypes'
        BY <1>1, <2>1 DEF ReadInv, PositionTypes
    <2>6. Position'
        BY <1>1, <2>1, <2>2 DEF ReadInv, Position
    <2> QED
        BY <2>4, <2>5, <2>6 DEF ReadInv
<1> QED
    BY <1>4, <1>5

\* A violation closes, and nothing opens again.
LEMMA MayCloseEffect ==
    ASSUME Ownership, NEW broken, MayClose(broken)
    PROVE  closed' \in BOOLEAN /\ (closed => closed') /\ (broken => closed')
BY DEF MayClose, QueueClose, Ownership

\* The long form of a length: the frame's message is not touched yet.
LEMMA ParseLongKeeps == ASSUME ReadInv, ParseLong PROVE ReadInv'
<1>1. /\ UNCHANGED <<fragmented, heap, phase, accepted, wire, count, more, done>>
      /\ pc = "parse" /\ phase = "open" /\ done = 2 /\ needed = 2
      /\ wire.ext > 0 /\ needed' = needed + wire.ext
      /\ current' = [current EXCEPT !.op = wire.op, !.fin = wire.fin]
      /\ pc' = IF more THEN "header" ELSE "idle"
    BY DEF ParseLong, ReadInv, Position, HeaderSize
<1>2. wire # NoFrame
    BY <1>1 DEF ReadInv, Position
<1>3. wire.ext \in {2, 8} /\ wire.op \in Opcodes /\ wire.fin \in BOOLEAN
    BY <1>1, <1>2, WireType DEF ReadInv
<1>4. closed' \in BOOLEAN
    BY MayCloseEffect DEF ReadInv, ParseLong
<1>5. PositionTypes'
    BY <1>1, <1>3 DEF ReadInv, PositionTypes
<1>6. Position'
    BY <1>1, <1>2, <1>3 DEF ReadInv, Position
<1>7. ~InPayload /\ ~InPayload' /\ pc' # "dispatch"
    BY <1>1, <1>3 DEF InPayload
<1>8. current' \in CurrentType /\ current'.buf = current.buf
      /\ current'.data = current.data /\ current'.total = current.total
    BY <1>1, <1>3 DEF ReadInv, Payloads, CurrentType
<1>9. Payloads'
    BY <1>1, <1>7, <1>8 DEF ReadInv, Payloads
<1>10. BuffersOwned' /\ FitsBuffer'
    BY <1>1, <1>8 DEF ReadInv, Ownership, BuffersOwned, FitsBuffer
<1>11. Ownership'
    BY <1>1, <1>4, <1>7, <1>10 DEF ReadInv, Ownership
<1> QED
    BY <1>5, <1>6, <1>9, <1>11 DEF ReadInv

-----------------------------------------------------------------------------
(* The beginning of a payload *)

\* Two buffers are in use at most, so the allocator finds a free one.
LEMMA FirstFreeIsFree ==
    ASSUME Ownership, phase # "freed"
    PROVE  FirstFree \in Buffers /\ heap[FirstFree] = 0
<1>1. {b \in Buffers : heap[b] > 0} = {current.buf, fragmented.buf} \ {NULL}
    BY DEF Ownership, BuffersOwned
<1>2. \E b \in Buffers : b # current.buf /\ b # fragmented.buf
    BY DEF Buffers
<1>3. \A b \in Buffers : heap[b] \in Nat
    BY DEF Ownership
<1>4. \E b \in Buffers : heap[b] = 0
    BY <1>1, <1>2, <1>3
<1> QED
    BY <1>4 DEF FirstFree

\* A message with another buffer and payload.
With(m, b, d, t) == [m EXCEPT !.buf = b, !.data = d, !.total = t]

Holds(x, b, d, t) == x.buf = b /\ x.data = d /\ x.total = t

\* Setting buffer, data and total of the current message.
LEMMA CurrentWith ==
    ASSUME NEW m \in CurrentType, NEW b \in {NULL} \cup Buffers,
           NEW d \in Seq(1 .. MaxFrames), NEW t \in Nat
    PROVE  With(m, b, d, t) \in CurrentType /\ Holds(With(m, b, d, t), b, d, t)
BY DEF CurrentType, With, Holds

\* The same of the fragmented message.
LEMMA FragmentedWith ==
    ASSUME NEW m \in FragmentedType, NEW b \in {NULL} \cup Buffers,
           NEW d \in Seq(1 .. MaxFrames), NEW t \in Nat
    PROVE  With(m, b, d, t) \in FragmentedType /\ Holds(With(m, b, d, t), b, d, t)
BY DEF FragmentedType, With, Holds

\* The buffer of a payload that goes on with the message m.
BufferFor(m, len) == IF len > 0 /\ m.buf = NULL THEN FirstFree ELSE m.buf

\* What StartFrame makes of a continuation and of any other frame.
LEMMA StartContinuation ==
    ASSUME NEW cur, NEW len, StartFrame(cur, len), cur.op = "cont"
    PROVE  /\ current' = With(cur, BufferFor(fragmented, len), fragmented.data,
                             fragmented.total + len)
           /\ fragmented' = With(fragmented, NULL, << >>, 0)
           /\ heap' = [a \in Buffers |->
                          IF a = BufferFor(fragmented, len) /\ len > 0
                          THEN fragmented.total + len + 1
                          ELSE IF a = cur.buf THEN 0 ELSE heap[a]]
BY DEF StartFrame, Size, BufferFor, With

\* A frame that continues nothing starts its own payload.
LEMMA StartOther ==
    ASSUME NEW cur, NEW len, StartFrame(cur, len), cur.op # "cont"
    PROVE  /\ current' = With(cur, BufferFor(cur, len), cur.data,
                             cur.total + len)
           /\ fragmented' = fragmented
           /\ heap' = [a \in Buffers |->
                          IF a = BufferFor(cur, len) /\ len > 0
                          THEN cur.total + len + 1
                          ELSE IF a = NULL THEN 0 ELSE heap[a]]
BY DEF StartFrame, Size, BufferFor, With

\* The frame that starts, as cur: recv.current with another opcode.
Starting(cur) ==
    /\ cur \in CurrentType
    /\ cur.buf = current.buf
    /\ cur.data = current.data
    /\ cur.total = current.total

\* The two messages and their buffers after it.
Started(cur, len) ==
    /\ current' \in CurrentType /\ fragmented' \in FragmentedType
    /\ current'.op = cur.op /\ current'.fin = cur.fin
    /\ fragmented'.op = fragmented.op
    /\ fragmented'.total = Len(fragmented'.data)
    /\ current'.total = Len(current'.data) + len
    /\ heap' \in [Buffers -> Nat]
    /\ {a \in Buffers : heap'[a] > 0}
          = {current'.buf, fragmented'.buf} \ {NULL}
    /\ current'.buf # NULL => /\ current'.buf # fragmented'.buf
                              /\ current'.total < heap'[current'.buf]
    /\ fragmented'.buf # NULL => fragmented'.total < heap'[fragmented'.buf]
    /\ current'.buf = NULL => current'.total = 0
    /\ fragmented'.buf = NULL => fragmented'.total = 0
    /\ cur.op = "cont" \/ fragmented.op = "cont" => fragmented'.buf = NULL

\* Starting a frame hands out at most one buffer that nobody owns.
LEMMA StartFrameEffect ==
    ASSUME ReadInv, pc = "parse", NEW cur, Starting(cur), NEW len \in Nat,
           StartFrame(cur, len)
    PROVE  Started(cur, len)
<1>1. phase # "freed" /\ ~InPayload
    BY DEF ReadInv, Position, InPayload
<1>2. /\ cur \in CurrentType /\ cur.buf = current.buf
      /\ cur.data = << >> /\ cur.total = 0
    BY <1>1 DEF Starting, ReadInv, Payloads
<1>3. /\ {a \in Buffers : heap[a] > 0} = {cur.buf, fragmented.buf} \ {NULL}
      /\ cur.buf # NULL => cur.buf # fragmented.buf
      /\ \A a \in Buffers : heap[a] \in Nat
    BY <1>1, <1>2 DEF ReadInv, Ownership, BuffersOwned
<1>4. /\ fragmented.buf # NULL => fragmented.total < heap[fragmented.buf]
      /\ fragmented.buf = NULL => fragmented.total = 0
      /\ fragmented.op = "cont" => fragmented.buf = NULL
    BY <1>1 DEF ReadInv, Ownership, FitsBuffer
<1>5. /\ fragmented \in FragmentedType /\ fragmented.data \in Seq(1 .. MaxFrames)
      /\ fragmented.total \in Nat /\ fragmented.total = Len(fragmented.data)
      /\ cur.buf \in {NULL} \cup Buffers
      /\ fragmented.buf \in {NULL} \cup Buffers
    BY <1>2, PayloadTypes DEF ReadInv, Payloads
<1>6. FirstFree \in Buffers /\ heap[FirstFree] = 0
    BY <1>1, FirstFreeIsFree DEF ReadInv
<1>7. NULL \notin Buffers
    BY DEF NULL, Buffers
<1>8. CASE cur.op = "cont"
    <2> DEFINE b == BufferFor(fragmented, len)
    <2>1. /\ current' = With(cur, b, fragmented.data, fragmented.total + len)
          /\ fragmented' = With(fragmented, NULL, << >>, 0)
          /\ heap' = [a \in Buffers |->
                         IF a = b /\ len > 0 THEN fragmented.total + len + 1
                         ELSE IF a = cur.buf THEN 0 ELSE heap[a]]
        BY ONLY StartFrame(cur, len), <1>8, StartContinuation, ZenonT(40)
    <2>2. /\ b \in {NULL} \cup Buffers
          /\ b = NULL <=> len = 0 /\ fragmented.buf = NULL
          /\ b # NULL => b # cur.buf
          /\ len = 0 \/ fragmented.buf # NULL => b = fragmented.buf
        BY <1>3, <1>5, <1>6, <1>7 DEF BufferFor
    <2> HIDE DEF b
    <2>3. /\ current' \in CurrentType /\ current'.buf = b
          /\ current'.data = fragmented.data
          /\ current'.total = fragmented.total + len
          /\ current'.op = cur.op /\ current'.fin = cur.fin
        <3>1. fragmented.total + len \in Nat
            BY <1>5
        <3> DEFINE x == With(cur, b, fragmented.data, fragmented.total + len)
        <3>2. x \in CurrentType /\ Holds(x, b, fragmented.data, fragmented.total + len)
            BY <1>2, <1>5, <2>2, <3>1, CurrentWith, Zenon
        <3>3. x.op = cur.op /\ x.fin = cur.fin
            BY <1>2 DEF With, CurrentType
        <3>4. current' = x
            BY <2>1
        <3> HIDE DEF x
        <3> QED
            BY <3>1, <3>2, <3>3, <3>4 DEF Holds
    <2>4. /\ fragmented' \in FragmentedType /\ fragmented'.buf = NULL
          /\ fragmented'.data = << >> /\ fragmented'.total = 0
          /\ fragmented'.op = fragmented.op
        <3>1. << >> \in Seq(1 .. MaxFrames) /\ NULL \in {NULL} \cup Buffers
            OBVIOUS
        <3> DEFINE x == With(fragmented, NULL, << >>, 0)
        <3>2. x \in FragmentedType /\ Holds(x, NULL, << >>, 0)
            BY <1>5, <3>1, FragmentedWith, Zenon
        <3>3. x.op = fragmented.op
            BY <1>5 DEF With, FragmentedType
        <3>4. fragmented' = x
            BY <2>1
        <3> HIDE DEF x
        <3> QED
            BY <3>1, <3>2, <3>3, <3>4 DEF Holds
    <2>5. heap' \in [Buffers -> Nat]
        BY <1>3, <1>5, <2>1
    <2>6. {a \in Buffers : heap'[a] > 0} = {b} \ {NULL}
        <3>1. \A a \in Buffers : heap'[a] > 0 <=> a = b
            BY <1>3, <1>5, <1>7, <2>1, <2>2
        <3> QED
            BY <1>7, <3>1, <2>2
    <2>7. b # NULL => fragmented.total + len < heap'[b]
        BY <1>4, <1>5, <2>1, <2>2
    <2>8. /\ current'.total = Len(current'.data) + len
          /\ fragmented'.total = Len(fragmented'.data)
        BY <1>5, <2>3, <2>4
    <2>9. /\ current'.buf # NULL => /\ current'.buf # fragmented'.buf
                                    /\ current'.total < heap'[current'.buf]
          /\ current'.buf = NULL => current'.total = 0
        BY <1>4, <1>5, <2>2, <2>3, <2>4, <2>7
    <2>10. {a \in Buffers : heap'[a] > 0}
              = {current'.buf, fragmented'.buf} \ {NULL}
        BY <2>3, <2>4, <2>6
    <2> QED
        BY <2>3, <2>4, <2>5, <2>8, <2>9, <2>10 DEF Started
<1>9. CASE cur.op # "cont"
    <2> DEFINE b == BufferFor(cur, len)
    <2>1. /\ current' = With(cur, b, cur.data, cur.total + len)
          /\ fragmented' = fragmented
          /\ heap' = [a \in Buffers |->
                         IF a = b /\ len > 0 THEN cur.total + len + 1
                         ELSE IF a = NULL THEN 0 ELSE heap[a]]
        BY ONLY StartFrame(cur, len), <1>9, StartOther, ZenonT(40)
    <2>2. /\ b \in {NULL} \cup Buffers
          /\ b = NULL <=> len = 0 /\ cur.buf = NULL
          /\ b # NULL => b # fragmented.buf
          /\ len = 0 \/ cur.buf # NULL => b = cur.buf
        BY <1>3, <1>5, <1>6, <1>7 DEF BufferFor
    <2> HIDE DEF b
    <2>3. /\ current' \in CurrentType /\ current'.buf = b
          /\ current'.data = << >> /\ current'.total = len
          /\ current'.op = cur.op /\ current'.fin = cur.fin
        <3>1. cur.total + len = len /\ cur.data \in Seq(1 .. MaxFrames)
            BY <1>2
        <3> DEFINE x == With(cur, b, cur.data, cur.total + len)
        <3>2. x \in CurrentType /\ Holds(x, b, cur.data, cur.total + len)
            BY <1>2, <2>2, <3>1, CurrentWith, Zenon
        <3>3. x.op = cur.op /\ x.fin = cur.fin
            BY <1>2 DEF With, CurrentType
        <3>4. current' = x
            BY <2>1
        <3> HIDE DEF x
        <3> QED
            BY <1>2, <3>1, <3>2, <3>3, <3>4 DEF Holds
    <2>4. heap' \in [Buffers -> Nat]
        BY <1>2, <1>3, <2>1
    <2>5. {a \in Buffers : heap'[a] > 0} = {b, fragmented.buf} \ {NULL}
        <3>1. \A a \in Buffers : heap'[a] > 0 <=> a = b \/ a = fragmented.buf
            BY <1>2, <1>3, <1>7, <2>1, <2>2
        <3> QED
            BY <1>5, <1>7, <3>1, <2>2
    <2>6. b # NULL => len < heap'[b]
        BY <1>2, <1>3, <1>7, <2>1, <2>2
    <2>7. fragmented.buf # NULL => heap'[fragmented.buf] = heap[fragmented.buf]
        BY <1>5, <1>7, <2>1, <2>2
    <2>8. Len(current'.data) = 0 /\ fragmented' = fragmented
        BY <2>1, <2>3
    <2>9. /\ current'.total = Len(current'.data) + len
          /\ fragmented'.total = Len(fragmented'.data)
          /\ fragmented'.buf # NULL => fragmented'.total < heap'[fragmented'.buf]
          /\ current'.buf = NULL => current'.total = 0
        BY <1>4, <1>5, <2>2, <2>3, <2>7, <2>8
    <2>10. current'.buf # NULL => /\ current'.buf # fragmented'.buf
                                  /\ current'.total < heap'[current'.buf]
        BY <2>2, <2>3, <2>6, <2>8
    <2> QED
        BY <1>4, <1>5, <1>9, <2>3, <2>4, <2>5, <2>8, <2>9, <2>10 DEF Started
<1> QED
    BY <1>8, <1>9

\* The frame starts once its header is complete.
LEMMA StartKeeps ==
    ASSUME ReadInv, pc = "parse", NEW cur, Starting(cur),
           StartFrame(cur, wire.len), pc' = "fill",
           UNCHANGED <<phase, accepted, wire, count, more, done, needed>>,
           wire.ext = 0 \/ needed # HeaderSize,
           closed' \in BOOLEAN, OutOfTurn(cur.op) => closed'
    PROVE  ReadInv'
<1>1. phase = "open" /\ done = needed /\ wire # NoFrame
    <2>1. phase = "open" /\ done = needed
        BY DEF ReadInv, Position
    <2>2. needed # 0
        BY DEF ReadInv, PositionTypes
    <2> QED
        BY <2>1, <2>2 DEF ReadInv, Position
<1>2. wire.len \in Nat /\ wire.ext \in {0, 2, 8}
    BY <1>1, WireType DEF ReadInv
<1>3. Started(cur, wire.len)
    BY <1>2, StartFrameEffect
<1>4. InPayload'
    BY <1>1 DEF InPayload
<1>5. /\ current'.total \in Nat /\ current'.data \in Seq(1 .. MaxFrames)
      /\ current' \in CurrentType /\ fragmented' \in FragmentedType
      /\ fragmented'.total = Len(fragmented'.data)
      /\ current'.total = Len(current'.data) + wire.len
    BY <1>3 DEF Started, CurrentType
<1>6. Len(current'.data) \in Nat
    BY <1>5
<1>7. Left' = wire.len /\ Len(current'.data) <= current'.total
    BY <1>2, <1>5, <1>6 DEF Left
<1>8. PositionTypes'
    BY DEF ReadInv, PositionTypes
<1>9. Position'
    <2>1. more => wire.len > 0 \/ count < MaxFrames
        BY <1>2 DEF ReadInv, Position
    <2>2. (more => Left > 0 \/ count < MaxFrames)'
        BY <2>1, <1>7
    <2> QED
        BY <1>1, <2>2 DEF ReadInv, Position
<1>10. Payloads'
    BY <1>4, <1>5, <1>7 DEF Payloads
<1>11. BuffersOwned'
    BY <1>1, <1>3 DEF Started, BuffersOwned
<1>12. FitsBuffer'
    BY <1>1, <1>3, <1>7 DEF Started, FitsBuffer
<1>13. (~closed => ~OutOfTurn(current.op))'
    BY <1>3 DEF Started, OutOfTurn
<1>14. Ownership'
    BY <1>3, <1>11, <1>12, <1>13 DEF Started, Ownership
<1> QED
    BY <1>8, <1>9, <1>10, <1>14 DEF ReadInv

\* The header of a frame with a short length.
LEMMA ParseShortKeeps == ASSUME ReadInv, ParseShort PROVE ReadInv'
<1> DEFINE cur == [current EXCEPT !.op = wire.op, !.fin = wire.fin]
<1>1. /\ pc = "parse" /\ wire.ext = 0 /\ pc' = "fill"
      /\ UNCHANGED <<phase, accepted, wire, count, more, done, needed>>
      /\ StartFrame(cur, wire.len)
      /\ MayClose(wire.bad \/ OutOfTurn(wire.op))
    BY DEF ParseShort
<1>2. wire # NoFrame
    <2>1. done = needed /\ needed # 0
        BY <1>1 DEF ReadInv, Position, PositionTypes
    <2> QED
        BY <2>1 DEF ReadInv, Position
<1>3. wire.op \in Opcodes /\ wire.fin \in BOOLEAN
    BY <1>2, WireType DEF ReadInv
<1>4. current \in CurrentType
    BY DEF ReadInv, Payloads
<1>5. Starting(cur)
    BY <1>3, <1>4 DEF Starting, CurrentType
<1>6. cur.op = wire.op
    BY <1>4 DEF CurrentType
<1>7. closed' \in BOOLEAN /\ (OutOfTurn(wire.op) => closed')
    BY <1>1, MayCloseEffect DEF ReadInv
<1> HIDE DEF cur
<1>8. OutOfTurn(cur.op) => closed'
    BY <1>6, <1>7
<1> QED
    BY <1>1, <1>5, <1>7, <1>8, StartKeeps

\* The extended length of a frame.
LEMMA ParseLengthKeeps == ASSUME ReadInv, ParseLength PROVE ReadInv'
<1>1. /\ pc = "parse" /\ needed > HeaderSize /\ pc' = "fill"
      /\ UNCHANGED <<phase, accepted, wire, count, more, done, needed>>
      /\ StartFrame(current, wire.len)
      /\ MayClose(OutOfTurn(current.op))
    BY DEF ParseLength
<1>2. Starting(current)
    BY DEF Starting, ReadInv, Payloads
<1>3. closed' \in BOOLEAN /\ (OutOfTurn(current.op) => closed')
    BY <1>1, MayCloseEffect DEF ReadInv
<1>4. needed # HeaderSize
    BY <1>1 DEF ReadInv, PositionTypes, HeaderSize
<1> QED
    BY <1>1, <1>2, <1>3, <1>4, StartKeeps

-----------------------------------------------------------------------------
(* The end of a frame *)

\* What every way to handle a frame leaves in recv.current.
LEMMA EmptiedFields ==
    ASSUME NEW c \in CurrentType
    PROVE  /\ Emptied(c) \in CurrentType
           /\ Emptied(c).data = << >> /\ Emptied(c).total = 0
           /\ Emptied(c).buf = c.buf
<1>1. << >> \in Seq(1 .. MaxFrames)
    OBVIOUS
<1>2. PICK d \in Seq(1 .. MaxFrames) : d = << >>
    BY <1>1, Zenon
<1>3. PICK t \in Nat : t = 0
    OBVIOUS
<1> DEFINE e == [c EXCEPT !.data = d, !.total = t]
<1>4. e \in CurrentType /\ e.data = d /\ e.total = t /\ e.buf = c.buf
    BY DEF CurrentType
<1>5. Emptied(c) = e
    BY <1>2, <1>3 DEF Emptied
<1> HIDE DEF e
<1> QED
    BY <1>2, <1>3, <1>4, <1>5

\* The messages after a frame, if the place in the code moves on as it does.
LEMMA HandledKeeps ==
    ASSUME ReadInv, pc = "dispatch",
           AwaitHeader, wire' = NoFrame,
           pc' = IF more THEN Entry(done', needed') ELSE "idle",
           UNCHANGED <<phase, accepted, count, more, heap>>,
           closed' \in BOOLEAN,
           current' \in CurrentType, fragmented' \in FragmentedType,
           current'.data = << >>, current'.total = 0,
           fragmented'.total = Len(fragmented'.data),
           {current'.buf, fragmented'.buf} \ {NULL}
              = {current.buf, fragmented.buf} \ {NULL},
           current'.buf # NULL => current'.buf # fragmented'.buf,
           fragmented'.buf # NULL => fragmented'.total < heap[fragmented'.buf],
           fragmented'.buf = NULL => fragmented'.total = 0,
           fragmented'.op = "cont" => fragmented'.buf = NULL
    PROVE  ReadInv'
<1>1. done' = 0 /\ needed' = 2 /\ phase = "open" /\ phase' = "open"
    BY DEF AwaitHeader, HeaderSize, ReadInv, Position
<1>2. pc' = IF more THEN "header" ELSE "idle"
    BY <1>1 DEF Entry
<1>3. PositionTypes'
    BY <1>1, <1>2 DEF ReadInv, PositionTypes
<1>4. Position'
    BY <1>1, <1>2 DEF ReadInv, Position, HeaderSize
<1>5. ~InPayload' /\ pc' # "dispatch"
    BY <1>1, <1>2 DEF InPayload
<1>6. Len(current'.data) = 0
    OBVIOUS
<1>7. Payloads'
    BY <1>5, <1>6 DEF Payloads
<1>8. heap' = heap /\ heap \in [Buffers -> Nat]
    BY DEF ReadInv, Ownership
<1>9. {b \in Buffers : heap'[b] > 0} = {current'.buf, fragmented'.buf} \ {NULL}
    BY <1>1, <1>8 DEF ReadInv, Ownership, BuffersOwned
<1>10. BuffersOwned'
    BY <1>1, <1>9 DEF BuffersOwned
<1>11. current'.buf # NULL => current'.total < heap'[current'.buf]
    BY <1>9
<1>12. FitsBuffer'
    BY <1>6, <1>8, <1>11 DEF FitsBuffer
<1>13. Ownership'
    BY <1>5, <1>8, <1>10, <1>12 DEF Ownership
<1> QED
    BY <1>3, <1>4, <1>7, <1>13 DEF ReadInv

\* A frame is complete: delivered, kept as a fragment or answered.
LEMMA DispatchKeeps == ASSUME ReadInv, Dispatch PROVE ReadInv'
<1>1. /\ pc = "dispatch" /\ phase = "open"
      /\ AwaitHeader /\ wire' = NoFrame
      /\ pc' = IF more THEN Entry(done', needed') ELSE "idle"
      /\ UNCHANGED <<phase, accepted, count, more, heap>>
    BY DEF Dispatch, ReadInv, Position
<1>2. InPayload /\ Left = 0 /\ phase # "freed"
    <2>1. InPayload
        BY <1>1 DEF ReadInv, Position, InPayload
    <2>2. Left = 0
        BY <1>1 DEF ReadInv, Payloads
    <2> QED
        BY <1>1, <2>1, <2>2
<1>3. /\ current \in CurrentType /\ fragmented \in FragmentedType
      /\ fragmented.total = Len(fragmented.data)
      /\ fragmented.op \in {"cont", "text", "binary"}
      /\ current.total = Len(current.data)
    BY <1>2, PayloadTypes DEF ReadInv, Payloads, Left
<1>4. /\ current.buf # NULL => /\ current.buf # fragmented.buf
                               /\ current.total < heap[current.buf]
      /\ current.buf = NULL => current.total = 0
      /\ fragmented.buf # NULL => fragmented.total < heap[fragmented.buf]
      /\ fragmented.buf = NULL => fragmented.total = 0
      /\ fragmented.op = "cont" => fragmented.buf = NULL
      /\ current.op = "cont" => fragmented.buf = NULL
    BY <1>2 DEF ReadInv, Ownership, BuffersOwned, FitsBuffer
<1>5. closed \in BOOLEAN /\ (~closed => ~OutOfTurn(current.op))
    BY <1>2 DEF ReadInv, Ownership
<1>6. CASE current' = Emptied(current) /\ fragmented' = fragmented
           /\ closed' \in BOOLEAN
    <2>1. current' \in CurrentType /\ current'.data = << >>
          /\ current'.total = 0 /\ current'.buf = current.buf
        BY <1>3, <1>6, EmptiedFields
    <2> QED
        BY <1>1, <1>3, <1>4, <1>6, <2>1, HandledKeeps
<1>7. CASE Ignore \/ OnClose \/ OnPing \/ OnPong \/ Unexpected
    BY <1>5, <1>6, <1>7
    DEF Ignore, OnClose, OnPing, OnPong, Unexpected, QueueClose
<1>8. CASE Deliver
    <2>1. current' = Emptied(current) /\ closed' \in BOOLEAN
        BY <1>5, <1>8 DEF Deliver
    <2>2. CASE current.op # "cont"
        BY <1>6, <1>8, <2>1, <2>2 DEF Deliver
    <2>3. CASE current.op = "cont"
        <3>1. fragmented' = [buf |-> NULL, data |-> << >>, total |-> 0,
                             op |-> "cont"]
            BY <1>8, <2>3 DEF Deliver
        <3>2. fragmented' \in FragmentedType /\ fragmented'.buf = NULL
              /\ fragmented'.total = 0 /\ fragmented'.op = "cont"
              /\ fragmented'.total = Len(fragmented'.data)
            BY <3>1 DEF FragmentedType
        <3>3. current' \in CurrentType /\ current'.data = << >>
              /\ current'.total = 0 /\ current'.buf = current.buf
            BY <1>3, <2>1, EmptiedFields
        <3> QED
            BY <1>1, <1>4, <2>1, <2>3, <3>2, <3>3, HandledKeeps
    <2> QED
        BY <2>2, <2>3
<1>9. CASE Valid /\ KeepFragment
    <2> DEFINE op == IF current.op = "cont" THEN fragmented.op ELSE current.op
    <2>1. /\ current.op \in {"cont", "text", "binary"} /\ closed' = closed
          /\ fragmented' = [buf |-> current.buf, data |-> current.data,
                            total |-> current.total, op |-> op]
          /\ current' = [Emptied(current) EXCEPT !.buf = NULL, !.op = "cont",
                                                 !.fin = FALSE]
        BY <1>9 DEF KeepFragment
    <2>2. ~closed /\ (current.op = "cont" => fragmented.op # "cont")
        BY <1>9, <2>1 DEF Valid
    <2>3. fragmented.buf = NULL
        <3>1. CASE current.op = "cont"
            BY <3>1, <1>4
        <3>2. CASE current.op # "cont"
            <4>1. ~IsControl(current.op)
                BY <2>1 DEF IsControl
            <4>2. fragmented.op = "cont"
                BY <3>2, <4>1, <2>2, <1>5 DEF OutOfTurn
            <4> QED
                BY <4>2, <1>4
        <3> QED
            BY <3>1, <3>2
    <2>4. op \in {"text", "binary"}
        BY <1>3, <2>1, <2>2
    <2> HIDE DEF op
    <2>5. fragmented' \in FragmentedType /\ fragmented'.buf = current.buf
          /\ fragmented'.total = current.total /\ fragmented'.op # "cont"
          /\ fragmented'.total = Len(fragmented'.data)
        BY <1>3, <2>1, <2>4 DEF FragmentedType, CurrentType
    <2>6. current' \in CurrentType /\ current'.buf = NULL
          /\ current'.data = << >> /\ current'.total = 0
        <3> DEFINE e == Emptied(current)
        <3>1. e \in CurrentType /\ e.data = << >> /\ e.total = 0
            BY <1>3, EmptiedFields
        <3>2. current' = [e EXCEPT !.buf = NULL, !.op = "cont", !.fin = FALSE]
            BY <2>1
        <3> HIDE DEF e
        <3> QED
            BY <3>1, <3>2 DEF CurrentType, Opcodes
    <2>7. {current'.buf, fragmented'.buf} \ {NULL}
             = {current.buf, fragmented.buf} \ {NULL}
        BY <2>3, <2>5, <2>6
    <2> QED
        BY <1>1, <1>4, <1>5, <2>1, <2>5, <2>6, <2>7, HandledKeeps
<1> QED
    BY <1>7, <1>8, <1>9 DEF Dispatch

-----------------------------------------------------------------------------
(* The theorems *)

\* ReadInv holds in every state.
LEMMA ReadAlways == Spec => []ReadInv
<1>1. ReadInv /\ [Next]_vars => ReadInv'
    BY NextCases, QuietKeeps, ReceiveKeeps, FreeKeeps, ReadHeaderKeeps,
       FillKeeps, DispatchKeeps, ParseLongKeeps, ParseShortKeeps,
       ParseLengthKeeps, NextFrameKeeps
<1> QED
    BY <1>1, ReadInit, PTL DEF Spec

\* Whatever comes in whatever order, recv.current and recv.fragmented own all
\* payload buffers there are, and none twice.
THEOREM BuffersOwnedCorrect == Spec => []BuffersOwned
<1>1. ReadInv => BuffersOwned
    BY DEF ReadInv, Ownership
<1> QED
    BY <1>1, ReadAlways, PTL

\* The payload of a message and the '\0' behind it fit its buffer.
THEOREM FitsBufferCorrect == Spec => []FitsBuffer
<1>1. ReadInv => FitsBuffer
    BY DEF ReadInv, Ownership
<1> QED
    BY <1>1, ReadAlways, PTL

\* The variables keep their types; the header never needs another size than
\* the three there are.
THEOREM TypeCorrect == Spec => []TypeOK
<1>1. ReadInv /\ SendInv => TypeOK
    <2> SUFFICES ASSUME ReadInv, SendInv PROVE TypeOK
        OBVIOUS
    <2>1. buffer \in Seq(Nat)
        BY DEF SendInv, OutInOrder
    <2>2. PositionTypes /\ heap \in [Buffers -> Nat] /\ closed \in BOOLEAN
        BY DEF ReadInv, Ownership
    <2>3. /\ current \in [buf : {NULL} \cup Buffers, data : Seq(1 .. MaxFrames),
                          total : Nat, fin : BOOLEAN,
                          op : {"cont", "text", "binary", "close", "ping",
                                "pong", "reserved"}]
          /\ fragmented \in [buf : {NULL} \cup Buffers,
                             data : Seq(1 .. MaxFrames),
                             total : Nat, op : {"cont", "text", "binary"}]
        BY DEF ReadInv, Payloads, CurrentType, FragmentedType, Opcodes
    <2> QED
        BY <2>1, <2>2, <2>3, Zenon DEF TypeOK, PositionTypes, SendInv
<1> QED
    BY <1>1, ReadAlways, SendAlways, PTL
=============================================================================
