------------------------ MODULE WebSocketStreamProofs ------------------------
(***************************************************************************)
(* However the network cuts the frames into reads, curl-websocket tells    *)
(* the program what MessageStream would: WebSocketFrames implements it.    *)
(***************************************************************************)
EXTENDS WebSocketFramesProofs

-----------------------------------------------------------------------------
(* The frame that is read and the message that it belongs to *)

\* Bytes of recv.current that came with earlier frames.
Begun == current.total - wire.len

\* The header that was read is kept in recv.current, behind the fragments so
\* far there are only bytes of this frame, and a frame that breaks the rules
\* made this side close.
PayloadInv ==
    InPayload =>
        /\ current.op = wire.op /\ current.fin = wire.fin
        /\ Begun \in 0 .. Len(current.data)
        /\ \A i \in Begun + 1 .. Len(current.data) : current.data[i] = count
        /\ current.op # "cont" => Begun = 0
        /\ ~closed => ~wire.bad /\ (IsControl(wire.op) => wire.ext = 0)

\* The same of a header whose extended length is being read.
HeaderInv ==
    needed > HeaderSize =>
        /\ current.op = wire.op /\ current.fin = wire.fin
        /\ ~closed => ~wire.bad /\ ~IsControl(wire.op)

FrameInv == PayloadInv /\ HeaderInv

\* Steps that leave the frame and its payload alone.
LEMMA FrameKept ==
    ASSUME FrameInv,
           UNCHANGED <<current, wire, count, needed>>,
           InPayload' => InPayload,
           closed => closed'
    PROVE  FrameInv'
<1>1. Begun' = Begun /\ (IsControl(wire.op)' <=> IsControl(wire.op))
    BY DEF Begun, IsControl
<1>2. PayloadInv'
    BY <1>1 DEF FrameInv, PayloadInv
<1>3. HeaderInv'
    BY <1>1 DEF FrameInv, HeaderInv
<1> QED
    BY <1>2, <1>3 DEF FrameInv

\* What a payload begins with: the fragments so far, if it goes on with them.
LEMMA StartFrameData ==
    ASSUME ReadInv, pc = "parse", NEW cur, Starting(cur), NEW len \in Nat,
           StartFrame(cur, len)
    PROVE  current'.data = IF cur.op = "cont" THEN fragmented.data ELSE << >>
<1>1. ~InPayload
    BY DEF InPayload
<1>2. cur \in CurrentType /\ cur.data = << >>
    BY <1>1 DEF Starting, ReadInv, Payloads
<1>3. CASE cur.op = "cont"
    <2>1. current' = With(cur, BufferFor(fragmented, len), fragmented.data,
                          fragmented.total + len)
        BY <1>3, StartContinuation
    <2> QED
        BY <1>2, <1>3, <2>1 DEF With, CurrentType
<1>4. CASE cur.op # "cont"
    <2>1. current' = With(cur, BufferFor(cur, len), cur.data, cur.total + len)
        BY <1>4, StartOther
    <2> QED
        BY <1>2, <1>4, <2>1 DEF With, CurrentType
<1> QED
    BY <1>3, <1>4

\* In a header or a payload there is a frame that is read.
LEMMA FrameIsThere ==
    ASSUME ReadInv, done = needed
    PROVE  wire # NoFrame /\ count \in 1 .. MaxFrames
<1>1. needed \in {2, 4, 10} /\ count \in 0 .. MaxFrames /\ MaxFrames \in Nat
    BY WebSocketAssumption DEF ReadInv, PositionTypes
<1>2. wire # NoFrame
    BY <1>1 DEF ReadInv, Position
<1> QED
    BY <1>1, <1>2 DEF ReadInv, Position

\* A frame that starts has its payload's position right.
LEMMA StartKeepsFrame ==
    ASSUME ReadInv, pc = "parse", NEW cur, Starting(cur),
           StartFrame(cur, wire.len), UNCHANGED <<wire, count, needed>>,
           cur.op = wire.op, cur.fin = wire.fin,
           ~closed' => ~wire.bad /\ (IsControl(wire.op) => wire.ext = 0),
           needed > HeaderSize /\ ~closed' => ~IsControl(wire.op)
    PROVE  FrameInv'
<1>1. wire # NoFrame
    BY FrameIsThere DEF ReadInv, Position
<1>2. wire.len \in Nat
    BY <1>1, WireType DEF ReadInv
<1>3. /\ current' \in CurrentType
      /\ current'.op = cur.op /\ current'.fin = cur.fin
      /\ current'.total = Len(current'.data) + wire.len
    BY <1>2, StartFrameEffect DEF Started
<1>4. Len(current'.data) \in Nat
    BY <1>3 DEF CurrentType
<1>5. Begun' = Len(current'.data)
    BY <1>2, <1>3, <1>4 DEF Begun
<1>6. cur.op # "cont" => Begun' = 0
    BY <1>2, <1>5, StartFrameData
<1>7. IsControl(wire.op)' <=> IsControl(wire.op)
    BY DEF IsControl
<1>8. PayloadInv'
    BY <1>3, <1>4, <1>5, <1>6, <1>7 DEF PayloadInv
<1>9. HeaderInv'
    BY <1>3, <1>7 DEF HeaderInv
<1> QED
    BY <1>8, <1>9 DEF FrameInv

\* The steps that parse a header keep or establish FrameInv.
LEMMA ParseKeepsFrame ==
    ASSUME ReadInv, FrameInv, ParseLong \/ ParseShort \/ ParseLength
    PROVE  FrameInv'
<1>1. /\ pc = "parse" /\ done = needed /\ needed \in {2, 4, 10}
      /\ UNCHANGED <<wire, count>>
    BY DEF ParseLong, ParseShort, ParseLength, ReadInv, Position, PositionTypes
<1>2. /\ wire.op \in Opcodes /\ wire.fin \in BOOLEAN
      /\ wire.ext \in {0, 2, 8}
    BY <1>1, FrameIsThere, WireType DEF ReadInv
<1>3. current \in CurrentType
    BY DEF ReadInv, Payloads
<1> DEFINE cur == [current EXCEPT !.op = wire.op, !.fin = wire.fin]
<1>4. cur.op = wire.op /\ cur.fin = wire.fin /\ Starting(cur)
    BY <1>2, <1>3 DEF CurrentType, Starting
<1>5. CASE ParseLong
    <2>1. /\ needed = 2 /\ done' = done /\ needed' = needed + wire.ext
          /\ wire.ext # 0 /\ current' = cur
          /\ MayClose(wire.bad \/ IsControl(wire.op))
        BY <1>5 DEF ParseLong, HeaderSize
    <2>2. ~closed' => ~wire.bad /\ ~IsControl(wire.op)
        BY <2>1, MayCloseEffect DEF ReadInv
    <2>3. ~InPayload'
        BY <1>1, <1>2, <2>1 DEF InPayload
    <2> QED
        BY <1>1, <1>4, <2>1, <2>2, <2>3
        DEF FrameInv, PayloadInv, HeaderInv, IsControl
<1>6. CASE ParseShort
    <2>1. /\ needed = HeaderSize /\ needed' = needed /\ wire.ext = 0
          /\ StartFrame(cur, wire.len)
          /\ MayClose(wire.bad \/ OutOfTurn(wire.op))
        BY <1>6 DEF ParseShort
    <2>2. ~closed' => ~wire.bad
        BY <2>1, MayCloseEffect DEF ReadInv
    <2>3. ~(needed > HeaderSize)
        BY <2>1 DEF HeaderSize
    <2> HIDE DEF cur
    <2> QED
        BY <1>1, <1>4, <2>1, <2>2, <2>3, StartKeepsFrame
<1>7. CASE ParseLength
    <2>1. /\ needed > HeaderSize /\ needed' = needed
          /\ StartFrame(current, wire.len)
          /\ MayClose(OutOfTurn(current.op))
        BY <1>7 DEF ParseLength
    <2>2. /\ current.op = wire.op /\ current.fin = wire.fin
          /\ ~closed => ~wire.bad /\ ~IsControl(wire.op)
        BY <2>1 DEF FrameInv, HeaderInv
    <2>3. closed => closed'
        BY <2>1, MayCloseEffect DEF ReadInv
    <2>4. Starting(current)
        BY <1>3 DEF Starting
    <2> QED
        BY <1>1, <2>1, <2>2, <2>3, <2>4, StartKeepsFrame
<1> QED
    BY <1>5, <1>6, <1>7

\* Bytes that are appended to others.
LEMMA Appended ==
    ASSUME NEW S, NEW s \in Seq(S), NEW t \in Seq(S)
    PROVE  /\ s \o t \in Seq(S) /\ Len(s \o t) = Len(s) + Len(t)
           /\ \A i \in 1 .. Len(s \o t) :
                 (s \o t)[i] = IF i <= Len(s) THEN s[i] ELSE t[i - Len(s)]
<1>1. s \o t \in Seq(S) /\ Len(s \o t) = Len(s) + Len(t)
    BY ConcatProperties
<1>2. \A i \in 1 .. Len(s) + Len(t) :
         (s \o t)[i] = IF i <= Len(s) THEN s[i] ELSE t[i - Len(s)]
    BY ConcatProperties
<1> QED
    BY <1>1, <1>2, Zenon

\* So many times the same byte.
LEMMA Repeated ==
    ASSUME NEW S, NEW n \in Nat, NEW c \in S
    PROVE  LET t == [i \in 1 .. n |-> c] IN
           t \in Seq(S) /\ Len(t) = n /\ \A i \in 1 .. n : t[i] = c
<1> DEFINE t == [i \in 1 .. n |-> c]
<1>1. t \in Seq(S) /\ Len(t) = n
    OBVIOUS
<1>2. \A i \in 1 .. n : t[i] = c
    OBVIOUS
<1> QED
    BY <1>1, <1>2

\* The first bytes of a payload.
LEMMA FirstBytes ==
    ASSUME NEW S, NEW s \in Seq(S), NEW n \in 0 .. Len(s)
    PROVE  /\ SubSeq(s, 1, n) \in Seq(S) /\ Len(SubSeq(s, 1, n)) = n
           /\ \A i \in 1 .. n : SubSeq(s, 1, n)[i] = s[i]
<1>1. Len(s) \in Nat /\ n \in Nat /\ n <= Len(s)
    OBVIOUS
<1>2. SubSeq(s, 1, n) \in Seq(S)
    BY <1>1
<1>3. Len(SubSeq(s, 1, n)) = n
    BY <1>1
<1>4. \A i \in 1 .. n : SubSeq(s, 1, n)[i] = s[i]
    BY <1>1
<1> QED
    BY <1>2, <1>3, <1>4

\* Copied bytes are those of the current frame.
LEMMA FillKeepsFrame ==
    ASSUME ReadInv, FrameInv, Fill
    PROVE  FrameInv'
<1>1. /\ UNCHANGED <<closed, wire, count, done, needed>>
      /\ pc = "fill" /\ done = needed
    BY DEF Fill, ReadInv, Position
<1>2. InPayload
    BY <1>1 DEF InPayload
<1>3. CASE current' = current
    BY <1>1, <1>2, <1>3, FrameKept
<1>4. CASE current' # current
    <2>1. PICK k \in 1 .. Left :
             current' = [current EXCEPT
                            !.data = @ \o [i \in 1 .. k |-> count]]
        BY <1>4 DEF Fill
    <2>2. Left \in Nat /\ k \in Nat /\ current.data \in Seq(1 .. MaxFrames)
        BY PayloadTypes DEF ReadInv
    <2>3. count \in 1 .. MaxFrames
        BY <1>1, FrameIsThere
    <2> DEFINE t == [i \in 1 .. k |-> count]
               d == current.data \o t
    <2>4. t \in Seq(1 .. MaxFrames) /\ Len(t) = k
          /\ \A i \in 1 .. k : t[i] = count
        BY <2>2, <2>3
    <2>5. current' = [current EXCEPT !.data = d]
        BY <2>1
    <2> HIDE DEF t
    <2>6. /\ d \in Seq(1 .. MaxFrames) /\ Len(d) = Len(current.data) + Len(t)
          /\ \A i \in 1 .. Len(d) :
                d[i] = IF i <= Len(current.data) THEN current.data[i]
                       ELSE t[i - Len(current.data)]
        BY <2>2, <2>4, Appended
    <2> HIDE DEF d
    <2>7. /\ current'.data = d /\ current'.total = current.total
          /\ current'.op = current.op /\ current'.fin = current.fin
        BY <2>5 DEF ReadInv, Payloads, CurrentType
    <2>8. Begun' = Begun
        BY <1>1, <2>7 DEF Begun
    <2>9. /\ Len(current.data) \in Nat
          /\ Begun \in 0 .. Len(current.data)
          /\ \A i \in Begun + 1 .. Len(current.data) : current.data[i] = count
        BY <1>2, PayloadTypes DEF ReadInv, FrameInv, PayloadInv
    <2>10. ASSUME NEW i \in Begun + 1 .. Len(d)
           PROVE  d[i] = count
        <3>0. i \in 1 .. Len(d)
            BY <2>9
        <3>1. CASE i <= Len(current.data)
            BY <2>6, <2>9, <3>0, <3>1
        <3>2. CASE ~(i <= Len(current.data))
            <4>1. i - Len(current.data) \in 1 .. k
                BY <2>2, <2>4, <2>6, <2>9, <3>0, <3>2
            <4> QED
                BY <2>4, <2>6, <3>0, <3>2, <4>1
        <3> QED
            BY <3>1, <3>2
    <2>11. Begun \in 0 .. Len(d)
        BY <2>2, <2>4, <2>6, <2>9
    <2>12. PayloadInv'
        BY <1>1, <1>2, <2>7, <2>8, <2>10, <2>11
        DEF FrameInv, PayloadInv, IsControl
    <2>13. HeaderInv'
        BY <1>1, <2>7 DEF FrameInv, HeaderInv, IsControl
    <2> QED
        BY <2>12, <2>13 DEF FrameInv
<1> QED
    BY <1>3, <1>4

\* FrameInv holds in every state.
LEMMA FrameAlways == Spec => [](ReadInv /\ FrameInv)
<1>1. Init => FrameInv
    BY DEF Init, FrameInv, PayloadInv, HeaderInv, InPayload, HeaderSize
<1>2. ReadInv /\ FrameInv /\ [Next]_vars => FrameInv'
    <2> SUFFICES ASSUME ReadInv, FrameInv, [Next]_vars PROVE FrameInv'
        OBVIOUS
    <2>1. CASE Quiet
        BY <2>1, FrameKept DEF Quiet, reading, InPayload
    <2>2. CASE Receive \/ Free
        BY <2>2, FrameKept DEF Receive, Free, InPayload, ReadInv, Position
    <2>3. CASE ReadHeader
        <3>1. /\ UNCHANGED <<current, wire, count, needed, closed>>
              /\ done' # needed \/ pc' = "parse"
            BY <2>3 DEF ReadHeader
        <3> QED
            BY <3>1, FrameKept DEF InPayload
    <2>4. CASE Fill
        BY <2>4, FillKeepsFrame
    <2>5. CASE Dispatch
        <3>1. done' = 0 /\ needed' = 2
            BY <2>5 DEF Dispatch, AwaitHeader, HeaderSize
        <3> QED
            BY <3>1 DEF FrameInv, PayloadInv, HeaderInv, InPayload, HeaderSize
    <2>6. CASE ParseLong \/ ParseShort \/ ParseLength
        BY <2>6, ParseKeepsFrame
    <2>7. ASSUME NEW f \in Frames, NextFrame(f) PROVE FrameInv'
        <3>1. UNCHANGED <<pc, done, needed>> /\ wire = NoFrame
            BY <2>7 DEF NextFrame
        <3>2. done = 0 /\ needed = 2
            BY <3>1 DEF ReadInv, Position, HeaderSize
        <3> QED
            BY <3>1, <3>2
            DEF FrameInv, PayloadInv, HeaderInv, InPayload, HeaderSize
    <2> QED
        BY <2>1, <2>2, <2>3, <2>4, <2>5, <2>6, <2>7, NextCases
<1> QED
    BY <1>1, <1>2, ReadAlways, PTL DEF Spec

-----------------------------------------------------------------------------
(* What the steps are to the stream *)

\* Steps that move no payload from one message to the other.
LEMMA UnfinishedKept ==
    ASSUME UNCHANGED <<wire, closed, fragmented, current>>, InPayload' <=> InPayload
    PROVE  Unfinished' = Unfinished
BY DEF Unfinished, InPayload

\* Steps between reads: the program sends and closes, curl takes what there
\* is, the handshake is answered, the transfer ends.
LEMMA BetweenReads ==
    ASSUME \/ SendText \/ CloseByProgram \/ SendData
           \/ StatusLine \/ AcceptHeader \/ EndOfHeaders
           \/ Receive \/ TransferEnds \/ Free
    PROVE  [Stream!Next]_(Stream!vars)
<1>1. CASE SendText \/ SendData \/ StatusLine \/ AcceptHeader
    <2>1. UNCHANGED <<phase, reading, closed, heard>>
        BY <1>1 DEF SendText, SendData, StatusLine, AcceptHeader
    <2>2. Unfinished' = Unfinished
        BY <2>1, UnfinishedKept DEF reading, InPayload
    <2> QED
        BY <2>1, <2>2 DEF Stream!vars, reading
<1>2. CASE CloseByProgram
    <2>1. UNCHANGED <<phase, wire, count, heard>> /\ closed' = TRUE
        BY <1>2 DEF CloseByProgram, QueueClose, reading
    <2> QED
        BY <2>1 DEF Stream!Next, Stream!Close, Stream!NoMessage, Unfinished
<1>3. CASE EndOfHeaders
    <2>1. UNCHANGED <<wire, count, closed, fragmented, current, done, needed, pc>>
        BY <1>3 DEF EndOfHeaders, reading
    <2>2. Unfinished' = Unfinished
        BY <2>1, UnfinishedKept DEF InPayload
    <2>3. CASE accepted
        <3>1. phase = "opening" /\ phase' = "open" /\ Tell("on_connect", << >>)
            BY <1>3, <2>3 DEF EndOfHeaders
        <3>2. Stream!Accept
            BY <2>1, <2>2, <3>1 DEF Stream!Accept, Stream!Tell, Tell
        <3> QED
            BY <3>2 DEF Stream!Next
    <2>4. CASE ~accepted
        <3>1. phase = "opening" /\ phase' = "refused" /\ Tell("on_close", << >>)
            BY <1>3, <2>4 DEF EndOfHeaders
        <3>2. Stream!Refuse
            BY <2>1, <2>2, <3>1 DEF Stream!Refuse, Stream!Tell, Tell
        <3> QED
            BY <3>2 DEF Stream!Next
    <2> QED
        BY <2>3, <2>4
<1>4. CASE Receive
    <2>1. /\ UNCHANGED <<phase, wire, count, closed, heard, fragmented, current,
                         done, needed>>
          /\ pc = "idle" /\ pc' # "parse"
        BY <1>4 DEF Receive, Entry
    <2>2. Unfinished' = Unfinished
        BY <2>1, UnfinishedKept DEF InPayload
    <2> QED
        BY <2>1, <2>2 DEF Stream!vars
<1>5. CASE TransferEnds
    <2>1. /\ UNCHANGED <<wire, count, closed, heard, fragmented, current, done,
                         needed, pc>>
          /\ phase' = "over"
        BY <1>5 DEF TransferEnds, reading
    <2>2. Unfinished' = Unfinished
        BY <2>1, UnfinishedKept DEF InPayload
    <2> QED
        BY <2>1, <2>2 DEF Stream!Next, Stream!End
<1>6. CASE Free
    <2>1. /\ UNCHANGED <<wire, count, closed, heard, fragmented, current, done,
                         needed, pc>>
          /\ phase = "over" /\ phase' = "freed"
        BY <1>6 DEF Free
    <2>2. Unfinished' = Unfinished
        BY <2>1, UnfinishedKept DEF InPayload
    <2> QED
        BY <2>1, <2>2 DEF Stream!vars
<1> QED
    BY <1>1, <1>2, <1>3, <1>4, <1>5, <1>6

\* The first byte of a frame sends it.
LEMMA NextFrameSends ==
    ASSUME ReadInv, NEW f \in Frames, NextFrame(f)
    PROVE  Stream!Send(f)
<1>1. /\ UNCHANGED <<phase, closed, heard, fragmented, current, done, needed, pc>>
      /\ wire = NoFrame /\ wire' = f /\ count' = count + 1
      /\ pc = "header"
    BY DEF NextFrame
<1>2. phase = "open" /\ count < MaxFrames /\ ~InPayload
    <2>1. done < needed /\ needed \in {2, 4, 10} /\ done \in 0 .. needed
        BY <1>1 DEF ReadInv, Position, PositionTypes
    <2> QED
        BY <1>1, <2>1 DEF ReadInv, Position, InPayload
<1>3. Unfinished' = Unfinished
    BY <1>1, <1>2 DEF Unfinished, InPayload
<1> QED
    BY <1>1, <1>2, <1>3 DEF Stream!Send, Stream!NoFrame, NoFrame

\* The stream of messages does not see the copying of headers,
LEMMA ReadHeaderUnnoticed ==
    ASSUME ReadInv, ReadHeader
    PROVE  UNCHANGED Stream!vars
<1>1. /\ UNCHANGED <<phase, wire, count, closed, heard, fragmented, current,
                     needed>>
      /\ pc = "header"
      /\ done' # needed \/ pc' = "parse"
    BY DEF ReadHeader
<1>2. done # needed
    BY <1>1 DEF ReadInv, Position, PositionTypes
<1>3. ~InPayload /\ ~InPayload'
    BY <1>1, <1>2 DEF InPayload
<1>4. Unfinished' = Unfinished
    BY <1>1, <1>3, UnfinishedKept
<1> QED
    BY <1>1, <1>4 DEF Stream!vars

\* The end of the header closes if the frame breaks the rules; otherwise the
\* fragments so far are only moved to recv.current.
LEMMA ParseUnnoticed ==
    ASSUME ReadInv, ParseLong \/ ParseShort \/ ParseLength
    PROVE  [Stream!Next]_(Stream!vars)
<1>1. /\ UNCHANGED <<phase, wire, count, heard, done>>
      /\ pc = "parse" /\ done = needed /\ needed \in {2, 4, 10} /\ ~InPayload
    BY DEF ParseLong, ParseShort, ParseLength, ReadInv, Position,
           PositionTypes, InPayload
<1>2. CASE closed' /\ closed' \in BOOLEAN
    BY <1>1, <1>2 DEF Stream!Next, Stream!Close, Stream!NoMessage, Unfinished
<1>3. closed' \in BOOLEAN /\ (closed => closed') /\ closed \in BOOLEAN
    BY MayCloseEffect
    DEF ReadInv, ParseLong, ParseShort, ParseLength, Ownership
<1>4. wire.len \in Nat /\ wire.op \in Opcodes /\ wire.fin \in BOOLEAN
      /\ wire.ext \in {0, 2, 8}
    BY <1>1, FrameIsThere, WireType DEF ReadInv
<1>5. /\ current \in CurrentType /\ fragmented \in FragmentedType
      /\ fragmented.data \in Seq(1 .. MaxFrames)
      /\ fragmented.total = Len(fragmented.data)
    BY PayloadTypes DEF ReadInv, Payloads
<1>6. ASSUME NEW cur, Starting(cur), StartFrame(cur, wire.len),
             pc' = "fill", needed' = needed, ~closed'
      PROVE  Unfinished' = Unfinished
    <2>1. InPayload'
        BY <1>1, <1>6 DEF InPayload
    <2>2. current'.op = cur.op /\ fragmented'.op = fragmented.op
          /\ current'.total = Len(current'.data) + wire.len
          /\ current' \in CurrentType
        BY <1>1, <1>4, <1>6, StartFrameEffect DEF Started
    <2>3. CASE cur.op = "cont"
        <3>1. current'.data = fragmented.data
            BY <1>1, <1>4, <1>6, <2>3, StartFrameData
        <3>2. current'.total - wire.len = Len(fragmented.data)
            BY <1>4, <1>5, <2>2, <3>1
        <3>3. SubSeq(fragmented.data, 1, Len(fragmented.data)) = fragmented.data
            BY <1>5
        <3> QED
            BY <1>1, <1>3, <1>6, <2>1, <2>2, <2>3, <3>1, <3>2, <3>3
            DEF Unfinished, InPayload
    <2>4. CASE cur.op # "cont"
        <3>1. fragmented' = fragmented
            BY <1>6, <2>4, StartOther
        <3> QED
            BY <1>1, <1>3, <1>6, <2>2, <2>4, <3>1 DEF Unfinished, InPayload
    <2> QED
        BY <2>3, <2>4
<1>7. CASE ParseLong /\ ~closed'
    <2>1. /\ fragmented' = fragmented /\ needed' = needed + wire.ext
          /\ wire.ext > 0
        BY <1>7 DEF ParseLong
    <2>2. done' # needed'
        BY <1>1, <1>4, <2>1
    <2>3. Unfinished' = Unfinished
        BY <1>1, <1>3, <1>7, <2>1, <2>2 DEF Unfinished, InPayload
    <2> QED
        BY <1>1, <1>3, <1>7, <2>3 DEF Stream!vars
<1>8. CASE ParseShort /\ ~closed'
    <2> DEFINE cur == [current EXCEPT !.op = wire.op, !.fin = wire.fin]
    <2>1. Starting(cur)
        BY <1>4, <1>5 DEF CurrentType, Starting
    <2>2. StartFrame(cur, wire.len) /\ pc' = "fill" /\ needed' = needed
        BY <1>8 DEF ParseShort
    <2> HIDE DEF cur
    <2>3. Unfinished' = Unfinished
        BY <1>6, <1>8, <2>1, <2>2
    <2> QED
        BY <1>1, <1>3, <1>8, <2>3 DEF Stream!vars
<1>9. CASE ParseLength /\ ~closed'
    <2>1. Starting(current)
        BY <1>5 DEF Starting
    <2>2. StartFrame(current, wire.len) /\ pc' = "fill" /\ needed' = needed
        BY <1>9 DEF ParseLength
    <2>3. Unfinished' = Unfinished
        BY <1>6, <1>9, <2>1, <2>2
    <2> QED
        BY <1>1, <1>3, <1>9, <2>3 DEF Stream!vars
<1> QED
    BY <1>2, <1>3, <1>7, <1>8, <1>9

\* nor that of payloads.
LEMMA FillUnnoticed ==
    ASSUME ReadInv, FrameInv, Fill
    PROVE  UNCHANGED Stream!vars
<1>1. /\ UNCHANGED <<phase, wire, count, closed, heard, fragmented, done, needed>>
      /\ pc = "fill" /\ done = needed /\ pc' # "parse"
    BY DEF Fill, ReadInv, Position
<1>2. InPayload /\ InPayload'
    BY <1>1 DEF InPayload
<1>3. /\ Begun \in 0 .. Len(current.data)
      /\ current \in CurrentType /\ current.data \in Seq(1 .. MaxFrames)
    BY <1>2, PayloadTypes DEF FrameInv, PayloadInv, ReadInv, Payloads
<1>4. /\ current'.op = current.op
      /\ SubSeq(current'.data, 1, current'.total - wire.len)
             = SubSeq(current.data, 1, current.total - wire.len)
    <2>1. CASE current' = current
        BY <2>1
    <2>2. CASE current' # current
        <3>1. PICK k \in 1 .. Left :
                 current' = [current EXCEPT
                                !.data = @ \o [i \in 1 .. k |-> count]]
            BY <2>2 DEF Fill
        <3> DEFINE t == [i \in 1 .. k |-> count]
        <3>2. count \in 1 .. MaxFrames /\ Left \in Nat
            BY <1>1, FrameIsThere, PayloadTypes DEF ReadInv
        <3>3. t \in Seq(1 .. MaxFrames)
            BY <3>2
        <3>4. current' = [current EXCEPT !.data = current.data \o t]
            BY <3>1
        <3> HIDE DEF t
        <3> DEFINE d == current.data \o t
        <3>5. /\ d \in Seq(1 .. MaxFrames)
              /\ Len(d) = Len(current.data) + Len(t)
              /\ \A i \in 1 .. Len(d) :
                    d[i] = IF i <= Len(current.data) THEN current.data[i]
                           ELSE t[i - Len(current.data)]
            BY <1>3, <3>3, Appended
        <3>6. current' = [current EXCEPT !.data = d]
            BY <3>4
        <3> HIDE DEF d
        <3>7. current'.op = current.op /\ current'.data = d
              /\ current'.total = current.total
            BY <1>3, <3>6 DEF CurrentType
        <3>8. SubSeq(d, 1, Begun) = SubSeq(current.data, 1, Begun)
            BY <1>3, <3>3, <3>5
        <3> QED
            BY <3>7, <3>8 DEF Begun
    <2> QED
        BY <2>1, <2>2
<1>5. Unfinished' = Unfinished
    BY <1>1, <1>2, <1>4 DEF Unfinished, InPayload
<1> QED
    BY <1>1, <1>5 DEF Stream!vars

\* At its end, what recv.current holds is what came of the message before and
\* the payload of this frame.
LEMMA WholePayload ==
    ASSUME ReadInv, FrameInv, pc = "dispatch"
    PROVE  /\ current.op # "cont" => current.data = Stream!Payload
           /\ current.op = "cont" /\ ~closed =>
                 current.data = Unfinished.data \o Stream!Payload
<1>1. done = needed /\ InPayload /\ Left = 0
    BY DEF ReadInv, Position, Payloads, InPayload
<1>2. wire # NoFrame /\ count \in 1 .. MaxFrames
    BY <1>1, FrameIsThere
<1>3. wire.len \in Nat
    BY <1>2, WireType DEF ReadInv
<1>4. /\ current.data \in Seq(1 .. MaxFrames)
      /\ current.total = Len(current.data)
      /\ Begun \in 0 .. Len(current.data)
      /\ \A i \in Begun + 1 .. Len(current.data) : current.data[i] = count
      /\ current.op # "cont" => Begun = 0
    BY <1>1, PayloadTypes DEF ReadInv, FrameInv, PayloadInv, Left
<1> DEFINE d == current.data
           s == SubSeq(d, 1, Begun)
           p == Stream!Payload
<1>5. Len(d) = Begun + wire.len /\ Begun \in Nat
    BY <1>3, <1>4 DEF Begun
<1>6. p \in Seq(1 .. MaxFrames) /\ Len(p) = wire.len
      /\ \A i \in 1 .. wire.len : p[i] = count
    <2>1. PICK n \in Nat : n = wire.len
        BY <1>3
    <2>2. PICK c \in 1 .. MaxFrames : c = count
        BY <1>2
    <2>3. p = [i \in 1 .. n |-> c]
        BY <2>1, <2>2 DEF Stream!Payload
    <2> HIDE DEF p
    <2>4. p \in Seq(1 .. MaxFrames) /\ Len(p) = n /\ \A i \in 1 .. n : p[i] = c
        BY ONLY <2>3, Repeated, n \in Nat, c \in 1 .. MaxFrames
    <2> QED
        BY <2>1, <2>2, <2>4
<1>7. s \in Seq(1 .. MaxFrames) /\ Len(s) = Begun
      /\ \A i \in 1 .. Begun : s[i] = d[i]
    BY <1>4, FirstBytes
<1>8. ASSUME Begun = 0 PROVE d = p
    <2> HIDE DEF d, s, p
    <2>1. \A i \in 1 .. wire.len : d[i] = p[i]
        BY <1>4, <1>5, <1>6, <1>8 DEF d
    <2> QED
        BY <1>4, <1>5, <1>6, <1>8, <2>1, SeqEqual DEF d
<1>9. d = s \o p
    <2> HIDE DEF s, p
    <2>1. /\ s \o p \in Seq(1 .. MaxFrames) /\ Len(s \o p) = Len(s) + Len(p)
          /\ \A i \in 1 .. Len(s \o p) :
                (s \o p)[i] = IF i <= Len(s) THEN s[i] ELSE p[i - Len(s)]
        BY <1>6, <1>7, Appended
    <2> DEFINE w == s \o p
    <2> HIDE DEF w, d
    <2>2. /\ w \in Seq(1 .. MaxFrames) /\ Len(w) = Len(d)
          /\ \A i \in 1 .. Len(w) :
                w[i] = IF i <= Begun THEN s[i] ELSE p[i - Begun]
        BY <1>5, <1>6, <1>7, <2>1 DEF w
    <2>3. ASSUME NEW i \in 1 .. Len(d) PROVE d[i] = w[i]
        <3>1. CASE i <= Begun
            BY <1>5, <1>7, <2>2, <3>1
        <3>2. CASE ~(i <= Begun)
            <4>1. i \in Begun + 1 .. Len(d) /\ i - Begun \in 1 .. wire.len
                BY <1>5, <1>3, <3>2
            <4>2. d[i] = count
                BY <1>4, <4>1 DEF d
            <4> QED
                BY <1>6, <2>2, <3>2, <4>1, <4>2
        <3> QED
            BY <3>1, <3>2
    <2>4. d \in Seq(1 .. MaxFrames)
        BY <1>4 DEF d
    <2> QED
        BY <2>2, <2>3, <2>4, SeqEqual DEF w
<1>10. ASSUME current.op = "cont", ~closed
       PROVE  d = Unfinished.data \o p
    <2>1. fragmented.op # "cont"
        BY <1>1, <1>10 DEF ReadInv, Ownership, OutOfTurn, IsControl
    <2>2. Unfinished.data = s
        BY <1>1, <1>10, <2>1 DEF Unfinished, InPayload, Begun
    <2> QED
        BY <1>9, <2>2
<1> QED
    BY <1>4, <1>8, <1>10

\* What was read of a message, where no payload of it is read.
LEMMA UnfinishedOutside ==
    ASSUME closed \in BOOLEAN, current.op # "cont" \/ ~InPayload
    PROVE  Unfinished = IF closed \/ fragmented.op = "cont"
                        THEN [op |-> "none", data |-> << >>]
                        ELSE [op |-> fragmented.op, data |-> fragmented.data]
BY DEF Unfinished, InPayload

\* The end of a frame: it is handled as the stream would handle it.
LEMMA DispatchHandles ==
    ASSUME ReadInv, FrameInv, Dispatch
    PROVE  Stream!Handle
<1>1. /\ pc = "dispatch" /\ phase = "open" /\ done = needed /\ InPayload
      /\ UNCHANGED <<phase, count>>
      /\ wire' = NoFrame /\ done' = 0 /\ needed' = 2
    BY DEF Dispatch, AwaitHeader, HeaderSize, ReadInv, Position, InPayload
<1>2. wire # NoFrame /\ ~InPayload'
    BY <1>1, FrameIsThere DEF InPayload
<1>3. /\ wire.op \in Opcodes /\ wire.fin \in BOOLEAN
      /\ current.op = wire.op /\ current.fin = wire.fin
      /\ closed \in BOOLEAN
      /\ ~closed => /\ ~wire.bad /\ (IsControl(wire.op) => wire.ext = 0)
                    /\ ~OutOfTurn(wire.op)
      /\ fragmented \in FragmentedType
      /\ fragmented.op \in {"cont", "text", "binary"}
    BY <1>1, <1>2, WireType, PayloadTypes
    DEF ReadInv, FrameInv, PayloadInv, Payloads, Ownership
<1>4. /\ wire.op # "cont" => current.data = Stream!Payload
      /\ wire.op = "cont" /\ ~closed =>
            current.data = Unfinished.data \o Stream!Payload
    BY <1>1, <1>3, WholePayload
<1>5. ~closed => /\ Unfinished.op = IF fragmented.op = "cont" THEN "none"
                                     ELSE fragmented.op
                 /\ fragmented.op = "cont" => Unfinished.data = << >>
    BY DEF Unfinished
<1>6. closed' \in BOOLEAN => Unfinished' =
          IF closed' \/ fragmented'.op = "cont"
          THEN [op |-> "none", data |-> << >>]
          ELSE [op |-> fragmented'.op, data |-> fragmented'.data]
    BY <1>2, UnfinishedOutside DEF Unfinished, InPayload
<1>7. ~closed => (Stream!Breaks(wire, Unfinished) <=>
                     wire.op = "reserved" \/ (IsControl(wire.op) /\ ~wire.fin))
    BY <1>3, <1>5
    DEF Stream!Breaks, Stream!Control, Stream!Data, IsControl, OutOfTurn,
        Opcodes
<1>8. ASSUME Ignore \/ (Valid /\ Unexpected) PROVE Stream!Drop
    <2>1. closed' = TRUE /\ heard' = heard
        BY <1>8 DEF Ignore, Unexpected, QueueClose
    <2>2. wire.op # "close" \/ ~wire.fin
        BY <1>3, <1>8 DEF Ignore, Unexpected, Valid
    <2>3. closed \/ Stream!Breaks(wire, Unfinished)
        BY <1>3, <1>7, <1>8
        DEF Ignore, Unexpected, Valid, OutOfTurn, IsControl
    <2> QED
        BY <1>6, <2>1, <2>2, <2>3 DEF Stream!Drop, Stream!NoMessage
<1>9. ASSUME Valid, OnClose PROVE Stream!ReportClose
    <2>1. closed' = TRUE /\ Tell("on_close", current.data) /\ wire.op = "close"
        BY <1>3, <1>9 DEF OnClose, QueueClose
    <2>2. wire.fin
        BY <1>3, <1>9, <2>1 DEF Valid, IsControl
    <2> QED
        BY <1>4, <1>6, <2>1, <2>2
        DEF Stream!ReportClose, Stream!NoMessage, Stream!Tell, Tell
<1>10. ASSUME Valid, ~Ignore, wire.op # "close"
       PROVE  ~closed /\ (IsControl(wire.op) => wire.fin)
    BY <1>3, <1>10 DEF Valid
<1>11. ASSUME Valid, OnPing PROVE Stream!Ping /\ ~closed /\ wire.fin
    <2>1. /\ wire.op = "ping" /\ UNCHANGED <<fragmented, closed>>
          /\ Tell(IF "on_ping" \in Callbacks THEN "on_ping" ELSE "pong",
                  current.data)
        BY <1>3, <1>11 DEF OnPing
    <2>2. ~closed /\ wire.fin
        BY <1>3, <1>11, <2>1 DEF Valid, IsControl
    <2>3. Unfinished' = Unfinished
        BY <1>3, <1>6, <2>1, UnfinishedOutside
    <2> QED
        BY <1>4, <2>1, <2>2, <2>3 DEF Stream!Ping, Stream!Tell, Tell
<1>12. ASSUME Valid, OnPong PROVE Stream!Pong /\ ~closed /\ wire.fin
    <2>1. /\ wire.op = "pong" /\ UNCHANGED <<fragmented, closed>>
          /\ Tell("on_pong", current.data)
        BY <1>3, <1>12 DEF OnPong
    <2>2. ~closed /\ wire.fin
        BY <1>3, <1>12, <2>1 DEF Valid, IsControl
    <2>3. Unfinished' = Unfinished
        BY <1>3, <1>6, <2>1, UnfinishedOutside
    <2> QED
        BY <1>4, <2>1, <2>2, <2>3 DEF Stream!Pong, Stream!Tell, Tell
<1>13. ASSUME Valid, Deliver
       PROVE  Stream!Deliver /\ ~closed /\ ~IsControl(wire.op)
    <2>1. /\ wire.fin /\ wire.op \in {"cont", "text", "binary"}
          /\ closed' = closed
        BY <1>3, <1>13 DEF Deliver
    <2>2. ~closed /\ ~IsControl(wire.op)
        BY <1>3, <1>13, <2>1 DEF Valid, IsControl
    <2> DEFINE op == IF wire.op = "cont" THEN fragmented.op ELSE wire.op
    <2>3. Tell(IF op = "text" THEN "on_text" ELSE "on_binary", current.data)
        BY <1>3, <1>13 DEF Deliver
    <2>4. /\ wire.op # "cont" => fragmented' = fragmented
          /\ wire.op = "cont" => fragmented'.op = "cont"
        BY <1>3, <1>13 DEF Deliver
    <2>5. fragmented'.op = "cont"
        BY <1>3, <2>1, <2>2, <2>4 DEF OutOfTurn
    <2>6. Unfinished' = Stream!NoMessage
        BY <1>3, <1>6, <2>1, <2>5 DEF Stream!NoMessage
    <2>7. op = IF wire.op = "cont" THEN Unfinished.op ELSE wire.op
        BY <1>3, <1>5, <2>2 DEF OutOfTurn
    <2>8. current.data = Unfinished.data \o Stream!Payload
        <3>1. CASE wire.op = "cont"
            BY <1>4, <2>2, <3>1
        <3>2. CASE wire.op # "cont"
            <4>1. Unfinished.data = << >>
                BY <1>3, <1>5, <2>2, <3>2 DEF OutOfTurn
            <4>2. Stream!Payload \in Seq({count})
                BY <1>2, WireType DEF Stream!Payload, ReadInv
            <4> QED
                BY <1>4, <3>2, <4>1, <4>2
        <3> QED
            BY <3>1, <3>2
    <2> HIDE DEF op
    <2> QED
        BY <2>1, <2>2, <2>3, <2>6, <2>7, <2>8
        DEF Stream!Deliver, Stream!Data, Stream!Tell, Tell
<1>14. ASSUME Valid, KeepFragment
       PROVE  Stream!Fragment /\ ~closed /\ ~IsControl(wire.op)
    <2>1. /\ ~wire.fin /\ wire.op \in {"cont", "text", "binary"}
          /\ UNCHANGED <<closed, heard>>
          /\ fragmented'.data = current.data
          /\ fragmented'.op = IF wire.op = "cont" THEN fragmented.op ELSE wire.op
        BY <1>3, <1>14 DEF KeepFragment
    <2>2. ~closed /\ ~IsControl(wire.op)
        BY <1>3, <1>14, <2>1 DEF Valid, IsControl
    <2>3. fragmented'.op # "cont"
        BY <1>3, <2>1, <2>2 DEF OutOfTurn
    <2>4. Unfinished' = [op |-> fragmented'.op, data |-> current.data]
        BY <1>3, <1>6, <2>1, <2>2, <2>3
    <2>5. fragmented'.op = IF wire.op = "cont" THEN Unfinished.op ELSE wire.op
        BY <1>3, <1>5, <2>1, <2>2, <2>3
    <2>6. current.data = Unfinished.data \o Stream!Payload
        <3>1. CASE wire.op = "cont"
            BY <1>4, <2>2, <3>1
        <3>2. CASE wire.op # "cont"
            <4>1. Unfinished.data = << >>
                BY <1>3, <1>5, <2>2, <3>2 DEF OutOfTurn
            <4>2. Stream!Payload \in Seq({count})
                BY <1>2, WireType DEF Stream!Payload, ReadInv
            <4> QED
                BY <1>4, <3>2, <4>1, <4>2
        <3> QED
            BY <3>1, <3>2
    <2> QED
        BY <2>1, <2>2, <2>4, <2>5, <2>6 DEF Stream!Fragment, Stream!Data
<1>15. \/ Ignore
       \/ Valid /\ (\/ Unexpected \/ OnClose \/ OnPing \/ OnPong
                   \/ Deliver \/ KeepFragment)
    BY DEF Dispatch
<1>16. \/ /\ ~closed /\ ~Stream!Breaks(wire, Unfinished)
          /\ \/ Stream!Fragment \/ Stream!Deliver
             \/ Stream!Ping \/ Stream!Pong
       \/ Stream!ReportClose
       \/ Stream!Drop
    <2>1. ASSUME OnPing \/ OnPong \/ Deliver \/ KeepFragment
          PROVE  wire.op # "reserved"
        BY <1>3, <2>1 DEF OnPing, OnPong, Deliver, KeepFragment
    <2> QED
        BY <1>7, <1>8, <1>9, <1>11, <1>12, <1>13, <1>14, <1>15, <2>1
<1> QED
    BY <1>1, <1>2, <1>16 DEF Stream!Handle, Stream!NoFrame, NoFrame

-----------------------------------------------------------------------------
(* The theorem *)

\* Every step of the receiver is one of MessageStream, or not seen by it.
LEMMA StreamStep ==
    ASSUME ReadInv, FrameInv, [Next]_vars
    PROVE  [Stream!Next]_(Stream!vars)
<1>1. CASE Fill \/ ReadHeader
    BY <1>1, FillUnnoticed, ReadHeaderUnnoticed
<1>2. CASE Dispatch
    BY <1>2, DispatchHandles DEF Stream!Next
<1>3. ASSUME NEW f \in Frames, NextFrame(f) PROVE Stream!Next
    BY <1>3, NextFrameSends DEF Stream!Next
<1>4. CASE UNCHANGED vars
    <2>1. Unfinished' = Unfinished
        BY <1>4, UnfinishedKept DEF vars, reading, InPayload
    <2> QED
        BY <1>4, <2>1 DEF vars, reading, Stream!vars
<1> QED
    BY <1>1, <1>2, <1>3, <1>4, BetweenReads, ParseUnnoticed DEF Next, Reading

\* However curl cuts the frames into reads, and wherever a read ends, every
\* behaviour of curl-websocket is one of MessageStream: what the program is
\* told, and when this side closes, are what they would be if each frame came
\* whole.
THEOREM StreamCorrect == Spec => ImplementsMessageStream
<1>1. Init => Stream!Init
    BY DEF Init, Stream!Init, Unfinished, Stream!NoMessage, Stream!NoFrame,
           NoFrame
<1>2. ReadInv /\ FrameInv /\ [Next]_vars => [Stream!Next]_(Stream!vars)
    BY StreamStep
<1> QED
    BY <1>1, <1>2, FrameAlways, PTL
    DEF Spec, Stream!Spec, ImplementsMessageStream
=============================================================================
