--------------------------- MODULE WebSocketFrames ---------------------------
(***************************************************************************)
(* curl-websocket.c: WebSocket frames on top of curl's callbacks.  curl    *)
(* hands over what the network brought in reads of any size and takes      *)
(* what is to be sent in pieces of any size; the program sends and closes  *)
(* between reads, and from its callbacks within one.                       *)
(*                                                                         *)
(* A read is a run of steps that nothing interrupts.  How long it is       *)
(* becomes known step by step: more says that bytes of it are left, and    *)
(* what they are is chosen when they are looked at.  A byte of payload is  *)
(* the number of the frame that carried it.  Allocation does not fail.     *)
(***************************************************************************)
EXTENDS Integers, Sequences

CONSTANTS
    Frames,      \* what the server may send: records [op, fin, len, ext, bad]
    MaxFrames,   \* bound: frames the server sends
    MaxTexts,    \* bound: the program stops sending after so many frames
    Callbacks    \* the callbacks that are set

\* ext is the size of the extended length; bad are a mask or reserved bits.
FrameType == [op : {"cont", "text", "binary", "close", "ping", "pong",
                    "reserved"},
              fin : BOOLEAN, len : Nat, ext : {0, 2, 8}, bad : BOOLEAN]

ASSUME WebSocketAssumption ==
    /\ Frames \subseteq FrameType
    /\ MaxFrames \in Nat /\ MaxTexts \in Nat
    /\ Callbacks \subseteq {"on_connect", "on_text", "on_binary", "on_ping",
                            "on_pong", "on_close"}

NULL == 0
Buffers == 1 .. 3   \* addresses of payload buffers: two in use, one to come
NoFrame == [op |-> "none", fin |-> TRUE, len |-> 0, ext |-> 0, bad |-> FALSE]
HeaderSize == 2     \* sizeof(struct cws_frame_header)
UnitsPerFrame == 2  \* writes of a queued frame that curl can separate

VARIABLES
    phase,       \* the transfer: opening, open, refused, over or freed
    accepted,    \* priv->accepted
    wire,        \* the frame whose bytes come next
    count,       \* frames the server began to send
    pc,          \* where _cws_process_frame is; idle outside of a read
    more,        \* bytes of the read are left
    done,        \* recv.done
    needed,      \* recv.needed
    current,     \* recv.current; used is Len(data)
    fragmented,  \* recv.fragmented
    heap,        \* allocated size of each payload buffer, 0 if it is free
    closed,      \* priv->closed
    heard,       \* history: the last callback or pong
    buffer,      \* send.buffer, numbering what was ever written
    written,     \* history: how much was written to it
    out,         \* history: how much of it curl took
    pause_flags, \* CURLPAUSE_SEND is in priv->pause_flags
    paused       \* curl does not ask for data

reading == <<wire, count, pc, more, done, needed, current, fragmented, heap>>
sending == <<buffer, written, out, pause_flags, paused>>
vars == <<phase, accepted, reading, closed, heard, sending>>

Init ==
    /\ phase = "opening"
    /\ accepted = FALSE
    /\ wire = NoFrame
    /\ count = 0
    /\ pc = "idle"
    /\ more = FALSE
    /\ done = 0
    /\ needed = HeaderSize
    /\ current = [buf |-> NULL, data |-> << >>, total |-> 0, op |-> "cont",
                  fin |-> FALSE]
    /\ fragmented = [buf |-> NULL, data |-> << >>, total |-> 0, op |-> "cont"]
    /\ heap = [b \in Buffers |-> 0]
    /\ closed = FALSE
    /\ heard = [what |-> "nothing", data |-> << >>, frame |-> 0]
    /\ buffer = << >>
    /\ written = 0
    /\ out = 0
    /\ pause_flags = FALSE
    /\ paused = FALSE

-----------------------------------------------------------------------------
(* Sending *)

\* Mutant: a frame is queued without waking curl up.
QueueSilently(n) ==
    /\ buffer' = buffer \o [i \in 1 .. n * UnitsPerFrame |-> written + i]
    /\ written' = written + n * UnitsPerFrame
    /\ UNCHANGED <<out, pause_flags, paused>>

\* _cws_send of n frames; _cws_write wakes curl up.
Queue(n) ==
    /\ buffer' = buffer \o [i \in 1 .. n * UnitsPerFrame |-> written + i]
    /\ written' = written + n * UnitsPerFrame
    /\ IF n > 0 /\ pause_flags
       THEN pause_flags' = FALSE /\ paused' = FALSE
       ELSE UNCHANGED <<pause_flags, paused>>
    /\ UNCHANGED out

\* cws_close: a second close frame is refused, closed stays set.
QueueClose == Queue(IF closed THEN 0 ELSE 1) /\ closed' = TRUE

MayClose(broken) == IF broken THEN QueueClose ELSE UNCHANGED <<closed, sending>>

\* cws_send from the program, between reads; refused once closed.
SendText ==
    /\ pc = "idle" /\ phase # "freed"
    /\ ~closed
    /\ written < MaxTexts * UnitsPerFrame
    /\ Queue(1)
    /\ UNCHANGED <<phase, accepted, reading, closed, heard>>

CloseByProgram ==
    /\ pc = "idle" /\ phase # "freed"
    /\ ~closed
    /\ QueueClose
    /\ UNCHANGED <<phase, accepted, reading, heard>>

Sendable == phase \in {"opening", "open"} /\ pc = "idle" /\ ~paused

\* Mutant: what was sent is cut off at the wrong end.
SendDataKeepsSent ==
    /\ Sendable
    /\ buffer # << >>
    /\ \E n \in 1 .. Len(buffer) :
           /\ out' = buffer[n]
           /\ buffer' = SubSeq(buffer, 1, Len(buffer) - n)
    /\ UNCHANGED <<phase, accepted, reading, closed, heard, written,
                   pause_flags, paused>>

\* _cws_send_data: curl takes n units or, with nothing there, pauses.
SendData ==
    /\ Sendable
    /\ \/ /\ buffer = << >>
          /\ pause_flags' = TRUE /\ paused' = TRUE
          /\ UNCHANGED <<buffer, out>>
       \/ /\ \E n \in 1 .. Len(buffer) :
                 /\ out' = buffer[n]
                 /\ buffer' = SubSeq(buffer, n + 1, Len(buffer))
          /\ UNCHANGED <<pause_flags, paused>>
    /\ UNCHANGED <<phase, accepted, reading, closed, heard, written>>

-----------------------------------------------------------------------------
(* The handshake: _cws_receive_header *)

\* A callback is called if it is set.
Tell(what, data) ==
    heard' = IF what \in Callbacks \cup {"pong"}
             THEN [what |-> what, data |-> data, frame |-> count] ELSE heard

StatusLine ==
    /\ phase = "opening"
    /\ accepted' = FALSE
    /\ UNCHANGED <<phase, reading, closed, heard, sending>>

AcceptHeader ==
    /\ phase = "opening"
    /\ accepted' \in BOOLEAN
    /\ UNCHANGED <<phase, reading, closed, heard, sending>>

\* The empty line.  Returning 0 makes curl end the transfer.
EndOfHeaders ==
    /\ phase = "opening"
    /\ \/ accepted /\ phase' = "open" /\ Tell("on_connect", << >>)
       \/ ~accepted /\ phase' = "refused" /\ Tell("on_close", << >>)
    /\ UNCHANGED <<accepted, reading, closed, sending>>

-----------------------------------------------------------------------------
(* Receiving *)

\* Where a call of _cws_process_frame begins: a header or a payload.
Entry(d, n) == IF d < n THEN "header" ELSE "fill"

\* curl has bytes: _cws_receive_data.
Receive ==
    /\ phase = "open" /\ pc = "idle"
    /\ wire # NoFrame \/ count < MaxFrames
    /\ pc' = Entry(done, needed)
    /\ more' = TRUE
    /\ UNCHANGED <<phase, accepted, wire, count, done, needed, current,
                   fragmented, heap, closed, heard, sending>>

\* The bytes that come next begin this frame.
NextFrame(f) ==
    /\ pc = "header" /\ wire = NoFrame
    /\ wire' = f
    /\ count' = count + 1
    /\ UNCHANGED <<phase, accepted, pc, more, done, needed, current,
                   fragmented, heap, closed, heard, sending>>

\* The read goes on, within the frame or into the next.
GoesOn(within) == more' \in BOOLEAN /\ (more' => within \/ count < MaxFrames)

\* Mutant: bytes of the header that came with an earlier read are not counted.
TodoAll == needed

Todo == needed - done

\* k bytes into recv.tmpbuf.
ReadHeader ==
    /\ pc = "header" /\ wire # NoFrame
    /\ \E k \in 1 .. Todo :
           /\ done' = done + k
           /\ \/ /\ done' # needed
                 /\ pc' = "idle"
                 /\ more' = FALSE
              \/ /\ done' = needed
                 /\ pc' = "parse"
                 /\ GoesOn(wire.len > 0 \/ (needed = HeaderSize /\ wire.ext > 0))
    /\ UNCHANGED <<phase, accepted, wire, count, needed, current, fragmented,
                   heap, closed, heard, sending>>

IsControl(op) == op \notin {"cont", "text", "binary"}

FirstFree == CHOOSE b \in Buffers : heap[b] = 0

\* Mutant: no room for the '\0'.
SizeShort(total) == total

\* The size of a payload buffer, with a '\0' at its end.
Size(total) == total + 1

\* The payload buffer of a frame whose length is known.  A continuation takes
\* the fragments so far over from recv.fragmented, whose opcode stays.
StartFrame(cur, len) ==
    LET from == IF cur.op = "cont" THEN fragmented ELSE cur
        old == IF cur.op = "cont" THEN cur.buf ELSE NULL
        b == IF len > 0 /\ from.buf = NULL THEN FirstFree ELSE from.buf
    IN  /\ current' = [cur EXCEPT !.buf = b, !.data = from.data,
                                  !.total = from.total + len]
        /\ heap' = [a \in Buffers |->
                       IF a = b /\ len > 0 THEN Size(from.total + len)
                       ELSE IF a = old THEN 0 ELSE heap[a]]
        /\ fragmented' = IF cur.op = "cont"
                         THEN [fragmented EXCEPT !.buf = NULL, !.data = << >>,
                                                 !.total = 0]
                         ELSE fragmented

\* A continuation of nothing, or a message within a message.
OutOfTurn(op) == ~IsControl(op) /\ (op = "cont") = (fragmented.op = "cont")

\* The header's first bytes: opcode, flags and the size of the length.
ParseLong ==
    /\ pc = "parse" /\ needed = HeaderSize /\ wire.ext > 0
    /\ current' = [current EXCEPT !.op = wire.op, !.fin = wire.fin]
    /\ MayClose(wire.bad \/ IsControl(wire.op))
    /\ needed' = needed + wire.ext
    /\ pc' = IF more THEN "header" ELSE "idle"
    /\ UNCHANGED <<phase, accepted, wire, count, more, done, fragmented, heap,
                   heard>>

ParseShort ==
    /\ pc = "parse" /\ needed = HeaderSize /\ wire.ext = 0
    /\ StartFrame([current EXCEPT !.op = wire.op, !.fin = wire.fin], wire.len)
    /\ MayClose(wire.bad \/ OutOfTurn(wire.op))
    /\ pc' = "fill"
    /\ UNCHANGED <<phase, accepted, wire, count, more, done, needed, heard>>

ParseLength ==
    /\ pc = "parse" /\ needed > HeaderSize
    /\ StartFrame(current, wire.len)
    /\ MayClose(OutOfTurn(current.op))
    /\ pc' = "fill"
    /\ UNCHANGED <<phase, accepted, wire, count, more, done, needed, heard>>

Left == current.total - Len(current.data)

\* The payload, as far as this read has it.
Fill ==
    /\ pc = "fill"
    /\ \/ /\ more /\ Left > 0
          /\ \E k \in 1 .. Left :
                 /\ current' = [current EXCEPT
                                  !.data = @ \o [i \in 1 .. k |-> count]]
                 /\ \/ k < Left /\ pc' = "idle" /\ more' = FALSE
                    \/ k = Left /\ pc' = "dispatch" /\ GoesOn(FALSE)
       \/ /\ ~more \/ Left = 0
          /\ pc' = IF Left > 0 THEN "idle" ELSE "dispatch"
          /\ UNCHANGED <<current, more>>
    /\ UNCHANGED <<phase, accepted, wire, count, done, needed, fragmented,
                   heap, closed, heard, sending>>

\* _cws_dispatch_validate
Valid == /\ closed => current.op = "close"
         /\ IsControl(current.op) => current.fin
         /\ current.op = "cont" => fragmented.op # "cont"

\* Mutant: the next frame is appended to this one.
EmptiedNot(cur) == cur

\* recv.current after the dispatch; its buffer is used again.
Emptied(cur) == [cur EXCEPT !.data = << >>, !.total = 0]

\* A message, from its last frame; the callback may send.
Deliver ==
    /\ current.fin /\ current.op \in {"cont", "text", "binary"}
    /\ LET op == IF current.op = "cont" THEN fragmented.op ELSE current.op IN
           Tell(IF op = "text" THEN "on_text" ELSE "on_binary", current.data)
    /\ fragmented' = IF current.op = "cont"
                     THEN [buf |-> NULL, data |-> << >>, total |-> 0,
                           op |-> "cont"]
                     ELSE fragmented
    /\ \E n \in 0 .. 1 :
           /\ n = 1 => heard' # heard /\ written < MaxTexts * UnitsPerFrame
           /\ Queue(n)
    /\ current' = Emptied(current)
    /\ UNCHANGED closed

\* Mutant: recv.current keeps the buffer it hands over.
KeepFragmentAlias ==
    /\ ~current.fin /\ current.op \in {"cont", "text", "binary"}
    /\ fragmented' =
          [buf |-> current.buf, data |-> current.data, total |-> current.total,
           op |-> IF current.op = "cont" THEN fragmented.op ELSE current.op]
    /\ current' = Emptied(current)
    /\ UNCHANGED <<closed, heard, sending>>

\* The buffer of a fragment that is not the last moves to recv.fragmented.
KeepFragment ==
    /\ ~current.fin /\ current.op \in {"cont", "text", "binary"}
    /\ fragmented' =
          [buf |-> current.buf, data |-> current.data, total |-> current.total,
           op |-> IF current.op = "cont" THEN fragmented.op ELSE current.op]
    /\ current' = [Emptied(current) EXCEPT !.buf = NULL, !.op = "cont",
                                            !.fin = FALSE]
    /\ UNCHANGED <<closed, heard, sending>>

OnClose ==
    /\ current.op = "close"
    /\ Tell("on_close", current.data)
    /\ QueueClose
    /\ current' = Emptied(current)
    /\ UNCHANGED fragmented

\* Without on_ping the pong is sent here.
OnPing ==
    /\ current.op = "ping"
    /\ IF "on_ping" \in Callbacks
       THEN Tell("on_ping", current.data) /\ UNCHANGED sending
       ELSE Tell("pong", current.data) /\ Queue(1)
    /\ current' = Emptied(current)
    /\ UNCHANGED <<fragmented, closed>>

OnPong ==
    /\ current.op = "pong"
    /\ Tell("on_pong", current.data)
    /\ current' = Emptied(current)
    /\ UNCHANGED <<fragmented, closed, sending>>

Unexpected ==
    /\ current.op = "reserved"
    /\ QueueClose
    /\ current' = Emptied(current)
    /\ UNCHANGED <<fragmented, heard>>

\* _cws_dispatch_validate refuses the frame: it closes unless it has closed.
Ignore ==
    /\ ~Valid
    /\ QueueClose
    /\ current' = Emptied(current)
    /\ UNCHANGED <<fragmented, heard>>

\* Mutant: the header of the next frame is taken for read.
ForgetsHeader == UNCHANGED <<done, needed>>

AwaitHeader == done' = 0 /\ needed' = HeaderSize

\* _cws_dispatch, what follows it, and the loop of _cws_receive_data.
Dispatch ==
    /\ pc = "dispatch"
    /\ \/ Ignore
       \/ /\ Valid
          /\ \/ Deliver \/ KeepFragment \/ OnClose \/ OnPing \/ OnPong
             \/ Unexpected
    /\ AwaitHeader
    /\ wire' = NoFrame
    /\ pc' = IF more THEN Entry(done', needed') ELSE "idle"
    /\ UNCHANGED <<phase, accepted, count, more, heap>>

-----------------------------------------------------------------------------
(* The end *)

\* Either side, the network or the timeout of 2 s that cws_close sets.
TransferEnds ==
    /\ phase \in {"opening", "open", "refused"} /\ pc = "idle"
    /\ phase' = "over"
    /\ UNCHANGED <<accepted, reading, closed, heard, sending>>

\* cws_free, outside of any dispatch.
Free ==
    /\ phase = "over" /\ pc = "idle"
    /\ phase' = "freed"
    /\ heap' = [b \in Buffers |->
                   IF b \in {current.buf, fragmented.buf} THEN 0 ELSE heap[b]]
    /\ UNCHANGED <<accepted, wire, count, pc, more, done, needed, current,
                   fragmented, closed, heard, sending>>

-----------------------------------------------------------------------------
(* The steps of a read *)
Reading == \/ \E f \in Frames : NextFrame(f)
           \/ ReadHeader \/ ParseLong \/ ParseShort \/ ParseLength
           \/ Fill \/ Dispatch

Next == \/ SendText \/ CloseByProgram \/ SendData
        \/ StatusLine \/ AcceptHeader \/ EndOfHeaders
        \/ Receive \/ Reading
        \/ TransferEnds \/ Free

Spec == Init /\ [][Next]_vars

\* The code of a read goes on, and curl takes what is there to be sent.
FairSpec == Spec /\ WF_vars(Reading) /\ WF_vars(SendData)

-----------------------------------------------------------------------------
(* Properties *)

\* The variables keep their types; in a read of a header, what is needed is
\* one of the three sizes a header has.
TypeOK ==
    /\ phase \in {"opening", "open", "refused", "over", "freed"}
    /\ accepted \in BOOLEAN
    /\ wire \in Frames \cup {NoFrame}
    /\ count \in 0 .. MaxFrames
    /\ pc \in {"idle", "header", "parse", "fill", "dispatch"}
    /\ more \in BOOLEAN
    /\ needed \in {2, 4, 10} /\ done \in 0 .. needed
    /\ current \in [buf : {NULL} \cup Buffers, data : Seq(1 .. MaxFrames),
                    total : Nat, fin : BOOLEAN,
                    op : {"cont", "text", "binary", "close", "ping", "pong",
                          "reserved"}]
    /\ fragmented \in [buf : {NULL} \cup Buffers, data : Seq(1 .. MaxFrames),
                       total : Nat, op : {"cont", "text", "binary"}]
    /\ heap \in [Buffers -> Nat]
    /\ closed \in BOOLEAN
    /\ buffer \in Seq(Nat) /\ written \in Nat /\ out \in Nat
    /\ pause_flags \in BOOLEAN /\ paused \in BOOLEAN

\* Whatever comes in whatever order, recv.current and recv.fragmented own all
\* payload buffers there are, and none twice: no leak, no double free.
BuffersOwned ==
    IF phase = "freed" THEN \A b \in Buffers : heap[b] = 0
    ELSE /\ {b \in Buffers : heap[b] > 0}
            = {current.buf, fragmented.buf} \ {NULL}
         /\ current.buf # NULL => current.buf # fragmented.buf

\* The payload and the '\0' behind it fit the buffer, with what was read of a
\* message before it was put aside and taken back.
FitsBuffer ==
    /\ Len(current.data) <= current.total
    /\ (phase # "freed" /\ current.buf # NULL) => current.total < heap[current.buf]
    /\ current.buf = NULL => current.total = 0
    /\ (phase # "freed" /\ fragmented.buf # NULL)
          => fragmented.total < heap[fragmented.buf]

\* What curl takes is what was written, in order, nothing twice or skipped,
\* however it cuts the frames up.
OutInOrder == buffer = [i \in 1 .. written - out |-> out + i]

\* A read is worked off: _cws_receive_data does not loop for ever.
ReadEnds == (pc # "idle") ~> (pc = "idle")

\* A frame that was queued reaches curl while the transfer lasts: pausing
\* and waking up do not miss each other.
WrittenIsSent ==
    (buffer # << >>) ~> (buffer = << >> \/ phase \notin {"opening", "open"})

\* The message being read, without the frame that is being read.
Unfinished ==
    IF closed \/ fragmented.op = "cont" THEN [op |-> "none", data |-> << >>]
    ELSE [op |-> fragmented.op,
          data |-> IF current.op = "cont" /\ done = needed /\ pc # "parse"
                   THEN SubSeq(current.data, 1, current.total - wire.len)
                   ELSE fragmented.data]

Stream == INSTANCE MessageStream WITH
    phase <- IF phase = "freed" THEN "over" ELSE phase,
    frame <- wire, message <- Unfinished

\* However the frames are cut into reads, the program is told what it would
\* be told if they came whole.
ImplementsMessageStream == Stream!Spec
=============================================================================
