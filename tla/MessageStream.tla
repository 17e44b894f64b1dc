---------------------------- MODULE MessageStream ----------------------------
(***************************************************************************)
(* What curl-websocket promises of the frames a server sends: they are     *)
(* handled one by one, whole and in order, however the network cuts them   *)
(* up.  A message is delivered with its last fragment, control frames      *)
(* between fragments do not disturb it, a ping is answered with its own    *)
(* bytes, and once either side has closed only close frames are reported.  *)
(*                                                                         *)
(* A byte of payload is the number of the frame that carried it.           *)
(***************************************************************************)
EXTENDS Integers, Sequences

CONSTANTS
    Frames,      \* what a server may send: records [op, fin, len, ext, bad]
    MaxFrames,   \* bound: frames of a session
    Callbacks    \* the callbacks that are set, of on_text, on_binary, ...

NoFrame == [op |-> "none", fin |-> TRUE, len |-> 0, ext |-> 0, bad |-> FALSE]
NoMessage == [op |-> "none", data |-> << >>]
Control == {"close", "ping", "pong"}
Data == {"text", "binary"}

VARIABLES
    phase,    \* the connection: opening, open, refused or over
    frame,    \* the frame that was sent and is not handled
    count,    \* how many were sent
    message,  \* the fragments of an unfinished message
    closed,   \* this side has closed
    heard     \* the last thing that the program or the server was told

vars == <<phase, frame, count, message, closed, heard>>

Init ==
    /\ phase = "opening"
    /\ frame = NoFrame
    /\ count = 0
    /\ message = NoMessage
    /\ closed = FALSE
    /\ heard = [what |-> "nothing", data |-> << >>, frame |-> 0]

\* What is told of a frame.  Pings are answered unless the program does it.
Tell(callback, data) ==
    heard' = IF callback \in Callbacks \cup {"pong"}
             THEN [what |-> callback, data |-> data, frame |-> count]
             ELSE heard

Accept ==
    /\ phase = "opening"
    /\ phase' = "open"
    /\ Tell("on_connect", << >>)
    /\ UNCHANGED <<frame, count, message, closed>>

Refuse ==
    /\ phase = "opening"
    /\ phase' = "refused"
    /\ Tell("on_close", << >>)
    /\ UNCHANGED <<frame, count, message, closed>>

Send(f) ==
    /\ phase = "open"
    /\ frame = NoFrame
    /\ count < MaxFrames
    /\ frame' = f
    /\ count' = count + 1
    /\ UNCHANGED <<phase, message, closed, heard>>

\* The frame breaks the protocol: forbidden bits or opcode, a long or cut
\* control frame, a continuation of nothing, a message within a message.
Breaks(f, m) ==
    \/ f.bad
    \/ f.op = "reserved"
    \/ f.op \in Control /\ (f.ext > 0 \/ ~f.fin)
    \/ f.op = "cont" /\ m.op = "none"
    \/ f.op \in Data /\ m.op # "none"

\* This side closes: the program does, or it sees the server break the rules.
\* A message begun before is lost.
Close ==
    /\ closed' = TRUE
    /\ message' = NoMessage
    /\ UNCHANGED <<phase, frame, count, heard>>

Payload == [i \in 1 .. frame.len |-> count]

\* A data frame or a continuation that does not end its message.
Fragment ==
    /\ ~frame.fin
    /\ frame.op \in Data \cup {"cont"}
    /\ message' = [op |-> IF frame.op = "cont" THEN message.op ELSE frame.op,
                   data |-> message.data \o Payload]
    /\ UNCHANGED <<closed, heard>>

Deliver ==
    /\ frame.fin
    /\ frame.op \in Data \cup {"cont"}
    /\ LET op == IF frame.op = "cont" THEN message.op ELSE frame.op IN
           Tell(IF op = "text" THEN "on_text" ELSE "on_binary",
                message.data \o Payload)
    /\ message' = NoMessage
    /\ UNCHANGED closed

Ping ==
    /\ frame.op = "ping"
    /\ Tell(IF "on_ping" \in Callbacks THEN "on_ping" ELSE "pong", Payload)
    /\ UNCHANGED <<message, closed>>

Pong ==
    /\ frame.op = "pong"
    /\ Tell("on_pong", Payload)
    /\ UNCHANGED <<message, closed>>

\* A close frame is reported even after this side closed, unless it was cut.
ReportClose ==
    /\ frame.op = "close" /\ frame.fin
    /\ Tell("on_close", Payload)
    /\ closed' = TRUE
    /\ message' = NoMessage

Drop ==
    /\ frame.op # "close" \/ ~frame.fin
    /\ closed \/ Breaks(frame, message)
    /\ closed' = TRUE
    /\ message' = NoMessage
    /\ UNCHANGED heard

Handle ==
    /\ phase = "open"
    /\ frame # NoFrame
    /\ frame' = NoFrame
    /\ \/ /\ ~closed /\ ~Breaks(frame, message)
          /\ Fragment \/ Deliver \/ Ping \/ Pong
       \/ ReportClose
       \/ Drop
    /\ UNCHANGED <<phase, count>>

End ==
    /\ phase' = "over"
    /\ UNCHANGED <<frame, count, message, closed, heard>>

Next == \/ Accept \/ Refuse \/ Close \/ Handle \/ End
        \/ \E f \in Frames : Send(f)

Spec == Init /\ [][Next]_vars
=============================================================================
