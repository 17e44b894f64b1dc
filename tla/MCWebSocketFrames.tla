-------------------------- MODULE MCWebSocketFrames --------------------------
(* WebSocketFrames for TLC: the frames a server sends. *)
EXTENDS WebSocketFrames

Plain(op, fin, len) ==
    [op |-> op, fin |-> fin, len |-> len, ext |-> 0, bad |-> FALSE]

\* Messages in one or more frames, with lengths of every form, and control
\* frames; then what the protocol forbids: a cut or a long control frame, a
\* reserved opcode, a mask.
SomeFrames ==
    {Plain("text", TRUE, 0), Plain("text", TRUE, 2), Plain("text", FALSE, 0),
     Plain("text", FALSE, 1), Plain("binary", TRUE, 1), Plain("cont", TRUE, 0),
     Plain("cont", TRUE, 1), Plain("cont", FALSE, 1),
     [Plain("text", FALSE, 1) EXCEPT !.ext = 2],
     [Plain("cont", TRUE, 1) EXCEPT !.ext = 8],
     Plain("ping", TRUE, 1), Plain("pong", TRUE, 0), Plain("close", TRUE, 1),
     Plain("ping", FALSE, 0), [Plain("close", TRUE, 0) EXCEPT !.ext = 2],
     Plain("reserved", TRUE, 0), [Plain("text", TRUE, 0) EXCEPT !.bad = TRUE]}

\* Concord_ws_easy_init: no on_binary, on_ping and on_pong.
ConcordCallbacks == {"on_connect", "on_text", "on_close"}
=============================================================================
