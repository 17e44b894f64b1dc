------------------------------- MODULE Gateway -------------------------------
(***************************************************************************)
(* The gateway half of libconcord (concord-websockets.c).  The user's      *)
(* thread connects, disconnects and cleans up; concord_ws_connect creates  *)
(* a second thread that runs a libuv loop with one curl transfer, the      *)
(* WebSocket.  They share ws->status without a lock and ws->async, through *)
(* which the user's thread asks the loop to disconnect.                    *)
(*                                                                         *)
(* A callback of the loop is one action, because the user's thread can see *)
(* of it no more than one write of status; concord_ws_disconnect is one    *)
(* action per access of shared state.  libuv, curl and the server are      *)
(* external and do what the constants allow them to.  What follows an      *)
(* assertion, a crash or an access of freed memory is not modelled: fail   *)
(* names it and nothing happens any more.                                  *)
(***************************************************************************)
EXTENDS Integers, Sequences

CONSTANTS
    MaxConnects,     \* bound: successful calls of concord_ws_connect
    MaxSent,         \* bound: heartbeats and pongs stop at so many frames
    TimerCalls,      \* what curl does to its timer in an action
    MayFail,         \* may the handshake, the network or the server fail
    ServerMayClose,  \* may the server start the closing handshake
    Patient          \* does the user wait for a session before ending it

ASSUME GatewayAssumption ==
    /\ MaxConnects \in Nat
    /\ MaxSent \in Nat
    /\ TimerCalls \subseteq {"keep", "start", "stop"} /\ TimerCalls # {}
    /\ {MayFail, ServerMayClose, Patient} \subseteq BOOLEAN

VARIABLES
    main,        \* where the user's thread is
    after,       \* what its disconnect returns to: the user or destroy
    connects,    \* threads created so far
    status,      \* ws->status, shared
    thread,      \* ws->thread_id: the loop's thread
    async,       \* ws->async, shared
    pending,     \* uv_async_send called, its callback not run yet
    timeout,     \* ws->timeout: off, curl's, _uv_disconnect_cb's or closed
    heartbeat,   \* ws->heartbeat_timer: off, on or closed
    stopped,     \* uv_stop called in this uv_run
    transfer,    \* the easy handle in the multi handle
    closed,      \* cws_data.closed: a close frame was queued
    sent,        \* history: the frames queued for the server
    fail         \* what ended the program, or "no"; "timer" is the assertion
                 \* that follows uv_timer_start on a closed timer

user == <<main, after, connects>>
handles == <<async, pending, timeout, heartbeat>>
frames == <<closed, sent>>
vars == <<user, status, thread, handles, stopped, transfer, frames, fail>>

Status == {"DISCONNECTED", "DISCONNECTING", "CONNECTING", "CONNECTED"}

\* No transfer; added; on a socket before and after the upgrade; refused by
\* the server; closing handshake done by the server; ended with its message
\* unread; ended.
Transfer == {"none", "added", "connecting", "open", "refused", "closing",
             "unread", "over"}

Frame == {"identify", "heartbeat", "pong", "close"}

Init ==
    /\ main = "idle"
    /\ after = "user"
    /\ connects = 0
    /\ status = "DISCONNECTED"
    /\ thread = "none"
    /\ async = "none"
    /\ pending = FALSE
    /\ timeout = "off"
    /\ heartbeat = "off"
    /\ stopped = FALSE
    /\ transfer = "none"
    /\ closed = FALSE
    /\ sent = << >>
    /\ fail = "no"

-----------------------------------------------------------------------------
(* The user's thread *)

UserTurn(at) == fail = "no" /\ main = at

\* The loop's thread is still there.
Alive == thread \in {"start", "run"}

\* concord_ws_isrunning, and the test of concord_ws_connect and of destroy.
IsRunning == status \in {"CONNECTING", "CONNECTED"}

\* The user cannot see a session begin; a patient one leaves it enough time,
\* and does not end it twice.
Ready == Patient => heartbeat = "on"

\* A thread created while the last one still runs shares its loop.
Connect ==
    /\ UserTurn("idle")
    /\ connects < MaxConnects
    /\ ~IsRunning
    /\ status' = "CONNECTING"
    /\ connects' = connects + 1
    /\ \/ Alive /\ fail' = "shared loop" /\ UNCHANGED thread
       \/ ~Alive /\ thread' = "start" /\ UNCHANGED fail
    /\ UNCHANGED <<main, after, handles, stopped, transfer, frames>>

\* concord_ws_disconnect.  The mask it tests holds WS_DISCONNECTED, which is
\* 0: only DISCONNECTING returns early.
Disconnect ==
    /\ UserTurn("idle")
    /\ Ready
    /\ status # "DISCONNECTING"
    /\ main' = "mark"
    /\ after' = "user"
    /\ UNCHANGED <<connects, status, thread, handles, stopped, transfer,
                   frames, fail>>

Mark ==
    /\ UserTurn("mark")
    /\ status' = "DISCONNECTING"
    /\ main' = "wake"
    /\ UNCHANGED <<after, connects, thread, handles, stopped, transfer, frames,
                   fail>>

\* Mutant: the wake-up is taken for sent on a handle that is not there yet.
WakeBlindly ==
    /\ UserTurn("wake")
    /\ pending' = TRUE
    /\ main' = "join"
    /\ UNCHANGED <<after, connects, status, thread, async, timeout, heartbeat,
                   stopped, transfer, frames, fail>>

\* Mutant: the loop is joined without waking it.
WakeNobody ==
    /\ UserTurn("wake")
    /\ async # "none"
    /\ main' = "join"
    /\ UNCHANGED <<after, connects, status, thread, handles, stopped, transfer,
                   frames, fail>>

\* uv_async_send.  Before the thread has run uv_async_init the handle has no
\* loop; on a closed handle the call changes nothing.
Wake ==
    /\ UserTurn("wake")
    /\ \/ /\ async = "none"
          /\ fail' = "crash"
          /\ UNCHANGED <<main, pending>>
       \/ /\ async = "active"
          /\ pending' = TRUE
          /\ main' = "join"
          /\ UNCHANGED fail
       \/ /\ async = "closed"
          /\ main' = "join"
          /\ UNCHANGED <<pending, fail>>
    /\ UNCHANGED <<after, connects, status, thread, async, timeout, heartbeat,
                   stopped, transfer, frames>>

\* uv_thread_join waits for the thread to end; joining it again is undefined.
Join ==
    /\ UserTurn("join")
    /\ \/ /\ thread = "done"
          /\ thread' = "joined"
          /\ main' = "assert"
          /\ UNCHANGED fail
       \/ /\ thread = "joined"
          /\ \/ main' = "assert" /\ UNCHANGED fail
             \/ fail' = "crash" /\ UNCHANGED main
          /\ UNCHANGED thread
    /\ UNCHANGED <<after, connects, status, handles, stopped, transfer, frames>>

\* "Couldn't disconnect from gateway"
AssertDisconnected ==
    /\ UserTurn("assert")
    /\ \/ /\ status = "DISCONNECTED"
          /\ main' = IF after = "user" THEN "idle" ELSE "free"
          /\ UNCHANGED fail
       \/ /\ status # "DISCONNECTED"
          /\ fail' = "assert"
          /\ UNCHANGED main
    /\ UNCHANGED <<after, connects, status, thread, handles, stopped, transfer,
                   frames>>

\* concord_cleanup calls Concord_ws_destroy, which disconnects only while
\* status says so and, unlike concord_ws_disconnect, does not mark it.
Destroy ==
    /\ UserTurn("idle")
    /\ Ready \/ ~Alive
    /\ \/ IsRunning /\ main' = "wake" /\ after' = "destroy"
       \/ ~IsRunning /\ main' = "free" /\ UNCHANGED after
    /\ UNCHANGED <<connects, status, thread, handles, stopped, transfer, frames,
                   fail>>

\* The rest of destroy frees the loop and ws.
Free ==
    /\ UserTurn("free")
    /\ \/ Alive /\ fail' = "use after free" /\ UNCHANGED main
       \/ ~Alive /\ main' = "freed" /\ UNCHANGED fail
    /\ UNCHANGED <<after, connects, status, thread, handles, stopped, transfer,
                   frames>>

-----------------------------------------------------------------------------
(* The loop's thread *)

\* ws->context is there: curl has a socket for the transfer.
Context == transfer \in {"connecting", "open", "refused", "closing"}

\* The loop runs a callback.  A refused transfer ends in the same callback.
Callback == fail = "no" /\ thread = "run" /\ ~stopped /\ transfer # "refused"

\* Concord_ws_timeout_cb, which curl may call in any action; starting a timer
\* that was closed fails.  at is the timer as the action left it so far.
CurlTimer(at) ==
    \/ "keep" \in TimerCalls /\ timeout' = at /\ UNCHANGED fail
    \/ "stop" \in TimerCalls /\ UNCHANGED fail
       /\ timeout' = IF at = "closed" THEN "closed" ELSE "off"
    \/ "start" \in TimerCalls
       /\ \/ at # "closed" /\ timeout' = "curl" /\ UNCHANGED fail
          \/ at = "closed" /\ timeout' = at /\ fail' = "timer"

\* Mutant: the connection is not marked as closed.
CloseKeepsOpen == sent' = Append(sent, "close") /\ UNCHANGED closed

\* cws_close on a connection that is not closed.
Close == sent' = Append(sent, "close") /\ closed' = TRUE

\* _concord_ws_run up to uv_run: curl starts its timer when it is given the
\* handle.  An async handle still active in the loop must not be initialised.
ThreadStart ==
    /\ fail = "no"
    /\ thread = "start"
    /\ \/ /\ async = "active"
          /\ fail' = "undefined"
          /\ UNCHANGED <<thread, handles, stopped, transfer>>
       \/ /\ async # "active"
          /\ timeout = "closed"
          /\ fail' = "timer"
          /\ UNCHANGED <<thread, handles, stopped, transfer>>
       \/ /\ async # "active"
          /\ timeout # "closed"
          /\ thread' = "run"
          /\ async' = "active"
          /\ timeout' = "curl"
          /\ stopped' = FALSE
          /\ transfer' = "added"
          /\ UNCHANGED <<pending, heartbeat, fail>>
    /\ UNCHANGED <<user, status, frames>>

\* _uv_on_timeout_cb: curl connects, or does what was due; it may end the
\* transfer too, and then nobody reads the message.
OnTimeout ==
    /\ Callback
    /\ timeout = "curl"
    /\ transfer' \in {IF transfer = "added" THEN "connecting" ELSE transfer}
                     \cup (IF MayFail /\ transfer # "over" THEN {"unread"} ELSE {})
    /\ CurlTimer("off")
    /\ UNCHANGED <<user, status, thread, async, pending, heartbeat, stopped,
                   frames>>

\* Mutant: the heartbeat is started as soon as the socket is open.
UpgradeStartsHeartbeat ==
    /\ Callback
    /\ transfer = "connecting"
    /\ transfer' = "open"
    /\ status' = "CONNECTED"
    /\ heartbeat' = "on"
    /\ CurlTimer(timeout)
    /\ UNCHANGED <<user, thread, async, pending, stopped, frames>>

\* Concord_on_connect_cb
Upgrade ==
    /\ Callback
    /\ transfer = "connecting"
    /\ transfer' = "open"
    /\ status' = "CONNECTED"
    /\ CurlTimer(timeout)
    /\ UNCHANGED <<user, thread, async, pending, heartbeat, stopped, frames>>

\* The server does not accept the upgrade: Concord_on_close_cb.
Refuse ==
    /\ Callback
    /\ MayFail
    /\ transfer = "connecting"
    /\ transfer' = "refused"
    /\ status' = "DISCONNECTING"
    /\ UNCHANGED <<user, thread, handles, stopped, frames, fail>>

\* Concord_on_text_cb on HELLO: start the heartbeat, send the identify.  A
\* server that works says HELLO once.
Hello ==
    /\ Callback
    /\ MayFail \/ heartbeat = "off"
    /\ transfer = "open" /\ ~closed
    /\ Len(sent) < MaxSent
    /\ \/ /\ heartbeat # "closed"
          /\ heartbeat' = "on"
          /\ sent' = Append(sent, "identify")
          /\ CurlTimer(timeout)
       \/ /\ heartbeat = "closed"
          /\ fail' = "assert"
          /\ UNCHANGED <<timeout, heartbeat, sent>>
    /\ UNCHANGED <<user, status, thread, async, pending, stopped, transfer,
                   closed>>

\* Concord_on_text_cb on an opcode it has no case for.
UnknownOpcode ==
    /\ Callback
    /\ MayFail
    /\ transfer = "open" /\ ~closed
    /\ fail' = "assert"
    /\ UNCHANGED <<user, status, thread, handles, stopped, transfer, frames>>

\* A ping is answered as long as nothing was closed.
Ping ==
    /\ Callback
    /\ transfer = "open" /\ ~closed
    /\ Len(sent) < MaxSent
    /\ sent' = Append(sent, "pong")
    /\ CurlTimer(timeout)
    /\ UNCHANGED <<user, status, thread, async, pending, heartbeat, stopped,
                   transfer, closed>>

\* Mutant: the close frame is taken for the end of the connection.
ServerCloseDisconnects ==
    /\ Callback
    /\ ServerMayClose \/ closed
    /\ transfer = "open"
    /\ transfer' = "closing"
    /\ status' = "DISCONNECTED"
    /\ IF closed THEN UNCHANGED frames ELSE Close
    /\ CurlTimer(timeout)
    /\ UNCHANGED <<user, thread, async, pending, heartbeat, stopped>>

\* A close frame: Concord_on_close_cb, then the answer unless we closed first.
ServerClose ==
    /\ Callback
    /\ ServerMayClose \/ closed
    /\ transfer = "open"
    /\ transfer' = "closing"
    /\ status' = "DISCONNECTING"
    /\ IF closed THEN UNCHANGED frames ELSE Close
    /\ CurlTimer(timeout)
    /\ UNCHANGED <<user, thread, async, pending, heartbeat, stopped>>

\* The transfer ends in a socket event, and _uv_perform_cb reads its message.
End ==
    /\ fail = "no" /\ thread = "run" /\ ~stopped
    /\ \/ transfer \in {"refused", "closing"}
       \/ transfer \in {"connecting", "open"} /\ MayFail
    /\ transfer' = "over"
    /\ status' = "DISCONNECTED"
    /\ stopped' = TRUE
    /\ CurlTimer(timeout)
    /\ UNCHANGED <<user, thread, async, pending, heartbeat, frames>>

\* _uv_on_heartbeat_cb: it cannot send once closed, and goes on to perform on
\* the poll handle of ws->context.
Heartbeat ==
    /\ Callback
    /\ heartbeat = "on"
    /\ \/ /\ closed
          /\ fail' = "assert"
          /\ UNCHANGED <<sent, timeout>>
       \/ /\ ~closed /\ ~Context
          /\ fail' = "crash"
          /\ sent' = Append(sent, "heartbeat")
          /\ UNCHANGED timeout
       \/ /\ ~closed /\ Context
          /\ Len(sent) < MaxSent
          /\ sent' = Append(sent, "heartbeat")
          /\ CurlTimer(timeout)
    /\ UNCHANGED <<user, status, thread, async, pending, heartbeat, stopped,
                   transfer, closed>>

\* Mutant: the heartbeat timer is left running.
ForceCloseKeepsHeartbeat ==
    /\ fail = "no" /\ thread = "run" /\ transfer # "refused"
    /\ pending /\ async = "active"
    /\ timeout' = "disconnect"
    /\ async' = "closed"
    /\ pending' = FALSE
    /\ UNCHANGED <<user, status, thread, heartbeat, stopped, transfer, frames,
                   fail>>

\* _uv_on_force_close_cb takes over curl's timer.  The async event may be in
\* the batch of the event that stopped the loop.
ForceClose ==
    /\ fail = "no" /\ thread = "run" /\ transfer # "refused"
    /\ pending /\ async = "active"
    /\ timeout' = "disconnect"
    /\ async' = "closed"
    /\ heartbeat' = "closed"
    /\ pending' = FALSE
    /\ UNCHANGED <<user, status, thread, stopped, transfer, frames, fail>>

\* _uv_disconnect_cb: close gracefully, close the timer, then perform on the
\* poll handle of ws->context.
OnDisconnect ==
    /\ Callback
    /\ timeout = "disconnect"
    /\ \/ /\ closed
          /\ fail' = "assert"
          /\ UNCHANGED <<timeout, frames>>
       \/ /\ ~closed /\ ~Context
          /\ Close
          /\ timeout' = "closed"
          /\ fail' = "crash"
       \/ /\ ~closed /\ Context
          /\ Close
          /\ CurlTimer("closed")
    /\ UNCHANGED <<user, status, thread, async, pending, heartbeat, stopped,
                   transfer>>

\* uv_run returns when it was stopped or nothing is active, and the easy
\* handle is removed.
LoopReturns ==
    /\ fail = "no" /\ thread = "run"
    /\ \/ stopped
       \/ /\ async # "active" /\ heartbeat # "on" /\ ~Context
          /\ timeout \in {"off", "closed"}
    /\ thread' = "done"
    /\ transfer' = "none"
    /\ UNCHANGED <<user, status, handles, stopped, frames, fail>>

-----------------------------------------------------------------------------
UserNext == \/ Connect \/ Disconnect \/ Mark \/ Wake \/ Join
            \/ AssertDisconnected \/ Destroy \/ Free

LoopNext == \/ ThreadStart \/ OnTimeout \/ Upgrade \/ Refuse \/ Hello
            \/ UnknownOpcode \/ Ping \/ ServerClose \/ End \/ Heartbeat
            \/ ForceClose \/ OnDisconnect \/ LoopReturns

Next == UserNext \/ LoopNext

Spec == Init /\ [][Next]_vars

\* Both threads are scheduled, the loop gets to its timers, to the async event
\* and to its socket, and the server completes both handshakes.
Fairness ==
    /\ WF_vars(Mark \/ Wake \/ Join \/ AssertDisconnected \/ Free)
    /\ WF_vars(ThreadStart) /\ WF_vars(LoopReturns)
    /\ SF_vars(OnTimeout) /\ SF_vars(ForceClose) /\ SF_vars(OnDisconnect)
    /\ SF_vars(Upgrade) /\ SF_vars(ServerClose) /\ SF_vars(End)

FairSpec == Spec /\ Fairness

-----------------------------------------------------------------------------
(* Properties *)

UserTypeOK ==
    /\ main \in {"idle", "mark", "wake", "join", "assert", "free", "freed"}
    /\ after \in {"user", "destroy"}
    /\ connects \in 0 .. MaxConnects
    /\ status \in Status

HandlesTypeOK ==
    /\ async \in {"none", "active", "closed"}
    /\ pending \in BOOLEAN /\ (pending => async = "active")
    /\ timeout \in {"off", "curl", "disconnect", "closed"}
    /\ heartbeat \in {"off", "on", "closed"}

LoopTypeOK ==
    /\ thread \in {"none", "start", "run", "done", "joined"}
    /\ stopped \in BOOLEAN
    /\ transfer \in Transfer
    /\ closed \in BOOLEAN
    /\ sent \in Seq(Frame)
    /\ fail \in {"no", "assert", "timer", "crash", "undefined", "shared loop",
                 "use after free"}

\* The variables keep their types, and a wake-up is only ever pending on an
\* initialised async handle.
TypeOK == UserTypeOK /\ HandlesTypeOK /\ LoopTypeOK

\* Whoever starts to close, and whatever timers and frames are on their way,
\* one close frame is queued at most and nothing is queued after it.
CloseIsLast ==
    \A i \in 1 .. Len(sent) : sent[i] = "close" => i = Len(sent)

\* No heartbeat is queued before the first identify, although the timer that
\* sends it is started first.  (Of later sessions this says nothing: the timer
\* outlives a lost connection.)
IdentifyFirst ==
    \A i \in 1 .. Len(sent) :
        sent[i] = "heartbeat" => \E j \in 1 .. i - 1 : sent[j] = "identify"

\* status is written by both threads without a lock; still, DISCONNECTED is
\* never read while a transfer is under way.
DisconnectedIsTrue ==
    status = "DISCONNECTED" => transfer \in {"none", "over"}

\* When server and network keep every session up and the user waits for it,
\* the two threads, the timers and the frames on their way bring the program
\* down in one way only: curl or the next session starts the timer that
\* _uv_disconnect_cb closed.  So never before this side sent its close frame.
FailsOnlyByClosedTimer == fail # "no" => fail = "timer" /\ closed

\* _uv_disconnect_cb is lost: after _uv_on_force_close_cb took curl's timer,
\* curl took it back.
TimerTaken == async = "closed" /\ timeout \in {"off", "curl"}

\* The blocking call of such a user comes back, unless its timer is taken away
\* or found closed.
DisconnectReturns ==
    (main = "join") ~> (main \in {"idle", "freed"} \/ TimerTaken
                       \/ fail = "timer")

\* test-ws.c cleans up as soon as concord_ws_isrunning returns false, as if
\* the loop's thread had ended by then.
CleanupIsSafe == fail # "use after free"
=============================================================================
