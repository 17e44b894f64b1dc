---------------------------- MODULE GatewayProofs ----------------------------
(***************************************************************************)
(* The safety of Gateway for any number of sessions and frames, any use    *)
(* curl makes of its timer, and any server.                                *)
(***************************************************************************)
EXTENDS Gateway, TLAPS

-----------------------------------------------------------------------------
(* Types *)

\* The callbacks of the loop write status, and nothing else of these.
LEMMA UserTypeStep == UserTypeOK /\ [Next]_vars => UserTypeOK'
<1> SUFFICES ASSUME UserTypeOK, [Next]_vars PROVE UserTypeOK'
  OBVIOUS
<1>0. MaxConnects \in Nat
  BY GatewayAssumption DEF GatewayAssumption
<1> USE DEF UserTypeOK, Status, user
<1>1. CASE UserNext
  <2>1. CASE Connect
    <3>1. connects' \in 0 .. MaxConnects
      <4>1. connects \in 0 .. MaxConnects /\ connects < MaxConnects
            /\ connects' = connects + 1
        BY <2>1 DEF Connect
      <4>2. QED
        BY <1>0, <4>1
    <3>2. QED
      BY <3>1, <2>1 DEF Connect, UserTurn
  <2>2. CASE Disconnect
    BY <1>0, <2>2 DEF Disconnect, UserTurn
  <2>3. CASE Mark
    BY <1>0, <2>3 DEF Mark, UserTurn
  <2>4. CASE Wake
    BY <1>0, <2>4 DEF Wake, UserTurn
  <2>5. CASE Join
    BY <1>0, <2>5 DEF Join, UserTurn
  <2>6. CASE AssertDisconnected
    BY <1>0, <2>6 DEF AssertDisconnected, UserTurn
  <2>7. CASE Destroy
    BY <1>0, <2>7 DEF Destroy, UserTurn
  <2>8. CASE Free
    BY <1>0, <2>8 DEF Free, UserTurn, Alive
  <2>9. QED
    BY <1>1, <2>1, <2>2, <2>3, <2>4, <2>5, <2>6, <2>7, <2>8 DEF UserNext
<1>2. CASE LoopNext
  BY <1>2 DEF LoopNext, ThreadStart, OnTimeout, Upgrade, Refuse, Hello,
     UnknownOpcode, Ping, ServerClose, End, Heartbeat, ForceClose,
     OnDisconnect, LoopReturns
<1>3. CASE UNCHANGED vars
  BY <1>3 DEF vars
<1>4. QED
  BY <1>1, <1>2, <1>3 DEF Next

\* Of the user's operations only uv_async_send touches a handle.
LEMMA HandlesTypeStep == HandlesTypeOK /\ [Next]_vars => HandlesTypeOK'
<1> SUFFICES ASSUME HandlesTypeOK, [Next]_vars PROVE HandlesTypeOK'
  OBVIOUS
<1> USE DEF HandlesTypeOK, handles
<1>1. CASE UserNext
  <2>1. CASE Connect
    BY <2>1 DEF Connect, UserTurn, IsRunning, Alive
  <2>2. CASE Disconnect
    BY <2>2 DEF Disconnect, UserTurn
  <2>3. CASE Mark
    BY <2>3 DEF Mark, UserTurn
  <2>4. CASE Wake
    <3>1. CASE async = "active"
      BY <2>4, <3>1 DEF Wake
    <3>2. CASE async # "active"
      BY <2>4, <3>2 DEF Wake
    <3>3. QED
      BY <3>1, <3>2
  <2>5. CASE Join
    BY <2>5 DEF Join, UserTurn
  <2>6. CASE AssertDisconnected
    BY <2>6 DEF AssertDisconnected, UserTurn
  <2>7. CASE Destroy
    BY <2>7 DEF Destroy, UserTurn
  <2>8. CASE Free
    BY <2>8 DEF Free, UserTurn, Alive
  <2>9. QED
    BY <1>1, <2>1, <2>2, <2>3, <2>4, <2>5, <2>6, <2>7, <2>8 DEF UserNext
<1>2. CASE LoopNext
  <2>1. CASE ThreadStart
    BY <2>1 DEF ThreadStart
  <2>2. CASE OnTimeout
    BY <2>2 DEF OnTimeout, Callback, CurlTimer
  <2>3. CASE Upgrade
    BY <2>3 DEF Upgrade, Callback, CurlTimer
  <2>4. CASE Refuse
    BY <2>4 DEF Refuse, Callback
  <2>5. CASE Hello
    BY <2>5 DEF Hello, Callback, CurlTimer
  <2>6. CASE UnknownOpcode
    BY <2>6 DEF UnknownOpcode, Callback
  <2>7. CASE Ping
    BY <2>7 DEF Ping, Callback, CurlTimer
  <2>8. CASE ServerClose
    BY <2>8 DEF ServerClose, Callback, CurlTimer, Close
  <2>9. CASE End
    BY <2>9 DEF End, CurlTimer
  <2>10. CASE Heartbeat
    BY <2>10 DEF Heartbeat, Callback, CurlTimer
  <2>11. CASE ForceClose
    BY <2>11 DEF ForceClose
  <2>12. CASE OnDisconnect
    BY <2>12 DEF OnDisconnect, Callback, CurlTimer, Close
  <2>13. CASE LoopReturns
    BY <2>13 DEF LoopReturns
  <2>14. QED
    BY <1>2, <2>1, <2>2, <2>3, <2>4, <2>5, <2>6, <2>7, <2>8, <2>9, <2>10,
       <2>11, <2>12, <2>13 DEF LoopNext
<1>3. CASE UNCHANGED vars
  BY <1>3 DEF vars
<1>4. QED
  BY <1>1, <1>2, <1>3 DEF Next

\* One more frame.
LEMMA AppendFrame ==
    ASSUME NEW s \in Seq(Frame), NEW f \in Frame
    PROVE  Append(s, f) \in Seq(Frame)
OBVIOUS

\* The names of the frames the program queues.
LEMMA FrameNames ==
    "identify" \in Frame /\ "heartbeat" \in Frame /\ "pong" \in Frame
    /\ "close" \in Frame
BY DEF Frame

\* The user creates and joins the thread, and can bring the program to fail.
LEMMA LoopTypeStep == LoopTypeOK /\ [Next]_vars => LoopTypeOK'
<1> SUFFICES ASSUME LoopTypeOK, [Next]_vars PROVE LoopTypeOK'
  OBVIOUS
<1> USE DEF LoopTypeOK, Transfer, frames
<1>1. CASE UserNext
  BY <1>1 DEF UserNext, Connect, Disconnect, Mark, Wake, Join,
     AssertDisconnected, Destroy, Free
<1>2. CASE LoopNext
  <2>1. CASE ThreadStart
    BY AppendFrame, FrameNames, <2>1 DEF ThreadStart
  <2>2. CASE OnTimeout
    BY AppendFrame, FrameNames, <2>2 DEF OnTimeout, Callback, CurlTimer
  <2>3. CASE Upgrade
    BY AppendFrame, FrameNames, <2>3 DEF Upgrade, Callback, CurlTimer
  <2>4. CASE Refuse
    BY AppendFrame, FrameNames, <2>4 DEF Refuse, Callback
  <2>5. CASE Hello
    BY AppendFrame, FrameNames, <2>5 DEF Hello, Callback, CurlTimer
  <2>6. CASE UnknownOpcode
    BY AppendFrame, FrameNames, <2>6 DEF UnknownOpcode, Callback
  <2>7. CASE Ping
    BY AppendFrame, FrameNames, <2>7 DEF Ping, Callback, CurlTimer
  <2>8. CASE ServerClose
    BY AppendFrame, FrameNames, <2>8 DEF ServerClose, Callback, CurlTimer,
       Close
  <2>9. CASE End
    BY AppendFrame, FrameNames, <2>9 DEF End, CurlTimer
  <2>10. CASE Heartbeat
    BY AppendFrame, FrameNames, <2>10 DEF Heartbeat, Callback, CurlTimer
  <2>11. CASE ForceClose
    BY AppendFrame, FrameNames, <2>11 DEF ForceClose
  <2>12. CASE OnDisconnect
    BY AppendFrame, FrameNames, <2>12 DEF OnDisconnect, Callback, CurlTimer,
       Close
  <2>13. CASE LoopReturns
    BY AppendFrame, FrameNames, <2>13 DEF LoopReturns
  <2>14. QED
    BY <1>2, <2>1, <2>2, <2>3, <2>4, <2>5, <2>6, <2>7, <2>8, <2>9, <2>10,
       <2>11, <2>12, <2>13 DEF LoopNext
<1>3. CASE UNCHANGED vars
  BY <1>3 DEF vars
<1>4. QED
  BY <1>1, <1>2, <1>3 DEF Next

\* The variables keep their types, and a wake-up is only ever pending on an
\* async handle that _concord_ws_run has initialised.
THEOREM TypeCorrect == Spec => []TypeOK
<1>1. Init => TypeOK
  <2> SUFFICES ASSUME Init PROVE TypeOK
    OBVIOUS
  <2>1. UserTypeOK
    BY GatewayAssumption DEF GatewayAssumption, Init, UserTypeOK, Status
  <2>2. HandlesTypeOK
    BY DEF Init, HandlesTypeOK
  <2>3. LoopTypeOK
    <3>1. sent \in Seq(Frame)
      BY DEF Init
    <3>2. QED
      BY <3>1 DEF Init, LoopTypeOK, Transfer
  <2>4. QED
    BY <2>1, <2>2, <2>3 DEF TypeOK
<1>2. TypeOK /\ [Next]_vars => TypeOK'
  BY UserTypeStep, HandlesTypeStep, LoopTypeStep DEF TypeOK
<1>3. QED
  BY <1>1, <1>2, PTL DEF Spec

-----------------------------------------------------------------------------
(* Status *)

\* Why DISCONNECTED can be believed: a new thread only starts once status is
\* CONNECTING, and the loop gives its transfer up in one callback.
StatusInv ==
    /\ DisconnectedIsTrue
    /\ thread = "start" => status # "DISCONNECTED"
    /\ thread = "run" => transfer # "none"

\* Every step of either thread keeps StatusInv.
LEMMA StatusStep == StatusInv /\ [Next]_vars => StatusInv'
<1> SUFFICES ASSUME StatusInv, [Next]_vars PROVE StatusInv'
  OBVIOUS
<1> USE DEF StatusInv, DisconnectedIsTrue
<1>1. CASE UserNext
  <2>1. CASE Connect
    BY <2>1 DEF Connect, UserTurn, IsRunning, Alive
  <2>2. CASE Disconnect
    BY <2>2 DEF Disconnect, UserTurn
  <2>3. CASE Mark
    BY <2>3 DEF Mark, UserTurn
  <2>4. CASE Wake
    BY <2>4 DEF Wake, UserTurn
  <2>5. CASE Join
    BY <2>5 DEF Join, UserTurn
  <2>6. CASE AssertDisconnected
    BY <2>6 DEF AssertDisconnected, UserTurn
  <2>7. CASE Destroy
    BY <2>7 DEF Destroy, UserTurn
  <2>8. CASE Free
    BY <2>8 DEF Free, UserTurn, Alive
  <2>9. QED
    BY <1>1, <2>1, <2>2, <2>3, <2>4, <2>5, <2>6, <2>7, <2>8 DEF UserNext
<1>2. CASE LoopNext
  <2>1. CASE ThreadStart
    BY <2>1 DEF ThreadStart
  <2>2. CASE OnTimeout
    BY <2>2 DEF OnTimeout, Callback
  <2>3. CASE Upgrade
    BY <2>3 DEF Upgrade, Callback
  <2>4. CASE Refuse
    BY <2>4 DEF Refuse, Callback
  <2>5. CASE Hello
    BY <2>5 DEF Hello, Callback
  <2>6. CASE UnknownOpcode
    BY <2>6 DEF UnknownOpcode, Callback
  <2>7. CASE Ping
    BY <2>7 DEF Ping, Callback
  <2>8. CASE ServerClose
    BY <2>8 DEF ServerClose, Callback
  <2>9. CASE End
    BY <2>9 DEF End
  <2>10. CASE Heartbeat
    BY <2>10 DEF Heartbeat, Callback
  <2>11. CASE ForceClose
    BY <2>11 DEF ForceClose
  <2>12. CASE OnDisconnect
    BY <2>12 DEF OnDisconnect, Callback
  <2>13. CASE LoopReturns
    BY <2>13 DEF LoopReturns
  <2>14. QED
    BY <1>2, <2>1, <2>2, <2>3, <2>4, <2>5, <2>6, <2>7, <2>8, <2>9, <2>10,
       <2>11, <2>12, <2>13 DEF LoopNext
<1>3. CASE UNCHANGED vars
  BY <1>3 DEF vars
<1>4. QED
  BY <1>1, <1>2, <1>3 DEF Next

\* DISCONNECTED is only read when no transfer is under way, although both
\* threads write status without a lock.
THEOREM StatusCorrect == Spec => []DisconnectedIsTrue
<1>1. Init => StatusInv
  BY DEF Init, StatusInv, DisconnectedIsTrue
<1>2. StatusInv => DisconnectedIsTrue
  BY DEF StatusInv
<1>3. QED
  BY <1>1, <1>2, StatusStep, PTL DEF Spec

-----------------------------------------------------------------------------
(* Frames *)

\* Once a close frame is queued, closed keeps every later send from queueing;
\* the heartbeat timer is on only after HELLO, which also sends the identify.
FramesInv ==
    /\ \A i \in 1 .. Len(sent) : sent[i] = "close" => closed /\ i = Len(sent)
    /\ heartbeat = "on" => \E i \in 1 .. Len(sent) : sent[i] = "identify"
    /\ IdentifyFirst

\* What FramesInv needs of a queued frame.
LEMMA Queued ==
    ASSUME LoopTypeOK, FramesInv, NEW f \in Frame, sent' = Append(sent, f),
           ~closed, f = "close" => closed',
           heartbeat' = "on" => heartbeat = "on" \/ f = "identify",
           f = "heartbeat" => heartbeat = "on"
    PROVE  FramesInv'
<1>1. sent \in Seq(Frame)
  BY DEF LoopTypeOK
<1>2. /\ Len(sent) \in Nat /\ Len(sent') = Len(sent) + 1
      /\ \A i \in 1 .. Len(sent) : sent'[i] = sent[i]
      /\ sent'[Len(sent) + 1] = f
  BY <1>1
<1>3. \A i \in 1 .. Len(sent') :
        i = Len(sent') \/ (i \in 1 .. Len(sent) /\ sent'[i] = sent[i])
  <2> SUFFICES ASSUME NEW i \in 1 .. Len(sent')
               PROVE  i = Len(sent')
                      \/ (i \in 1 .. Len(sent) /\ sent'[i] = sent[i])
    OBVIOUS
  <2>1. i = Len(sent') \/ i \in 1 .. Len(sent)
    BY <1>2
  <2>2. ASSUME i \in 1 .. Len(sent) PROVE sent'[i] = sent[i]
    BY <1>2, <2>2
  <2>3. QED
    BY <2>1, <2>2
<1>4. \A i \in 1 .. Len(sent) : sent[i] # "close"
  BY DEF FramesInv
<1>5. \A i \in 1 .. Len(sent') :
        sent'[i] = "close" => closed' /\ i = Len(sent')
  BY <1>2, <1>3, <1>4
<1>6. heartbeat = "on" => \E i \in 1 .. Len(sent) : sent'[i] = "identify"
  BY <1>2 DEF FramesInv
<1>7. heartbeat' = "on" => \E i \in 1 .. Len(sent') : sent'[i] = "identify"
  BY <1>2, <1>6
<1>8. IdentifyFirst'
  <2> SUFFICES ASSUME NEW i \in 1 .. Len(sent'), sent'[i] = "heartbeat"
               PROVE  \E j \in 1 .. i - 1 : sent'[j] = "identify"
    BY DEF IdentifyFirst
  <2>1. CASE i = Len(sent')
    BY <1>2, <1>6, <2>1
  <2>2. CASE i # Len(sent')
    <3>1. PICK j \in 1 .. i - 1 : sent[j] = "identify"
      BY <1>3, <2>2 DEF FramesInv, IdentifyFirst
    <3>2. j \in 1 .. Len(sent)
      BY <1>2, <1>3, <2>2
    <3>3. QED
      BY <1>2, <3>1, <3>2
  <2>3. QED
    BY <2>1, <2>2
<1>9. QED
  BY <1>5, <1>7, <1>8 DEF FramesInv

\* A step that queues nothing and starts no heartbeat.
LEMMA NothingQueued ==
    ASSUME FramesInv, sent' = sent, closed' = closed,
           heartbeat' = "on" => heartbeat = "on"
    PROVE  FramesInv'
BY DEF FramesInv, IdentifyFirst

\* Every step of either thread keeps FramesInv,
LEMMA FramesStep == LoopTypeOK /\ FramesInv /\ [Next]_vars => FramesInv'
<1> SUFFICES ASSUME LoopTypeOK, FramesInv, [Next]_vars PROVE FramesInv'
  OBVIOUS
<1> USE FrameNames
<1>1. CASE Hello
  <2>1. CASE heartbeat # "closed"
    <3>1. sent' = Append(sent, "identify") /\ ~closed
      BY <1>1, <2>1 DEF Hello
    <3>2. QED
      BY <3>1, Queued
  <2>2. CASE heartbeat = "closed"
    BY <1>1, <2>2, NothingQueued DEF Hello
  <2>3. QED
    BY <2>1, <2>2
<1>2. CASE Ping
  <2>1. sent' = Append(sent, "pong") /\ ~closed /\ heartbeat' = heartbeat
    BY <1>2 DEF Ping
  <2>2. QED
    BY <2>1, Queued
<1>3. CASE ServerClose
  <2>1. heartbeat' = heartbeat
    BY <1>3 DEF ServerClose
  <2>2. CASE closed
    <3>1. sent' = sent /\ closed' = closed
      BY <1>3, <2>2 DEF ServerClose, frames
    <3>2. QED
      BY <2>1, <3>1, NothingQueued
  <2>3. CASE ~closed
    <3>1. sent' = Append(sent, "close") /\ closed'
      BY <1>3, <2>3 DEF ServerClose, Close
    <3>2. QED
      BY <2>1, <2>3, <3>1, Queued
  <2>4. QED
    BY <2>2, <2>3
<1>4. CASE Heartbeat
  <2>1. heartbeat = "on" /\ heartbeat' = heartbeat /\ closed' = closed
    BY <1>4 DEF Heartbeat
  <2>2. CASE closed
    <3>1. sent' = sent
      BY <1>4, <2>2 DEF Heartbeat
    <3>2. QED
      BY <2>1, <3>1, NothingQueued
  <2>3. CASE ~closed
    <3>1. sent' = Append(sent, "heartbeat")
      BY <1>4, <2>3 DEF Heartbeat
    <3>2. QED
      BY <2>1, <2>3, <3>1, Queued
  <2>4. QED
    BY <2>2, <2>3
<1>5. CASE OnDisconnect
  <2>1. heartbeat' = heartbeat
    BY <1>5 DEF OnDisconnect
  <2>2. CASE closed
    <3>1. sent' = sent /\ closed' = closed
      BY <1>5, <2>2 DEF OnDisconnect, frames
    <3>2. QED
      BY <2>1, <3>1, NothingQueued
  <2>3. CASE ~closed
    <3>1. sent' = Append(sent, "close") /\ closed'
      BY <1>5, <2>3 DEF OnDisconnect, Close
    <3>2. QED
      BY <2>1, <2>3, <3>1, Queued
  <2>4. QED
    BY <2>2, <2>3
<1>6. CASE UserNext
  BY <1>6, NothingQueued DEF UserNext, Connect, Disconnect, Mark, Wake, Join,
     AssertDisconnected, Destroy, Free, handles, frames
<1>7. CASE ThreadStart
  BY <1>7, NothingQueued DEF ThreadStart, handles, frames
<1>8. CASE OnTimeout \/ Upgrade \/ End
  BY <1>8, NothingQueued DEF OnTimeout, Upgrade, End, frames
<1>9. CASE Refuse \/ UnknownOpcode \/ LoopReturns
  BY <1>9, NothingQueued DEF Refuse, UnknownOpcode, LoopReturns, handles,
     frames
<1>10. CASE ForceClose
  BY <1>10, NothingQueued DEF ForceClose, frames
<1>11. CASE UNCHANGED vars
  BY <1>11, NothingQueued DEF vars, handles, frames
<1>12. QED
  BY <1>1, <1>2, <1>3, <1>4, <1>5, <1>6, <1>7, <1>8, <1>9, <1>10, <1>11
     DEF Next, LoopNext

\* which therefore holds in every state.
LEMMA FramesInvariant == Spec => []FramesInv
<1>1. Init => FramesInv
  BY DEF Init, FramesInv, IdentifyFirst
<1>2. TypeOK => LoopTypeOK
  BY DEF TypeOK
<1>3. QED
  BY <1>1, <1>2, FramesStep, TypeCorrect, PTL DEF Spec

\* In whatever order the user, the server and the timers close and send, at
\* most one close frame is queued and nothing after it.
THEOREM CloseIsLastCorrect == Spec => []CloseIsLast
<1>1. FramesInv => CloseIsLast
  BY DEF FramesInv, CloseIsLast
<1>2. QED
  BY <1>1, FramesInvariant, PTL

\* No heartbeat is queued before the first identify.
THEOREM IdentifyFirstCorrect == Spec => []IdentifyFirst
<1>1. FramesInv => IdentifyFirst
  BY DEF FramesInv
<1>2. QED
  BY <1>1, FramesInvariant, PTL

-----------------------------------------------------------------------------
(* How a program fails whose network, server and user behave.  The stages   *)
(* are those of the loop's thread and of its timers; each names what both   *)
(* threads have done so far.                                                *)

\* The server and the network keep every session up, and the user waits before
\* it ends one.  Of curl and its timer nothing is assumed.
Calm == ~MayFail /\ ~ServerMayClose /\ Patient

NotConnected ==
    /\ thread = "none" /\ status = "DISCONNECTED"
    /\ main \in {"idle", "free", "freed"}
    /\ async = "none" /\ timeout = "off" /\ heartbeat = "off"
    /\ transfer = "none" /\ ~closed

\* A later session starts with the handles that the last one closed.
Starting ==
    /\ thread = "start" /\ status = "CONNECTING" /\ main = "idle"
    /\ transfer = "none"
    /\ \/ async = "none" /\ timeout = "off" /\ heartbeat = "off" /\ ~closed
       \/ async = "closed" /\ timeout = "closed" /\ heartbeat = "closed"
          /\ closed

\* Before HELLO the user waits.
Opening ==
    /\ thread = "run" /\ main = "idle" /\ ~stopped /\ ~closed /\ ~pending
    /\ async = "active" /\ heartbeat = "off" /\ timeout \in {"off", "curl"}
    /\ \/ transfer \in {"added", "connecting"} /\ status = "CONNECTING"
       \/ transfer = "open" /\ status = "CONNECTED"

\* Between HELLO and _uv_on_force_close_cb.
InSession ==
    /\ thread = "run" /\ ~stopped /\ ~closed
    /\ async = "active" /\ heartbeat = "on" /\ timeout \in {"off", "curl"}
    /\ transfer = "open"
    /\ \/ main \in {"idle", "mark"} /\ ~pending /\ status = "CONNECTED"
       \/ main = "wake" /\ ~pending
       \/ main = "join" /\ pending

\* From then on the user's thread waits.  The timer is _uv_disconnect_cb's,
\* unless curl takes it back.
Closing ==
    /\ thread = "run" /\ main = "join" /\ ~pending
    /\ async = "closed" /\ heartbeat = "closed"
    /\ \/ ~stopped /\ timeout # "closed" /\ transfer = "open" /\ ~closed
       \/ ~stopped /\ timeout = "closed" /\ transfer \in {"open", "closing"}
          /\ closed
       \/ stopped /\ timeout = "closed" /\ transfer = "over" /\ closed
          /\ status = "DISCONNECTED"

Ended ==
    /\ status = "DISCONNECTED" /\ transfer = "none"
    /\ async = "closed" /\ timeout = "closed" /\ heartbeat = "closed" /\ closed
    /\ \/ thread = "done" /\ main = "join"
       \/ thread = "joined" /\ main \in {"assert", "idle", "free", "freed"}

Stage == \/ NotConnected \/ Starting \/ Opening \/ InSession \/ Closing
         \/ Ended

CalmInv == \/ fail = "no" /\ Stage
           \/ fail = "timer" /\ closed

\* The user's calls take a calm session from stage to stage; the end of the
\* thread it joins is the end of the session.
LEMMA CalmUserStep ==
    ASSUME Calm, TypeOK, CalmInv, UserNext
    PROVE  CalmInv'
<1> USE DEF TypeOK, UserTypeOK, handles, frames, UserTurn, Alive
<1>1. fail = "no" /\ Stage
  BY DEF CalmInv, UserNext, Connect, Disconnect, Mark, Wake, Join,
         AssertDisconnected, Destroy, Free
<1>2. CASE Connect
  <2>1. NotConnected \/ Ended
    BY <1>1, <1>2
    DEF Connect, IsRunning, Stage, Starting, Opening, InSession, Closing
  <2>2. fail' = "no" /\ Starting'
    BY <1>1, <1>2, <2>1 DEF Connect, NotConnected, Ended, Starting
  <2> QED
    BY <2>2 DEF CalmInv, Stage
<1>3. CASE Disconnect \/ Mark
  <2>1. InSession
    BY <1>1, <1>3
    DEF Disconnect, Mark, Ready, Calm, Stage, NotConnected, Starting, Opening,
        Closing, Ended
  <2>2. fail' = "no" /\ InSession'
    BY <1>1, <1>3, <2>1 DEF Disconnect, Mark, InSession
  <2> QED
    BY <2>2 DEF CalmInv, Stage
<1>4. CASE Wake
  <2>1. InSession
    BY <1>1, <1>4
    DEF Wake, Stage, NotConnected, Starting, Opening, Closing, Ended
  <2>2. fail' = "no" /\ InSession'
    BY <1>1, <1>4, <2>1 DEF Wake, InSession
  <2> QED
    BY <2>2 DEF CalmInv, Stage
<1>5. CASE Join \/ AssertDisconnected
  <2>1. Ended
    BY <1>1, <1>5
    DEF Join, AssertDisconnected, Stage, NotConnected, Starting, Opening,
        InSession, Closing
  <2>2. fail' = "no" /\ Ended'
    BY <1>1, <1>5, <2>1 DEF Join, AssertDisconnected, Ended
  <2> QED
    BY <2>2 DEF CalmInv, Stage
<1>6. CASE Destroy
  <2>1. NotConnected \/ InSession \/ Ended
    BY <1>1, <1>6
    DEF Destroy, Ready, Calm, Stage, Starting, Opening, Closing
  <2>2. fail' = "no" /\ (NotConnected \/ InSession \/ Ended)'
    BY <1>1, <1>6, <2>1 DEF Destroy, IsRunning, NotConnected, InSession, Ended
  <2> QED
    BY <2>2 DEF CalmInv, Stage
<1>7. CASE Free
  <2>1. NotConnected \/ Ended
    BY <1>1, <1>7 DEF Free, Stage, Starting, Opening, InSession, Closing
  <2>2. fail' = "no" /\ (NotConnected \/ Ended)'
    BY <1>1, <1>7, <2>1 DEF Free, NotConnected, Ended
  <2> QED
    BY <2>2 DEF CalmInv, Stage
<1> QED
  BY <1>2, <1>3, <1>4, <1>5, <1>6, <1>7 DEF UserNext

\* What curl does to a timer that is not closed leaves it with curl or as it
\* was; a closed one stays closed, and starting it is the end of the program.
LEMMA CurlTimerLeaves ==
    ASSUME NEW at, CurlTimer(at), fail = "no"
    PROVE  /\ at # "closed" =>
                  timeout' \in {at, "off", "curl"} /\ fail' = "no"
           /\ at = "closed" =>
                  timeout' = "closed" /\ fail' \in {"no", "timer"}
BY DEF CurlTimer

\* The callbacks of the loop.
LEMMA CalmLoopStep ==
    ASSUME Calm, TypeOK, CalmInv, LoopNext
    PROVE  CalmInv'
<1>1. fail = "no" /\ Stage
  BY DEF CalmInv, LoopNext, ThreadStart, OnTimeout, Upgrade, Refuse, Hello,
         UnknownOpcode, Ping, ServerClose, End, Heartbeat, ForceClose,
         OnDisconnect, LoopReturns, Callback
<1> USE DEF user, handles, frames
<1>2. CASE ThreadStart
  <2>1. Starting
    BY <1>1, <1>2
    DEF ThreadStart, Stage, NotConnected, Opening, InSession, Closing, Ended
  <2>2. CASE timeout = "closed"
    <3>1. fail' = "timer" /\ closed'
      BY <1>2, <2>1, <2>2 DEF ThreadStart, Starting
    <3> QED
      BY <3>1 DEF CalmInv
  <2>3. CASE timeout # "closed"
    <3>1. pending = FALSE
      BY <2>1 DEF TypeOK, HandlesTypeOK, Starting
    <3>2. fail' = "no" /\ Opening'
      BY <1>1, <1>2, <2>1, <2>3, <3>1 DEF ThreadStart, Starting, Opening
    <3> QED
      BY <3>2 DEF CalmInv, Stage
  <2> QED
    BY <2>2, <2>3
<1>3. ASSUME thread = "run" PROVE Opening \/ InSession \/ Closing
  BY <1>1, <1>3 DEF Stage, NotConnected, Starting, Ended
<1>4. CASE OnTimeout
  <2>1. timeout' \in {"off", "curl"} /\ fail' = "no"
    BY <1>1, <1>4, CurlTimerLeaves DEF OnTimeout
  <2>2. timeout = "curl" /\ (Opening \/ InSession \/ Closing)
    BY <1>3, <1>4 DEF OnTimeout, Callback
  <2>3. transfer' = IF transfer = "added" THEN "connecting" ELSE transfer
    BY <1>4 DEF OnTimeout, Calm
  <2>4. (Opening \/ InSession \/ Closing)'
    BY <1>4, <2>1, <2>2, <2>3 DEF OnTimeout, Opening, InSession, Closing
  <2> QED
    BY <2>1, <2>4 DEF CalmInv, Stage
<1>5. CASE Upgrade
  <2>1. Opening
    BY <1>3, <1>5 DEF Upgrade, Callback, InSession, Closing
  <2>2. timeout' \in {"off", "curl"} /\ fail' = "no"
    BY <1>1, <1>5, <2>1, CurlTimerLeaves DEF Upgrade, Opening
  <2>3. Opening'
    BY <1>5, <2>1, <2>2 DEF Upgrade, Opening
  <2> QED
    BY <2>2, <2>3 DEF CalmInv, Stage
<1>6. CASE Refuse \/ UnknownOpcode
  BY <1>6 DEF Refuse, UnknownOpcode, Calm
<1>7. CASE Hello
  <2>1. Opening /\ transfer = "open"
    BY <1>3, <1>7 DEF Hello, Callback, Calm, InSession, Closing
  <2>2. heartbeat' = "on" /\ CurlTimer(timeout)
    BY <1>7, <2>1 DEF Hello, Opening
  <2>3. timeout' \in {"off", "curl"} /\ fail' = "no"
    BY <1>1, <2>1, <2>2, CurlTimerLeaves DEF Opening
  <2>4. InSession'
    BY <1>7, <2>1, <2>2, <2>3 DEF Hello, Opening, InSession
  <2> QED
    BY <2>3, <2>4 DEF CalmInv, Stage
<1>8. CASE Ping
  <2>1. Opening \/ InSession \/ Closing
    BY <1>3, <1>8 DEF Ping, Callback
  <2>2. timeout # "closed"
    BY <1>8, <2>1 DEF Ping, Opening, InSession, Closing
  <2>3. timeout' \in {timeout, "off", "curl"} /\ fail' = "no"
    BY <1>1, <1>8, <2>2, CurlTimerLeaves DEF Ping
  <2>4. (Opening \/ InSession \/ Closing)'
    BY <1>8, <2>1, <2>2, <2>3 DEF Ping, Opening, InSession, Closing
  <2> QED
    BY <2>3, <2>4 DEF CalmInv, Stage
<1>9. CASE ServerClose
  <2>1. Closing /\ closed
    BY <1>3, <1>9 DEF ServerClose, Callback, Calm, Opening, InSession
  <2>2. timeout' = "closed" /\ fail' \in {"no", "timer"}
    BY <1>1, <1>9, <2>1, CurlTimerLeaves DEF ServerClose, Closing
  <2>3. Closing' /\ closed'
    BY <1>9, <2>1, <2>2 DEF ServerClose, Closing
  <2> QED
    BY <2>2, <2>3 DEF CalmInv, Stage
<1>10. CASE End
  <2>1. Closing /\ transfer = "closing"
    BY <1>3, <1>10 DEF End, Calm, Opening, InSession, Closing
  <2>2. timeout' = "closed" /\ fail' \in {"no", "timer"}
    BY <1>1, <1>10, <2>1, CurlTimerLeaves DEF End, Closing
  <2>3. Closing' /\ closed'
    BY <1>10, <2>1, <2>2 DEF End, Closing
  <2> QED
    BY <2>2, <2>3 DEF CalmInv, Stage
<1>11. CASE Heartbeat
  <2>1. InSession
    BY <1>3, <1>11 DEF Heartbeat, Callback, Opening, Closing
  <2>2. CurlTimer(timeout)
    BY <1>11, <2>1 DEF Heartbeat, InSession, Context
  <2>3. timeout' \in {"off", "curl"} /\ fail' = "no"
    BY <1>1, <2>1, <2>2, CurlTimerLeaves DEF InSession
  <2>4. InSession'
    BY <1>11, <2>1, <2>3 DEF Heartbeat, InSession
  <2> QED
    BY <2>3, <2>4 DEF CalmInv, Stage
<1>12. CASE ForceClose
  <2>1. InSession
    BY <1>3, <1>12 DEF ForceClose, Opening, Closing
  <2>2. fail' = "no" /\ Closing'
    BY <1>1, <1>12, <2>1 DEF ForceClose, InSession, Closing
  <2> QED
    BY <2>2 DEF CalmInv, Stage
<1>13. CASE OnDisconnect
  <2>1. Closing /\ transfer = "open" /\ ~closed
    BY <1>3, <1>13 DEF OnDisconnect, Callback, Opening, InSession, Closing
  <2>2. closed' = TRUE /\ CurlTimer("closed")
    BY <1>13, <2>1 DEF OnDisconnect, Context, Close
  <2>3. timeout' = "closed" /\ fail' \in {"no", "timer"}
    BY <1>1, <2>2, CurlTimerLeaves
  <2>4. Closing'
    BY <1>13, <2>1, <2>2, <2>3 DEF OnDisconnect, Closing
  <2> QED
    BY <2>2, <2>3, <2>4 DEF CalmInv, Stage
<1>14. CASE LoopReturns
  <2>1. Closing /\ stopped
    BY <1>3, <1>14
    DEF LoopReturns, Context, Opening, InSession, Closing
  <2>2. fail' = "no" /\ Ended'
    BY <1>1, <1>14, <2>1 DEF LoopReturns, Closing, Ended
  <2> QED
    BY <2>2 DEF CalmInv, Stage
<1> QED
  BY <1>2, <1>4, <1>5, <1>6, <1>7, <1>8, <1>9, <1>10, <1>11, <1>12, <1>13,
     <1>14
  DEF LoopNext

\* With a server, a network and a user that behave, and a curl that may start
\* and stop its timer in any callback, the program fails in one way only: the
\* timer that _uv_disconnect_cb closed is started again.  It does so in no
\* session before this side has sent its close frame, in every interleaving of
\* the two threads and for any number of sessions and frames: the assertions of
\* the heartbeat, of HELLO and of concord_ws_disconnect, the poll handle that
\* is not there and the early free are out of reach.
THEOREM FailsOnlyByClosedTimerCorrect ==
    ASSUME Calm
    PROVE  Spec => []FailsOnlyByClosedTimer
<1>1. Init => CalmInv
  BY DEF Init, CalmInv, Stage, NotConnected
<1>2. TypeOK /\ CalmInv /\ [Next]_vars => CalmInv'
  <2>1. CASE UNCHANGED vars
    BY <2>1
    DEF vars, user, handles, frames, CalmInv, Stage, NotConnected,
        Starting, Opening, InSession, Closing, Ended
  <2> QED
    BY <2>1, CalmUserStep, CalmLoopStep DEF Next
<1>3. CalmInv => FailsOnlyByClosedTimer
  BY DEF CalmInv, FailsOnlyByClosedTimer
<1> QED
  BY <1>1, <1>2, <1>3, TypeCorrect, PTL DEF Spec

=============================================================================
