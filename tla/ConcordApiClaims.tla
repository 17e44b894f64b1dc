-------------------------- MODULE ConcordApiClaims --------------------------
(***************************************************************************)
(* What comments and assertions of the sources say of the request queues,  *)
(* and the code does not do for every server: each is refuted by one run.  *)
(* The first holds of a server that limits no single bucket.               *)
(***************************************************************************)
EXTENDS ConcordApi

\* concord-api.c:372-373 assert after uv_run that nothing was left behind.
\* Without 429s of a bucket they are right: every connection on hold was let
\* go and every transfer ended.  A 429 that rearms a bucket's timer cancels
\* the timer that would have added the connections still on hold.
NothingLeftBehind == LoopEnds => ~LeftOver

\* concord-common.h:244-245: load_cb is the function that loads the object once
\* the connection is completed.  In a full queue it is still NULL by then.
CallbackIsThere ==
    Draining => \A b \in Buckets, i \in Slots :
                    Is200(conns[b][i]) => conns[b][i].object # 0
=============================================================================
