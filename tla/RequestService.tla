--------------------------- MODULE RequestService ---------------------------
(***************************************************************************)
(* What libconcord's REST half promises its single-threaded user, without  *)
(* buckets, connections, timers or a network: a call either returns after  *)
(* its object was loaded or leaves a request waiting, and a dispatch       *)
(* returns only when every waiting request was served, each exactly once.  *)
(***************************************************************************)
EXTENDS Integers

CONSTANT Requests        \* the requests a user may make

VARIABLES phase,         \* "open": the user's turn; "asking": blocked in a
                         \* call; "serving": blocked in a dispatch; "down"
          waiting,       \* requests put on hold
          served         \* requests whose object was loaded

vars == <<phase, waiting, served>>

TypeOK == /\ phase \in {"open", "asking", "serving", "down"}
          /\ waiting \subseteq Requests
          /\ served \subseteq Requests

Init == phase = "open" /\ waiting = {} /\ served = {}

Fresh == Requests \ (waiting \cup served)

\* The user makes a call that blocks until the response is there.
Ask == /\ phase = "open" /\ Fresh # {}
       /\ phase' = "asking"
       /\ UNCHANGED <<waiting, served>>

Answer(r) == /\ phase = "asking" /\ r \in Fresh
             /\ phase' = "open"
             /\ served' = served \cup {r}
             /\ UNCHANGED waiting

\* The user makes a call that only leaves a request.
Submit(r) == /\ phase = "open" /\ r \in Fresh
             /\ waiting' = waiting \cup {r}
             /\ UNCHANGED <<phase, served>>

Start == /\ phase = "open" /\ waiting # {}
         /\ phase' = "serving"
         /\ UNCHANGED <<waiting, served>>

Serve(r) == /\ phase = "serving" /\ r \in waiting
            /\ waiting' = waiting \ {r}
            /\ served' = served \cup {r}
            /\ UNCHANGED phase

Return == /\ phase = "serving" /\ waiting = {}
          /\ phase' = "open"
          /\ UNCHANGED <<waiting, served>>

\* An assertion or an error ends the program; in a call that blocks, the
\* object may have been loaded before.
Stop == /\ phase \in {"asking", "serving"}
        /\ phase' = "down"
        /\ \/ UNCHANGED served
           \/ phase = "asking" /\ \E r \in Fresh : served' = served \cup {r}
        /\ UNCHANGED waiting

Next == \/ Ask \/ Start \/ Return \/ Stop
        \/ \E r \in Requests : Answer(r) \/ Submit(r) \/ Serve(r)

Spec == Init /\ [][Next]_vars
=============================================================================
