------------------------- MODULE ConcordApiService -------------------------
(***************************************************************************)
(* ConcordApi implements RequestService as long as the server never limits *)
(* a single bucket, no queue fills up, and transfers end in socket events. *)
(* A waiting request is the object of some connection (p_object is not     *)
(* NULL yet); a served one has had load_cb called with its own response.   *)
(***************************************************************************)
EXTENDS ConcordApi

ServicePhase == CASE pc = "idle"                            -> "open"
                  [] pc = "sync"                            -> "asking"
                  [] pc \in {"run", "loop", "socket", "drain"} -> "serving"
                  [] pc \in {"aborted", "crashed"}          -> "down"

ObjectsWaiting ==
    {conns[s[1]][s[2]].object : s \in Buckets \X Slots} \ {0}

ObjectsServed == {r \in Requests : loaded[r] = "ok"}

Service == INSTANCE RequestService
    WITH phase <- ServicePhase, waiting <- ObjectsWaiting,
         served <- ObjectsServed

\* Every step of the queues and of the loop is a step of the service or leaves
\* it unchanged; above all, concord_dispatch returns to the user only when no
\* connection still owes an object its response.
ImplementsService == Service!Spec
=============================================================================
