------------------------------ MODULE OwningMap ------------------------------
(***************************************************************************)
(* What a dictionary promises: it maps keys to values, and a value it was  *)
(* given to own is freed when its entry goes, once, and not before.        *)
(***************************************************************************)
CONSTANTS Keys, Values, NULL

VARIABLES
    map,    \* from keys to values, NULL where there is none
    owned,  \* the keys whose values it has to free
    live    \* the values that exist

vars == <<map, owned, live>>

Init ==
    /\ map = [k \in Keys |-> NULL]
    /\ owned = {}
    /\ live = {}

\* Values that are freed when the entries of these keys go.
OwnedBy(keys) == {map[k] : k \in keys \cap owned}

\* The caller makes a value and gives it away under k.
Put(k, v) ==
    /\ v \notin live
    /\ map' = [map EXCEPT ![k] = v]
    /\ owned' = owned \cup {k}
    /\ live' = (live \ OwnedBy({k})) \cup {v}

\* The caller maps k to a value that another entry owns.
Link(k, v) ==
    /\ v \in live
    /\ map' = [map EXCEPT ![k] = v]
    /\ owned' = owned \ {k}
    /\ live' = live \ OwnedBy({k})

Remove(k) ==
    /\ map' = [map EXCEPT ![k] = NULL]
    /\ owned' = owned \ {k}
    /\ live' = live \ OwnedBy({k})

Destroy ==
    /\ map' = [k \in Keys |-> NULL]
    /\ owned' = {}
    /\ live' = live \ OwnedBy(Keys)

Next == \/ \E k \in Keys : Remove(k)
        \/ \E k \in Keys, v \in Values : Put(k, v) \/ Link(k, v)
        \/ Destroy

Spec == Init /\ [][Next]_vars
=============================================================================
