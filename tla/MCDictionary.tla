----------------------------- MODULE MCDictionary -----------------------------
(* Dictionary for TLC: four keys, three of them in one chain. *)
EXTENDS Dictionary

CONSTANTS k1, k2, k3, k4
FourKeys == {k1, k2, k3, k4}
TwoSlots == {0, 1}
ThreeInOne == [k \in FourKeys |-> IF k = k4 THEN 1 ELSE 0]
=============================================================================
