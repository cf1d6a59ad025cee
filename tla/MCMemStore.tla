------------------------------ MODULE MCMemStore ------------------------------
(* Instances of MemStore for TLC. *)
EXTENDS MemStore, TLC

CONSTANTS t1, t2, k1, k2, k3, k4, v1, v2

OneThread == {t1}
TwoThreads == {t1, t2}
OneKey == {k1}
TwoKeys == {k1, k2}
ThreeKeys == {k1, k2, k3}
FourKeys == {k1, k2, k3, k4}
OneValue == {v1}
TwoValues == {v1, v2}

(* All keys have the same hash. *)
SameHash == [k \in Keys |-> 0]

Symmetry ==
    Permutations(TwoThreads) \cup Permutations(FourKeys) \cup Permutations(TwoValues)
===============================================================================
