------------------------------ MODULE MCShmCache ------------------------------
(* Instances of ShmCache for TLC. *)
EXTENDS ShmCache, TLC

CONSTANTS p1, p2, p3, k1, k2, k3, v1, v2

TwoProcs == {p1, p2}
ThreeProcs == {p1, p2, p3}
TwoKeys == {k1, k2}
ThreeKeys == {k1, k2, k3}
OneValue == {v1}
TwoValues == {v1, v2}

(* Every key collides at the last of four buckets, so entries wrap to the first. *)
LastOfFour == {3}
(* Every key collides at the last bucket of two. *)
OneHash == {7}

Symmetry == Permutations(ThreeProcs) \cup Permutations(ThreeKeys) \cup Permutations(TwoValues)
===============================================================================
