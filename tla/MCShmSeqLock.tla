----------------------------- MODULE MCShmSeqLock -----------------------------
(* Instances of ShmSeqLock for TLC. *)
EXTENDS ShmSeqLock, TLC

CONSTANTS p1, p2, p3, w1, w2, v1, v2

TwoProcs == {p1, p2}
ThreeProcs == {p1, p2, p3}
TwoWords == {w1, w2}
TwoValues == {v1, v2}

(* Processes and words are interchangeable; a value is not, as regions     *)
(* start with Zero.                                                        *)
Symmetry == Permutations(ThreeProcs) \cup Permutations(TwoWords)
===============================================================================
