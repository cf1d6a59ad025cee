----------------------------- MODULE MCAsyncFlight -----------------------------
(* Instances of AsyncFlight for TLC. *)
EXTENDS AsyncFlight

CONSTANTS t1, t2, t3, t4, t5, l1, l2, a1, a2

FiveTasks == {t1, t2, t3, t4, t5}
TwoLoops == {l1, l2}
TwoArgs == {a1, a2}

(* Three tasks in one loop and two in another.  a1 and a2 are equal in Python; t3 asks *)
(* for a2, the others for a1.                                                         *)
ThreeAndTwo == [t \in FiveTasks |-> IF t \in {t4, t5} THEN l2 ELSE l1]
OneOdd == [t \in FiveTasks |-> IF t = t3 THEN a2 ELSE a1]

OneKey == [a \in TwoArgs |-> a1]
OwnKeys == [a \in TwoArgs |-> a]
===============================================================================
