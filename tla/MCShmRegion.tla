------------------------------ MODULE MCShmRegion ------------------------------
(* Instances of ShmRegion for TLC. *)
EXTENDS ShmRegion

CONSTANTS p1, p2, p3, p4

Asking(capacity, ttl) ==
    [version |-> 3, capacity |-> capacity, max_key_size |-> 1, max_value_size |-> 1, ttl |-> ttl]

TwoProcs == {p1, p2}
FourProcs == {p1, p2, p3, p4}

(* p1 and p2 agree once converted: half a nanosecond is no ttl.  p3 wants expiry, p4 a *)
(* cache that is too large.                                                            *)
FourRequests ==
    [p \in FourProcs |-> CASE p = p1 -> Asking(1, NoTtl)
                           [] p = p2 -> Asking(1, 1)
                           [] p = p3 -> Asking(1, 9)
                           [] p = p4 -> Asking(3, NoTtl)]

(* p2 wants another ttl.                                                               *)
UnequalRequests == [p \in TwoProcs |-> Asking(1, IF p = p1 THEN NoTtl ELSE 9)]
===============================================================================
