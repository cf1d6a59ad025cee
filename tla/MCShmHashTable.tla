---------------------------- MODULE MCShmHashTable ----------------------------
(***************************************************************************)
(* The hash table on its own, for TLC: entries come and go in any order,   *)
(* as insert_inner (Fill) and remove_slot bring and take them, under every *)
(* function from keys to hashes.                                           *)
(***************************************************************************)
EXTENDS ShmHashTable, TLC

CONSTANTS k1, k2, k3, k4, Hashes

Keys == {k1, k2, k3, k4}

VARIABLES r, hashOf

vars == <<r, hashOf>>

Init == r = FreshRegion /\ hashOf \in [Keys -> Hashes]

Held == {i \in Slots : r.slots[i].occupied}

Insert(k) ==
    LET s == Min(Slots \ Held)
        filled == [r EXCEPT !.slots[s] =
                       [@ EXCEPT !.occupied = TRUE, !.key = k, !.hash = hashOf[k]]]
    IN /\ Held # Slots
       /\ ht_lookup(r, hashOf[k], k) = NONE
       /\ r' = ht_insert(filled, hashOf[k], s)
       /\ UNCHANGED hashOf

Remove(s) ==
    /\ s \in Held
    /\ r' = [ht_remove(r, r.slots[s].hash, r.slots[s].key) EXCEPT
                 !.slots[s].occupied = FALSE]
    /\ UNCHANGED hashOf

ClearAll ==
    /\ r' = [ht_clear(r) EXCEPT !.slots = [i \in Slots |-> [@[i] EXCEPT !.occupied = FALSE]]]
    /\ UNCHANGED hashOf

Next == (\E k \in Keys : Insert(k)) \/ (\E s \in Slots : Remove(s)) \/ ClearAll

Spec == Init /\ [][Next]_vars

(* ht_lookup, which stops at the first empty bucket, agrees with a search  *)
(* of the whole slab, for every hash function and every history of         *)
(* insertions and backward-shift deletions up to the 50% load the table is *)
(* sized for.                                                              *)
LookupMatchesSearch ==
    \A k \in Keys :
        LET there == {s \in Held : r.slots[s].key = k}
        IN ht_lookup(r, hashOf[k], k) = IF there = {} THEN NONE ELSE Max(there)

(* Backward-shift deletion leaves no tombstone and no stale bucket behind: *)
(* every bucket in use is that of one held slot.                           *)
NoStaleBucket ==
    \A s \in Slots :
        Cardinality({b \in Buckets : r.ht[b].slot = s}) = IF s \in Held THEN 1 ELSE 0

Symmetry == Permutations(Keys)
===============================================================================
