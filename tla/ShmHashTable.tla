----------------------------- MODULE ShmHashTable -----------------------------
(***************************************************************************)
(* The open-addressing hash table of src/shm/hashtable.rs, as operators on *)
(* a region r.                                                             *)
(***************************************************************************)
EXTENDS ShmLayout, FiniteSetsExt

(* The bucket at distance i on the probe path of a hash: idx & mask.       *)
Probe(h, i) == (h + i) % HtCap

IsEmpty(ht, b) == ht[b].slot = NONE

(* A lookup wants an occupied slot with the key's bytes; a removal does    *)
(* not look at occupied.                                                   *)
RefersTo(r, b, h, k) == r.ht[b].hash = h /\ r.slots[r.ht[b].slot].key = k

(* Mutant: equal hashes are taken for equal keys.                          *)
FindsByHash(r, b, h, k) == r.ht[b].hash = h /\ r.slots[r.ht[b].slot].occupied

Finds(r, b, h, k) == RefersTo(r, b, h, k) /\ r.slots[r.ht[b].slot].occupied

(* ht_lookup, and ht_lookup_checked on a region no writer is changing: the *)
(* probe ends at the key or at the first empty bucket, whose slot is NONE. *)
ht_lookup(r, h, k) ==
    LET stops == {i \in Buckets : LET b == Probe(h, i) IN
                      IsEmpty(r.ht, b) \/ Finds(r, b, h, k)}
    IN IF stops = {} THEN NONE ELSE r.ht[Probe(h, Min(stops))].slot

(* ht_insert: the first empty bucket takes the entry; a full table drops   *)
(* it (debug_assert "hash table is full").                                 *)
ht_insert(r, h, s) ==
    LET empties == {i \in Buckets : IsEmpty(r.ht, Probe(h, i))}
    IN IF empties = {} THEN r
       ELSE [r EXCEPT !.ht[Probe(h, Min(empties))] = [hash |-> h, slot |-> s]]

(* Mutant: the wrapped case is forgotten.                                  *)
ShouldMoveNoWrap(hole, j, ideal) == ideal <= hole \/ ideal > j

(* An entry at j may fill the hole unless its ideal bucket lies strictly   *)
(* after the hole on the way to j; the test wraps with the table.          *)
ShouldMove(hole, j, ideal) ==
    IF hole <= j THEN ideal <= hole \/ ideal > j
                 ELSE ideal <= hole /\ ideal > j

(* How far the next empty bucket is, where the shifting loop ends.         *)
RunLength(ht, start) == Min({d \in 1 .. HtCap : IsEmpty(ht, Probe(start, d))})

(* One iteration of it: the entry at j moves back into the hole, or stays. *)
ShiftStep(s, j) ==
    IF ShouldMove(s.hole, j, Probe(s.ht[j].hash, 0))
    THEN [ht |-> [s.ht EXCEPT ![s.hole] = s.ht[j]], hole |-> j]
    ELSE s

(* The shifting loop of ht_remove: from the bucket at start to the next    *)
(* empty one, entries move back into the hole the last of them left.       *)
Shifts(ht, start) ==
    LET shift[d \in 0 .. RunLength(ht, start) - 1] ==
            IF d = 0 THEN [ht |-> ht, hole |-> start]
            ELSE ShiftStep(shift[d - 1], Probe(start, d))
    IN shift

Shifted(ht, start) == Shifts(ht, start)[RunLength(ht, start) - 1]

(* Mutant: the last hole is not emptied.                                   *)
BackwardShiftKeepsHole(ht, start) == Shifted(ht, start).ht

(* Backward-shift deletion of the bucket at start.                         *)
BackwardShift(ht, start) ==
    LET end == Shifted(ht, start) IN [end.ht EXCEPT ![end.hole] = EmptyBucket]

(* Mutant: the bucket is emptied and nothing moves.                        *)
ht_removeNoShift(r, h, k) ==
    LET found == {b \in Buckets : ~IsEmpty(r.ht, b) /\ RefersTo(r, b, h, k)}
    IN [r EXCEPT !.ht = [b \in Buckets |-> IF b \in found THEN EmptyBucket ELSE @[b]]]

ht_remove(r, h, k) ==
    LET stops == {i \in Buckets : LET b == Probe(h, i) IN
                      IsEmpty(r.ht, b) \/ RefersTo(r, b, h, k)}
        found == Probe(h, Min(stops))
    IN IF stops = {} \/ IsEmpty(r.ht, found) THEN r
       ELSE [r EXCEPT !.ht = BackwardShift(@, found)]

ht_clear(r) == [r EXCEPT !.ht = [b \in Buckets |-> EmptyBucket]]
===============================================================================
