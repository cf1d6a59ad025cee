------------------------------ MODULE ShmOrdering ------------------------------
(***************************************************************************)
(* The intrusive doubly-linked eviction list and the SIEVE hand of         *)
(* src/shm/ordering.rs, as operators on a region r.                        *)
(***************************************************************************)
EXTENDS ShmLayout

(* Mutant: the next slot keeps its link to the removed one.                *)
list_removeOneSided(r, i) ==
    LET prev == r.slots[i].prev
        next == r.slots[i].next
        r1 == IF prev # NONE THEN [r EXCEPT !.slots[prev].next = next]
                             ELSE [r EXCEPT !.head = next]
        r2 == IF next # NONE THEN r1 ELSE [r1 EXCEPT !.tail = prev]
    IN [r2 EXCEPT !.slots[i].prev = NONE, !.slots[i].next = NONE]

list_remove(r, i) ==
    LET prev == r.slots[i].prev
        next == r.slots[i].next
        r1 == IF prev # NONE THEN [r EXCEPT !.slots[prev].next = next]
                             ELSE [r EXCEPT !.head = next]
        r2 == IF next # NONE THEN [r1 EXCEPT !.slots[next].prev = prev]
                             ELSE [r1 EXCEPT !.tail = prev]
    IN [r2 EXCEPT !.slots[i].prev = NONE, !.slots[i].next = NONE]

list_push_tail(r, i) ==
    LET r1 == [r EXCEPT !.slots[i].prev = r.tail, !.slots[i].next = NONE]
        r2 == IF r.tail # NONE THEN [r1 EXCEPT !.slots[r.tail].next = i]
                               ELSE [r1 EXCEPT !.head = i]
    IN [r2 EXCEPT !.tail = i]

(* Where the hand goes from slot i: the list is circular to it.            *)
HandAfter(r, i) == IF r.slots[i].next # NONE THEN r.slots[i].next ELSE r.head

(* Where a scan of sieve_evict starts.                                     *)
HandStart(r) == IF r.hand # NONE THEN r.hand ELSE r.head
===============================================================================
