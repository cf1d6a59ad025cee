------------------------------- MODULE ShmLayout -------------------------------
(***************************************************************************)
(* What the mapped data file of a shared cache holds (src/shm/layout.rs),  *)
(* as one record, the region:                                              *)
(*                                                                         *)
(*   ht     bucket number -> [hash, slot], slot = NONE for an empty bucket *)
(*   slots  slot number -> [occupied, key, hash, val, created, visited,    *)
(*                          prev, next]                                    *)
(*   size, head, tail, free, hand, hits, misses, skips                     *)
(*          the header's current_size, list_head, list_tail, free_head,    *)
(*          sieve_hand, hits, misses and oversize_skips                    *)
(*                                                                         *)
(* Key and value bytes are model values: keys are compared, as the code's  *)
(* memcmp compares them, and values are copied.  A hash is a number whose  *)
(* low bits choose the bucket.                                             *)
(***************************************************************************)
EXTENDS Integers

CONSTANTS
    Capacity,   \* header.capacity, the number of slots
    HtCap,      \* header.ht_capacity, the number of buckets
    ZeroKey,    \* the key bytes of a slot never written
    ZeroValue   \* the value bytes of a slot never written

(* region.rs create refuses capacity 0, and takes the least power of two   *)
(* that is at least twice the capacity.                                    *)
ASSUME CapacityAssumption == Capacity \in Nat \ {0}
ASSUME HtCapAssumption ==
    /\ HtCap \in Nat
    /\ \E n \in 1 .. HtCap : HtCap = 2 ^ n
    /\ 2 * Capacity <= HtCap
    /\ HtCap < 4 * Capacity

NONE == -1   \* SLOT_NONE and BUCKET_EMPTY
Slots == 0 .. Capacity - 1
Buckets == 0 .. HtCap - 1
EmptyBucket == [hash |-> 0, slot |-> NONE]

(* Mutant: the last slot is left off the free list.                        *)
FreeNextOffByOne(i) == IF i + 2 < Capacity THEN i + 1 ELSE NONE

(* The free list of a fresh or cleared region: every slot leads to the     *)
(* next one, the last to nothing.                                          *)
FreeNext(i) == IF i + 1 < Capacity THEN i + 1 ELSE NONE

(* The region that create leaves behind.                                   *)
FreshRegion ==
    [ht |-> [b \in Buckets |-> EmptyBucket],
     slots |-> [i \in Slots |->
         [occupied |-> FALSE, key |-> ZeroKey, hash |-> 0, val |-> ZeroValue,
          created |-> 0, visited |-> FALSE, prev |-> NONE, next |-> FreeNext(i)]],
     size |-> 0, head |-> NONE, tail |-> NONE, free |-> 0, hand |-> NONE,
     hits |-> 0, misses |-> 0, skips |-> 0]
===============================================================================
