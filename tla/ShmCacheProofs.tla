---------------------------- MODULE ShmCacheProofs ----------------------------
(***************************************************************************)
(* Proofs about ShmCache, for every number of slots, buckets, processes,   *)
(* keys and values and every hash function.                                *)
(***************************************************************************)
EXTENDS ShmCache, ShmHashTableProofs, FunctionTheorems

(* The part of a slot that is not a link.                                  *)
SameData(x, y) ==
    /\ x.occupied = y.occupied /\ x.key = y.key /\ x.hash = y.hash
    /\ x.val = y.val /\ x.created = y.created /\ x.visited = y.visited

(* The slots of O, in the order q.                                         *)
Enumerates(q, n, O) ==
    /\ \A i, j \in 1 .. n : q[i] = q[j] => i = j
    /\ \A s \in Slots : s \in O <=> \E i \in 1 .. n : q[i] = s

(* The eviction list of r runs through q, forwards and backwards.          *)
ListOf(r, q, n) ==
    /\ r.head = IF n = 0 THEN NONE ELSE q[1]
    /\ r.tail = IF n = 0 THEN NONE ELSE q[n]
    /\ \A i \in 1 .. n :
        /\ r.slots[q[i]].prev = IF i = 1 THEN NONE ELSE q[i - 1]
        /\ r.slots[q[i]].next = IF i = n THEN NONE ELSE q[i + 1]

(* The free list of r runs through q.                                      *)
FreeOf(r, q, n) ==
    /\ r.free = IF n = 0 THEN NONE ELSE q[1]
    /\ \A i \in 1 .. n : r.slots[q[i]].next = IF i = n THEN NONE ELSE q[i + 1]

(* The n slots of O are in the eviction list, in the free list.            *)
Listed(r, O, n) == \E q \in [1 .. n -> Slots] : Enumerates(q, n, O) /\ ListOf(r, q, n)
Free(r, F, n) == \E q \in [1 .. n -> Slots] : Enumerates(q, n, F) /\ FreeOf(r, q, n)

-------------------------------------------------------------------------------
(***************************************************************************)
(* The operations of ShmOrdering on lists                                  *)
(***************************************************************************)

(* SLOT_NONE is no slot.                                                   *)
LEMMA NoneIsNoSlot == NONE \notin Slots /\ NONE = -1
BY HtCapPositive DEF NONE, Slots

(* The fields of a region and their types.                                 *)
LEMMA RegionFields ==
    ASSUME NEW r \in RegionType
    PROVE  /\ r.slots \in [Slots -> SlotType]
           /\ r.ht \in TableType
           /\ r.head \in Slots \cup {NONE} /\ r.tail \in Slots \cup {NONE}
           /\ r.free \in Slots \cup {NONE} /\ r.hand \in Slots \cup {NONE}
           /\ r.size \in 0 .. Capacity
           /\ \A s \in Slots : /\ r.slots[s] \in SlotType
                               /\ r.slots[s].prev \in Slots \cup {NONE}
                               /\ r.slots[s].next \in Slots \cup {NONE}
BY DEF RegionType, SlotType, TableType

(* What stays when links change.                                           *)
SameHeader(u, r) ==
    /\ u.ht = r.ht /\ u.size = r.size /\ u.free = r.free /\ u.hand = r.hand
    /\ u.hits = r.hits /\ u.misses = r.misses /\ u.skips = r.skips

WithNext(r, s, x) == [r EXCEPT !.slots[s].next = x]
WithPrev(r, s, x) == [r EXCEPT !.slots[s].prev = x]
WithHead(r, x) == [r EXCEPT !.head = x]
WithTail(r, x) == [r EXCEPT !.tail = x]

(* u is r with another next, prev, head or tail.                           *)
NextSet(u, r, s, x) ==
    /\ u \in RegionType /\ SameHeader(u, r) /\ u.head = r.head /\ u.tail = r.tail
    /\ \A t \in Slots : /\ SameData(u.slots[t], r.slots[t])
                        /\ u.slots[t].next = IF t = s THEN x ELSE r.slots[t].next
                        /\ u.slots[t].prev = r.slots[t].prev
PrevSet(u, r, s, x) ==
    /\ u \in RegionType /\ SameHeader(u, r) /\ u.head = r.head /\ u.tail = r.tail
    /\ \A t \in Slots : /\ SameData(u.slots[t], r.slots[t])
                        /\ u.slots[t].prev = IF t = s THEN x ELSE r.slots[t].prev
                        /\ u.slots[t].next = r.slots[t].next
HeadSet(u, r, x) ==
    /\ u \in RegionType /\ SameHeader(u, r) /\ u.head = x /\ u.tail = r.tail
    /\ u.slots = r.slots
TailSet(u, r, x) ==
    /\ u \in RegionType /\ SameHeader(u, r) /\ u.tail = x /\ u.head = r.head
    /\ u.slots = r.slots

(* Storing a next link changes nothing else.                               *)
LEMMA SetNext ==
    ASSUME NEW r \in RegionType, NEW s \in Slots, NEW x \in Slots \cup {NONE}
    PROVE  NextSet(WithNext(r, s, x), r, s, x)
BY SMTT(60) DEF NextSet, WithNext, RegionType, SlotType, SameData, SameHeader

(* Storing a prev link changes nothing else.                               *)
LEMMA SetPrev ==
    ASSUME NEW r \in RegionType, NEW s \in Slots, NEW x \in Slots \cup {NONE}
    PROVE  PrevSet(WithPrev(r, s, x), r, s, x)
BY SMTT(60) DEF PrevSet, WithPrev, RegionType, SlotType, SameData, SameHeader

(* Storing the head changes nothing else.                                  *)
LEMMA SetHead ==
    ASSUME NEW r \in RegionType, NEW x \in Slots \cup {NONE}
    PROVE  HeadSet(WithHead(r, x), r, x)
BY DEF HeadSet, WithHead, RegionType, SameHeader

(* Storing the tail changes nothing else.                                  *)
LEMMA SetTail ==
    ASSUME NEW r \in RegionType, NEW x \in Slots \cup {NONE}
    PROVE  TailSet(WithTail(r, x), r, x)
BY DEF TailSet, WithTail, RegionType, SameHeader

(* What list_remove assigns, where p and n are the neighbours of s.        *)
Unlinked(u, r, s, p, n) ==
    /\ u \in RegionType
    /\ SameHeader(u, r)
    /\ u.head = IF p = NONE THEN n ELSE r.head
    /\ u.tail = IF n = NONE THEN p ELSE r.tail
    /\ \A t \in Slots :
        /\ SameData(u.slots[t], r.slots[t])
        /\ u.slots[t].next = IF t = s THEN NONE ELSE IF t = p THEN n ELSE r.slots[t].next
        /\ u.slots[t].prev = IF t = s THEN NONE ELSE IF t = n THEN p ELSE r.slots[t].prev

(* The fields after list_remove.                                           *)
LEMMA ListRemoveFields ==
    ASSUME NEW r \in RegionType, NEW s \in Slots,
           NEW p, p = r.slots[s].prev, NEW n, n = r.slots[s].next, p # s, n # s
    PROVE  Unlinked(list_remove(r, s), r, s, p, n)
<1> DEFINE r1 == IF p # NONE THEN WithNext(r, p, n) ELSE WithHead(r, n)
           r2 == IF n # NONE THEN WithPrev(r1, n, p) ELSE WithTail(r1, p)
           r3 == WithPrev(r2, s, NONE)
           u == WithNext(r3, s, NONE)
<1>1. list_remove(r, s) = u
  BY DEF list_remove, WithNext, WithPrev, WithHead, WithTail
<1>2. p \in Slots \cup {NONE} /\ n \in Slots \cup {NONE}
  BY RegionFields
<1>3. /\ r1 \in RegionType /\ SameHeader(r1, r)
      /\ r1.head = IF p = NONE THEN n ELSE r.head
      /\ r1.tail = r.tail
      /\ \A t \in Slots :
            /\ SameData(r1.slots[t], r.slots[t])
            /\ r1.slots[t].next = IF t = p THEN n ELSE r.slots[t].next
            /\ r1.slots[t].prev = r.slots[t].prev
  <2>1. CASE p # NONE
    <3>1. NextSet(r1, r, p, n)
      BY <1>2, <2>1, SetNext
    <3> HIDE DEF r1
    <3> QED BY <2>1, <3>1 DEF NextSet
  <2>2. CASE p = NONE
    <3>1. HeadSet(r1, r, n)
      BY <1>2, <2>2, SetHead
    <3> HIDE DEF r1
    <3> QED BY <2>2, <3>1, NoneIsNoSlot DEF HeadSet, SameData
  <2> QED BY <2>1, <2>2
<1> HIDE DEF r1
<1>4. /\ r2 \in RegionType /\ SameHeader(r2, r1)
      /\ r2.head = r1.head
      /\ r2.tail = IF n = NONE THEN p ELSE r1.tail
      /\ \A t \in Slots :
            /\ SameData(r2.slots[t], r1.slots[t])
            /\ r2.slots[t].next = r1.slots[t].next
            /\ r2.slots[t].prev = IF t = n THEN p ELSE r1.slots[t].prev
  <2>1. CASE n # NONE
    <3>1. PrevSet(r2, r1, n, p)
      BY <1>2, <1>3, <2>1, SetPrev
    <3> HIDE DEF r2
    <3> QED BY <2>1, <3>1 DEF PrevSet
  <2>2. CASE n = NONE
    <3>1. TailSet(r2, r1, p)
      BY <1>2, <1>3, <2>2, SetTail
    <3> HIDE DEF r2
    <3> QED BY <2>2, <3>1, NoneIsNoSlot DEF TailSet, SameData
  <2> QED BY <2>1, <2>2
<1> HIDE DEF r2
<1>5. PrevSet(r3, r2, s, NONE)
  BY <1>4, SetPrev
<1> HIDE DEF r3
<1>6. NextSet(u, r3, s, NONE)
  BY <1>5, SetNext DEF PrevSet
<1> HIDE DEF u
<1>7. \A t \in Slots :
         /\ SameData(u.slots[t], r.slots[t])
         /\ u.slots[t].next = IF t = s THEN NONE ELSE IF t = p THEN n ELSE r.slots[t].next
         /\ u.slots[t].prev = IF t = s THEN NONE ELSE IF t = n THEN p ELSE r.slots[t].prev
  BY <1>3, <1>4, <1>5, <1>6 DEF SameData, NextSet, PrevSet
<1>8. SameHeader(u, r)
  BY <1>3, <1>4, <1>5, <1>6 DEF SameHeader, NextSet, PrevSet
<1>9. /\ u.head = IF p = NONE THEN n ELSE r.head
      /\ u.tail = IF n = NONE THEN p ELSE r.tail
      /\ u \in RegionType
  BY <1>3, <1>4, <1>5, <1>6 DEF NextSet, PrevSet
<1> QED BY <1>1, <1>7, <1>8, <1>9 DEF Unlinked

(* What list_push_tail assigns, where p is the old tail.                   *)
Pushed(u, r, s, p) ==
    /\ u \in RegionType
    /\ SameHeader(u, r)
    /\ u.head = IF p = NONE THEN s ELSE r.head
    /\ u.tail = s
    /\ \A t \in Slots :
        /\ SameData(u.slots[t], r.slots[t])
        /\ u.slots[t].next = IF t = s THEN NONE ELSE IF t = p THEN s ELSE r.slots[t].next
        /\ u.slots[t].prev = IF t = s THEN p ELSE r.slots[t].prev

(* The fields after list_push_tail.                                        *)
LEMMA ListPushFields ==
    ASSUME NEW r \in RegionType, NEW s \in Slots, NEW p, p = r.tail, p # s
    PROVE  Pushed(list_push_tail(r, s), r, s, p)
<1> DEFINE r0 == WithPrev(r, s, p)
           r1 == WithNext(r0, s, NONE)
           r2 == IF p # NONE THEN WithNext(r1, p, s) ELSE WithHead(r1, s)
           u == WithTail(r2, s)
<1>1. list_push_tail(r, s) = u
  BY DEF list_push_tail, WithNext, WithPrev, WithHead, WithTail
<1>2. p \in Slots \cup {NONE}
  BY RegionFields
<1>3. PrevSet(r0, r, s, p)
  BY <1>2, SetPrev
<1> HIDE DEF r0
<1>4. NextSet(r1, r0, s, NONE)
  BY <1>3, SetNext DEF PrevSet
<1> HIDE DEF r1
<1>5. /\ r2 \in RegionType /\ SameHeader(r2, r1)
      /\ r2.head = IF p = NONE THEN s ELSE r1.head
      /\ \A t \in Slots :
            /\ SameData(r2.slots[t], r1.slots[t])
            /\ r2.slots[t].next = IF t = p THEN s ELSE r1.slots[t].next
            /\ r2.slots[t].prev = r1.slots[t].prev
  <2>0. r1 \in RegionType
    BY <1>4 DEF NextSet
  <2>1. CASE p # NONE
    <3>1. NextSet(r2, r1, p, s)
      BY <1>2, <2>0, <2>1, SetNext
    <3> HIDE DEF r2
    <3> QED BY <2>1, <3>1 DEF NextSet
  <2>2. CASE p = NONE
    <3>1. HeadSet(r2, r1, s)
      BY <2>0, <2>2, SetHead
    <3> HIDE DEF r2
    <3> QED BY <2>2, <3>1, NoneIsNoSlot DEF HeadSet, SameData
  <2> QED BY <2>1, <2>2
<1> HIDE DEF r2
<1>6. TailSet(u, r2, s)
  BY <1>5, SetTail
<1> HIDE DEF u
<1>7. \A t \in Slots :
         /\ SameData(u.slots[t], r.slots[t])
         /\ u.slots[t].next = IF t = s THEN NONE ELSE IF t = p THEN s ELSE r.slots[t].next
         /\ u.slots[t].prev = IF t = s THEN p ELSE r.slots[t].prev
  BY <1>3, <1>4, <1>5, <1>6 DEF SameData, NextSet, PrevSet, TailSet
<1>8. SameHeader(u, r)
  BY <1>3, <1>4, <1>5, <1>6 DEF SameHeader, NextSet, PrevSet, TailSet
<1>9. /\ u.head = IF p = NONE THEN s ELSE r.head
      /\ u.tail = s
      /\ u \in RegionType
  BY <1>3, <1>4, <1>5, <1>6 DEF NextSet, PrevSet, TailSet
<1> QED BY <1>1, <1>7, <1>8, <1>9 DEF Pushed

-------------------------------------------------------------------------------
(***************************************************************************)
(* The lists as enumerations of slots                                      *)
(***************************************************************************)

(* u is r with other links, and no other next outside O.                   *)
LinksOnly(u, r, O) ==
    /\ u \in RegionType
    /\ SameHeader(u, r)
    /\ \A t \in Slots : SameData(u.slots[t], r.slots[t])
    /\ \A t \in Slots \ O : u.slots[t].next = r.slots[t].next

(* The list is the same if its links and ends are.                         *)
LEMMA ListedFrame ==
    ASSUME NEW r, NEW u, NEW O \in SUBSET Slots, NEW n \in Nat, Listed(r, O, n),
           u.head = r.head, u.tail = r.tail,
           \A t \in O : u.slots[t].next = r.slots[t].next /\ u.slots[t].prev = r.slots[t].prev
    PROVE  Listed(u, O, n)
<1>1. PICK q \in [1 .. n -> Slots] : Enumerates(q, n, O) /\ ListOf(r, q, n)
  BY DEF Listed
<1>2. \A i \in 1 .. n : q[i] \in O
  BY <1>1 DEF Enumerates
<1>3. ListOf(u, q, n)
  BY <1>1, <1>2 DEF ListOf
<1> QED BY <1>1, <1>3 DEF Listed

(* The free list is the same if its links and its head are.                *)
LEMMA FreeFrame ==
    ASSUME NEW r, NEW u, NEW F \in SUBSET Slots, NEW n \in Nat, Free(r, F, n),
           u.free = r.free, \A t \in F : u.slots[t].next = r.slots[t].next
    PROVE  Free(u, F, n)
<1>1. PICK q \in [1 .. n -> Slots] : Enumerates(q, n, F) /\ FreeOf(r, q, n)
  BY DEF Free
<1>2. \A i \in 1 .. n : q[i] \in F
  BY <1>1 DEF Enumerates
<1>3. FreeOf(u, q, n)
  BY <1>1, <1>2 DEF FreeOf
<1> QED BY <1>1, <1>3 DEF Free

(* list_remove takes a slot out of the list.                               *)
LEMMA ListRemove ==
    ASSUME NEW r \in RegionType, NEW O \in SUBSET Slots, NEW n \in Nat, Listed(r, O, n),
           NEW s \in O
    PROVE  /\ n # 0
           /\ Listed(list_remove(r, s), O \ {s}, n - 1)
           /\ LinksOnly(list_remove(r, s), r, O)
<1>1. PICK q \in [1 .. n -> Slots] : Enumerates(q, n, O) /\ ListOf(r, q, n)
  BY DEF Listed
<1>2. PICK x \in 1 .. n : q[x] = s
  BY <1>1 DEF Enumerates
<1> DEFINE prev == IF x = 1 THEN NONE ELSE q[x - 1]
           next == IF x = n THEN NONE ELSE q[x + 1]
           u == list_remove(r, s)
           y == [i \in 1 .. n - 1 |-> IF i < x THEN q[i] ELSE q[i + 1]]
<1>3. prev = r.slots[s].prev /\ next = r.slots[s].next
  BY <1>1, <1>2 DEF ListOf
<1>4. prev # s /\ next # s
  <2>1. x # 1 => x - 1 \in 1 .. n /\ x - 1 # x
    OBVIOUS
  <2>2. x # n => x + 1 \in 1 .. n /\ x + 1 # x
    OBVIOUS
  <2> QED BY <1>1, <1>2, <2>1, <2>2, NoneIsNoSlot DEF Enumerates
<1> HIDE DEF prev, next
<1>5. Unlinked(u, r, s, prev, next)
  BY <1>3, <1>4, ListRemoveFields
<1> HIDE DEF u
<1>6. LinksOnly(u, r, O)
  <2>1. s \in O /\ (prev = NONE \/ prev \in O)
    <3>1. x # 1 => x - 1 \in 1 .. n
      OBVIOUS
    <3> QED BY <1>1, <1>2, <3>1 DEF Enumerates, prev
  <2>2. ASSUME NEW t \in Slots \ O PROVE u.slots[t].next = r.slots[t].next
    BY <1>5, <2>1, NoneIsNoSlot DEF Unlinked
  <2> QED BY <1>5, <2>2 DEF LinksOnly, Unlinked
<1>7. y \in [1 .. n - 1 -> Slots]
  OBVIOUS
<1>8. Enumerates(y, n - 1, O \ {s})
  <2>1. ASSUME NEW i \in 1 .. n - 1, NEW j \in 1 .. n - 1, y[i] = y[j] PROVE i = j
    BY <1>1, <2>1 DEF Enumerates
  <2>2. ASSUME NEW t \in O \ {s} PROVE \E i \in 1 .. n - 1 : y[i] = t
    <3>1. PICK i \in 1 .. n : q[i] = t
      BY <1>1 DEF Enumerates
    <3>2. i # x
      BY <1>2, <3>1
    <3>3. CASE i < x
      <4>1. i \in 1 .. n - 1
        BY <3>3
      <4> QED BY <3>1, <3>3, <4>1
    <3>4. CASE i > x
      <4>1. i - 1 \in 1 .. n - 1 /\ ~(i - 1 < x) /\ (i - 1) + 1 = i
        BY <3>4
      <4> QED BY <3>1, <4>1
    <3> QED BY <3>2, <3>3, <3>4
  <2>3. ASSUME NEW i \in 1 .. n - 1 PROVE y[i] \in O \ {s}
    <3>1. CASE i < x
      <4>1. i \in 1 .. n /\ i # x /\ y[i] = q[i]
        BY <3>1
      <4> HIDE DEF y
      <4> QED BY <1>1, <1>2, <4>1 DEF Enumerates
    <3>2. CASE ~(i < x)
      <4>1. i + 1 \in 1 .. n /\ i + 1 # x /\ y[i] = q[i + 1]
        BY <3>2
      <4> HIDE DEF y
      <4> QED BY <1>1, <1>2, <4>1 DEF Enumerates
    <3> QED BY <3>1, <3>2
  <2> HIDE DEF y
  <2> QED BY <2>1, <2>2, <2>3 DEF Enumerates
<1>9. ListOf(u, y, n - 1)
  <2>1. n - 1 = 0 => x = 1 /\ x = n
    OBVIOUS
  <2>2. u.head = IF n - 1 = 0 THEN NONE ELSE y[1]
    <3>1. CASE x = 1
      BY <1>5, <3>1 DEF Unlinked, prev, next
    <3>2. CASE x # 1
      <4>1. prev # NONE
        BY <3>2, NoneIsNoSlot DEF prev
      <4> QED BY <1>1, <1>5, <3>2, <4>1 DEF Unlinked, ListOf
    <3> QED BY <3>1, <3>2
  <2>3. u.tail = IF n - 1 = 0 THEN NONE ELSE y[n - 1]
    <3>1. CASE x = n
      BY <1>5, <3>1 DEF Unlinked, prev, next
    <3>2. CASE x # n
      <4>1. next # NONE
        BY <3>2, NoneIsNoSlot DEF next
      <4> QED BY <1>1, <1>5, <3>2, <4>1 DEF Unlinked, ListOf
    <3> QED BY <3>1, <3>2
  <2>4. ASSUME NEW i \in 1 .. n - 1
        PROVE  u.slots[y[i]].prev = IF i = 1 THEN NONE ELSE y[i - 1]
    <3>1. CASE i < x
      <4>1. /\ y[i] = q[i] /\ q[i] \in Slots /\ i \in 1 .. n /\ q[i] # s
            /\ i # 1 => y[i - 1] = q[i - 1]
        BY <1>1, <1>2, <3>1 DEF Enumerates
      <4>2. q[i] # next
        BY <1>1, <3>1, NoneIsNoSlot DEF Enumerates, next
      <4> HIDE DEF y
      <4> QED BY <1>1, <1>5, <4>1, <4>2 DEF Unlinked, ListOf
    <3>2. CASE i = x
      <4>1. /\ y[i] = q[i + 1] /\ y[i] = next /\ next \in Slots /\ next # s
            /\ i # 1 => y[i - 1] = q[i - 1] /\ prev = q[i - 1]
            /\ i = 1 => prev = NONE
        BY <1>1, <1>4, <3>2 DEF next, prev
      <4> HIDE DEF y
      <4> QED BY <1>1, <1>5, <4>1 DEF Unlinked
    <3>3. CASE i > x
      <4>1. /\ y[i] = q[i + 1] /\ q[i + 1] \in Slots /\ i + 1 \in 1 .. n /\ i + 1 # x /\ q[i + 1] # s
            /\ i # 1 /\ y[i - 1] = q[i]
        BY <1>1, <1>2, <3>3 DEF Enumerates
      <4>2. q[i + 1] # next
        BY <1>1, <3>3, NoneIsNoSlot DEF Enumerates, next
      <4> HIDE DEF y
      <4>3. r.slots[q[i + 1]].prev = q[i]
        BY <1>1, <4>1 DEF ListOf
      <4> QED BY <1>5, <4>1, <4>2, <4>3 DEF Unlinked
    <3> QED BY <3>1, <3>2, <3>3
  <2>5. ASSUME NEW i \in 1 .. n - 1
        PROVE  u.slots[y[i]].next = IF i = n - 1 THEN NONE ELSE y[i + 1]
    <3>1. CASE i + 1 < x
      <4>1. /\ y[i] = q[i] /\ q[i] \in Slots /\ i \in 1 .. n /\ i # n /\ q[i] # s
            /\ i # n - 1 /\ y[i + 1] = q[i + 1]
        BY <1>1, <1>2, <3>1 DEF Enumerates
      <4>2. q[i] # prev
        BY <1>1, <3>1, NoneIsNoSlot DEF Enumerates, prev
      <4> HIDE DEF y
      <4> QED BY <1>1, <1>5, <4>1, <4>2 DEF Unlinked, ListOf
    <3>2. CASE i + 1 = x
      <4>1. /\ y[i] = q[i] /\ y[i] = prev /\ prev \in Slots /\ prev # s
            /\ i # n - 1 => y[i + 1] = q[x + 1] /\ next = q[x + 1]
            /\ i = n - 1 => next = NONE
        BY <1>1, <1>4, <3>2 DEF next, prev
      <4> HIDE DEF y
      <4> QED BY <1>1, <1>5, <4>1 DEF Unlinked
    <3>3. CASE i >= x
      <4>1. /\ y[i] = q[i + 1] /\ q[i + 1] \in Slots /\ i + 1 \in 1 .. n /\ i + 1 # x /\ q[i + 1] # s
            /\ i # n - 1 => y[i + 1] = q[i + 2]
            /\ i = n - 1 <=> i + 1 = n
        BY <1>1, <1>2, <3>3 DEF Enumerates
      <4>2. q[i + 1] # prev
        BY <1>1, <3>3, NoneIsNoSlot DEF Enumerates, prev
      <4> HIDE DEF y
      <4>3. r.slots[q[i + 1]].next = IF i + 1 = n THEN NONE ELSE q[i + 2]
        BY <1>1, <4>1 DEF ListOf
      <4> QED BY <1>5, <4>1, <4>2, <4>3 DEF Unlinked
    <3> QED BY <3>1, <3>2, <3>3
  <2> HIDE DEF y
  <2> QED BY <2>2, <2>3, <2>4, <2>5 DEF ListOf
<1> HIDE DEF y
<1>10. Listed(u, O \ {s}, n - 1)
  BY <1>7, <1>8, <1>9 DEF Listed
<1> QED BY <1>6, <1>10 DEF u

(* list_push_tail puts a slot at the end of the list.                      *)
LEMMA ListPush ==
    ASSUME NEW r \in RegionType, NEW O \in SUBSET Slots, NEW n \in Nat, Listed(r, O, n),
           NEW s \in Slots \ O
    PROVE  /\ Listed(list_push_tail(r, s), O \cup {s}, n + 1)
           /\ LinksOnly(list_push_tail(r, s), r, O \cup {s})
<1>1. PICK q \in [1 .. n -> Slots] : Enumerates(q, n, O) /\ ListOf(r, q, n)
  BY DEF Listed
<1> DEFINE prev == IF n = 0 THEN NONE ELSE q[n]
           u == list_push_tail(r, s)
           y == [i \in 1 .. n + 1 |-> IF i = n + 1 THEN s ELSE q[i]]
<1>2. prev = r.tail
  BY <1>1 DEF ListOf
<1>3. \A i \in 1 .. n : q[i] \in O /\ q[i] # s
  BY <1>1 DEF Enumerates
<1>4. prev # s /\ (prev = NONE \/ prev \in O)
  BY <1>3, NoneIsNoSlot
<1> HIDE DEF prev
<1>5. Pushed(u, r, s, prev)
  BY <1>2, <1>4, ListPushFields
<1> HIDE DEF u
<1>6. LinksOnly(u, r, O \cup {s})
  <2>1. ASSUME NEW t \in Slots \ (O \cup {s}) PROVE u.slots[t].next = r.slots[t].next
    BY <1>4, <1>5, NoneIsNoSlot DEF Pushed
  <2> QED BY <1>5, <2>1 DEF LinksOnly, Pushed
<1>7. y \in [1 .. n + 1 -> Slots]
  OBVIOUS
<1>8. /\ y[n + 1] = s
      /\ \A i \in 1 .. n : y[i] = q[i]
      /\ \A i \in 1 .. n + 1 : i # n + 1 => i \in 1 .. n
      /\ n + 1 \in 1 .. n + 1
  OBVIOUS
<1> HIDE DEF y
<1>9. Enumerates(y, n + 1, O \cup {s})
  <2>1. ASSUME NEW i \in 1 .. n + 1, NEW j \in 1 .. n + 1, y[i] = y[j] PROVE i = j
    BY <1>1, <1>3, <1>8, <2>1 DEF Enumerates
  <2>2. ASSUME NEW t \in O \cup {s} PROVE \E i \in 1 .. n + 1 : y[i] = t
    <3>1. CASE t = s
      BY <1>8, <3>1
    <3>2. CASE t \in O
      <4>1. PICK i \in 1 .. n : q[i] = t
        BY <1>1, <3>2 DEF Enumerates
      <4>2. i \in 1 .. n + 1
        OBVIOUS
      <4> QED BY <1>8, <4>1, <4>2
    <3> QED BY <3>1, <3>2
  <2>3. ASSUME NEW i \in 1 .. n + 1 PROVE y[i] \in O \cup {s}
    BY <1>3, <1>8
  <2> QED BY <2>1, <2>2, <2>3 DEF Enumerates
<1>10. ListOf(u, y, n + 1)
  <2>1. u.head = y[1] /\ u.tail = y[n + 1]
    <3>1. CASE n = 0
      BY <1>5, <1>8, <3>1 DEF Pushed, prev
    <3>2. CASE n # 0
      <4>1. prev # NONE /\ 1 \in 1 .. n
        BY <3>2, NoneIsNoSlot DEF prev
      <4> QED BY <1>1, <1>5, <1>8, <3>2, <4>1 DEF Pushed, ListOf
    <3> QED BY <3>1, <3>2
  <2>2. ASSUME NEW i \in 1 .. n + 1
        PROVE  u.slots[y[i]].prev = IF i = 1 THEN NONE ELSE y[i - 1]
    <3>1. CASE i = n + 1
      <4>1. prev = IF i = 1 THEN NONE ELSE y[i - 1]
        BY <1>8, <3>1 DEF prev
      <4> QED BY <1>5, <1>8, <3>1, <4>1 DEF Pushed
    <3>2. CASE i # n + 1
      <4>1. i \in 1 .. n /\ y[i] = q[i] /\ (i # 1 => i - 1 \in 1 .. n)
        BY <1>8, <3>2
      <4>2. r.slots[q[i]].prev = IF i = 1 THEN NONE ELSE y[i - 1]
        BY <1>1, <1>8, <4>1 DEF ListOf
      <4> QED BY <1>3, <1>5, <4>1, <4>2 DEF Pushed
    <3> QED BY <3>1, <3>2
  <2>3. ASSUME NEW i \in 1 .. n + 1
        PROVE  u.slots[y[i]].next = IF i = n + 1 THEN NONE ELSE y[i + 1]
    <3>1. CASE i = n + 1
      BY <1>5, <1>8, <3>1 DEF Pushed
    <3>2. CASE i = n
      <4>1. i \in 1 .. n /\ y[i] = q[i] /\ y[i + 1] = s /\ q[i] = prev
        BY <1>8, <3>2 DEF prev
      <4> QED BY <1>3, <1>5, <3>2, <4>1 DEF Pushed
    <3>3. CASE i # n + 1 /\ i # n
      <4>1. i \in 1 .. n /\ i + 1 \in 1 .. n /\ y[i] = q[i] /\ y[i + 1] = q[i + 1]
        BY <1>8, <3>3
      <4>2. q[i] # prev
        BY <1>1, <3>3, <4>1, NoneIsNoSlot DEF Enumerates, prev
      <4>3. r.slots[q[i]].next = q[i + 1]
        BY <1>1, <3>3, <4>1 DEF ListOf
      <4> QED BY <1>3, <1>5, <3>3, <4>1, <4>2, <4>3 DEF Pushed
    <3> QED BY <3>1, <3>2, <3>3
  <2>4. n + 1 # 0
    OBVIOUS
  <2> QED BY <2>1, <2>2, <2>3, <2>4 DEF ListOf
<1>11. Listed(u, O \cup {s}, n + 1)
  BY <1>7, <1>9, <1>10 DEF Listed
<1> QED BY <1>6, <1>11 DEF u

(* The first slot of the free list is taken.                               *)
LEMMA FreePop ==
    ASSUME NEW r, NEW u, NEW F \in SUBSET Slots, NEW n \in Nat, Free(r, F, n),
           NEW s, s = r.free, s # NONE, u.free = r.slots[s].next,
           \A t \in F : u.slots[t].next = r.slots[t].next
    PROVE  s \in F /\ n # 0 /\ Free(u, F \ {s}, n - 1)
<1>1. PICK q \in [1 .. n -> Slots] : Enumerates(q, n, F) /\ FreeOf(r, q, n)
  BY DEF Free
<1>2. n # 0 /\ s = q[1] /\ 1 \in 1 .. n
  BY <1>1 DEF FreeOf
<1>3. s \in F
  BY <1>1, <1>2 DEF Enumerates
<1> DEFINE y == [i \in 1 .. n - 1 |-> q[i + 1]]
<1>4. y \in [1 .. n - 1 -> Slots]
  OBVIOUS
<1>5. \A i \in 1 .. n - 1 : y[i] = q[i + 1] /\ i + 1 \in 1 .. n /\ i + 1 # 1
  OBVIOUS
<1>6. \A i \in 1 .. n : i # 1 => i - 1 \in 1 .. n - 1 /\ (i - 1) + 1 = i
  OBVIOUS
<1> HIDE DEF y
<1>7. Enumerates(y, n - 1, F \ {s})
  <2>1. ASSUME NEW i \in 1 .. n - 1, NEW j \in 1 .. n - 1, y[i] = y[j] PROVE i = j
    <3>1. i + 1 = j + 1
      BY <1>1, <1>5, <2>1 DEF Enumerates
    <3> QED BY <3>1
  <2>2. ASSUME NEW t \in F \ {s} PROVE \E i \in 1 .. n - 1 : y[i] = t
    <3>1. PICK i \in 1 .. n : q[i] = t
      BY <1>1 DEF Enumerates
    <3>2. i # 1
      BY <1>2, <3>1
    <3> QED BY <1>5, <1>6, <3>1, <3>2
  <2>3. ASSUME NEW i \in 1 .. n - 1 PROVE y[i] \in F \ {s}
    BY <1>1, <1>2, <1>5 DEF Enumerates
  <2> QED BY <2>1, <2>2, <2>3 DEF Enumerates
<1>8. FreeOf(u, y, n - 1)
  <2>1. u.free = IF n - 1 = 0 THEN NONE ELSE y[1]
    <3>1. u.free = IF 1 = n THEN NONE ELSE q[2]
      BY <1>1, <1>2 DEF FreeOf
    <3> QED BY <1>2, <1>5, <3>1
  <2>2. ASSUME NEW i \in 1 .. n - 1
        PROVE  u.slots[y[i]].next = IF i = n - 1 THEN NONE ELSE y[i + 1]
    <3>1. r.slots[q[i + 1]].next = IF i + 1 = n THEN NONE ELSE q[(i + 1) + 1]
      BY <1>1, <1>5 DEF FreeOf
    <3>2. y[i] \in F
      BY <1>4, <1>7 DEF Enumerates
    <3>3. i # n - 1 => i + 1 \in 1 .. n - 1
      OBVIOUS
    <3>4. i = n - 1 <=> i + 1 = n
      OBVIOUS
    <3> QED BY <1>5, <3>1, <3>2, <3>3, <3>4
  <2> QED BY <2>1, <2>2 DEF FreeOf
<1> QED BY <1>2, <1>3, <1>4, <1>7, <1>8 DEF Free

(* A slot is put in front of the free list.                                *)
LEMMA FreePush ==
    ASSUME NEW r, NEW u, NEW F \in SUBSET Slots, NEW n \in Nat, Free(r, F, n),
           NEW s \in Slots \ F, u.free = s, u.slots[s].next = r.free,
           \A t \in F : u.slots[t].next = r.slots[t].next
    PROVE  Free(u, F \cup {s}, n + 1)
<1>1. PICK q \in [1 .. n -> Slots] : Enumerates(q, n, F) /\ FreeOf(r, q, n)
  BY DEF Free
<1>2. \A i \in 1 .. n : q[i] \in F /\ q[i] # s
  BY <1>1 DEF Enumerates
<1> DEFINE y == [i \in 1 .. n + 1 |-> IF i = 1 THEN s ELSE q[i - 1]]
<1>3. y \in [1 .. n + 1 -> Slots]
  OBVIOUS
<1>4. /\ y[1] = s /\ 1 \in 1 .. n + 1
      /\ \A i \in 1 .. n + 1 : i # 1 => y[i] = q[i - 1] /\ i - 1 \in 1 .. n
      /\ \A i \in 1 .. n : i + 1 \in 1 .. n + 1 /\ y[i + 1] = q[i]
  OBVIOUS
<1> HIDE DEF y
<1>5. Enumerates(y, n + 1, F \cup {s})
  <2>1. ASSUME NEW i \in 1 .. n + 1, NEW j \in 1 .. n + 1, y[i] = y[j] PROVE i = j
    <3>1. CASE i = 1 \/ j = 1
      BY <1>2, <1>4, <2>1, <3>1
    <3>2. CASE i # 1 /\ j # 1
      <4>1. i - 1 = j - 1
        BY <1>1, <1>4, <2>1, <3>2 DEF Enumerates
      <4> QED BY <4>1
    <3> QED BY <3>1, <3>2
  <2>2. ASSUME NEW t \in F \cup {s} PROVE \E i \in 1 .. n + 1 : y[i] = t
    BY <1>1, <1>4 DEF Enumerates
  <2>3. ASSUME NEW i \in 1 .. n + 1 PROVE y[i] \in F \cup {s}
    BY <1>2, <1>4
  <2> QED BY <2>1, <2>2, <2>3 DEF Enumerates
<1>6. FreeOf(u, y, n + 1)
  <2>1. ASSUME NEW i \in 1 .. n + 1
        PROVE  u.slots[y[i]].next = IF i = n + 1 THEN NONE ELSE y[i + 1]
    <3>1. CASE i = 1
      <4>1. u.slots[y[i]].next = IF n = 0 THEN NONE ELSE q[1]
        BY <1>1, <1>4, <3>1 DEF FreeOf
      <4>2. n # 0 => y[i + 1] = q[1]
        BY <1>4, <3>1
      <4> QED BY <3>1, <4>1, <4>2
    <3>2. CASE i # 1
      <4>1. r.slots[q[i - 1]].next = IF i - 1 = n THEN NONE ELSE q[(i - 1) + 1]
        BY <1>1, <1>4, <3>2 DEF FreeOf
      <4>2. i # n + 1 => y[i + 1] = q[i]
        BY <1>4, <3>2
      <4>3. (i - 1) + 1 = i /\ (i - 1 = n <=> i = n + 1)
        OBVIOUS
      <4> QED BY <1>2, <1>4, <3>2, <4>1, <4>2, <4>3
    <3> QED BY <3>1, <3>2
  <2>2. n + 1 # 0
    OBVIOUS
  <2> QED BY <1>4, <2>1, <2>2 DEF FreeOf
<1> QED BY <1>3, <1>5, <1>6 DEF Free

-------------------------------------------------------------------------------
(***************************************************************************)
(* The table of a set of slots                                             *)
(***************************************************************************)

Occ(r) == {s \in Slots : r.slots[s].occupied}

(* The table has a bucket for every slot of O, with its hash, and no other. *)
InTable(r, O) ==
    /\ TableOK(r.ht)
    /\ \A b \in Buckets : ~IsEmpty(r.ht, b) =>
          r.ht[b].slot \in O /\ r.slots[r.ht[b].slot].hash = r.ht[b].hash
    /\ \A s \in O : \E b \in Buckets : r.ht[b].slot = s

(* A key is cached once.                                                   *)
KeysOnce(r) == \A s, t \in Occ(r) : r.slots[s].key = r.slots[t].key => s = t

(* A table of exactly the occupied slots matches them, as no key is in     *)
(* two.                                                                    *)
LEMMA TableOfOccupied ==
    ASSUME NEW r, InTable(r, Occ(r)), KeysOnce(r)
    PROVE  TableMatchesSlots(r)
BY DEF InTable, KeysOnce, Occ, TableMatchesSlots

(* u is r with another table.                                              *)
TableOnly(u, r) ==
    /\ u \in RegionType
    /\ u.slots = r.slots /\ u.size = r.size /\ u.free = r.free /\ u.hand = r.hand
    /\ u.head = r.head /\ u.tail = r.tail
    /\ u.hits = r.hits /\ u.misses = r.misses /\ u.skips = r.skips

(* Storing the table changes nothing else.                                 *)
LEMMA SetTable ==
    ASSUME NEW r \in RegionType, NEW ht \in TableType, NEW u, u = WithTable(r, ht)
    PROVE  TableOnly(u, r) /\ u.ht = ht
BY DEF TableOnly, WithTable, RegionType, TableType

(* A bucket in use has a slot.                                             *)
LEMMA BucketInUse ==
    ASSUME NEW ht, TableOK(ht), NEW b \in Buckets
    PROVE  /\ ht[b].slot \in Slots <=> ~IsEmpty(ht, b)
           /\ ht[b].slot \in Slots \cup {NONE}
BY NoneIsNoSlot DEF TableOK, TableType, IsEmpty

(* ht_remove of the key of slot s takes s out of the table.                *)
LEMMA TableRemove ==
    ASSUME NEW r \in RegionType, InTable(r, Occ(r)), KeysOnce(r), NEW s \in Occ(r)
    PROVE  LET u == ht_remove(r, r.slots[s].hash, r.slots[s].key) IN
           TableOnly(u, r) /\ InTable(u, Occ(r) \ {s})
<1> DEFINE u == ht_remove(r, r.slots[s].hash, r.slots[s].key)
           O == Occ(r)
<1>1. s \in Slots /\ r.slots[s].occupied
  BY DEF Occ
<1>2. PICK ht : /\ u = WithTable(r, ht)
                /\ TableOK(ht)
                /\ \A b \in Buckets : ~IsEmpty(ht, b) =>
                      \E c \in Buckets : r.ht[c] = ht[b] /\ r.ht[c].slot # s
                /\ \A c \in Buckets : ~IsEmpty(r.ht, c) /\ r.ht[c].slot # s =>
                      \E b \in Buckets : ht[b] = r.ht[c]
  <2>1. TableMatchesSlots(r)
    BY TableOfOccupied
  <2> HIDE DEF u
  <2> QED BY <1>1, <2>1, RemoveTakesTheBucket DEF u
<1> HIDE DEF u
<1>3. TableOnly(u, r) /\ u.ht = ht
  BY <1>2, SetTable DEF TableOK
<1>4. ASSUME NEW b \in Buckets, ~IsEmpty(ht, b)
      PROVE  ht[b].slot \in O \ {s} /\ r.slots[ht[b].slot].hash = ht[b].hash
  <2>1. PICK c \in Buckets : r.ht[c] = ht[b] /\ r.ht[c].slot # s
    BY <1>2, <1>4
  <2>2. ~IsEmpty(r.ht, c)
    BY <1>4, <2>1 DEF IsEmpty
  <2> QED BY <2>1, <2>2 DEF InTable
<1>5. ASSUME NEW t \in O \ {s} PROVE \E b \in Buckets : ht[b].slot = t
  <2>1. PICK c \in Buckets : r.ht[c].slot = t
    BY DEF InTable
  <2>2. ~IsEmpty(r.ht, c)
    BY <2>1, NoneIsNoSlot DEF IsEmpty, Occ
  <2> QED BY <1>2, <2>1, <2>2
<1>6. InTable(u, O \ {s})
  BY <1>2, <1>3, <1>4, <1>5 DEF InTable, TableOnly
<1> QED BY <1>3, <1>6 DEF u

(* ht_insert puts slot s into the table.                                   *)
LEMMA TableInsert ==
    ASSUME NEW r \in RegionType, NEW O \in SUBSET Slots, InTable(r, O),
           NEW s \in Slots \ O, NEW h \in Nat, r.slots[s].hash = h
    PROVE  LET u == ht_insert(r, h, s) IN
           TableOnly(u, r) /\ InTable(u, O \cup {s})
<1> DEFINE u == ht_insert(r, h, s)
           e == [hash |-> h, slot |-> s]
<1>1. TableOK(r.ht) /\ \A b \in Buckets : r.ht[b].slot # s
  <2>1. ASSUME NEW b \in Buckets, r.ht[b].slot = s PROVE FALSE
    BY <2>1, BucketInUse DEF InTable
  <2> QED BY <2>1 DEF InTable
<1>2. PICK b \in Buckets : LET ht == [r.ht EXCEPT ![b] = e] IN
               IsEmpty(r.ht, b) /\ TableOK(ht) /\ u = WithTable(r, ht)
  BY <1>1, InsertAddsABucket
<1> DEFINE ht == [r.ht EXCEPT ![b] = e]
<1>3. ht[b] = e /\ \A c \in Buckets : c # b => ht[c] = r.ht[c]
  BY <1>1 DEF TableOK, TableType
<1> HIDE DEF u
<1>4. TableOK(ht) /\ u = WithTable(r, ht)
  BY <1>2
<1> HIDE DEF ht
<1>5. TableOnly(u, r) /\ u.ht = ht
  BY <1>4, SetTable DEF TableOK
<1>6. ASSUME NEW c \in Buckets, ~IsEmpty(ht, c)
      PROVE  ht[c].slot \in O \cup {s} /\ r.slots[ht[c].slot].hash = ht[c].hash
  BY <1>3, <1>6 DEF InTable, IsEmpty
<1>7. ASSUME NEW t \in O \cup {s} PROVE \E c \in Buckets : ht[c].slot = t
  <2>1. CASE t = s
    BY <1>3, <2>1
  <2>2. CASE t \in O
    <3>1. PICK c \in Buckets : r.ht[c].slot = t
      BY <2>2 DEF InTable
    <3>2. c # b
      BY <1>2, <2>2, <3>1, NoneIsNoSlot DEF IsEmpty
    <3> QED BY <1>3, <3>1, <3>2
  <2> QED BY <2>1, <2>2
<1>8. InTable(u, O \cup {s})
  BY <1>4, <1>5, <1>6, <1>7 DEF InTable, TableOnly
<1> QED BY <1>5, <1>8 DEF u

(* The table indexes the same slots if their hashes are the same.          *)
LEMMA InTableFrame ==
    ASSUME NEW r, NEW u, NEW O, InTable(r, O), u.ht = r.ht,
           \A t \in O : u.slots[t].hash = r.slots[t].hash
    PROVE  InTable(u, O)
BY DEF InTable

-------------------------------------------------------------------------------
(***************************************************************************)
(* Slots enter and leave the cache                                         *)
(***************************************************************************)

(* The n slots of O are in the table and in the eviction list, the m slots *)
(* of F are in the free list.                                              *)
Parts(r, O, n, F, m) ==
    /\ r \in RegionType
    /\ O \in SUBSET Slots /\ F \in SUBSET Slots /\ O \cap F = {}
    /\ n \in Nat /\ m \in Nat
    /\ InTable(r, O)
    /\ Listed(r, O, n)
    /\ Free(r, F, m)

(* u and r differ in table, links, head and tail alone.                    *)
SameCounters(u, r) ==
    /\ u.size = r.size /\ u.free = r.free /\ u.hand = r.hand
    /\ u.hits = r.hits /\ u.misses = r.misses /\ u.skips = r.skips

(* Slot s leaves table and list, as in remove_slot and in sieve_evict.     *)
Detach(r, s, k) == list_remove(ht_remove(r, r.slots[s].hash, k), s)

(* A slot leaves the table and the list; free list and data stay.          *)
LEMMA Detaching ==
    ASSUME NEW r, NEW n, NEW F, NEW m, Parts(r, Occ(r), n, F, m), KeysOnce(r),
           NEW s \in Occ(r), NEW k, k = r.slots[s].key, NEW u, u = Detach(r, s, k)
    PROVE  /\ Parts(u, Occ(r) \ {s}, n - 1, F, m)
           /\ SameCounters(u, r)
           /\ \A t \in Slots : SameData(u.slots[t], r.slots[t])
<1> DEFINE O == Occ(r)
           r1 == ht_remove(r, r.slots[s].hash, k)
<1>1. /\ r \in RegionType /\ O \in SUBSET Slots /\ F \in SUBSET Slots /\ O \cap F = {}
      /\ n \in Nat /\ m \in Nat /\ InTable(r, O) /\ Listed(r, O, n) /\ Free(r, F, m)
  BY DEF Parts
<1>2. TableOnly(r1, r) /\ InTable(r1, O \ {s})
  BY <1>1, TableRemove
<1> HIDE DEF r1, O
<1>3. Listed(r1, O, n)
  BY <1>1, <1>2, ListedFrame DEF TableOnly
<1>4. Free(r1, F, m)
  BY <1>1, <1>2, FreeFrame DEF TableOnly
<1>5. n # 0 /\ Listed(u, O \ {s}, n - 1) /\ LinksOnly(u, r1, O)
  <2>1. r1 \in RegionType /\ u = list_remove(r1, s) /\ s \in O
    BY <1>2 DEF TableOnly, Detach, r1, O
  <2> QED BY <1>1, <1>3, <2>1, ListRemove
<1>6. Free(u, F, m)
  <2>1. u.free = r1.free
    BY <1>5 DEF LinksOnly, SameHeader
  <2>2. ASSUME NEW t \in F PROVE u.slots[t].next = r1.slots[t].next
    BY <1>1, <1>5 DEF LinksOnly
  <2> QED BY <1>1, <1>4, <2>1, <2>2, FreeFrame
<1>7. InTable(u, O \ {s})
  <2>1. u.ht = r1.ht
    BY <1>5 DEF LinksOnly, SameHeader
  <2>2. ASSUME NEW t \in O \ {s} PROVE u.slots[t].hash = r1.slots[t].hash
    BY <1>1, <1>5 DEF LinksOnly, SameData
  <2> QED BY <1>2, <2>1, <2>2, InTableFrame
<1>8. u \in RegionType /\ n - 1 \in Nat
  BY <1>1, <1>5 DEF LinksOnly
<1>9. SameCounters(u, r) /\ \A t \in Slots : SameData(u.slots[t], r.slots[t])
  BY <1>2, <1>5 DEF LinksOnly, SameHeader, TableOnly, SameCounters
<1>10. O \ {s} \in SUBSET Slots /\ (O \ {s}) \cap F = {}
  BY <1>1
<1> QED BY <1>1, <1>5, <1>6, <1>7, <1>8, <1>9, <1>10 DEF Parts, O

(* Slot s takes an entry and enters table and list, as in insert_inner.    *)
WithSlot(r, s, e) == [r EXCEPT !.slots[s] = e]
Attach(r, s, e) == list_push_tail(ht_insert(WithSlot(r, s, e), e.hash, s), s)

(* Storing a slot changes no other.                                        *)
LEMMA SetSlot ==
    ASSUME NEW r \in RegionType, NEW s \in Slots, NEW e \in SlotType
    PROVE  LET u == WithSlot(r, s, e) IN
           /\ u \in RegionType /\ SameHeader(u, r) /\ u.head = r.head /\ u.tail = r.tail
           /\ u.slots[s] = e
           /\ \A t \in Slots : t # s => u.slots[t] = r.slots[t]
BY DEF WithSlot, RegionType, SameHeader

Attached(u, r, O, n, F, m, s, e) ==
    /\ Parts(u, O \cup {s}, n + 1, F, m)
    /\ SameCounters(u, r)
    /\ SameData(u.slots[s], e)
    /\ \A t \in Slots : t # s => SameData(u.slots[t], r.slots[t])

(* A slot enters the table and the list; the others keep their places.     *)
LEMMA Attaching ==
    ASSUME NEW r, NEW O, NEW n, NEW F, NEW m, Parts(r, O, n, F, m),
           NEW s \in Slots, s \notin O, s \notin F, NEW e \in SlotType
    PROVE  Attached(Attach(r, s, e), r, O, n, F, m, s, e)
<1> DEFINE u == Attach(r, s, e)
           r1 == WithSlot(r, s, e)
           r2 == ht_insert(r1, e.hash, s)
<1>1. /\ r \in RegionType /\ O \in SUBSET Slots /\ F \in SUBSET Slots /\ O \cap F = {}
      /\ n \in Nat /\ m \in Nat /\ InTable(r, O) /\ Listed(r, O, n) /\ Free(r, F, m)
  BY DEF Parts
<1>2. /\ r1 \in RegionType /\ SameHeader(r1, r) /\ r1.head = r.head /\ r1.tail = r.tail
      /\ r1.slots[s] = e
      /\ \A t \in Slots : t # s => r1.slots[t] = r.slots[t]
  BY <1>1, SetSlot
<1> HIDE DEF r1
<1>3. InTable(r1, O) /\ Listed(r1, O, n) /\ Free(r1, F, m)
  <2>1. InTable(r1, O)
    <3>1. r1.ht = r.ht /\ \A t \in O : r1.slots[t].hash = r.slots[t].hash
      BY <1>1, <1>2 DEF SameHeader
    <3> QED BY <1>1, <3>1, InTableFrame
  <2>2. Listed(r1, O, n)
    <3>1. \A t \in O : r1.slots[t].next = r.slots[t].next /\ r1.slots[t].prev = r.slots[t].prev
      BY <1>1, <1>2
    <3> QED BY <1>1, <1>2, <3>1, ListedFrame
  <2>3. Free(r1, F, m)
    <3>1. r1.free = r.free /\ \A t \in F : r1.slots[t].next = r.slots[t].next
      BY <1>1, <1>2 DEF SameHeader
    <3> QED BY <1>1, <3>1, FreeFrame
  <2> QED BY <2>1, <2>2, <2>3
<1>4. TableOnly(r2, r1) /\ InTable(r2, O \cup {s})
  <2>1. e.hash \in Nat /\ r1.slots[s].hash = e.hash
    BY <1>2 DEF SlotType
  <2>2. s \in Slots \ O
    OBVIOUS
  <2> QED BY <1>1, <1>2, <1>3, <2>1, <2>2, TableInsert
<1> HIDE DEF r2
<1>5. Listed(r2, O, n)
  BY <1>1, <1>3, <1>4, ListedFrame DEF TableOnly
<1>6. Free(r2, F, m)
  BY <1>1, <1>3, <1>4, FreeFrame DEF TableOnly
<1>7. Listed(u, O \cup {s}, n + 1) /\ LinksOnly(u, r2, O \cup {s})
  <2>1. r2 \in RegionType /\ u = list_push_tail(r2, s) /\ s \in Slots \ O
    BY <1>4 DEF TableOnly, Attach, r1, r2
  <2> HIDE DEF u
  <2> QED BY <1>1, <1>5, <2>1, ListPush
<1> HIDE DEF u
<1>8. Free(u, F, m)
  <2>1. u.free = r2.free
    BY <1>7 DEF LinksOnly, SameHeader
  <2>2. ASSUME NEW t \in F PROVE u.slots[t].next = r2.slots[t].next
    BY <1>1, <1>7 DEF LinksOnly
  <2> QED BY <1>1, <1>6, <2>1, <2>2, FreeFrame
<1>9. InTable(u, O \cup {s})
  <2>1. u.ht = r2.ht
    BY <1>7 DEF LinksOnly, SameHeader
  <2>2. ASSUME NEW t \in O \cup {s} PROVE u.slots[t].hash = r2.slots[t].hash
    BY <1>1, <1>7 DEF LinksOnly, SameData
  <2> QED BY <1>4, <2>1, <2>2, InTableFrame
<1>10. u \in RegionType /\ n + 1 \in Nat
  BY <1>1, <1>7 DEF LinksOnly
<1>11. SameCounters(u, r)
  BY <1>2, <1>4, <1>7 DEF LinksOnly, SameHeader, TableOnly, SameCounters
<1>12. SameData(u.slots[s], e) /\ \A t \in Slots : t # s => SameData(u.slots[t], r.slots[t])
  <2>1. \A t \in Slots : SameData(u.slots[t], r1.slots[t])
    BY <1>4, <1>7 DEF LinksOnly, TableOnly
  <2> QED BY <1>2, <2>1
<1>13. O \cup {s} \in SUBSET Slots /\ (O \cup {s}) \cap F = {}
  BY <1>1
<1>14. Parts(u, O \cup {s}, n + 1, F, m)
  BY <1>1, <1>7, <1>8, <1>9, <1>10, <1>13 DEF Parts
<1> QED BY <1>11, <1>12, <1>14 DEF Attached, u

(* What holds of the region whenever the lock is free, and during a scan:  *)
(* every slot is in the cache or in the free list, and size counts.        *)
RegionOK(r, hf) ==
    /\ Parts(r, Occ(r), r.size, Slots \ Occ(r), Capacity - r.size)
    /\ KeysOnce(r)
    /\ \A s \in Occ(r) : /\ r.slots[s].key \in Keys /\ r.slots[s].val \in Values
                         /\ r.slots[s].hash = hf[r.slots[s].key]

(* Table, list and free list are unharmed by stores elsewhere.             *)
LEMMA PartsFrame ==
    ASSUME NEW r, NEW O, NEW n, NEW F, NEW m, Parts(r, O, n, F, m), NEW u \in RegionType,
           u.ht = r.ht, u.head = r.head, u.tail = r.tail, u.free = r.free,
           \A t \in Slots : /\ u.slots[t].hash = r.slots[t].hash
                            /\ u.slots[t].next = r.slots[t].next
                            /\ u.slots[t].prev = r.slots[t].prev
    PROVE  Parts(u, O, n, F, m)
<1>1. /\ r \in RegionType /\ O \in SUBSET Slots /\ F \in SUBSET Slots /\ O \cap F = {}
      /\ n \in Nat /\ m \in Nat /\ InTable(r, O) /\ Listed(r, O, n) /\ Free(r, F, m)
  BY DEF Parts
<1>2. InTable(u, O)
  <2>1. \A t \in O : u.slots[t].hash = r.slots[t].hash
    BY <1>1
  <2> QED BY <1>1, <2>1, InTableFrame
<1>3. Listed(u, O, n)
  <2>1. \A t \in O : u.slots[t].next = r.slots[t].next /\ u.slots[t].prev = r.slots[t].prev
    BY <1>1
  <2> QED BY <1>1, <2>1, ListedFrame
<1>4. Free(u, F, m)
  <2>1. \A t \in F : u.slots[t].next = r.slots[t].next
    BY <1>1
  <2> QED BY <1>1, <2>1, FreeFrame
<1> QED BY <1>1, <1>2, <1>3, <1>4 DEF Parts

(* remove_slot: the slot of a cached key becomes the first free one.       *)
WithFree(r, s) ==
    [r EXCEPT !.slots[s].occupied = FALSE, !.slots[s].next = r.free,
              !.slots[s].prev = NONE, !.free = s, !.size = @ - 1]

(* The slot goes to the head of the free list, and the size falls by one.  *)
LEMMA SetFree ==
    ASSUME NEW r \in RegionType, NEW s \in Slots, r.size # 0
    PROVE  LET u == WithFree(r, s) IN
           /\ u \in RegionType
           /\ u.ht = r.ht /\ u.head = r.head /\ u.tail = r.tail /\ u.hand = r.hand
           /\ u.hits = r.hits /\ u.misses = r.misses /\ u.skips = r.skips
           /\ u.free = s /\ u.size = r.size - 1
           /\ u.slots[s].next = r.free /\ ~u.slots[s].occupied
           /\ \A t \in Slots : t # s =>
                 /\ SameData(u.slots[t], r.slots[t])
                 /\ u.slots[t].next = r.slots[t].next /\ u.slots[t].prev = r.slots[t].prev
<1> DEFINE e == [r.slots[s] EXCEPT !.occupied = FALSE]
           r1 == WithSlot(r, s, e)
           r2 == WithNext(r1, s, r.free)
           r3 == WithPrev(r2, s, NONE)
           u == [r3 EXCEPT !.free = s, !.size = @ - 1]
<1>1. WithFree(r, s) = u
  BY DEF WithFree, WithSlot, WithNext, WithPrev
<1>2. r.size \in 0 .. Capacity /\ r.free \in Slots \cup {NONE}
  BY RegionFields
<1>3. /\ r1 \in RegionType /\ SameHeader(r1, r) /\ r1.head = r.head /\ r1.tail = r.tail
      /\ ~r1.slots[s].occupied
      /\ \A t \in Slots : t # s => r1.slots[t] = r.slots[t]
  <2>1. r.slots[s] \in SlotType
    BY RegionFields
  <2>2. e \in SlotType /\ ~e.occupied
    BY <2>1 DEF SlotType
  <2> HIDE DEF e
  <2> QED BY <2>2, SetSlot
<1> HIDE DEF r1
<1>4. NextSet(r2, r1, s, r.free)
  BY <1>2, <1>3, SetNext
<1> HIDE DEF r2
<1>5. PrevSet(r3, r2, s, NONE)
  BY <1>4, SetPrev DEF NextSet
<1> HIDE DEF r3
<1>6. r3 \in RegionType /\ r3.size = r.size
  BY <1>3, <1>4, <1>5 DEF NextSet, PrevSet, SameHeader
<1>7. r3.size - 1 \in 0 .. Capacity
  BY <1>2, <1>6, HtCapPositive
<1>8. /\ u \in RegionType
      /\ u.ht = r3.ht /\ u.head = r3.head /\ u.tail = r3.tail /\ u.hand = r3.hand
      /\ u.hits = r3.hits /\ u.misses = r3.misses /\ u.skips = r3.skips
      /\ u.free = s /\ u.size = r3.size - 1 /\ u.slots = r3.slots
  BY <1>6, <1>7 DEF RegionType
<1> HIDE DEF u
<1>9. /\ u.ht = r.ht /\ u.head = r.head /\ u.tail = r.tail /\ u.hand = r.hand
      /\ u.hits = r.hits /\ u.misses = r.misses /\ u.skips = r.skips
  BY <1>3, <1>4, <1>5, <1>8 DEF NextSet, PrevSet, SameHeader
<1>10. u.slots[s].next = r.free
  BY <1>4, <1>5, <1>8 DEF NextSet, PrevSet
<1>11. ~u.slots[s].occupied
  BY <1>3, <1>4, <1>5, <1>8 DEF NextSet, PrevSet, SameData
<1>12. ASSUME NEW t \in Slots, t # s
       PROVE  /\ SameData(u.slots[t], r.slots[t])
              /\ u.slots[t].next = r.slots[t].next /\ u.slots[t].prev = r.slots[t].prev
  BY <1>3, <1>4, <1>5, <1>8, <1>12 DEF NextSet, PrevSet, SameData
<1> QED BY <1>1, <1>6, <1>8, <1>9, <1>10, <1>11, <1>12

(* remove_slot frees exactly the slot it is given.                         *)
LEMMA RemoveSlot ==
    ASSUME NEW r, NEW hf, RegionOK(r, hf), NEW s \in Occ(r), NEW k, k = r.slots[s].key,
           NEW u, u = remove_slot(r, s, k)
    PROVE  /\ RegionOK(u, hf)
           /\ Occ(u) = Occ(r) \ {s}
           /\ \A t \in Occ(u) : SameData(u.slots[t], r.slots[t])
<1> DEFINE O == Occ(r)
           F == Slots \ Occ(r)
           r1 == Detach(r, s, k)
<1>1. /\ Parts(r, O, r.size, F, Capacity - r.size) /\ KeysOnce(r)
      /\ s \in Slots /\ r \in RegionType /\ r.size \in 0 .. Capacity
  BY RegionFields DEF RegionOK, Parts, Occ
<1>2. /\ Parts(r1, O \ {s}, r.size - 1, F, Capacity - r.size)
      /\ SameCounters(r1, r)
      /\ \A t \in Slots : SameData(r1.slots[t], r.slots[t])
  BY <1>1, Detaching
<1> HIDE DEF r1
<1>3. u = WithFree(r1, s)
  BY DEF remove_slot, WithFree, Detach, r1
<1>4. r1 \in RegionType /\ r1.size = r.size /\ r.size # 0
  BY <1>1, <1>2 DEF Parts, SameCounters
<1>5. /\ u \in RegionType
      /\ u.ht = r1.ht /\ u.head = r1.head /\ u.tail = r1.tail
      /\ u.free = s /\ u.size = r.size - 1
      /\ u.slots[s].next = r1.free /\ ~u.slots[s].occupied
      /\ \A t \in Slots : t # s =>
            /\ SameData(u.slots[t], r1.slots[t])
            /\ u.slots[t].next = r1.slots[t].next /\ u.slots[t].prev = r1.slots[t].prev
  BY <1>1, <1>3, <1>4, SetFree
<1>6. \A t \in Slots : t # s => SameData(u.slots[t], r.slots[t])
  BY <1>2, <1>5 DEF SameData
<1>7. Occ(u) = O \ {s} /\ Slots \ Occ(u) = F \cup {s}
  BY <1>5, <1>6 DEF Occ, SameData
<1> HIDE DEF F, O
<1>8. Free(u, F \cup {s}, (Capacity - r.size) + 1)
  <2>1. F \in SUBSET Slots /\ s \in Slots \ F /\ Capacity - r.size \in Nat
        /\ Free(r1, F, Capacity - r.size)
    BY <1>1, <1>2 DEF Parts, F, O
  <2>2. \A t \in F : u.slots[t].next = r1.slots[t].next
    BY <1>5, <2>1
  <2> QED BY <1>5, <2>1, <2>2, FreePush
<1>9. InTable(u, O \ {s}) /\ Listed(u, O \ {s}, r.size - 1)
  <2>1. O \ {s} \in SUBSET Slots /\ r.size - 1 \in Nat /\ InTable(r1, O \ {s})
        /\ Listed(r1, O \ {s}, r.size - 1)
    BY <1>2 DEF Parts
  <2>2. \A t \in O \ {s} :
            /\ u.slots[t].hash = r1.slots[t].hash
            /\ u.slots[t].next = r1.slots[t].next /\ u.slots[t].prev = r1.slots[t].prev
    BY <1>5, <2>1 DEF SameData
  <2> QED BY <1>5, <2>1, <2>2, InTableFrame, ListedFrame
<1>10. Parts(u, Occ(u), u.size, Slots \ Occ(u), Capacity - u.size)
  <2>1. /\ Capacity - u.size = (Capacity - r.size) + 1 /\ Capacity - u.size \in Nat
        /\ u.size \in Nat /\ u.size = r.size - 1
    BY <1>1, <1>4, <1>5, HtCapPositive
  <2> QED BY <1>5, <1>7, <1>8, <1>9, <2>1 DEF Parts, Occ
<1>11. \A t \in Occ(u) : SameData(u.slots[t], r.slots[t]) /\ t \in Occ(r)
  BY <1>6, <1>7 DEF O, Occ
<1>12. KeysOnce(u)
  BY <1>1, <1>11 DEF KeysOnce, SameData
<1>13. \A t \in Occ(u) : /\ u.slots[t].key \in Keys /\ u.slots[t].val \in Values
                         /\ u.slots[t].hash = hf[u.slots[t].key]
  BY <1>11 DEF RegionOK, SameData
<1> QED BY <1>7, <1>10, <1>11, <1>12, <1>13 DEF RegionOK, O

(* The entry that insert_inner writes, and the last of its assignments.    *)
NewEntry(k, v) ==
    [occupied |-> TRUE, key |-> k, hash |-> hashOf[k], val |-> v,
     created |-> now, visited |-> FALSE, prev |-> NONE, next |-> NONE]
WithOneMore(r) == [r EXCEPT !.size = @ + 1]

(* The size grows by one.                                                  *)
LEMMA SetOneMore ==
    ASSUME NEW r \in RegionType, r.size < Capacity
    PROVE  LET u == WithOneMore(r) IN
           /\ u \in RegionType /\ u.size = r.size + 1
           /\ u.ht = r.ht /\ u.slots = r.slots
           /\ u.head = r.head /\ u.tail = r.tail /\ u.free = r.free
<1>1. r.size \in 0 .. Capacity /\ r.size + 1 \in 0 .. Capacity
  <2>1. r.size \in 0 .. Capacity
    BY RegionFields
  <2> QED BY <2>1, HtCapPositive
<1> QED BY <1>1 DEF WithOneMore, RegionType

(* Slot s, in neither list, takes the entry of a key that is not cached.   *)
ReadyFor(r, O, n, F, m, s, k) ==
    /\ Parts(r, O, n, F, m)
    /\ r.size = n /\ n < Capacity /\ m = Capacity - (n + 1)
    /\ O = Occ(r) \ {s} /\ F = Slots \ (O \cup {s})
    /\ \A t1, t2 \in O : r.slots[t1].key = r.slots[t2].key => t1 = t2
    /\ \A t \in O : /\ r.slots[t].key \in Keys /\ r.slots[t].val \in Values
                   /\ r.slots[t].hash = hashOf[r.slots[t].key]
    /\ \A t \in O : r.slots[t].key # k

Filled(u, r, O, s, k, v) ==
    /\ RegionOK(u, hashOf)
    /\ Occ(u) = O \cup {s}
    /\ SameData(u.slots[s], NewEntry(k, v))
    /\ \A t \in O : SameData(u.slots[t], r.slots[t])

(* A slot that is in no list and no bucket receives the entry.             *)
LEMMA Filling ==
    ASSUME hashOf \in [Keys -> Hashes], now \in Nat,
           NEW r, NEW O, NEW n, NEW F, NEW m, NEW s \in Slots, NEW k \in Keys,
           ReadyFor(r, O, n, F, m, s, k), NEW v \in Values
    PROVE  Filled(Fill(r, s, k, v), r, O, s, k, v)
<1> DEFINE e == NewEntry(k, v)
           r1 == Attach(r, s, e)
           u == Fill(r, s, k, v)
<1>0. /\ Parts(r, O, n, F, m)
      /\ r.size = n /\ n < Capacity /\ m = Capacity - (n + 1)
      /\ O = Occ(r) \ {s} /\ F = Slots \ (O \cup {s})
      /\ \A t1, t2 \in O : r.slots[t1].key = r.slots[t2].key => t1 = t2
      /\ \A t \in O : /\ r.slots[t].key \in Keys /\ r.slots[t].val \in Values
                   /\ r.slots[t].hash = hashOf[r.slots[t].key]
      /\ \A t \in O : r.slots[t].key # k
  BY DEF ReadyFor
<1>1. e \in SlotType /\ hashOf[k] \in Nat /\ e.hash = hashOf[k] /\ e.key = k /\ e.occupied = TRUE
      /\ e.val = v
  BY NumbersAssumption DEF NewEntry, SlotType
<1>2. u = WithOneMore(r1)
  BY <1>1 DEF Fill, Attach, WithSlot, WithOneMore, NewEntry
<1> HIDE DEF e, u
<1>3. s \notin O /\ s \notin F /\ O \in SUBSET Slots
  BY <1>0 DEF Occ
<1>4. /\ Parts(r1, O \cup {s}, n + 1, F, m)
      /\ SameCounters(r1, r)
      /\ SameData(r1.slots[s], e)
      /\ \A t \in Slots : t # s => SameData(r1.slots[t], r.slots[t])
  <2>1. Parts(r, O, n, F, m)
    BY <1>0
  <2>2. e \in SlotType
    BY <1>1
  <2>3. Attached(r1, r, O, n, F, m, s, e)
    BY <1>3, <2>1, <2>2, Attaching
  <2> HIDE DEF r1
  <2> QED BY <2>3 DEF Attached
<1> HIDE DEF r1
<1>5. r1 \in RegionType /\ r1.size = n /\ n \in Nat
  BY <1>0, <1>4 DEF Parts, SameCounters
<1>6. /\ u \in RegionType /\ u.size = n + 1 /\ u.ht = r1.ht /\ u.slots = r1.slots
      /\ u.head = r1.head /\ u.tail = r1.tail /\ u.free = r1.free
  BY <1>0, <1>2, <1>5, SetOneMore
<1>7. Parts(u, O \cup {s}, n + 1, F, m)
  BY <1>4, <1>6, PartsFrame
<1>8. SameData(u.slots[s], e) /\ \A t \in Slots : t # s => SameData(u.slots[t], r.slots[t])
  BY <1>4, <1>6
<1>9. Occ(u) = O \cup {s}
  <2>1. u.slots[s].occupied
    BY <1>1, <1>8 DEF SameData
  <2>2. \A t \in Slots : t # s => (u.slots[t].occupied <=> t \in O)
    BY <1>0, <1>8 DEF SameData, Occ
  <2> QED BY <1>3, <2>1, <2>2 DEF Occ
<1>10. Slots \ Occ(u) = F /\ Capacity - u.size = m
  BY <1>0, <1>5, <1>6, <1>9
<1>11. \A t \in O : SameData(u.slots[t], r.slots[t])
  BY <1>3, <1>8
<1>12. /\ u.slots[s].key = k /\ u.slots[s].hash = hashOf[k] /\ u.slots[s].val = v
       /\ \A t \in O : /\ u.slots[t].key = r.slots[t].key /\ u.slots[t].hash = r.slots[t].hash
                        /\ u.slots[t].val = r.slots[t].val
  BY <1>1, <1>8, <1>11 DEF SameData
<1>13. KeysOnce(u)
  BY <1>0, <1>9, <1>12 DEF KeysOnce
<1>14. \A t \in Occ(u) : /\ u.slots[t].key \in Keys /\ u.slots[t].val \in Values
                         /\ u.slots[t].hash = hashOf[u.slots[t].key]
  BY <1>0, <1>9, <1>12
<1>15. Parts(u, Occ(u), u.size, Slots \ Occ(u), Capacity - u.size)
  BY <1>6, <1>7, <1>9, <1>10
<1>16. RegionOK(u, hashOf)
  BY <1>13, <1>14, <1>15 DEF RegionOK
<1> QED BY <1>8, <1>9, <1>11, <1>16 DEF Filled, e, u

(* A key is not cached.                                                    *)
NotCached(r, k) == \A t \in Occ(r) : r.slots[t].key # k

(* insert_inner with a free slot.                                          *)
WithFreeHead(r, x) == [r EXCEPT !.free = x]

(* An insert into the first free slot: the others keep their entries.      *)
LEMMA FillFree ==
    ASSUME hashOf \in [Keys -> Hashes], now \in Nat,
           NEW r, RegionOK(r, hashOf), r.free # NONE, NEW k \in Keys, NotCached(r, k),
           NEW v \in Values, NEW s, s = r.free,
           NEW u, u = Fill(WithFreeHead(r, r.slots[s].next), s, k, v)
    PROVE  /\ RegionOK(u, hashOf)
           /\ s \in Slots \ Occ(r)
           /\ r.size < Capacity
           /\ Occ(u) = Occ(r) \cup {s}
           /\ SameData(u.slots[s], NewEntry(k, v))
           /\ \A t \in Occ(r) : SameData(u.slots[t], r.slots[t])
<1> DEFINE O == Occ(r)
           F == Slots \ O
           n == r.size
           m == Capacity - r.size
           r1 == WithFreeHead(r, r.slots[s].next)
<1>1. Parts(r, O, n, F, m) /\ r \in RegionType
  BY DEF RegionOK, Parts
<1>2. r.free \in Slots \cup {NONE} /\ s \in Slots /\ r.slots[s].next \in Slots \cup {NONE}
      /\ n \in 0 .. Capacity
  BY <1>1, RegionFields
<1>3. /\ r1 \in RegionType /\ r1.ht = r.ht /\ r1.slots = r.slots /\ r1.size = r.size
      /\ r1.head = r.head /\ r1.tail = r.tail /\ r1.free = r.slots[s].next
  BY <1>1, <1>2 DEF RegionType, WithFreeHead
<1>4. u = Fill(r1, s, k, v)
  OBVIOUS
<1> HIDE DEF r1, O, F
<1>5. s \in F /\ m # 0 /\ Free(r1, F \ {s}, m - 1)
  <2>1. F \in SUBSET Slots /\ m \in Nat /\ Free(r, F, m)
    BY <1>1 DEF Parts
  <2>2. r1.free = r.slots[s].next /\ \A t \in F : r1.slots[t].next = r.slots[t].next
    BY <1>3
  <2> HIDE DEF m
  <2> QED BY <2>1, <2>2, FreePop
<1>6. InTable(r1, O) /\ Listed(r1, O, n) /\ O \in SUBSET Slots /\ n \in Nat /\ m \in Nat
  <2>1. InTable(r, O) /\ Listed(r, O, n) /\ O \in SUBSET Slots /\ n \in Nat /\ m \in Nat
    BY <1>1 DEF Parts
  <2> QED BY <1>3, <2>1, InTableFrame, ListedFrame
<1>7. Parts(r1, O, n, F \ {s}, m - 1)
  BY <1>3, <1>5, <1>6 DEF Parts, F
<1>8. /\ n < Capacity /\ m - 1 = Capacity - (n + 1)
      /\ s \notin O /\ O = Occ(r1) \ {s} /\ F \ {s} = Slots \ (O \cup {s})
  <2>1. n < Capacity /\ m - 1 = Capacity - (n + 1)
    BY <1>2, <1>5, HtCapPositive
  <2>2. s \notin O /\ Occ(r1) = O
    BY <1>3, <1>5 DEF F, O, Occ
  <2> QED BY <2>1, <2>2 DEF F
<1>9. /\ \A t1, t2 \in O : r1.slots[t1].key = r1.slots[t2].key => t1 = t2
      /\ \A t \in O : /\ r1.slots[t].key \in Keys /\ r1.slots[t].val \in Values
                      /\ r1.slots[t].hash = hashOf[r1.slots[t].key]
      /\ \A t \in O : r1.slots[t].key # k
  BY <1>3 DEF RegionOK, KeysOnce, NotCached, O
<1>10. Filled(u, r1, O, s, k, v)
  <2> DEFINE y == m - 1
             G == F \ {s}
  <2>1. ReadyFor(r1, O, n, G, y, s, k)
    BY <1>3, <1>7, <1>8, <1>9 DEF ReadyFor
  <2> HIDE DEF n, y, G
  <2> QED BY <1>2, <1>4, <2>1, Filling
<1> QED BY <1>3, <1>5, <1>8, <1>10 DEF Filled, F, O

(* sieve_evict found its victim, and insert_inner fills the slot.          *)
WithOneLess(r, hand) == [r EXCEPT !.size = @ - 1, !.hand = hand]

(* An insert into a victim's slot: the others keep their entries.          *)
LEMMA FillVictim ==
    ASSUME hashOf \in [Keys -> Hashes], now \in Nat,
           NEW r, RegionOK(r, hashOf), NEW s \in Occ(r), NEW hand \in Slots \cup {NONE},
           NEW k \in Keys, NotCached(r, k), NEW v \in Values,
           NEW u, u = Fill(WithOneLess(Detach(r, s, r.slots[s].key), hand), s, k, v)
    PROVE  /\ RegionOK(u, hashOf)
           /\ Occ(u) = Occ(r)
           /\ SameData(u.slots[s], NewEntry(k, v))
           /\ \A t \in Occ(r) \ {s} : SameData(u.slots[t], r.slots[t])
<1> DEFINE O == Occ(r)
           F == Slots \ O
           n == r.size
           m == Capacity - r.size
           r1 == Detach(r, s, r.slots[s].key)
           r2 == WithOneLess(r1, hand)
<1>1. Parts(r, O, n, F, m) /\ r \in RegionType /\ KeysOnce(r) /\ s \in Slots
  BY DEF RegionOK, Parts, Occ
<1>2. n \in 0 .. Capacity
  BY <1>1, RegionFields
<1>3. /\ Parts(r1, O \ {s}, n - 1, F, m)
      /\ SameCounters(r1, r)
      /\ \A t \in Slots : SameData(r1.slots[t], r.slots[t])
  BY <1>1, Detaching
<1>4. u = Fill(r2, s, k, v)
  OBVIOUS
<1> HIDE DEF r1
<1>5. r1 \in RegionType /\ r1.size = n /\ n - 1 \in Nat
  BY <1>3 DEF Parts, SameCounters
<1>6. n - 1 \in 0 .. Capacity /\ n - 1 < Capacity /\ m = Capacity - ((n - 1) + 1)
  BY <1>2, <1>5, HtCapPositive
<1>7. /\ r2 \in RegionType /\ r2.ht = r1.ht /\ r2.slots = r1.slots /\ r2.size = n - 1
      /\ r2.head = r1.head /\ r2.tail = r1.tail /\ r2.free = r1.free
  <2> HIDE DEF n
  <2> QED BY <1>5, <1>6 DEF RegionType, WithOneLess
<1> HIDE DEF r2, O, F
<1>8. Parts(r2, O \ {s}, n - 1, F, m)
  <2> HIDE DEF n, m
  <2> QED BY <1>3, <1>7, PartsFrame
<1>9. \A t \in Slots : SameData(r2.slots[t], r.slots[t])
  BY <1>3, <1>7
<1>10. O \ {s} = Occ(r2) \ {s} /\ F = Slots \ ((O \ {s}) \cup {s}) /\ s \in O
  <2>1. Occ(r2) = O
    BY <1>9 DEF Occ, SameData, O
  <2>2. s \in O
    BY DEF O
  <2> QED BY <2>1, <2>2 DEF F
<1>11. /\ \A t1, t2 \in O \ {s} : r2.slots[t1].key = r2.slots[t2].key => t1 = t2
       /\ \A t \in O \ {s} : /\ r2.slots[t].key \in Keys /\ r2.slots[t].val \in Values
                             /\ r2.slots[t].hash = hashOf[r2.slots[t].key]
       /\ \A t \in O \ {s} : r2.slots[t].key # k
  <2>1. \A t \in O : /\ r2.slots[t].key = r.slots[t].key /\ r2.slots[t].hash = r.slots[t].hash
                     /\ r2.slots[t].val = r.slots[t].val
    BY <1>9 DEF Occ, SameData, O
  <2> QED BY <2>1 DEF RegionOK, KeysOnce, NotCached, O
<1>12. /\ RegionOK(u, hashOf)
       /\ Occ(u) = (O \ {s}) \cup {s}
       /\ SameData(u.slots[s], NewEntry(k, v))
       /\ \A t \in O \ {s} : SameData(u.slots[t], r2.slots[t])
  <2> DEFINE x == n - 1
             P == O \ {s}
  <2> HIDE DEF n, m
  <2>1. ReadyFor(r2, P, x, F, m, s, k)
    BY <1>6, <1>7, <1>8, <1>10, <1>11 DEF ReadyFor
  <2> HIDE DEF x, P
  <2>2. Filled(u, r2, P, s, k, v)
    BY <1>1, <1>4, <2>1, Filling
  <2> QED BY <2>2 DEF P, Filled
<1>13. \A t \in O \ {s} : SameData(u.slots[t], r.slots[t])
  <2>1. ASSUME NEW t \in O \ {s} PROVE SameData(u.slots[t], r.slots[t])
    <3>1. t \in Slots
      BY DEF O, Occ
    <3> QED BY <1>9, <1>12, <3>1 DEF SameData
  <2> QED BY <2>1
<1> QED BY <1>10, <1>12, <1>13 DEF O

-------------------------------------------------------------------------------
(***************************************************************************)
(* The inductive invariant                                                 *)
(***************************************************************************)

(* What processes know: the slot, key and value they were given; and while *)
(* one scans, the cache is full and the scanner's key is not in it.        *)
ProcsOK ==
    \A p \in Procs :
        /\ pc[p] \in {"mark", "expire", "scan"} => loc[p].slot \in Slots
        /\ pc[p] \in {"expire", "scan"} => loc[p].key \in Keys
        /\ pc[p] = "scan" => /\ loc[p].val \in Values
                             /\ NotCached(rg, loc[p].key)
                             /\ rg.size = Capacity

(* The lock is held by one scan at a time.                                 *)
OneScan == \A p, q \in Procs : pc[p] = "scan" /\ pc[q] = "scan" => p = q

IInv == TypeOK /\ RegionOK(rg, hashOf) /\ ProcsOK /\ OneScan

(* A region in which the lists, the table and the keys are as they were.   *)
Unmoved(u, r) ==
    /\ u \in RegionType
    /\ u.ht = r.ht /\ u.head = r.head /\ u.tail = r.tail /\ u.free = r.free /\ u.size = r.size
    /\ \A t \in Slots :
        /\ u.slots[t].occupied = r.slots[t].occupied /\ u.slots[t].key = r.slots[t].key
        /\ u.slots[t].hash = r.slots[t].hash
        /\ u.slots[t].next = r.slots[t].next /\ u.slots[t].prev = r.slots[t].prev

(* Stores to values, marks and counters leave the region consistent.       *)
LEMMA UnmovedIsOK ==
    ASSUME NEW r, NEW u, NEW hf, RegionOK(r, hf), Unmoved(u, r),
           \A t \in Occ(r) : u.slots[t].val \in Values
    PROVE  RegionOK(u, hf) /\ Occ(u) = Occ(r) /\ \A k : NotCached(r, k) => NotCached(u, k)
<1>1. Occ(u) = Occ(r)
  BY DEF Occ, Unmoved
<1>2. Parts(r, Occ(r), r.size, Slots \ Occ(r), Capacity - r.size)
  BY DEF RegionOK
<1>3. Parts(u, Occ(r), r.size, Slots \ Occ(r), Capacity - r.size)
  <2> DEFINE O == Occ(r)
             F == Slots \ Occ(r)
             m == Capacity - r.size
  <2>1. Parts(r, O, r.size, F, m)
    BY <1>2
  <2> HIDE DEF O, F, m
  <2>2. Parts(u, O, r.size, F, m)
    BY <2>1, PartsFrame DEF Unmoved
  <2> QED BY <2>2 DEF O, F, m
<1>4. \A t \in Occ(r) : u.slots[t].key = r.slots[t].key /\ u.slots[t].hash = r.slots[t].hash
  BY DEF Unmoved, Occ
<1>5. KeysOnce(u)
  BY <1>1, <1>4 DEF RegionOK, KeysOnce
<1>6. \A t \in Occ(u) : /\ u.slots[t].key \in Keys /\ u.slots[t].val \in Values
                        /\ u.slots[t].hash = hf[u.slots[t].key]
  BY <1>1, <1>4 DEF RegionOK
<1>7. u.size = r.size
  BY DEF Unmoved
<1>8. \A k : NotCached(r, k) => NotCached(u, k)
  BY <1>1, <1>4 DEF NotCached
<1> QED BY <1>1, <1>3, <1>5, <1>6, <1>7, <1>8 DEF RegionOK

(* With no free slot, every slot is in use, and the list is not empty.     *)
LEMMA NothingFree ==
    ASSUME NEW r, NEW hf, RegionOK(r, hf), r.free = NONE \/ r.size = Capacity
    PROVE  Occ(r) = Slots /\ r.free = NONE /\ r.size = Capacity /\ r.head \in Slots
<1> DEFINE F == Slots \ Occ(r)
           m == Capacity - r.size
<1>1. /\ r \in RegionType /\ m \in Nat /\ Free(r, F, m) /\ Listed(r, Occ(r), r.size)
      /\ r.size \in 0 .. Capacity
  BY RegionFields DEF RegionOK, Parts
<1> HIDE DEF F
<1>2. PICK q \in [1 .. m -> Slots] : Enumerates(q, m, F) /\ FreeOf(r, q, m)
  BY <1>1 DEF Free
<1>3. m = 0
  <2>1. CASE r.size = Capacity
    BY <1>1, <2>1
  <2>2. CASE r.free = NONE
    <3>1. ASSUME m # 0 PROVE FALSE
      <4>1. 1 \in 1 .. m /\ r.free = q[1]
        BY <1>1, <1>2, <3>1 DEF FreeOf
      <4> QED BY <2>2, <4>1, NoneIsNoSlot
    <3> QED BY <3>1
  <2> QED BY <2>1, <2>2
<1>4. F = {} /\ r.free = NONE
  <2>1. 1 .. m = {}
    BY <1>3
  <2>2. \A s \in Slots : s \notin F
    BY <1>2, <2>1 DEF Enumerates
  <2> QED BY <1>2, <1>3, <2>2 DEF F, FreeOf
<1>5. r.size = Capacity
  BY <1>1, <1>3, HtCapPositive
<1>6. r.head \in Slots
  <2>1. PICK y \in [1 .. r.size -> Slots] : Enumerates(y, r.size, Occ(r)) /\ ListOf(r, y, r.size)
    BY <1>1 DEF Listed
  <2>2. r.size # 0 /\ 1 \in 1 .. r.size
    BY <1>5, HtCapPositive
  <2> QED BY <2>1, <2>2 DEF ListOf
<1> QED BY <1>4, <1>5, <1>6 DEF F, Occ

(* An empty cache: every slot is in the free list.                         *)
LEMMA EmptyIsOK ==
    ASSUME NEW r \in RegionType, NEW hf,
           \A b \in Buckets : r.ht[b] = EmptyBucket,
           \A s \in Slots : ~r.slots[s].occupied /\ r.slots[s].next = FreeNext(s),
           r.size = 0, r.head = NONE, r.tail = NONE, r.free = 0
    PROVE  RegionOK(r, hf) /\ Occ(r) = {}
<1>1. Occ(r) = {}
  BY DEF Occ
<1>2. InTable(r, {})
  <2>1. \A b \in Buckets : IsEmpty(r.ht, b)
    BY DEF IsEmpty, EmptyBucket
  <2>2. r.ht \in TableType
    BY RegionFields
  <2> QED BY <2>1, <2>2 DEF InTable, TableOK, ProbesReach, OneBucketPerSlot
<1>3. Listed(r, {}, 0)
  <2> DEFINE q == [i \in 1 .. 0 |-> 0]
  <2>1. 1 .. 0 = {}
    OBVIOUS
  <2>2. q \in [1 .. 0 -> Slots]
    BY <2>1
  <2>3. Enumerates(q, 0, {}) /\ ListOf(r, q, 0)
    BY <2>1 DEF Enumerates, ListOf
  <2> QED BY <2>2, <2>3 DEF Listed
<1>4. Free(r, Slots, Capacity)
  <2> DEFINE q == [i \in 1 .. Capacity |-> i - 1]
  <2>1. q \in [1 .. Capacity -> Slots]
    BY HtCapPositive DEF Slots
  <2>2. Enumerates(q, Capacity, Slots)
    <3>1. ASSUME NEW i \in 1 .. Capacity, NEW j \in 1 .. Capacity, q[i] = q[j] PROVE i = j
      BY <3>1, HtCapPositive
    <3>2. ASSUME NEW s \in Slots PROVE \E i \in 1 .. Capacity : q[i] = s
      <4>1. s + 1 \in 1 .. Capacity /\ q[s + 1] = s
        BY HtCapPositive DEF Slots
      <4> QED BY <4>1
    <3> QED BY <3>1, <3>2 DEF Enumerates
  <2>3. FreeOf(r, q, Capacity)
    <3>1. r.free = IF Capacity = 0 THEN NONE ELSE q[1]
      BY HtCapPositive
    <3>2. ASSUME NEW i \in 1 .. Capacity
          PROVE  r.slots[q[i]].next = IF i = Capacity THEN NONE ELSE q[i + 1]
      <4>1. i - 1 \in Slots /\ q[i] = i - 1
        BY HtCapPositive DEF Slots
      <4>2. r.slots[q[i]].next = FreeNext(i - 1)
        BY <4>1
      <4> QED BY <4>2, HtCapPositive DEF FreeNext
    <3> QED BY <3>1, <3>2 DEF FreeOf
  <2> HIDE DEF q
  <2> QED BY <2>1, <2>2, <2>3 DEF Free
<1>5. Parts(r, Occ(r), r.size, Slots \ Occ(r), Capacity - r.size)
  <2>1. Slots \ {} = Slots /\ Capacity - 0 = Capacity /\ {} \in SUBSET Slots /\ {} \cap Slots = {}
    BY HtCapPositive
  <2> QED BY <1>1, <1>2, <1>3, <1>4, <2>1, HtCapPositive DEF Parts
<1> QED BY <1>1, <1>5 DEF RegionOK, KeysOnce

(* What a lookup of key k answers.                                         *)
LEMMA LookupAnswers ==
    ASSUME NEW r, NEW hf \in [Keys -> Hashes], RegionOK(r, hf), NEW k \in Keys,
           NEW s, s = ht_lookup(r, hf[k], k)
    PROVE  /\ s = NONE => NotCached(r, k)
           /\ s # NONE => s \in Occ(r) /\ r.slots[s].key = k
<1>1. TableMatchesSlots(r) /\ hf[k] \in Nat
  BY TableOfOccupied, NumbersAssumption DEF RegionOK, Parts
<1>2. CASE \E t \in Occ(r) : r.slots[t].key = k
  <2>1. PICK t \in Occ(r) : r.slots[t].key = k
    BY <1>2
  <2>2. t \in Slots /\ r.slots[t].occupied /\ r.slots[t].hash = hf[k]
    BY <2>1 DEF RegionOK, Occ
  <2>3. s = t
    BY <1>1, <2>1, <2>2, LookupFinds
  <2> QED BY <2>1, <2>2, <2>3, NoneIsNoSlot
<1>3. CASE ~ \E t \in Occ(r) : r.slots[t].key = k
  <2>1. \A t \in Slots : r.slots[t].occupied => r.slots[t].key # k
    BY <1>3 DEF Occ
  <2>2. s = NONE
    BY <1>1, <2>1, LookupMisses
  <2> QED BY <1>3, <2>2 DEF NotCached
<1> QED BY <1>2, <1>3

(* Only visited of slot s was stored, and counters.                        *)
WithVisited(r, s, x) == [r EXCEPT !.slots[s].visited = x]
WithHits(r, n) == [r EXCEPT !.hits = n]
WithMisses(r, n) == [r EXCEPT !.misses = n]
WithSkips(r, n) == [r EXCEPT !.skips = n]

VisitedSet(u, r, s, x) ==
    /\ Unmoved(u, r)
    /\ \A t \in Slots :
        /\ u.slots[t].val = r.slots[t].val /\ u.slots[t].created = r.slots[t].created
        /\ u.slots[t].visited = IF t = s THEN x ELSE r.slots[t].visited

(* Storing a visited bit changes nothing else.                             *)
LEMMA SetVisited ==
    ASSUME NEW r \in RegionType, NEW s \in Slots, NEW x \in BOOLEAN
    PROVE  VisitedSet(WithVisited(r, s, x), r, s, x)
<1> DEFINE e == [r.slots[s] EXCEPT !.visited = x]
           u == WithSlot(r, s, e)
<1>1. WithVisited(r, s, x) = u
  BY DEF WithVisited, WithSlot
<1>2. r.slots[s] \in SlotType
  BY RegionFields
<1>3. /\ e \in SlotType /\ e.visited = x
      /\ e.occupied = r.slots[s].occupied /\ e.key = r.slots[s].key /\ e.hash = r.slots[s].hash
      /\ e.val = r.slots[s].val /\ e.created = r.slots[s].created
      /\ e.prev = r.slots[s].prev /\ e.next = r.slots[s].next
  BY <1>2 DEF SlotType
<1> HIDE DEF e
<1>4. /\ u \in RegionType /\ SameHeader(u, r) /\ u.head = r.head /\ u.tail = r.tail
      /\ u.slots[s] = e
      /\ \A t \in Slots : t # s => u.slots[t] = r.slots[t]
  BY <1>3, SetSlot
<1> HIDE DEF u
<1>5. \A t \in Slots :
        /\ u.slots[t].occupied = r.slots[t].occupied /\ u.slots[t].key = r.slots[t].key
        /\ u.slots[t].hash = r.slots[t].hash
        /\ u.slots[t].next = r.slots[t].next /\ u.slots[t].prev = r.slots[t].prev
        /\ u.slots[t].val = r.slots[t].val /\ u.slots[t].created = r.slots[t].created
        /\ u.slots[t].visited = IF t = s THEN x ELSE r.slots[t].visited
  BY <1>3, <1>4
<1> QED BY <1>1, <1>4, <1>5 DEF VisitedSet, Unmoved, SameHeader

(* The counters wrap within their width.                                   *)
LEMMA BumpType ==
    ASSUME NEW n \in Nat
    PROVE  Bump(n) \in 0 .. StatMod - 1
BY NumbersAssumption DEF Bump

(* A counter goes up, and nothing else changes.                            *)
LEMMA SetCounter ==
    ASSUME NEW r \in RegionType, NEW u,
           \/ u = WithHits(r, Bump(r.hits))
           \/ u = WithMisses(r, Bump(r.misses))
           \/ u = WithSkips(r, Bump(r.skips))
    PROVE  Unmoved(u, r) /\ u.slots = r.slots /\ u \in RegionType
<1>1. r.hits \in Nat /\ r.misses \in Nat /\ r.skips \in Nat
  BY NumbersAssumption DEF RegionType
<1>2. /\ Bump(r.hits) \in 0 .. StatMod - 1
      /\ Bump(r.misses) \in 0 .. StatMod - 1
      /\ Bump(r.skips) \in 0 .. StatMod - 1
  BY <1>1, BumpType
<1>3. CASE u = WithHits(r, Bump(r.hits))
  BY <1>2, <1>3 DEF WithHits, RegionType, Unmoved
<1>4. CASE u = WithMisses(r, Bump(r.misses))
  BY <1>2, <1>4 DEF WithMisses, RegionType, Unmoved
<1>5. CASE u = WithSkips(r, Bump(r.skips))
  BY <1>2, <1>5 DEF WithSkips, RegionType, Unmoved
<1> QED BY <1>3, <1>4, <1>5

-------------------------------------------------------------------------------

(* IInv holds of a fresh region.                                           *)
LEMMA InvInit == Init => IInv
<1> SUFFICES ASSUME Init PROVE IInv
  OBVIOUS
<1>1. rg = FreshRegion /\ hashOf \in [Keys -> Hashes] /\ pc = [p \in Procs |-> "idle"]
      /\ loc = [p \in Procs |-> NoLocals] /\ last = <<>> /\ now = 0 /\ marks = 0
  BY DEF Init
<1>2. ASSUME NEW i \in Slots PROVE FreeNext(i) \in Slots \cup {NONE}
  BY HtCapPositive DEF FreeNext, Slots
<1>3. rg \in RegionType
  <2>1. 0 \in Slots /\ 0 \in 0 .. Capacity /\ 0 \in 0 .. StatMod - 1
    BY HtCapPositive, NumbersAssumption DEF Slots
  <2> QED BY <1>1, <1>2, <2>1 DEF RegionType, SlotType, FreshRegion, EmptyBucket
<1>4. RegionOK(rg, hashOf)
  <2>1. /\ \A b \in Buckets : rg.ht[b] = EmptyBucket
        /\ \A s \in Slots : ~rg.slots[s].occupied /\ rg.slots[s].next = FreeNext(s)
        /\ rg.size = 0 /\ rg.head = NONE /\ rg.tail = NONE /\ rg.free = 0
    BY <1>1 DEF FreshRegion
  <2> QED BY <1>3, <2>1, EmptyIsOK
<1>5. loc \in [Procs -> LocalsType]
  <2>1. NoLocals \in LocalsType
    BY HtCapPositive DEF NoLocals, LocalsType, ScanLimit
  <2> QED BY <1>1, <2>1
<1>6. TypeOK
  BY <1>1, <1>3, <1>5 DEF TypeOK
<1>7. ProcsOK /\ OneScan
  BY <1>1 DEF ProcsOK, OneScan
<1> QED BY <1>4, <1>6, <1>7 DEF IInv

(***************************************************************************)
(* Every action keeps the invariant.                                       *)
(***************************************************************************)

(* The parts of IInv that every step uses.                                 *)
LEMMA InvFacts ==
    ASSUME IInv
    PROVE  /\ rg \in RegionType
           /\ hashOf \in [Keys -> Hashes]
           /\ pc \in [Procs -> {"idle", "mark", "miss", "expire", "scan"}]
           /\ loc \in [Procs -> LocalsType]
           /\ last \in {<<>>} \cup (Procs \X Keys \X (Values \cup {Miss}))
           /\ now \in Nat
           /\ marks \in Nat
           /\ RegionOK(rg, hashOf)
           /\ ProcsOK
           /\ OneScan
BY DEF IInv, TypeOK

(* The locals of a process that is not inside a call, and those of a get.  *)
LEMMA NoLocalsType ==
    /\ NoLocals \in LocalsType
    /\ \A s \in Slots : [NoLocals EXCEPT !.slot = s] \in LocalsType
    /\ \A k \in Keys, s \in Slots : [NoLocals EXCEPT !.key = k, !.slot = s] \in LocalsType
<1>1. 0 \in 0 .. ScanLimit
  BY HtCapPositive DEF ScanLimit
<1>2. NoLocals \in LocalsType
  BY <1>1 DEF NoLocals, LocalsType
<1>3. ASSUME NEW s \in Slots PROVE [NoLocals EXCEPT !.slot = s] \in LocalsType
  BY <1>1 DEF NoLocals, LocalsType
<1>4. ASSUME NEW k \in Keys, NEW s \in Slots
      PROVE  [NoLocals EXCEPT !.key = k, !.slot = s] \in LocalsType
  BY <1>1 DEF NoLocals, LocalsType
<1> QED BY <1>2, <1>3, <1>4

(* While the lock is free nobody scans.                                    *)
LEMMA LookupKeepsInv ==
    ASSUME IInv, NEW p \in Procs, NEW k \in Keys,
           GetHit(p, k) \/ GetMiss(p, k) \/ GetExpired(p, k)
    PROVE  IInv'
<1> DEFINE s == SlotOf(k)
<1>0. /\ rg \in RegionType
      /\ hashOf \in [Keys -> Hashes]
      /\ pc \in [Procs -> {"idle", "mark", "miss", "expire", "scan"}]
      /\ loc \in [Procs -> LocalsType]
      /\ now \in Nat /\ marks \in Nat
      /\ RegionOK(rg, hashOf) /\ ProcsOK
  BY InvFacts
<1>1. /\ LockFree /\ UNCHANGED <<rg, hashOf, now, marks>>
  BY DEF GetHit, GetMiss, GetExpired, Lookup
<1>2. s # NONE => s \in Slots /\ rg.slots[s].val \in Values
  <2>1. s # NONE => s \in Occ(rg)
    BY <1>0, LookupAnswers DEF SlotOf
  <2> QED BY <1>0, <2>1 DEF RegionOK, Occ
<1>3. \E label \in {"mark", "miss", "expire"}, x \in LocalsType, v \in Values \cup {Miss} :
         /\ pc' = [pc EXCEPT ![p] = label] /\ loc' = [loc EXCEPT ![p] = x]
         /\ last' = <<p, k, v>>
         /\ label \in {"mark", "expire"} => x.slot \in Slots
         /\ label = "expire" => x.key \in Keys
  <2>1. CASE GetHit(p, k)
    <3> DEFINE x == [NoLocals EXCEPT !.slot = s]
    <3>1. s \in Slots /\ rg.slots[s].val \in Values
      BY <1>2, <2>1 DEF GetHit
    <3>2. x \in LocalsType /\ x.slot = s
      BY <3>1, NoLocalsType DEF NoLocals
    <3>3. pc' = [pc EXCEPT ![p] = "mark"] /\ loc' = [loc EXCEPT ![p] = x]
          /\ last' = <<p, k, rg.slots[s].val>>
      BY <2>1 DEF GetHit, Lookup, Goto, Keep
    <3> HIDE DEF x, s
    <3> QED BY <3>1, <3>2, <3>3
  <2>2. CASE GetMiss(p, k)
    <3>1. pc' = [pc EXCEPT ![p] = "miss"] /\ loc' = [loc EXCEPT ![p] = NoLocals]
          /\ last' = <<p, k, Miss>>
      BY <2>2 DEF GetMiss, Lookup, Goto, Keep
    <3> QED BY <3>1, NoLocalsType
  <2>3. CASE GetExpired(p, k)
    <3> DEFINE x == [NoLocals EXCEPT !.key = k, !.slot = s]
    <3>1. s \in Slots
      BY <1>2, <2>3 DEF GetExpired
    <3>2. x \in LocalsType /\ x.slot = s /\ x.key = k
      <4>1. x \in LocalsType
        BY <3>1, NoLocalsType
      <4> QED BY <4>1 DEF NoLocals
    <3>3. pc' = [pc EXCEPT ![p] = "expire"] /\ loc' = [loc EXCEPT ![p] = x]
          /\ last' = <<p, k, Miss>>
      BY <2>3 DEF GetExpired, Lookup, Goto, Keep
    <3> HIDE DEF x, s
    <3> QED BY <3>1, <3>2, <3>3
  <2> QED BY <2>1, <2>2, <2>3
<1>4. PICK label \in {"mark", "miss", "expire"}, x \in LocalsType, v \in Values \cup {Miss} :
         /\ pc' = [pc EXCEPT ![p] = label] /\ loc' = [loc EXCEPT ![p] = x]
         /\ last' = <<p, k, v>>
         /\ label \in {"mark", "expire"} => x.slot \in Slots
         /\ label = "expire" => x.key \in Keys
  BY <1>3
<1>5. TypeOK'
  <2>1. pc' \in [Procs -> {"idle", "mark", "miss", "expire", "scan"}]
    BY <1>0, <1>4
  <2>2. loc' \in [Procs -> LocalsType]
    BY <1>0, <1>4
  <2>3. last' \in {<<>>} \cup (Procs \X Keys \X (Values \cup {Miss}))
    BY <1>4
  <2>4. rg' = rg /\ hashOf' = hashOf /\ now' = now /\ marks' = marks
    BY <1>1
  <2> QED BY <1>0, <2>1, <2>2, <2>3, <2>4 DEF TypeOK
<1>6. \A q \in Procs : q # p => pc'[q] = pc[q] /\ loc'[q] = loc[q] /\ pc[q] # "scan"
  BY <1>0, <1>1, <1>4 DEF LockFree
<1>7. pc'[p] = label /\ loc'[p] = x /\ label # "scan"
  BY <1>0, <1>4
<1>8. \A q \in Procs : pc'[q] # "scan"
  BY <1>6, <1>7
<1>9. ProcsOK'
  BY <1>0, <1>4, <1>6, <1>7, <1>8 DEF ProcsOK
<1>10. OneScan'
  BY <1>8 DEF OneScan
<1>11. RegionOK(rg, hashOf)'
  BY <1>0, <1>1
<1> QED BY <1>5, <1>9, <1>10, <1>11 DEF IInv

(* Steps that leave pc and loc of other processes alone, end an operation  *)
(* of p, and move no slot.                                                 *)
LEMMA QuietStepKeepsInv ==
    ASSUME IInv, NEW p \in Procs, Done(p), pc[p] # "scan", Unmoved(rg', rg),
           \A t \in Slots : rg'.slots[t].val = rg.slots[t].val,
           UNCHANGED <<hashOf, last, now>>, marks' \in Nat
    PROVE  IInv'
<1>0. /\ rg \in RegionType
      /\ hashOf \in [Keys -> Hashes]
      /\ pc \in [Procs -> {"idle", "mark", "miss", "expire", "scan"}]
      /\ loc \in [Procs -> LocalsType]
      /\ last \in {<<>>} \cup (Procs \X Keys \X (Values \cup {Miss}))
      /\ now \in Nat /\ marks \in Nat
      /\ RegionOK(rg, hashOf) /\ ProcsOK /\ OneScan
  BY InvFacts
<1>1. pc' = [pc EXCEPT ![p] = "idle"] /\ loc' = [loc EXCEPT ![p] = NoLocals]
  BY DEF Done, Goto, Keep
<1>2. /\ RegionOK(rg', hashOf) /\ rg' \in RegionType /\ rg'.size = rg.size
      /\ \A k : NotCached(rg, k) => NotCached(rg', k)
  <2>1. \A t \in Occ(rg) : rg'.slots[t].val \in Values
    BY <1>0 DEF RegionOK, Occ
  <2> QED BY <1>0, <2>1, UnmovedIsOK DEF Unmoved
<1>3. TypeOK'
  <2>1. pc' \in [Procs -> {"idle", "mark", "miss", "expire", "scan"}]
    BY <1>0, <1>1
  <2>2. loc' \in [Procs -> LocalsType]
    BY <1>0, <1>1, NoLocalsType
  <2> QED BY <1>0, <1>2, <2>1, <2>2 DEF TypeOK
<1>4. /\ \A q \in Procs : q # p => pc'[q] = pc[q] /\ loc'[q] = loc[q]
      /\ pc'[p] = "idle"
  BY <1>0, <1>1
<1>5. ProcsOK'
  BY <1>0, <1>2, <1>4 DEF ProcsOK
<1>6. OneScan'
  BY <1>0, <1>4 DEF OneScan
<1> QED BY <1>2, <1>3, <1>5, <1>6 DEF IInv

(* A reader marks its slot at any time, also if it now holds another entry *)
(* or none.                                                                *)
LEMMA MarkKeepsInv ==
    ASSUME IInv, NEW p \in Procs, MarkVisited(p)
    PROVE  IInv' /\ \E h : rg' = WithHits(WithVisited(rg, loc[p].slot, TRUE), h)
<1> DEFINE s == loc[p].slot
           r1 == WithVisited(rg, s, TRUE)
<1>1. rg \in RegionType /\ s \in Slots /\ marks \in Nat
  BY InvFacts DEF MarkVisited, ProcsOK
<1>2. VisitedSet(r1, rg, s, TRUE)
  BY <1>1, SetVisited
<1>3. rg' = WithHits(r1, Bump(r1.hits))
  BY DEF MarkVisited, WithHits, WithVisited
<1> HIDE DEF r1
<1>4. Unmoved(rg', r1) /\ rg'.slots = r1.slots
  <2>1. r1 \in RegionType
    BY <1>2 DEF VisitedSet, Unmoved
  <2> QED BY <1>3, <2>1, SetCounter
<1>5. Unmoved(rg', rg) /\ \A t \in Slots : rg'.slots[t].val = rg.slots[t].val
  <2>1. Unmoved(r1, rg) /\ \A t \in Slots : r1.slots[t].val = rg.slots[t].val
    BY <1>2 DEF VisitedSet
  <2>2. \A t \in Slots : rg'.slots[t].val = rg.slots[t].val
    BY <1>4, <2>1
  <2>3. Unmoved(rg', rg)
    BY <1>4, <2>1 DEF Unmoved
  <2> QED BY <2>2, <2>3
<1>6. Done(p) /\ pc[p] # "scan" /\ UNCHANGED <<hashOf, last, now>> /\ marks' \in Nat
  BY <1>1 DEF MarkVisited
<1>7. IInv'
  BY <1>5, <1>6, QuietStepKeepsInv
<1> QED BY <1>3, <1>7 DEF r1

(* A reader counts its miss.                                               *)
LEMMA CountMissKeepsInv ==
    ASSUME IInv, NEW p \in Procs, CountMiss(p)
    PROVE  IInv' /\ rg' = WithMisses(rg, Bump(rg.misses))
<1>1. rg \in RegionType /\ marks \in Nat
  BY InvFacts
<1>2. rg' = WithMisses(rg, Bump(rg.misses))
  BY DEF CountMiss, WithMisses
<1>3. Unmoved(rg', rg) /\ rg'.slots = rg.slots
  BY <1>1, <1>2, SetCounter
<1>4. Done(p) /\ pc[p] # "scan" /\ UNCHANGED <<hashOf, last, now>> /\ marks' \in Nat
  BY <1>1 DEF CountMiss
<1>5. IInv'
  BY <1>3, <1>4, QuietStepKeepsInv
<1> QED BY <1>2, <1>5

(* A step of one process under the lock that leaves the region in order.   *)
LEMMA LockedStepKeepsInv ==
    ASSUME IInv, LockFree, RegionOK(rg', hashOf), UNCHANGED <<hashOf, now, marks>>,
           pc' \in [Procs -> {"idle", "mark", "miss", "expire", "scan"}],
           loc' \in [Procs -> LocalsType],
           last' \in {<<>>} \cup (Procs \X Keys \X (Values \cup {Miss})),
           \A q \in Procs : /\ pc'[q] # "scan"
                            /\ pc'[q] \in {"mark", "expire"} => pc'[q] = pc[q] /\ loc'[q] = loc[q]
    PROVE  IInv'
<1>1. hashOf \in [Keys -> Hashes] /\ now \in Nat /\ marks \in Nat /\ ProcsOK
  BY InvFacts
<1>2. rg' \in RegionType
  BY DEF RegionOK, Parts
<1>3. TypeOK'
  BY <1>1, <1>2 DEF TypeOK
<1>4. ProcsOK'
  BY <1>1 DEF ProcsOK
<1>5. OneScan'
  BY DEF OneScan
<1>6. RegionOK(rg, hashOf)'
  OBVIOUS
<1> QED BY <1>3, <1>4, <1>5, <1>6 DEF IInv

(* RemoveExpired: the slot is removed if it still holds the key.           *)
LEMMA RemoveExpiredKeepsInv ==
    ASSUME IInv, NEW p \in Procs, RemoveExpired(p)
    PROVE  /\ IInv'
           /\ SameEntry(p) => /\ loc[p].slot \in Occ(rg)
                              /\ Occ(rg') = Occ(rg) \ {loc[p].slot}
                              /\ \A t \in Occ(rg') : SameData(rg'.slots[t], rg.slots[t])
           /\ ~SameEntry(p) => rg' = rg
<1> DEFINE s == loc[p].slot
           k == loc[p].key
<1>1. /\ RegionOK(rg, hashOf) /\ s \in Slots /\ pc \in [Procs -> {"idle", "mark", "miss", "expire", "scan"}]
      /\ loc \in [Procs -> LocalsType]
      /\ last \in {<<>>} \cup (Procs \X Keys \X (Values \cup {Miss}))
  BY InvFacts DEF RemoveExpired, ProcsOK
<1>2. /\ LockFree /\ UNCHANGED <<hashOf, last, now, marks>>
      /\ pc' = [pc EXCEPT ![p] = "miss"] /\ loc' = [loc EXCEPT ![p] = NoLocals]
      /\ SameEntry(p) => rg' = remove_slot(rg, s, k)
      /\ ~SameEntry(p) => rg' = rg
  BY DEF RemoveExpired, Goto, Keep
<1>3. ASSUME SameEntry(p)
      PROVE  /\ s \in Occ(rg) /\ RegionOK(rg', hashOf) /\ Occ(rg') = Occ(rg) \ {s}
             /\ \A t \in Occ(rg') : SameData(rg'.slots[t], rg.slots[t])
  <2>1. s \in Occ(rg) /\ k = rg.slots[s].key
    BY <1>1, <1>3 DEF SameEntry, Occ
  <2>2. rg' = remove_slot(rg, s, k)
    BY <1>2, <1>3
  <2> HIDE DEF s, k
  <2> QED BY <1>1, <2>1, <2>2, RemoveSlot
<1>4. RegionOK(rg', hashOf)
  BY <1>1, <1>2, <1>3
<1>5. pc' \in [Procs -> {"idle", "mark", "miss", "expire", "scan"}] /\ loc' \in [Procs -> LocalsType]
  BY <1>1, <1>2, NoLocalsType
<1>6. last' \in {<<>>} \cup (Procs \X Keys \X (Values \cup {Miss}))
  BY <1>1, <1>2
<1>7. \A q \in Procs : /\ pc'[q] # "scan"
                       /\ pc'[q] \in {"mark", "expire"} => pc'[q] = pc[q] /\ loc'[q] = loc[q]
  BY <1>1, <1>2 DEF LockFree
<1>8. IInv'
  BY <1>2, <1>4, <1>5, <1>6, <1>7, LockedStepKeepsInv
<1> QED BY <1>2, <1>3, <1>8

(* The steps that begin and end with the lock free and pc as it was.       *)
LEMMA WholeOperationKeepsInv ==
    ASSUME IInv, LockFree, RegionOK(rg', hashOf), UNCHANGED <<hashOf, pc, loc, now, marks>>,
           last' = last \/ \E p \in Procs, k \in Keys, v \in Values : last' = <<p, k, v>>
    PROVE  IInv'
<1>1. /\ pc \in [Procs -> {"idle", "mark", "miss", "expire", "scan"}]
      /\ loc \in [Procs -> LocalsType]
      /\ last \in {<<>>} \cup (Procs \X Keys \X (Values \cup {Miss}))
  BY InvFacts
<1>2. last' \in {<<>>} \cup (Procs \X Keys \X (Values \cup {Miss}))
  BY <1>1
<1>3. pc' = pc /\ loc' = loc
  OBVIOUS
<1>4. \A q \in Procs : /\ pc'[q] # "scan"
                       /\ pc'[q] \in {"mark", "expire"} => pc'[q] = pc[q] /\ loc'[q] = loc[q]
  BY <1>3 DEF LockFree
<1>5. pc' \in [Procs -> {"idle", "mark", "miss", "expire", "scan"}] /\ loc' \in [Procs -> LocalsType]
  BY <1>1, <1>3
<1> QED BY <1>2, <1>4, <1>5, LockedStepKeepsInv

(* InsertUpdate: the entry gets a new value and nothing moves.             *)
Refreshed(e, v, t) == [e EXCEPT !.val = v, !.created = t, !.visited = TRUE]

(* An insert of a cached key writes to its slot.                           *)
LEMMA InsertUpdateKeepsInv ==
    ASSUME IInv, NEW p \in Procs, NEW k \in Keys, NEW v \in Values, InsertUpdate(p, k, v)
    PROVE  /\ IInv'
           /\ SlotOf(k) \in Occ(rg) /\ rg.slots[SlotOf(k)].key = k /\ Occ(rg') = Occ(rg)
           /\ \A t \in Slots : rg'.slots[t].key = rg.slots[t].key
           /\ rg'.slots[SlotOf(k)].val = v /\ rg'.slots[SlotOf(k)].created = now
           /\ \A t \in Slots : t # SlotOf(k) => SameData(rg'.slots[t], rg.slots[t])
<1> DEFINE s == SlotOf(k)
           e == Refreshed(rg.slots[s], v, now)
<1>1. /\ rg \in RegionType /\ RegionOK(rg, hashOf) /\ hashOf \in [Keys -> Hashes] /\ now \in Nat
  BY InvFacts
<1>2. /\ LockFree /\ s # NONE /\ UNCHANGED <<hashOf, pc, loc, now, marks>> /\ last' = <<p, k, v>>
      /\ rg' = WithSlot(rg, s, e)
  BY DEF InsertUpdate, WithSlot, Refreshed
<1>3. s \in Occ(rg) /\ rg.slots[s].key = k
  BY <1>1, <1>2, LookupAnswers DEF SlotOf
<1>4. s \in Slots /\ rg.slots[s] \in SlotType
  BY <1>1, <1>3, RegionFields DEF Occ
<1> HIDE DEF s
<1>5. /\ e \in SlotType /\ e.val = v /\ e.created = now
      /\ e.occupied = rg.slots[s].occupied /\ e.key = rg.slots[s].key /\ e.hash = rg.slots[s].hash
      /\ e.prev = rg.slots[s].prev /\ e.next = rg.slots[s].next
  BY <1>1, <1>4 DEF SlotType, Refreshed
<1> HIDE DEF e
<1>6. /\ rg' \in RegionType /\ SameHeader(rg', rg) /\ rg'.head = rg.head /\ rg'.tail = rg.tail
      /\ rg'.slots[s] = e
      /\ \A t \in Slots : t # s => rg'.slots[t] = rg.slots[t]
  BY <1>1, <1>2, <1>4, <1>5, SetSlot
<1>7. \A t \in Slots :
        /\ rg'.slots[t].occupied = rg.slots[t].occupied /\ rg'.slots[t].key = rg.slots[t].key
        /\ rg'.slots[t].hash = rg.slots[t].hash
        /\ rg'.slots[t].next = rg.slots[t].next /\ rg'.slots[t].prev = rg.slots[t].prev
  BY <1>5, <1>6
<1>8. Unmoved(rg', rg)
  BY <1>6, <1>7 DEF Unmoved, SameHeader
<1>9. \A t \in Occ(rg) : rg'.slots[t].val \in Values
  BY <1>1, <1>5, <1>6 DEF RegionOK, Occ
<1>10. RegionOK(rg', hashOf) /\ Occ(rg') = Occ(rg)
  BY <1>1, <1>8, <1>9, UnmovedIsOK
<1>11. IInv'
  BY <1>2, <1>10, WholeOperationKeepsInv
<1>12. \A t \in Slots : t # s => SameData(rg'.slots[t], rg.slots[t])
  BY <1>6 DEF SameData
<1> QED BY <1>3, <1>5, <1>6, <1>7, <1>10, <1>11, <1>12 DEF s

(* InsertFree: the first free slot takes the entry.                        *)
LEMMA InsertFreeKeepsInv ==
    ASSUME IInv, NEW p \in Procs, NEW k \in Keys, NEW v \in Values, InsertFree(p, k, v)
    PROVE  /\ IInv' /\ NotCached(rg, k) /\ rg.size < Capacity
           /\ rg.free \in Slots \ Occ(rg)
           /\ Occ(rg') = Occ(rg) \cup {rg.free}
           /\ SameData(rg'.slots[rg.free], NewEntry(k, v))
           /\ \A t \in Occ(rg) : SameData(rg'.slots[t], rg.slots[t])
<1>1. /\ RegionOK(rg, hashOf) /\ hashOf \in [Keys -> Hashes] /\ now \in Nat
  BY InvFacts
<1> DEFINE s == rg.free
<1>2. /\ LockFree /\ rg.free # NONE /\ SlotOf(k) = NONE
      /\ UNCHANGED <<hashOf, pc, loc, now, marks>> /\ last' = <<p, k, v>>
      /\ rg' = Fill(WithFreeHead(rg, rg.slots[s].next), s, k, v)
  BY DEF InsertFree, WithFreeHead
<1>3. NotCached(rg, k)
  BY <1>1, <1>2, LookupAnswers DEF SlotOf
<1> HIDE DEF s
<1>4. /\ RegionOK(rg', hashOf) /\ s \in Slots \ Occ(rg) /\ rg.size < Capacity
      /\ Occ(rg') = Occ(rg) \cup {s} /\ SameData(rg'.slots[s], NewEntry(k, v))
      /\ \A t \in Occ(rg) : SameData(rg'.slots[t], rg.slots[t])
  BY <1>1, <1>2, <1>3, FillFree DEF s
<1>5. IInv'
  BY <1>2, <1>4, WholeOperationKeepsInv
<1> QED BY <1>3, <1>4, <1>5 DEF s

(* A scan stays in the list, which then holds every slot.                  *)
LEMMA HandInSlots ==
    ASSUME NEW r, NEW hf, RegionOK(r, hf), r.size = Capacity
    PROVE  HandStart(r) \in Slots /\ \A s \in Slots : HandAfter(r, s) \in Slots
<1>1. r \in RegionType /\ r.head \in Slots
  BY NothingFree DEF RegionOK, Parts
<1>2. r.hand \in Slots \cup {NONE} /\ \A s \in Slots : r.slots[s].next \in Slots \cup {NONE}
  BY <1>1, RegionFields
<1> QED BY <1>1, <1>2 DEF HandStart, HandAfter

(* BeginEvict: with no free slot the cache is full.                        *)
LEMMA BeginEvictKeepsInv ==
    ASSUME IInv, NEW p \in Procs, NEW k \in Keys, NEW v \in Values, BeginEvict(p, k, v)
    PROVE  IInv'
<1> DEFINE x == [key |-> k, val |-> v, slot |-> HandStart(rg), steps |-> 0]
<1>1. /\ rg \in RegionType /\ RegionOK(rg, hashOf) /\ hashOf \in [Keys -> Hashes]
      /\ pc \in [Procs -> {"idle", "mark", "miss", "expire", "scan"}]
      /\ loc \in [Procs -> LocalsType]
      /\ last \in {<<>>} \cup (Procs \X Keys \X (Values \cup {Miss}))
      /\ now \in Nat /\ marks \in Nat /\ ProcsOK
  BY InvFacts
<1>2. /\ LockFree /\ SlotOf(k) = NONE /\ rg.free = NONE
      /\ loc' = [loc EXCEPT ![p] = x] /\ pc' = [pc EXCEPT ![p] = "scan"]
      /\ rg' = rg /\ hashOf' = hashOf /\ last' = last /\ now' = now /\ marks' = marks
  BY DEF BeginEvict, MustEvict, Goto, Keep
<1>3. NotCached(rg, k) /\ rg.size = Capacity
  BY <1>1, <1>2, LookupAnswers, NothingFree DEF SlotOf
<1>4. HandStart(rg) \in Slots
  BY <1>1, <1>3, HandInSlots
<1>5. x \in LocalsType /\ x.slot \in Slots /\ x.key = k /\ x.val = v
  <2>1. 0 \in 0 .. ScanLimit
    BY HtCapPositive DEF ScanLimit
  <2> QED BY <1>4, <2>1 DEF LocalsType
<1> HIDE DEF x
<1>6. /\ pc' \in [Procs -> {"idle", "mark", "miss", "expire", "scan"}]
      /\ loc' \in [Procs -> LocalsType]
  BY <1>1, <1>2, <1>5
<1>7. TypeOK'
  BY <1>1, <1>2, <1>6 DEF TypeOK
<1>8. /\ \A q \in Procs : q # p => pc'[q] = pc[q] /\ loc'[q] = loc[q] /\ pc[q] # "scan"
      /\ pc'[p] = "scan" /\ loc'[p] = x
  BY <1>1, <1>2 DEF LockFree
<1>9. ProcsOK'
  BY <1>1, <1>2, <1>3, <1>5, <1>8 DEF ProcsOK
<1>10. OneScan'
  BY <1>8 DEF OneScan
<1>11. RegionOK(rg, hashOf)'
  BY <1>1, <1>2
<1> QED BY <1>7, <1>9, <1>10, <1>11 DEF IInv

(* ScanStep: a visited bit is cleared and the hand moves on.               *)
LEMMA ScanStepKeepsInv ==
    ASSUME IInv, NEW p \in Procs, ScanStep(p)
    PROVE  IInv' /\ rg' = WithVisited(rg, loc[p].slot, FALSE) /\ loc[p].slot \in Slots
<1> DEFINE s == loc[p].slot
           x == [loc[p] EXCEPT !.slot = HandAfter(rg, s), !.steps = @ + 1]
<1>1. /\ rg \in RegionType /\ RegionOK(rg, hashOf) /\ hashOf \in [Keys -> Hashes]
      /\ pc \in [Procs -> {"idle", "mark", "miss", "expire", "scan"}]
      /\ loc \in [Procs -> LocalsType]
      /\ last \in {<<>>} \cup (Procs \X Keys \X (Values \cup {Miss}))
      /\ now \in Nat /\ marks \in Nat /\ ProcsOK /\ OneScan
  BY InvFacts
<1>2. /\ pc[p] = "scan" /\ loc[p].steps < ScanLimit
      /\ loc' = [loc EXCEPT ![p] = x] /\ rg' = WithVisited(rg, s, FALSE)
      /\ pc' = pc /\ hashOf' = hashOf /\ last' = last /\ now' = now /\ marks' = marks
  BY DEF ScanStep, SecondChance, WithVisited, Keep
<1>3. /\ s \in Slots /\ loc[p].key \in Keys /\ loc[p].val \in Values
      /\ NotCached(rg, loc[p].key) /\ rg.size = Capacity
  BY <1>1, <1>2 DEF ProcsOK
<1>4. HandAfter(rg, s) \in Slots
  BY <1>1, <1>3, HandInSlots
<1>5. x \in LocalsType /\ x.slot \in Slots /\ x.key = loc[p].key /\ x.val = loc[p].val
  <2>1. loc[p] \in LocalsType /\ loc[p].steps \in 0 .. ScanLimit /\ ScanLimit \in Nat
    BY <1>1, HtCapPositive DEF LocalsType, ScanLimit
  <2>2. loc[p].steps + 1 \in 0 .. ScanLimit
    BY <1>2, <2>1
  <2> QED BY <1>4, <2>1, <2>2 DEF LocalsType
<1> HIDE DEF x
<1>6. VisitedSet(rg', rg, s, FALSE)
  BY <1>1, <1>2, <1>3, SetVisited
<1>7. Unmoved(rg', rg) /\ \A t \in Slots : rg'.slots[t].val = rg.slots[t].val
  BY <1>6 DEF VisitedSet
<1>8. /\ RegionOK(rg', hashOf) /\ rg' \in RegionType /\ rg'.size = rg.size
      /\ \A k : NotCached(rg, k) => NotCached(rg', k)
  <2>1. \A t \in Occ(rg) : rg'.slots[t].val \in Values
    BY <1>1, <1>7 DEF RegionOK, Occ
  <2>2. rg' \in RegionType /\ rg'.size = rg.size
    BY <1>7 DEF Unmoved
  <2> QED BY <1>1, <1>7, <2>1, <2>2, UnmovedIsOK
<1>9. loc' \in [Procs -> LocalsType]
  BY <1>1, <1>2, <1>5
<1>10. TypeOK'
  BY <1>1, <1>2, <1>8, <1>9 DEF TypeOK
<1>11. /\ \A q \in Procs : q # p => loc'[q] = loc[q] /\ pc[q] # "scan"
       /\ loc'[p] = x
  BY <1>1, <1>2 DEF OneScan
<1>12. ProcsOK'
  BY <1>1, <1>2, <1>3, <1>5, <1>8, <1>11 DEF ProcsOK
<1>13. OneScan'
  BY <1>1, <1>2 DEF OneScan
<1> QED BY <1>2, <1>3, <1>8, <1>10, <1>12, <1>13 DEF IInv

(* Replace: the victim's slot takes the entry of the scanner's key.        *)
LEMMA ReplaceKeepsInv ==
    ASSUME IInv, NEW p \in Procs, EvictUnvisited(p) \/ EvictFallback(p)
    PROVE  /\ IInv' /\ pc[p] = "scan" /\ loc[p].slot \in Slots
           /\ loc[p].key \in Keys /\ loc[p].val \in Values
           /\ NotCached(rg, loc[p].key) /\ rg.size = Capacity
           /\ Occ(rg) = Slots /\ Occ(rg') = Slots
           /\ SameData(rg'.slots[loc[p].slot], NewEntry(loc[p].key, loc[p].val))
           /\ \A t \in Slots \ {loc[p].slot} : SameData(rg'.slots[t], rg.slots[t])
           /\ last' = <<p, loc[p].key, loc[p].val>> /\ marks' = 0
           /\ \A q \in Procs : pc'[q] # "scan"
<1> DEFINE s == loc[p].slot
           k == loc[p].key
           v == loc[p].val
<1>1. /\ rg \in RegionType /\ RegionOK(rg, hashOf) /\ hashOf \in [Keys -> Hashes]
      /\ pc \in [Procs -> {"idle", "mark", "miss", "expire", "scan"}]
      /\ loc \in [Procs -> LocalsType] /\ now \in Nat /\ marks \in Nat /\ ProcsOK /\ OneScan
  BY InvFacts
<1>2. pc[p] = "scan"
  BY DEF EvictUnvisited, EvictFallback
<1>3. s \in Slots /\ k \in Keys /\ v \in Values /\ NotCached(rg, k) /\ rg.size = Capacity
  BY <1>1, <1>2 DEF ProcsOK
<1>4. PICK hand \in Slots \cup {NONE} : Replace(p, hand)
  <2>1. HandAfter(rg, s) \in Slots
    BY <1>1, <1>3, HandInSlots
  <2> QED BY <2>1 DEF EvictUnvisited, EvictFallback
<1>5. /\ rg' = Fill(WithOneLess(Detach(rg, s, rg.slots[s].key), hand), s, k, v)
      /\ pc' = [pc EXCEPT ![p] = "idle"] /\ loc' = [loc EXCEPT ![p] = NoLocals]
      /\ last' = <<p, k, v>> /\ marks' = 0 /\ hashOf' = hashOf /\ now' = now
  BY <1>4 DEF Replace, WithOneLess, Detach, Done, Goto, Keep
<1>6. Occ(rg) = Slots
  BY <1>1, <1>3, NothingFree
<1> HIDE DEF s, k, v
<1>7. /\ RegionOK(rg', hashOf) /\ Occ(rg') = Occ(rg)
      /\ SameData(rg'.slots[s], NewEntry(k, v))
      /\ \A t \in Occ(rg) \ {s} : SameData(rg'.slots[t], rg.slots[t])
  <2>1. s \in Occ(rg)
    BY <1>3, <1>6
  <2> QED BY <1>1, <1>3, <1>5, <2>1, FillVictim
<1>8. rg' \in RegionType
  BY <1>7 DEF RegionOK, Parts
<1>9. /\ pc' \in [Procs -> {"idle", "mark", "miss", "expire", "scan"}]
      /\ loc' \in [Procs -> LocalsType]
  BY <1>1, <1>5, NoLocalsType
<1>10. last' \in {<<>>} \cup (Procs \X Keys \X (Values \cup {Miss}))
  BY <1>3, <1>5
<1>11. TypeOK'
  BY <1>1, <1>5, <1>8, <1>9, <1>10 DEF TypeOK
<1>12. /\ \A q \in Procs : q # p => pc'[q] = pc[q] /\ loc'[q] = loc[q] /\ pc[q] # "scan"
       /\ pc'[p] = "idle"
  BY <1>1, <1>2, <1>5 DEF OneScan
<1>13. ProcsOK'
  <2>1. ASSUME NEW q \in Procs
        PROVE  /\ pc'[q] # "scan"
               /\ pc'[q] \in {"mark", "expire", "scan"} => loc'[q].slot \in Slots
               /\ pc'[q] \in {"expire", "scan"} => loc'[q].key \in Keys
    <3>1. CASE q = p
      BY <1>12, <3>1
    <3>2. CASE q # p
      BY <1>1, <1>12, <3>2 DEF ProcsOK
    <3> QED BY <3>1, <3>2
  <2> QED BY <2>1 DEF ProcsOK
<1>14. OneScan' /\ \A q \in Procs : pc'[q] # "scan"
  BY <1>12 DEF OneScan
<1>15. RegionOK(rg, hashOf)'
  BY <1>5, <1>7
<1>16. IInv'
  BY <1>11, <1>13, <1>14, <1>15 DEF IInv
<1> QED BY <1>2, <1>3, <1>5, <1>6, <1>7, <1>14, <1>16 DEF s, k, v

(* Clear leaves the empty cache of EmptyIsOK.                              *)
Emptied(e, i) == [e EXCEPT !.occupied = FALSE, !.prev = NONE, !.next = FreeNext(i)]

(* clear leaves a region without entries.                                  *)
LEMMA ClearKeepsInv ==
    ASSUME IInv, NEW p \in Procs, Clear(p)
    PROVE  IInv' /\ Occ(rg') = {}
<1>1. rg \in RegionType
  BY InvFacts
<1>2. /\ LockFree /\ UNCHANGED <<hashOf, pc, loc, last, now, marks>>
      /\ rg' = [ht_clear(rg) EXCEPT
                 !.slots = [i \in Slots |-> Emptied(rg.slots[i], i)],
                 !.size = 0, !.hits = 0, !.misses = 0, !.skips = 0,
                 !.head = NONE, !.tail = NONE, !.free = 0, !.hand = NONE]
  BY DEF Clear, Emptied
<1>3. ASSUME NEW i \in Slots
      PROVE  /\ Emptied(rg.slots[i], i) \in SlotType
             /\ ~Emptied(rg.slots[i], i).occupied
             /\ Emptied(rg.slots[i], i).next = FreeNext(i)
  <2>1. rg.slots[i] \in SlotType
    BY <1>1, RegionFields
  <2>2. FreeNext(i) \in Slots \cup {NONE}
    BY HtCapPositive DEF FreeNext, Slots
  <2> QED BY <2>1, <2>2 DEF SlotType, Emptied
<1> DEFINE slots == [i \in Slots |-> Emptied(rg.slots[i], i)]
<1>4. slots \in [Slots -> SlotType] /\ \A i \in Slots : ~slots[i].occupied /\ slots[i].next = FreeNext(i)
  BY <1>3
<1>5. rg' = [ht_clear(rg) EXCEPT
                 !.slots = slots,
                 !.size = 0, !.hits = 0, !.misses = 0, !.skips = 0,
                 !.head = NONE, !.tail = NONE, !.free = 0, !.hand = NONE]
  BY <1>2
<1> HIDE DEF slots
<1>6. /\ rg' \in RegionType /\ rg'.slots = slots /\ rg'.ht = [b \in Buckets |-> EmptyBucket]
      /\ rg'.size = 0 /\ rg'.head = NONE /\ rg'.tail = NONE /\ rg'.free = 0
  <2>1. 0 \in Slots /\ 0 \in 0 .. Capacity /\ 0 \in 0 .. StatMod - 1
    BY HtCapPositive, NumbersAssumption DEF Slots
  <2> QED BY <1>1, <1>4, <1>5, <2>1 DEF RegionType, ht_clear, EmptyBucket
<1>7. RegionOK(rg', hashOf) /\ Occ(rg') = {}
  <2>1. \A b \in Buckets : rg'.ht[b] = EmptyBucket
    BY <1>6
  <2>2. \A t \in Slots : ~rg'.slots[t].occupied /\ rg'.slots[t].next = FreeNext(t)
    BY <1>4, <1>6
  <2> QED BY <1>6, <2>1, <2>2, EmptyIsOK
<1>8. last' = last
  BY <1>2
<1> QED BY <1>2, <1>7, <1>8, WholeOperationKeepsInv

(* record_oversize_skip counts, also while a scan holds the lock.          *)
LEMMA SkipKeepsInv ==
    ASSUME IInv, NEW p \in Procs, RecordOversizeSkip(p)
    PROVE  IInv' /\ rg' = WithSkips(rg, Bump(rg.skips))
<1>1. /\ rg \in RegionType /\ RegionOK(rg, hashOf) /\ TypeOK /\ ProcsOK /\ OneScan
  BY DEF IInv, TypeOK
<1>2. /\ pc' = pc /\ loc' = loc /\ last' = last /\ now' = now /\ marks' = marks /\ hashOf' = hashOf
      /\ rg' = WithSkips(rg, Bump(rg.skips))
  BY DEF RecordOversizeSkip, WithSkips
<1>3. Unmoved(rg', rg) /\ rg'.slots = rg.slots /\ rg' \in RegionType
  BY <1>1, <1>2, SetCounter
<1>4. /\ RegionOK(rg', hashOf) /\ rg'.size = rg.size
      /\ \A k : NotCached(rg, k) => NotCached(rg', k)
  <2>1. \A t \in Occ(rg) : rg'.slots[t].val \in Values
    BY <1>1, <1>3 DEF RegionOK
  <2>2. rg'.size = rg.size
    BY <1>3 DEF Unmoved
  <2> QED BY <1>1, <1>3, <2>1, <2>2, UnmovedIsOK
<1>5. TypeOK'
  BY <1>1, <1>2, <1>3 DEF TypeOK
<1>6. ProcsOK'
  BY <1>1, <1>2, <1>4 DEF ProcsOK
<1>7. OneScan'
  BY <1>1, <1>2 DEF OneScan
<1> QED BY <1>2, <1>4, <1>5, <1>6, <1>7 DEF IInv

(* Time passes, or nothing happens.                                        *)
LEMMA TickKeepsInv ==
    ASSUME IInv, Tick \/ UNCHANGED vars
    PROVE  IInv'
<1>1. /\ rg' = rg /\ pc' = pc /\ loc' = loc /\ last' = last /\ marks' = marks /\ hashOf' = hashOf
      /\ now' = now \/ now' = now + 1
  BY DEF Tick, vars
<1>2. TypeOK /\ RegionOK(rg, hashOf) /\ ProcsOK /\ OneScan
  BY DEF IInv
<1>3. TypeOK'
  BY <1>1, <1>2 DEF TypeOK
<1>4. ProcsOK'
  BY <1>1, <1>2 DEF ProcsOK
<1>5. OneScan'
  BY <1>1, <1>2 DEF OneScan
<1>6. RegionOK(rg, hashOf)'
  BY <1>1, <1>2
<1> QED BY <1>3, <1>4, <1>5, <1>6 DEF IInv

(* Every step keeps IInv.                                                  *)
LEMMA InvNext == IInv /\ [Next]_vars => IInv'
<1> SUFFICES ASSUME IInv, [Next]_vars PROVE IInv'
  OBVIOUS
<1>1. ASSUME NEW p \in Procs, NEW k \in Keys, Begin(p, k) PROVE IInv'
  <2>1. CASE GetHit(p, k) \/ GetMiss(p, k) \/ GetExpired(p, k)
    BY <2>1, LookupKeepsInv
  <2>2. ASSUME NEW v \in Values, InsertUpdate(p, k, v) PROVE IInv'
    BY <2>2, InsertUpdateKeepsInv
  <2>3. ASSUME NEW v \in Values, InsertFree(p, k, v) PROVE IInv'
    BY <2>3, InsertFreeKeepsInv
  <2>4. ASSUME NEW v \in Values, BeginEvict(p, k, v) PROVE IInv'
    BY <2>4, BeginEvictKeepsInv
  <2> QED BY <1>1, <2>1, <2>2, <2>3, <2>4 DEF Begin
<1>2. ASSUME NEW p \in Procs, Continue(p) PROVE IInv'
  <2>1. CASE MarkVisited(p)
    BY <2>1, MarkKeepsInv
  <2>2. CASE CountMiss(p)
    BY <2>2, CountMissKeepsInv
  <2>3. CASE RemoveExpired(p)
    BY <2>3, RemoveExpiredKeepsInv
  <2>4. CASE ScanStep(p)
    BY <2>4, ScanStepKeepsInv
  <2>5. CASE EvictUnvisited(p) \/ EvictFallback(p)
    BY <2>5, ReplaceKeepsInv
  <2> QED BY <1>2, <2>1, <2>2, <2>3, <2>4, <2>5 DEF Continue
<1>3. ASSUME NEW p \in Procs, Clear(p) PROVE IInv'
  BY <1>3, ClearKeepsInv
<1>4. ASSUME NEW p \in Procs, RecordOversizeSkip(p) PROVE IInv'
  BY <1>4, SkipKeepsInv
<1>5. CASE Tick \/ UNCHANGED vars
  BY <1>5, TickKeepsInv
<1> QED BY <1>1, <1>2, <1>3, <1>4, <1>5 DEF Next

(* Every state of the shared cache has its slots in order: each is in the  *)
(* table and the eviction list, or in the free list.                       *)
THEOREM Invariant == Spec => []IInv
<1>1. Init => IInv
  BY InvInit
<1>2. IInv /\ [Next]_vars => IInv'
  BY InvNext
<1> QED BY <1>1, <1>2, PTL DEF Spec

(* Every variable has its type: current_size stays in 0 .. Capacity though *)
(* remove_slot and sieve_evict subtract from it unchecked, and a scan ends *)
(* at its limit.                                                           *)
THEOREM TypeCorrect == Spec => []TypeOK
<1>1. IInv => TypeOK
  BY DEF IInv
<1> QED BY <1>1, Invariant, PTL

(* insert_inner never gives up: with no free slot the list has a victim.   *)
THEOREM InsertsAllocate == Spec => []AllocationNeverFails
<1>1. IInv => AllocationNeverFails
  <2> SUFFICES ASSUME IInv, rg.free = NONE PROVE rg.size >= Capacity /\ rg.head # NONE
    BY DEF AllocationNeverFails
  <2>1. rg.size = Capacity /\ rg.head \in Slots
    BY NothingFree DEF IInv
  <2> QED BY <2>1, HtCapPositive, NoneIsNoSlot
<1> QED BY <1>1, Invariant, PTL

(* A scan of sieve_evict meets only slots of the eviction list, although   *)
(* remove_slot may leave the hand at a freed slot.                         *)
THEOREM ScansStayInTheList == Spec => []ScanStaysInList
<1>1. IInv => ScanStaysInList
  <2> SUFFICES ASSUME IInv, NEW p \in Procs, pc[p] = "scan"
               PROVE  rg.slots[loc[p].slot].occupied
    BY DEF ScanStaysInList
  <2>1. loc[p].slot \in Slots /\ rg.size = Capacity /\ RegionOK(rg, hashOf)
    BY DEF IInv, ProcsOK
  <2>2. Occ(rg) = Slots
    BY <2>1, NothingFree
  <2> QED BY <2>1, <2>2 DEF Occ
<1> QED BY <1>1, Invariant, PTL

-------------------------------------------------------------------------------
(***************************************************************************)
(* The cost of a scan                                                      *)
(***************************************************************************)

VisitedSlots(r) == {s \in Slots : r.slots[s].visited}

(* At most every slot is visited.                                          *)
LEMMA VisitedCount ==
    ASSUME NEW r
    PROVE  /\ IsFiniteSet(VisitedSlots(r))
           /\ Cardinality(VisitedSlots(r)) \in Nat /\ Cardinality(VisitedSlots(r)) <= Capacity
<1>1. IsFiniteSet(Slots) /\ Cardinality(Slots) = Capacity
  BY HtCapPositive, FS_Interval DEF Slots
<1>2. VisitedSlots(r) \in SUBSET Slots
  BY DEF VisitedSlots
<1>3. IsFiniteSet(VisitedSlots(r)) /\ Cardinality(VisitedSlots(r)) <= Capacity
  BY <1>1, <1>2, FS_Subset
<1> QED BY <1>3, FS_CardinalityType

(* One more slot is visited at most, one fewer if a visited one is cleared. *)
LEMMA VisitedAfter ==
    ASSUME NEW r, NEW u, NEW s \in Slots, NEW x \in BOOLEAN,
           \A t \in Slots : u.slots[t].visited = IF t = s THEN x ELSE r.slots[t].visited
    PROVE  /\ x => Cardinality(VisitedSlots(u)) <= Cardinality(VisitedSlots(r)) + 1
           /\ ~x /\ r.slots[s].visited =>
                Cardinality(VisitedSlots(u)) = Cardinality(VisitedSlots(r)) - 1
<1> DEFINE V == VisitedSlots(r)
<1>1. IsFiniteSet(V) /\ Cardinality(V) \in Nat
  BY VisitedCount
<1>2. ASSUME x PROVE Cardinality(VisitedSlots(u)) <= Cardinality(V) + 1
  <2>1. VisitedSlots(u) = V \cup {s}
    BY <1>2 DEF VisitedSlots
  <2> HIDE DEF V
  <2>2. Cardinality(V \cup {s}) = IF s \in V THEN Cardinality(V) ELSE Cardinality(V) + 1
    BY <1>1, FS_AddElement
  <2> QED BY <1>1, <2>1, <2>2
<1>3. ASSUME ~x, r.slots[s].visited PROVE Cardinality(VisitedSlots(u)) = Cardinality(V) - 1
  <2>1. VisitedSlots(u) = V \ {s} /\ s \in V
    BY <1>3 DEF VisitedSlots
  <2> HIDE DEF V
  <2>2. Cardinality(V \ {s}) = IF s \in V THEN Cardinality(V) - 1 ELSE Cardinality(V)
    BY <1>1, FS_RemoveElement
  <2> QED BY <2>1, <2>2
<1> QED BY <1>2, <1>3

(* Every action keeps ScanCost.                                            *)
LEMMA CostNext ==
    ASSUME IInv, ScanCost, [Next]_vars
    PROVE  ScanCost'
<1> DEFINE n == Cardinality(VisitedSlots(rg))
           m == Cardinality(VisitedSlots(rg'))
<1>0. /\ rg \in RegionType /\ loc \in [Procs -> LocalsType] /\ marks \in Nat /\ ProcsOK /\ OneScan
      /\ pc \in [Procs -> {"idle", "mark", "miss", "expire", "scan"}]
  BY InvFacts
<1>1. n \in Nat /\ m \in Nat /\ m <= Capacity /\ n <= Capacity
  BY VisitedCount
<1>2. ASSUME NEW p \in Procs PROVE loc[p].steps \in Nat
  BY <1>0 DEF LocalsType
<1>3. SUFFICES ASSUME NEW p \in Procs, pc'[p] = "scan"
               PROVE  loc'[p].steps + m <= Capacity + marks'
  BY DEF ScanCost, VisitedSlots
<1>4. pc[p] = "scan" => loc[p].steps + n <= Capacity + marks
  BY DEF ScanCost, VisitedSlots
<1> HIDE DEF n, m
<1>5. ASSUME rg'.slots = rg.slots PROVE m = n
  BY <1>5 DEF VisitedSlots, n, m
<1>6. ASSUME rg'.slots = rg.slots, pc'[p] = pc[p], loc'[p] = loc[p], marks' = marks
      PROVE  loc'[p].steps + m <= Capacity + marks'
  BY <1>3, <1>4, <1>5, <1>6
<1>7. ASSUME LockFree, pc' = pc PROVE FALSE
  BY <1>3, <1>7 DEF LockFree
<1>8. ASSUME NEW q \in Procs, NEW k \in Keys, Begin(q, k)
      PROVE  loc'[p].steps + m <= Capacity + marks'
  <2>1. ASSUME GetHit(q, k) \/ GetMiss(q, k) \/ GetExpired(q, k) PROVE FALSE
    <3>1. LockFree /\ pc' \in {[pc EXCEPT ![q] = label] : label \in {"mark", "miss", "expire"}}
      BY <2>1 DEF GetHit, GetMiss, GetExpired, Lookup, Goto
    <3>2. pc'[p] # "scan"
      BY <1>0, <3>1 DEF LockFree
    <3> QED BY <1>3, <3>2
  <2>2. ASSUME NEW v \in Values, InsertUpdate(q, k, v) \/ InsertFree(q, k, v) PROVE FALSE
    BY <1>7, <2>2 DEF InsertUpdate, InsertFree
  <2>3. ASSUME NEW v \in Values, BeginEvict(q, k, v)
        PROVE  loc'[p].steps + m <= Capacity + marks'
    <3>1. /\ LockFree /\ marks' = marks /\ pc' = [pc EXCEPT ![q] = "scan"]
          /\ loc' = [loc EXCEPT ![q] = [key |-> k, val |-> v, slot |-> HandStart(rg), steps |-> 0]]
      BY <2>3 DEF BeginEvict, Goto, Keep
    <3>2. p = q
      BY <1>0, <1>3, <3>1 DEF LockFree
    <3>3. loc'[p].steps = 0
      BY <1>0, <3>1, <3>2
    <3> QED BY <1>0, <1>1, <3>1, <3>3, HtCapPositive
  <2> QED BY <1>8, <2>1, <2>2, <2>3 DEF Begin
<1>9. ASSUME NEW q \in Procs, Continue(q)
      PROVE  loc'[p].steps + m <= Capacity + marks'
  <2>1. ASSUME MarkVisited(q) PROVE loc'[p].steps + m <= Capacity + marks'
    <3> DEFINE s == loc[q].slot
    <3>1. /\ pc[q] = "mark" /\ s \in Slots
          /\ pc' = [pc EXCEPT ![q] = "idle"] /\ loc' = [loc EXCEPT ![q] = NoLocals]
          /\ marks' = IF LockFree THEN 0 ELSE marks + 1
      BY <1>0, <2>1 DEF MarkVisited, Done, Goto, Keep, ProcsOK
    <3>2. p # q /\ pc[p] = "scan" /\ loc'[p] = loc[p]
      BY <1>0, <1>3, <3>1
    <3>3. marks' = marks + 1
      BY <3>1, <3>2 DEF LockFree
    <3>4. PICK h : rg' = WithHits(WithVisited(rg, s, TRUE), h)
      BY <2>1, MarkKeepsInv
    <3>5. VisitedSet(WithVisited(rg, s, TRUE), rg, s, TRUE)
      BY <1>0, <3>1, SetVisited
    <3> HIDE DEF s
    <3>6. rg'.slots = WithVisited(rg, s, TRUE).slots
      <4> DEFINE r1 == WithVisited(rg, s, TRUE)
      <4>1. r1 \in RegionType
        BY <3>5 DEF VisitedSet, Unmoved
      <4> HIDE DEF r1
      <4>2. rg' = WithHits(r1, h)
        BY <3>4 DEF r1
      <4>3. rg'.slots = r1.slots
        BY <4>1, <4>2 DEF WithHits, RegionType
      <4> QED BY <4>3 DEF r1
    <3>7. \A t \in Slots : rg'.slots[t].visited = IF t = s THEN TRUE ELSE rg.slots[t].visited
      BY <3>5, <3>6 DEF VisitedSet
    <3>8. m <= n + 1
      BY <3>1, <3>7, VisitedAfter DEF m, n, s
    <3> QED BY <1>0, <1>1, <1>2, <1>4, <3>2, <3>3, <3>8, HtCapPositive
  <2>2. ASSUME CountMiss(q) PROVE loc'[p].steps + m <= Capacity + marks'
    <3>1. rg' = WithMisses(rg, Bump(rg.misses))
      BY <2>2, CountMissKeepsInv
    <3>2. rg'.slots = rg.slots
      BY <1>0, <3>1, SetCounter
    <3>3. pc' = [pc EXCEPT ![q] = "idle"] /\ loc' = [loc EXCEPT ![q] = NoLocals] /\ marks' = marks
      BY <2>2 DEF CountMiss, Done, Goto, Keep
    <3>4. pc'[p] = pc[p] /\ loc'[p] = loc[p]
      BY <1>0, <1>3, <3>3
    <3> QED BY <1>6, <3>2, <3>3, <3>4
  <2>3. ASSUME RemoveExpired(q) PROVE FALSE
    <3>1. LockFree /\ pc' = [pc EXCEPT ![q] = "miss"]
      BY <2>3 DEF RemoveExpired, Goto
    <3> QED BY <1>0, <1>3, <3>1 DEF LockFree
  <2>4. ASSUME ScanStep(q) PROVE loc'[p].steps + m <= Capacity + marks'
    <3> DEFINE s == loc[q].slot
    <3>1. /\ pc[q] = "scan" /\ pc' = pc /\ marks' = marks /\ rg.slots[s].visited
          /\ loc' = [loc EXCEPT ![q] = [loc[q] EXCEPT !.slot = HandAfter(rg, s), !.steps = @ + 1]]
      BY <2>4 DEF ScanStep, Keep
    <3>2. p = q
      BY <1>0, <1>3, <3>1 DEF OneScan
    <3>3. loc'[p].steps = loc[p].steps + 1
      BY <1>0, <3>1, <3>2 DEF LocalsType
    <3>4. rg' = WithVisited(rg, s, FALSE) /\ s \in Slots
      BY <2>4, ScanStepKeepsInv
    <3>5. VisitedSet(rg', rg, s, FALSE)
      BY <1>0, <3>4, SetVisited
    <3>6. \A t \in Slots : rg'.slots[t].visited = IF t = s THEN FALSE ELSE rg.slots[t].visited
      BY <3>5 DEF VisitedSet
    <3> HIDE DEF s
    <3>7. m = n - 1
      BY <3>1, <3>4, <3>6, VisitedAfter DEF m, n
    <3> QED BY <1>0, <1>1, <1>2, <1>3, <1>4, <3>1, <3>3, <3>7, HtCapPositive
  <2>5. ASSUME EvictUnvisited(q) \/ EvictFallback(q) PROVE FALSE
    BY <1>3, <2>5, ReplaceKeepsInv
  <2> QED BY <1>9, <2>1, <2>2, <2>3, <2>4, <2>5 DEF Continue
<1>10. ASSUME NEW q \in Procs, Clear(q) PROVE FALSE
  BY <1>7, <1>10 DEF Clear
<1>11. ASSUME NEW q \in Procs, RecordOversizeSkip(q)
       PROVE  loc'[p].steps + m <= Capacity + marks'
  <2>1. rg' = WithSkips(rg, Bump(rg.skips))
    BY <1>11, SkipKeepsInv
  <2>2. rg'.slots = rg.slots
    BY <1>0, <2>1, SetCounter
  <2>3. pc' = pc /\ loc' = loc /\ marks' = marks
    BY <1>11 DEF RecordOversizeSkip
  <2> QED BY <1>6, <2>2, <2>3
<1>12. ASSUME Tick \/ UNCHANGED vars PROVE loc'[p].steps + m <= Capacity + marks'
  <2>1. rg' = rg /\ pc' = pc /\ loc' = loc /\ marks' = marks
    BY <1>12 DEF Tick, vars
  <2> QED BY <1>6, <2>1
<1> QED BY <1>8, <1>9, <1>10, <1>11, <1>12 DEF Next

(* A scan takes at most Capacity steps and one more for every visited bit  *)
(* that a racing get stores: the fallback of sieve_evict is for races only. *)
THEOREM ScansAreShort == Spec => []ScanCost
<1>1. Init => ScanCost
  BY DEF Init, ScanCost
<1>2. IInv /\ ScanCost /\ [Next]_vars => ScanCost'
  BY CostNext
<1> QED BY <1>1, <1>2, Invariant, PTL DEF Spec

-------------------------------------------------------------------------------
(***************************************************************************)
(* Table, list and free list hold what they should                         *)
(***************************************************************************)

(* A function that is one to one and onto is a bijection.                  *)
LEMMA OneToOne ==
    ASSUME NEW S, NEW T, NEW f \in [S -> T],
           \A x, y \in S : f[x] = f[y] => x = y,
           \A y \in T : \E x \in S : f[x] = y
    PROVE  ExistsBijection(S, T)
<1>1. f \in Bijection(S, T)
  BY Fun_IsBij
<1> QED BY <1>1 DEF ExistsBijection

(* An enumeration counts its slots.                                        *)
LEMMA EnumerationCounts ==
    ASSUME NEW n \in Nat, NEW O \in SUBSET Slots, NEW q \in [1 .. n -> Slots], Enumerates(q, n, O)
    PROVE  IsFiniteSet(O) /\ Cardinality(O) = n
<1>1. q \in [1 .. n -> O]
  BY DEF Enumerates
<1>2. \A i, j \in 1 .. n : q[i] = q[j] => i = j
  BY DEF Enumerates
<1>3. \A s \in O : \E i \in 1 .. n : q[i] = s
  BY DEF Enumerates
<1>4. ExistsBijection(1 .. n, O)
  BY <1>1, <1>2, <1>3, OneToOne
<1>5. IsFiniteSet(O)
  BY <1>4, FS_NatBijection
<1> QED BY <1>4, <1>5, FS_CountingElements

(* current_size is the number of occupied slots.                           *)
LEMMA SizeCounts ==
    ASSUME NEW r, NEW hf, RegionOK(r, hf)
    PROVE  IsFiniteSet(Occ(r)) /\ Cardinality(Occ(r)) = r.size
<1>1. Listed(r, Occ(r), r.size) /\ r.size \in Nat /\ Occ(r) \in SUBSET Slots
  BY DEF RegionOK, Parts
<1> QED BY <1>1, EnumerationCounts DEF Listed

(* As many buckets are in use as there are occupied slots.                 *)
LEMMA BucketsCount ==
    ASSUME NEW r, NEW hf, RegionOK(r, hf)
    PROVE  Cardinality({b \in Buckets : ~IsEmpty(r.ht, b)}) = r.size
<1> DEFINE B == {b \in Buckets : ~IsEmpty(r.ht, b)}
           f == [b \in B |-> r.ht[b].slot]
<1>1. InTable(r, Occ(r))
  BY DEF RegionOK, Parts
<1>2. f \in [B -> Occ(r)]
  BY <1>1 DEF InTable
<1>3. ASSUME NEW x \in B, NEW y \in B, f[x] = f[y] PROVE x = y
  BY <1>1, <1>3 DEF InTable, TableOK, OneBucketPerSlot
<1>4. ASSUME NEW s \in Occ(r) PROVE \E b \in B : f[b] = s
  <2>1. PICK b \in Buckets : r.ht[b].slot = s
    BY <1>1 DEF InTable
  <2>2. b \in B
    BY <2>1, NoneIsNoSlot DEF IsEmpty, Occ
  <2> QED BY <2>1, <2>2
<1> HIDE DEF f, B
<1>5. ExistsBijection(B, Occ(r))
  BY <1>2, <1>3, <1>4, OneToOne
<1>6. IsFiniteSet(B)
  <2>1. IsFiniteSet(Buckets) /\ B \in SUBSET Buckets
    BY HtCapPositive, FS_Interval DEF Buckets, B
  <2> QED BY <2>1, FS_Subset
<1>7. Cardinality(Occ(r)) = Cardinality(B)
  BY <1>5, <1>6, FS_Bijection
<1> QED BY <1>7, SizeCounts DEF B

(* The table finds the slot of every cached key and nothing else, for      *)
(* every hash function and every history of insertions and removals: the   *)
(* backward shift of ht_remove leaves no entry behind a gap.               *)
THEOREM TableIsExact == Spec => []TableFindsExactlyTheOccupied
<1>1. IInv => TableFindsExactlyTheOccupied
  <2> SUFFICES ASSUME IInv PROVE TableFindsExactlyTheOccupied
    OBVIOUS
  <2>1. RegionOK(rg, hashOf) /\ Occupied = Occ(rg)
    BY DEF IInv, Occupied, Occ
  <2>2. TableMatchesSlots(rg) /\ InTable(rg, Occ(rg))
    BY <2>1, TableOfOccupied DEF RegionOK, Parts
  <2>3. ASSUME NEW s \in Occ(rg) PROVE SlotOf(rg.slots[s].key) = s
    <3>1. s \in Slots /\ rg.slots[s].occupied /\ rg.slots[s].hash = hashOf[rg.slots[s].key]
      BY <2>1 DEF RegionOK, Occ
    <3>2. ht_lookup(rg, rg.slots[s].hash, rg.slots[s].key) = s
      BY <2>2, <3>1, LookupFinds
    <3> QED BY <3>1, <3>2 DEF SlotOf
  <2>4. {rg.ht[b].slot : b \in Buckets} \ {NONE} = Occ(rg)
    <3>1. ASSUME NEW s \in Occ(rg) PROVE s \in {rg.ht[b].slot : b \in Buckets} \ {NONE}
      BY <2>2, NoneIsNoSlot DEF InTable, Occ
    <3>2. ASSUME NEW b \in Buckets, rg.ht[b].slot # NONE PROVE rg.ht[b].slot \in Occ(rg)
      BY <2>2, <3>2 DEF InTable, IsEmpty
    <3> QED BY <3>1, <3>2
  <2>5. Cardinality({b \in Buckets : ~IsEmpty(rg.ht, b)}) = rg.size
    BY <2>1, BucketsCount
  <2> QED BY <2>1, <2>3, <2>4, <2>5 DEF TableFindsExactlyTheOccupied
<1> QED BY <1>1, Invariant, PTL

(* Walking along next from the first slot of q meets the slots of q.       *)
WalkThrough(q, n) == [i \in 0 .. Capacity |-> IF i < n THEN q[i + 1] ELSE NONE]

(* Walk returns the slots of a linked sequence, in its order.              *)
LEMMA WalkFollows ==
    ASSUME NEW n \in 0 .. Capacity, NEW q \in [1 .. n -> Slots],
           NEW from, from = IF n = 0 THEN NONE ELSE q[1],
           \A i \in 1 .. n : rg.slots[q[i]].next = IF i = n THEN NONE ELSE q[i + 1]
    PROVE  Walk(from) = WalkThrough(q, n)
<1> DEFINE Q(x) == x = [i \in 0 .. Capacity |->
                          IF i = 0 THEN from
                          ELSE IF x[i - 1] = NONE THEN NONE
                          ELSE rg.slots[x[i - 1]].next]
           g == WalkThrough(q, n)
           w == Walk(from)
<1>1. Walk(from) = CHOOSE x : Q(x)
  BY DEF Walk
<1>2. Capacity \in Nat /\ n \in Nat /\ n <= Capacity
  BY HtCapPositive
<1>3. ASSUME NEW i \in 0 .. Capacity
      PROVE  /\ g[0] = from
             /\ i # 0 => g[i] = IF g[i - 1] = NONE THEN NONE ELSE rg.slots[g[i - 1]].next
  <2>1. 0 \in 0 .. Capacity /\ g[0] = from
    BY <1>2 DEF WalkThrough
  <2>2. ASSUME i # 0 PROVE g[i] = IF g[i - 1] = NONE THEN NONE ELSE rg.slots[g[i - 1]].next
    <3>1. i - 1 \in 0 .. Capacity /\ i \in 1 .. Capacity
      BY <1>2, <2>2
    <3>2. CASE i - 1 < n
      <4>1. i \in 1 .. n /\ g[i - 1] = q[i]
        BY <1>2, <3>1, <3>2 DEF WalkThrough
      <4>2. g[i - 1] # NONE /\ rg.slots[g[i - 1]].next = IF i = n THEN NONE ELSE q[i + 1]
        BY <4>1, NoneIsNoSlot
      <4>3. g[i] = IF i < n THEN q[i + 1] ELSE NONE
        BY DEF WalkThrough
      <4> QED BY <1>2, <4>1, <4>2, <4>3
    <3>3. CASE ~(i - 1 < n)
      <4>1. g[i - 1] = NONE /\ g[i] = NONE
        BY <1>2, <3>1, <3>3 DEF WalkThrough
      <4> QED BY <4>1
    <3> QED BY <3>2, <3>3
  <2> QED BY <2>1, <2>2
<1>4. Q(g)
  <2>1. g = [i \in 0 .. Capacity |-> g[i]]
    BY DEF WalkThrough
  <2> HIDE DEF g
  <2> QED BY <1>3, <2>1
<1>5. Q(w)
  <2> HIDE DEF Q
  <2> QED BY <1>1, <1>4
<1> HIDE DEF w, g
<1>6. /\ w[0] = from
      /\ \A i \in 0 .. Capacity : i # 0 =>
            w[i] = IF w[i - 1] = NONE THEN NONE ELSE rg.slots[w[i - 1]].next
  <2>1. 0 \in 0 .. Capacity
    BY <1>2
  <2> QED BY <1>5, <2>1
<1> DEFINE T == {i \in Nat : i <= Capacity => w[i] = g[i]}
<1>7. 0 \in T
  BY <1>2, <1>3, <1>6
<1>8. ASSUME NEW i \in T PROVE i + 1 \in T
  <2> SUFFICES ASSUME i + 1 <= Capacity PROVE w[i + 1] = g[i + 1]
    OBVIOUS
  <2>1. i + 1 \in 0 .. Capacity /\ i + 1 # 0 /\ (i + 1) - 1 = i /\ w[i] = g[i]
    BY <1>2
  <2>2. w[i + 1] = IF w[i] = NONE THEN NONE ELSE rg.slots[w[i]].next
    BY <1>6, <2>1
  <2>3. g[i + 1] = IF g[i] = NONE THEN NONE ELSE rg.slots[g[i]].next
    BY <1>3, <2>1
  <2> QED BY <2>1, <2>2, <2>3
<1>9. T = Nat
  <2> HIDE DEF T
  <2>1. T \in SUBSET Nat
    BY DEF T
  <2> QED BY <1>7, <1>8, <2>1, SetInduction
<1>10. \A i \in 0 .. Capacity : w[i] = g[i]
  BY <1>2, <1>9
<1>11. w = [i \in 0 .. Capacity |-> w[i]] /\ g = [i \in 0 .. Capacity |-> g[i]]
  BY <1>5 DEF g, WalkThrough
<1> QED BY <1>10, <1>11 DEF w, g

(* It meets the slots that q enumerates, and then ends.                    *)
LEMMA WalkVisits ==
    ASSUME NEW n \in 0 .. Capacity, NEW q \in [1 .. n -> Slots], NEW O \in SUBSET Slots,
           Enumerates(q, n, O), NEW from, Walk(from) = WalkThrough(q, n)
    PROVE  Walk(from)[Capacity] = NONE /\ Visits(from) = O
<1> DEFINE g == WalkThrough(q, n)
<1>1. Capacity \in Nat /\ n \in Nat /\ n <= Capacity /\ Capacity \in 0 .. Capacity
  BY HtCapPositive
<1>2. \A i \in 0 .. Capacity : g[i] = IF i < n THEN q[i + 1] ELSE NONE
  BY DEF WalkThrough
<1>3. Visits(from) = {g[i] : i \in 0 .. Capacity} \ {NONE}
  BY DEF Visits
<1> HIDE DEF g
<1>4. ASSUME NEW i \in 0 .. Capacity, g[i] # NONE PROVE g[i] \in O
  <2>1. i + 1 \in 1 .. n /\ g[i] = q[i + 1]
    BY <1>1, <1>2, <1>4
  <2> QED BY <2>1 DEF Enumerates
<1>5. ASSUME NEW s \in O PROVE \E i \in 0 .. Capacity : g[i] = s /\ g[i] # NONE
  <2>1. PICK j \in 1 .. n : q[j] = s
    BY DEF Enumerates
  <2>2. j - 1 \in 0 .. Capacity /\ g[j - 1] = s
    BY <1>1, <1>2, <2>1
  <2> QED BY <2>2, NoneIsNoSlot
<1>6. g[Capacity] = NONE
  BY <1>1, <1>2
<1>7. Walk(from) = g
  BY DEF g
<1> QED BY <1>3, <1>4, <1>5, <1>6, <1>7

(* The eviction list is a doubly-linked list of exactly the occupied       *)
(* slots, after any mix of inserts, evictions, expiries and clears.        *)
THEOREM ListIsExact == Spec => []ListHoldsTheOccupied
<1>1. IInv => ListHoldsTheOccupied
  <2> SUFFICES ASSUME IInv PROVE ListHoldsTheOccupied
    OBVIOUS
  <2> DEFINE n == rg.size
             O == Occ(rg)
  <2>1. /\ RegionOK(rg, hashOf) /\ Occupied = O /\ O \in SUBSET Slots
        /\ n \in 0 .. Capacity /\ Listed(rg, O, n)
    BY RegionFields DEF IInv, Occupied, Occ, RegionOK, Parts
  <2> HIDE DEF O, n
  <2>2. PICK q \in [1 .. n -> Slots] : Enumerates(q, n, O) /\ ListOf(rg, q, n)
    BY <2>1 DEF Listed
  <2>3. Walk(rg.head) = WalkThrough(q, n)
    BY <2>1, <2>2, WalkFollows DEF ListOf
  <2>4. Walk(rg.head)[Capacity] = NONE /\ Visits(rg.head) = O
    BY <2>1, <2>2, <2>3, WalkVisits
  <2> DEFINE at == Walk(rg.head)
  <2>5. Capacity \in Nat /\ n \in Nat /\ n <= Capacity
    BY <2>1, HtCapPositive
  <2>6. \A i \in 0 .. Capacity : at[i] = IF i < n THEN q[i + 1] ELSE NONE
    BY <2>3 DEF WalkThrough
  <2> HIDE DEF at
  <2>7. ASSUME O = {} PROVE rg.tail = NONE
    <3>1. ASSUME n # 0 PROVE FALSE
      <4>1. 1 \in 1 .. n
        BY <2>5, <3>1
      <4>2. q[1] \in O
        BY <2>2, <4>1 DEF Enumerates
      <4> QED BY <2>7, <4>2
    <3> QED BY <2>2, <3>1 DEF ListOf
  <2>8. ASSUME NEW i \in 0 .. Capacity - 1, at[i] # NONE
        PROVE  /\ rg.slots[at[i]].prev = IF i = 0 THEN NONE ELSE at[i - 1]
               /\ at[i + 1] = NONE => rg.tail = at[i]
    <3>1. i \in 0 .. Capacity /\ i + 1 \in 0 .. Capacity /\ i < n /\ at[i] = q[i + 1] /\ i + 1 \in 1 .. n
      BY <2>5, <2>6, <2>8
    <3>2. rg.slots[at[i]].prev = IF i + 1 = 1 THEN NONE ELSE q[(i + 1) - 1]
      BY <2>2, <3>1 DEF ListOf
    <3>3. i # 0 => i - 1 \in 0 .. Capacity /\ at[i - 1] = q[i]
      BY <2>5, <2>6, <3>1
    <3>4. rg.slots[at[i]].prev = IF i = 0 THEN NONE ELSE at[i - 1]
      BY <2>5, <3>1, <3>2, <3>3
    <3>5. ASSUME at[i + 1] = NONE PROVE rg.tail = at[i]
      <4>1. i + 1 < n => i + 2 \in 1 .. n /\ at[i + 1] = q[i + 2]
        BY <2>5, <2>6, <3>1
      <4>2. i + 1 = n
        BY <2>5, <3>1, <3>5, <4>1, NoneIsNoSlot
      <4>3. rg.tail = q[n]
        BY <2>2, <2>5, <3>1, <4>2 DEF ListOf
      <4> QED BY <3>1, <4>2, <4>3
    <3> QED BY <3>4, <3>5
  <2> QED BY <2>1, <2>4, <2>7, <2>8 DEF ListHoldsTheOccupied, at
<1> QED BY <1>1, Invariant, PTL

(* No slot leaks and none is free twice: the free list holds the rest, and *)
(* current_size counts the occupied ones.                                  *)
THEOREM FreeListIsExact == Spec => []FreeListHoldsTheRest
<1>1. IInv => FreeListHoldsTheRest
  <2> SUFFICES ASSUME IInv PROVE FreeListHoldsTheRest
    OBVIOUS
  <2> DEFINE m == Capacity - rg.size
             F == Slots \ Occ(rg)
  <2>1. RegionOK(rg, hashOf) /\ Occupied = Occ(rg) /\ rg.size \in 0 .. Capacity /\ Free(rg, F, m)
    BY RegionFields DEF IInv, Occupied, Occ, RegionOK, Parts
  <2>2. F \in SUBSET Slots /\ m \in 0 .. Capacity
    BY <2>1, HtCapPositive
  <2> HIDE DEF F, m
  <2>3. PICK q \in [1 .. m -> Slots] : Enumerates(q, m, F) /\ FreeOf(rg, q, m)
    BY <2>1 DEF Free
  <2>4. Walk(rg.free) = WalkThrough(q, m)
    BY <2>2, <2>3, WalkFollows DEF FreeOf
  <2>5. Walk(rg.free)[Capacity] = NONE /\ Visits(rg.free) = F
    BY <2>2, <2>3, <2>4, WalkVisits
  <2>6. Cardinality(Occ(rg)) = rg.size
    BY <2>1, SizeCounts
  <2> QED BY <2>1, <2>5, <2>6 DEF FreeListHoldsTheRest, F
<1> QED BY <1>1, Invariant, PTL

-------------------------------------------------------------------------------
(***************************************************************************)
(* The cache implements its contract                                       *)
(***************************************************************************)

(* The keys a region caches, and what it holds under a key.                *)
KeysOf(r) == {r.slots[s].key : s \in Occ(r)}
EntryOf(r, s) == [val |-> r.slots[s].val, created |-> r.slots[s].created]
StoreOf(r) ==
    [k \in KeysOf(r) |-> EntryOf(r, CHOOSE s \in Occ(r) : r.slots[s].key = k)]

(* The store of the contract, as an operator on regions.                   *)
LEMMA StoreIsOfRegion == Store = StoreOf(rg)
BY DEF Store, StoreOf, KeysOf, EntryOf, Occupied, Occ

(* The same after a step.                                                  *)
LEMMA StoreIsOfRegionNext == Store' = StoreOf(rg')
BY DEF Store, StoreOf, KeysOf, EntryOf, Occupied, Occ

(* Since keys are cached once, the store has the entry of every slot.      *)
LEMMA StoreEntries ==
    ASSUME NEW r, NEW hf, RegionOK(r, hf)
    PROVE  /\ DOMAIN StoreOf(r) = KeysOf(r)
           /\ StoreOf(r) = [k \in KeysOf(r) |-> StoreOf(r)[k]]
           /\ KeysOf(r) \subseteq Keys
           /\ \A s \in Occ(r) : /\ r.slots[s].key \in KeysOf(r)
                                /\ StoreOf(r)[r.slots[s].key] = EntryOf(r, s)
<1>1. DOMAIN StoreOf(r) = KeysOf(r) /\ StoreOf(r) = [k \in KeysOf(r) |-> StoreOf(r)[k]]
  BY DEF StoreOf
<1>2. ASSUME NEW s \in Occ(r)
      PROVE  r.slots[s].key \in KeysOf(r) /\ StoreOf(r)[r.slots[s].key] = EntryOf(r, s)
  <2> DEFINE k == r.slots[s].key
             t == CHOOSE x \in Occ(r) : r.slots[x].key = k
  <2>1. k \in KeysOf(r)
    BY DEF KeysOf
  <2>2. t \in Occ(r) /\ r.slots[t].key = k
    OBVIOUS
  <2>3. t = s
    BY <2>2 DEF RegionOK, KeysOnce
  <2>4. StoreOf(r)[k] = EntryOf(r, t)
    BY <2>1 DEF StoreOf
  <2> HIDE DEF t
  <2> QED BY <2>1, <2>3, <2>4
<1>3. KeysOf(r) \subseteq Keys
  BY DEF RegionOK, KeysOf
<1> QED BY <1>1, <1>2, <1>3

(* It has as many keys as current_size says.                               *)
LEMMA KeysCount ==
    ASSUME NEW r, NEW hf, RegionOK(r, hf)
    PROVE  Cardinality(KeysOf(r)) = r.size
<1> DEFINE f == [s \in Occ(r) |-> r.slots[s].key]
<1>1. f \in [Occ(r) -> KeysOf(r)]
  BY DEF KeysOf
<1>2. \A s, t \in Occ(r) : f[s] = f[t] => s = t
  BY DEF RegionOK, KeysOnce
<1>3. \A k \in KeysOf(r) : \E s \in Occ(r) : f[s] = k
  BY DEF KeysOf
<1> HIDE DEF f
<1>4. ExistsBijection(Occ(r), KeysOf(r))
  BY <1>1, <1>2, <1>3, OneToOne
<1> QED BY <1>4, SizeCounts, FS_Bijection

(* A region with the entries of another represents the same store.         *)
LEMMA SameStore ==
    ASSUME NEW r, NEW u, NEW hf, RegionOK(r, hf), RegionOK(u, hf), Occ(u) = Occ(r),
           \A t \in Occ(r) : /\ u.slots[t].key = r.slots[t].key
                             /\ EntryOf(u, t) = EntryOf(r, t)
    PROVE  StoreOf(u) = StoreOf(r)
<1>1. KeysOf(u) = KeysOf(r)
  BY DEF KeysOf
<1>2. ASSUME NEW k \in KeysOf(r) PROVE StoreOf(u)[k] = StoreOf(r)[k]
  <2>1. PICK s \in Occ(r) : r.slots[s].key = k
    BY DEF KeysOf
  <2>2. StoreOf(r)[k] = EntryOf(r, s)
    BY <2>1, StoreEntries
  <2>3. StoreOf(u)[u.slots[s].key] = EntryOf(u, s)
    BY <2>1, StoreEntries
  <2> QED BY <2>1, <2>2, <2>3
<1>3. StoreOf(u) = [k \in KeysOf(r) |-> StoreOf(u)[k]] /\ StoreOf(r) = [k \in KeysOf(r) |-> StoreOf(r)[k]]
  BY <1>1, StoreEntries
<1> QED BY <1>2, <1>3

(* Slot s leaves: its key leaves the store, and nothing else.              *)
LEMMA StoreWithout ==
    ASSUME NEW r, NEW u, NEW hf, RegionOK(r, hf), RegionOK(u, hf), NEW s \in Occ(r),
           Occ(u) = Occ(r) \ {s},
           \A t \in Occ(u) : u.slots[t].key = r.slots[t].key /\ EntryOf(u, t) = EntryOf(r, t)
    PROVE  StoreOf(u) = [k \in KeysOf(r) \ {r.slots[s].key} |-> StoreOf(r)[k]]
<1>1. KeysOf(u) = KeysOf(r) \ {r.slots[s].key}
  <2>1. ASSUME NEW t \in Occ(u) PROVE u.slots[t].key \in KeysOf(r) \ {r.slots[s].key}
    BY DEF KeysOf, RegionOK, KeysOnce
  <2>2. ASSUME NEW t \in Occ(r), r.slots[t].key # r.slots[s].key PROVE r.slots[t].key \in KeysOf(u)
    <3>1. t \in Occ(u) /\ u.slots[t].key = r.slots[t].key
      BY <2>2
    <3> QED BY <3>1 DEF KeysOf
  <2> QED BY <2>1, <2>2 DEF KeysOf
<1>2. ASSUME NEW k \in KeysOf(u) PROVE StoreOf(u)[k] = StoreOf(r)[k]
  <2>1. PICK t \in Occ(u) : u.slots[t].key = k
    BY DEF KeysOf
  <2>2. t \in Occ(r) /\ r.slots[t].key = k
    BY <2>1
  <2>3. StoreOf(r)[r.slots[t].key] = EntryOf(r, t)
    BY <2>2, StoreEntries
  <2>4. StoreOf(u)[u.slots[t].key] = EntryOf(u, t)
    BY <2>1, StoreEntries
  <2> QED BY <2>1, <2>2, <2>3, <2>4
<1>3. StoreOf(u) = [k \in KeysOf(u) |-> StoreOf(u)[k]]
  BY StoreEntries
<1> QED BY <1>1, <1>2, <1>3

(* Slot s holds the entry e of key k after the step; the keys of the other *)
(* slots keep theirs.                                                      *)
OtherKeys(r, s) == {r.slots[t].key : t \in Occ(r) \ {s}}
WithEntry(f, D, k, e) == [x \in D \cup {k} |-> IF x = k THEN e ELSE f[x]]

(* The store when one slot has a new entry and the other slots keep        *)
(* theirs.                                                                 *)
LEMMA StoreWith ==
    ASSUME NEW r, NEW u, NEW hf, RegionOK(r, hf), RegionOK(u, hf),
           NEW s \in Occ(u), NEW k, u.slots[s].key = k, NEW e, EntryOf(u, s) = e,
           Occ(r) \ {s} = Occ(u) \ {s},
           \A t \in Occ(u) \ {s} : u.slots[t].key = r.slots[t].key /\ EntryOf(u, t) = EntryOf(r, t)
    PROVE  StoreOf(u) = WithEntry(StoreOf(r), OtherKeys(r, s), k, e)
<1> DEFINE D == OtherKeys(r, s)
<1>1. KeysOf(u) = D \cup {k}
  <2>1. ASSUME NEW t \in Occ(u) PROVE u.slots[t].key \in D \cup {k}
    BY DEF KeysOf, OtherKeys
  <2>2. ASSUME NEW t \in Occ(r) \ {s} PROVE r.slots[t].key \in KeysOf(u)
    <3>1. t \in Occ(u) /\ u.slots[t].key = r.slots[t].key
      BY <2>2
    <3> QED BY <3>1 DEF KeysOf
  <2>3. k \in KeysOf(u)
    BY DEF KeysOf
  <2> QED BY <2>1, <2>2, <2>3 DEF KeysOf, OtherKeys
<1>2. ASSUME NEW x \in KeysOf(u) PROVE StoreOf(u)[x] = IF x = k THEN e ELSE StoreOf(r)[x]
  <2>1. PICK t \in Occ(u) : u.slots[t].key = x
    BY DEF KeysOf
  <2>2. StoreOf(u)[u.slots[t].key] = EntryOf(u, t)
    BY <2>1, StoreEntries
  <2>3. CASE x = k
    <3>1. t = s
      BY <2>1, <2>3 DEF RegionOK, KeysOnce
    <3> QED BY <2>1, <2>2, <2>3, <3>1
  <2>4. CASE x # k
    <3>1. t # s /\ t \in Occ(r) /\ r.slots[t].key = x /\ EntryOf(u, t) = EntryOf(r, t)
      BY <2>1, <2>4
    <3>2. StoreOf(r)[r.slots[t].key] = EntryOf(r, t)
      BY <3>1, StoreEntries
    <3> QED BY <2>1, <2>2, <2>4, <3>1, <3>2
  <2> QED BY <2>3, <2>4
<1>3. StoreOf(u) = [x \in KeysOf(u) |-> StoreOf(u)[x]]
  BY StoreEntries
<1> HIDE DEF D
<1>4. StoreOf(u) = [x \in D \cup {k} |-> IF x = k THEN e ELSE StoreOf(r)[x]]
  BY <1>1, <1>2, <1>3
<1> QED BY <1>4 DEF WithEntry, D

(* Slots with the same data hold the same entry.                           *)
LEMMA SameEntryData ==
    ASSUME NEW u, NEW r, NEW t, SameData(u.slots[t], r.slots[t])
    PROVE  u.slots[t].key = r.slots[t].key /\ EntryOf(u, t) = EntryOf(r, t)
BY DEF SameData, EntryOf

(* The entry of a slot that was just filled.                               *)
LEMMA NewEntryData ==
    ASSUME NEW u, NEW s, NEW k, NEW v, SameData(u.slots[s], NewEntry(k, v))
    PROVE  u.slots[s].key = k /\ EntryOf(u, s) = [val |-> v, created |-> now]
BY DEF SameData, EntryOf, NewEntry

(* Steps that change links, bits and counters at most do not change the    *)
(* store.                                                                  *)
LEMMA UnmovedStore ==
    ASSUME NEW r, NEW u, NEW hf, RegionOK(r, hf), RegionOK(u, hf), Unmoved(u, r),
           \A t \in Slots : /\ u.slots[t].val = r.slots[t].val
                            /\ u.slots[t].created = r.slots[t].created
    PROVE  StoreOf(u) = StoreOf(r)
<1>1. Occ(u) = Occ(r)
  BY DEF Occ, Unmoved
<1>2. ASSUME NEW t \in Occ(r)
      PROVE  u.slots[t].key = r.slots[t].key /\ EntryOf(u, t) = EntryOf(r, t)
  BY DEF Occ, Unmoved, EntryOf
<1> QED BY <1>1, <1>2, SameStore

(* A get answers as the contract says.                                     *)
LEMMA LookupImplements ==
    ASSUME IInv, NEW p \in Procs, NEW k \in Keys,
           GetHit(p, k) \/ GetMiss(p, k) \/ GetExpired(p, k)
    PROVE  Contract!Get(p, k)
<1> DEFINE s == SlotOf(k)
<1>1. RegionOK(rg, hashOf) /\ hashOf \in [Keys -> Hashes] /\ now \in Nat
  BY InvFacts
<1>2. rg' = rg /\ now' = now
  BY DEF GetHit, GetMiss, GetExpired, Lookup
<1>3. Store' = Store
  BY <1>2, StoreIsOfRegion, StoreIsOfRegionNext
<1>4. /\ s = NONE => NotCached(rg, k)
      /\ s # NONE => s \in Occ(rg) /\ rg.slots[s].key = k
  BY <1>1, LookupAnswers DEF SlotOf
<1>5. /\ s = NONE => k \notin DOMAIN Store
      /\ s # NONE => k \in DOMAIN Store /\ Store[k] = EntryOf(rg, s)
  <2>1. s = NONE => k \notin KeysOf(rg)
    BY <1>4 DEF NotCached, KeysOf
  <2>2. s # NONE => k \in KeysOf(rg) /\ StoreOf(rg)[k] = EntryOf(rg, s)
    BY <1>1, <1>4, StoreEntries
  <2> QED BY <1>1, <2>1, <2>2, StoreEntries, StoreIsOfRegion
<1>6. s # NONE => (Contract!Live(k) <=> ~Expired(s)) /\ Store[k].val = rg.slots[s].val
  <2> SUFFICES ASSUME s # NONE
               PROVE  (Contract!Live(k) <=> ~Expired(s)) /\ Store[k].val = rg.slots[s].val
    OBVIOUS
  <2>1. Store[k].val = rg.slots[s].val /\ Store[k].created = rg.slots[s].created
    BY <1>5 DEF EntryOf
  <2>2. rg.slots[s].created \in Nat
    <3>1. rg.slots[s] \in SlotType
      BY <1>1, <1>4, RegionFields DEF RegionOK, Parts, Occ
    <3> QED BY <3>1 DEF SlotType
  <2>3. (now - rg.slots[s].created <= Ttl) <=> ~(now - rg.slots[s].created > Ttl)
    BY <1>1, <2>2, NumbersAssumption
  <2>4. Contract!Live(k) <=> (Ttl > 0 => now - Store[k].created <= Ttl)
    BY <1>5 DEF Contract!Live
  <2> HIDE DEF s
  <2> QED BY <2>1, <2>3, <2>4 DEF Expired
<1>7. s = NONE => ~Contract!Live(k)
  BY <1>5 DEF Contract!Live
<1>8. last' = <<p, k, IF Contract!Live(k) THEN Store[k].val ELSE Miss>>
  <2>1. CASE GetHit(p, k)
    <3>1. s # NONE /\ ~Expired(s) /\ last' = <<p, k, rg.slots[s].val>>
      BY <2>1 DEF GetHit, Lookup
    <3> QED BY <1>6, <3>1
  <2>2. CASE GetMiss(p, k)
    <3>1. s = NONE /\ last' = <<p, k, Miss>>
      BY <2>2 DEF GetMiss, Lookup
    <3> QED BY <1>7, <3>1
  <2>3. CASE GetExpired(p, k)
    <3>1. s # NONE /\ Expired(s) /\ last' = <<p, k, Miss>>
      BY <2>3 DEF GetExpired, Lookup
    <3> QED BY <1>6, <3>1
  <2> QED BY <2>1, <2>2, <2>3
<1> QED BY <1>2, <1>3, <1>8 DEF Contract!Get

(* Removing an expired slot drops its key.                                 *)
LEMMA RemoveExpiredImplements ==
    ASSUME IInv, NEW p \in Procs, RemoveExpired(p)
    PROVE  (\E k \in Keys : Contract!Drop(k)) \/ UNCHANGED <<Store, last, now>>
<1> DEFINE s == loc[p].slot
           k == loc[p].key
<1>1. RegionOK(rg, hashOf) /\ last' = last /\ now' = now /\ k \in Keys
  BY InvFacts DEF RemoveExpired, ProcsOK
<1>2. RegionOK(rg', hashOf)
  BY RemoveExpiredKeepsInv DEF IInv, RemoveExpired
<1>3. CASE ~SameEntry(p)
  <2>1. rg' = rg
    BY <1>3, RemoveExpiredKeepsInv
  <2>2. Store' = Store
    BY <2>1, StoreIsOfRegion, StoreIsOfRegionNext
  <2> QED BY <1>1, <2>2
<1>4. CASE SameEntry(p)
  <2>1. /\ s \in Occ(rg) /\ Occ(rg') = Occ(rg) \ {s}
        /\ \A t \in Occ(rg') : SameData(rg'.slots[t], rg.slots[t])
    BY <1>4, RemoveExpiredKeepsInv
  <2>2. rg.slots[s].key = k
    BY <1>4 DEF SameEntry
  <2> HIDE DEF s, k
  <2>3. \A t \in Occ(rg') : rg'.slots[t].key = rg.slots[t].key /\ EntryOf(rg', t) = EntryOf(rg, t)
    BY <2>1, SameEntryData
  <2>4. StoreOf(rg') = [x \in KeysOf(rg) \ {k} |-> StoreOf(rg)[x]]
    BY <1>1, <1>2, <2>1, <2>2, <2>3, StoreWithout
  <2>5. DOMAIN Store = KeysOf(rg)
    BY <1>1, StoreEntries, StoreIsOfRegion
  <2>6. Store' = Contract!Restrict(Store, DOMAIN Store \ {k})
    BY <2>4, <2>5, StoreIsOfRegion, StoreIsOfRegionNext DEF Contract!Restrict
  <2>7. Contract!Drop(k)
    BY <1>1, <2>6 DEF Contract!Drop
  <2> QED BY <1>1, <2>7
<1> QED BY <1>3, <1>4

(* The contract's instance has its own copy of Cardinality.                *)
LEMMA SameCardinality ==
    ASSUME NEW S
    PROVE  Contract!Cardinality(S) = Cardinality(S)
BY DEF Contract!Cardinality, Cardinality

(* A put of an entry that needs no room, or takes that of another.         *)
MakesRoom(k, gone) ==
    /\ gone \in SUBSET (DOMAIN Store \ {k})
    /\ IF k \notin DOMAIN Store /\ Cardinality(DOMAIN Store) = Capacity
       THEN Cardinality(gone) = 1
       ELSE gone = {}

(* A store that takes other entries only for room is a Put of the          *)
(* contract.                                                               *)
LEMMA PutWithout ==
    ASSUME NEW p, NEW k, NEW v, NEW gone, MakesRoom(k, gone),
           Store' = WithEntry(Store, DOMAIN Store \ gone, k, [val |-> v, created |-> now]),
           last' = <<p, k, v>>, now' = now
    PROVE  Contract!Put(p, k, v)
<1>1. gone \in SUBSET (DOMAIN Store \ {k})
  BY DEF MakesRoom
<1>2. IF k \notin DOMAIN Store /\ Contract!Cardinality(DOMAIN Store) = Capacity
      THEN Contract!Cardinality(gone) = 1
      ELSE gone = {}
  BY SameCardinality DEF MakesRoom
<1>3. Store' = [x \in (DOMAIN Store \ gone) \cup {k} |->
                   IF x = k THEN [val |-> v, created |-> now] ELSE Store[x]]
  BY DEF WithEntry
<1> QED BY <1>1, <1>2, <1>3 DEF Contract!Put

(* An insert of a cached key is a Put.                                     *)
LEMMA InsertUpdateImplements ==
    ASSUME IInv, NEW p \in Procs, NEW k \in Keys, NEW v \in Values, InsertUpdate(p, k, v)
    PROVE  Contract!Put(p, k, v)
<1> DEFINE s == SlotOf(k)
           D == OtherKeys(rg, s)
           e == [val |-> v, created |-> now]
<1>1. RegionOK(rg, hashOf) /\ RegionOK(rg', hashOf) /\ last' = <<p, k, v>> /\ now' = now
  BY InvFacts, InsertUpdateKeepsInv DEF IInv, InsertUpdate
<1>2. /\ s \in Occ(rg) /\ rg.slots[s].key = k /\ Occ(rg') = Occ(rg)
      /\ \A t \in Slots : rg'.slots[t].key = rg.slots[t].key
      /\ rg'.slots[s].val = v /\ rg'.slots[s].created = now
      /\ \A t \in Slots : t # s => SameData(rg'.slots[t], rg.slots[t])
  BY InsertUpdateKeepsInv
<1> HIDE DEF s
<1>3. \A t \in Occ(rg') \ {s} : rg'.slots[t].key = rg.slots[t].key /\ EntryOf(rg', t) = EntryOf(rg, t)
  <2>1. \A t \in Occ(rg') \ {s} : SameData(rg'.slots[t], rg.slots[t])
    BY <1>2 DEF Occ
  <2> QED BY <2>1, SameEntryData
<1>4. rg'.slots[s].key = k /\ EntryOf(rg', s) = e
  BY <1>2 DEF EntryOf, Occ
<1> HIDE DEF e
<1>5. StoreOf(rg') = WithEntry(StoreOf(rg), D, k, e)
  <2>1. s \in Occ(rg') /\ Occ(rg) \ {s} = Occ(rg') \ {s}
    BY <1>2
  <2> QED BY <1>1, <1>3, <1>4, <2>1, StoreWith
<1>6. D \cup {k} = KeysOf(rg) \cup {k} /\ k \in KeysOf(rg)
  BY <1>2 DEF KeysOf, OtherKeys
<1>7. DOMAIN Store = KeysOf(rg)
  BY <1>1, StoreEntries, StoreIsOfRegion
<1> HIDE DEF D
<1>8. Store' = WithEntry(Store, DOMAIN Store \ {}, k, e)
  <2>1. (DOMAIN Store \ {}) \cup {k} = D \cup {k}
    BY <1>6, <1>7
  <2>2. Store' = WithEntry(Store, D, k, e)
    BY <1>5, StoreIsOfRegion, StoreIsOfRegionNext
  <2> QED BY <2>1, <2>2 DEF WithEntry
<1>9. MakesRoom(k, {})
  BY <1>6, <1>7 DEF MakesRoom
<1> QED BY <1>1, <1>8, <1>9, PutWithout DEF e

(* An insert into a free slot is a Put.                                    *)
LEMMA InsertFreeImplements ==
    ASSUME IInv, NEW p \in Procs, NEW k \in Keys, NEW v \in Values, InsertFree(p, k, v)
    PROVE  Contract!Put(p, k, v)
<1> DEFINE s == rg.free
           D == OtherKeys(rg, s)
           e == [val |-> v, created |-> now]
<1>1. RegionOK(rg, hashOf) /\ RegionOK(rg', hashOf) /\ last' = <<p, k, v>> /\ now' = now
      /\ rg \in RegionType
  BY InvFacts, InsertFreeKeepsInv DEF IInv, InsertFree
<1>2. /\ NotCached(rg, k) /\ rg.size < Capacity /\ s \in Slots \ Occ(rg)
      /\ Occ(rg') = Occ(rg) \cup {s}
      /\ SameData(rg'.slots[s], NewEntry(k, v))
      /\ \A t \in Occ(rg) : SameData(rg'.slots[t], rg.slots[t])
  BY InsertFreeKeepsInv
<1> HIDE DEF s
<1>3. \A t \in Occ(rg') \ {s} : rg'.slots[t].key = rg.slots[t].key /\ EntryOf(rg', t) = EntryOf(rg, t)
  <2>1. \A t \in Occ(rg') \ {s} : SameData(rg'.slots[t], rg.slots[t])
    BY <1>2
  <2> QED BY <2>1, SameEntryData
<1>4. rg'.slots[s].key = k /\ EntryOf(rg', s) = e
  BY <1>2, NewEntryData
<1> HIDE DEF e
<1>5. StoreOf(rg') = WithEntry(StoreOf(rg), D, k, e)
  <2>1. s \in Occ(rg') /\ Occ(rg) \ {s} = Occ(rg') \ {s}
    BY <1>2
  <2> QED BY <1>1, <1>3, <1>4, <2>1, StoreWith
<1>6. D = KeysOf(rg)
  BY <1>2 DEF KeysOf, OtherKeys
<1>7. DOMAIN Store = KeysOf(rg)
  BY <1>1, StoreEntries, StoreIsOfRegion
<1> HIDE DEF D
<1>8. Store' = WithEntry(Store, DOMAIN Store \ {}, k, e)
  <2>1. (DOMAIN Store \ {}) \cup {k} = D \cup {k}
    BY <1>6, <1>7
  <2>2. Store' = WithEntry(Store, D, k, e)
    BY <1>5, StoreIsOfRegion, StoreIsOfRegionNext
  <2> QED BY <2>1, <2>2 DEF WithEntry
<1>9. MakesRoom(k, {})
  <2>1. rg.size \in 0 .. Capacity
    BY <1>1, RegionFields
  <2>2. Cardinality(DOMAIN Store) = rg.size
    BY <1>1, <1>7, KeysCount
  <2>3. Cardinality(DOMAIN Store) # Capacity
    BY <1>2, <2>1, <2>2, HtCapPositive
  <2> QED BY <2>3 DEF MakesRoom
<1> QED BY <1>1, <1>8, <1>9, PutWithout DEF e

(* The victim of an eviction is the one entry that goes.                   *)
LEMMA ReplaceImplements ==
    ASSUME IInv, NEW p \in Procs, EvictUnvisited(p) \/ EvictFallback(p)
    PROVE  \E k \in Keys, v \in Values : Contract!Put(p, k, v)
<1> DEFINE s == loc[p].slot
           k == loc[p].key
           v == loc[p].val
           D == OtherKeys(rg, s)
           e == [val |-> v, created |-> now]
           gone == {rg.slots[s].key}
<1>1. RegionOK(rg, hashOf) /\ RegionOK(rg', hashOf) /\ now' = now
  BY InvFacts, ReplaceKeepsInv DEF IInv, EvictUnvisited, EvictFallback, Replace
<1>2. /\ s \in Slots /\ k \in Keys /\ v \in Values /\ NotCached(rg, k) /\ rg.size = Capacity
      /\ Occ(rg) = Slots /\ Occ(rg') = Slots
      /\ SameData(rg'.slots[s], NewEntry(k, v))
      /\ \A t \in Slots \ {s} : SameData(rg'.slots[t], rg.slots[t])
      /\ last' = <<p, k, v>>
  BY ReplaceKeepsInv
<1> HIDE DEF s, k, v
<1>3. \A t \in Occ(rg') \ {s} : rg'.slots[t].key = rg.slots[t].key /\ EntryOf(rg', t) = EntryOf(rg, t)
  BY <1>2, SameEntryData
<1>4. rg'.slots[s].key = k /\ EntryOf(rg', s) = e
  BY <1>2, NewEntryData
<1> HIDE DEF e
<1>5. StoreOf(rg') = WithEntry(StoreOf(rg), D, k, e)
  <2>1. s \in Occ(rg') /\ Occ(rg) \ {s} = Occ(rg') \ {s}
    BY <1>2
  <2> QED BY <1>1, <1>3, <1>4, <2>1, StoreWith
<1>6. D = KeysOf(rg) \ gone /\ gone \subseteq KeysOf(rg) \ {k} /\ k \notin KeysOf(rg)
  <2>1. KeysOnce(rg) /\ s \in Occ(rg)
    BY <1>1, <1>2 DEF RegionOK
  <2>2. k \notin KeysOf(rg)
    BY <1>2 DEF KeysOf, NotCached
  <2>3. gone \subseteq KeysOf(rg) \ {k}
    BY <2>1, <2>2 DEF KeysOf
  <2>4. D = KeysOf(rg) \ gone
    BY <2>1 DEF KeysOf, KeysOnce, OtherKeys
  <2> QED BY <2>2, <2>3, <2>4
<1>7. DOMAIN Store = KeysOf(rg)
  BY <1>1, StoreEntries, StoreIsOfRegion
<1>8. Cardinality(gone) = 1
  BY FS_Singleton
<1> HIDE DEF D, gone
<1>9. Store' = WithEntry(Store, DOMAIN Store \ gone, k, e)
  <2>1. DOMAIN Store \ gone = D
    BY <1>6, <1>7
  <2>2. Store' = WithEntry(Store, D, k, e)
    BY <1>5, StoreIsOfRegion, StoreIsOfRegionNext
  <2> QED BY <2>1, <2>2
<1>10. k \notin DOMAIN Store /\ Cardinality(DOMAIN Store) = Capacity
  BY <1>1, <1>2, <1>6, <1>7, KeysCount
<1>11. MakesRoom(k, gone)
  BY <1>6, <1>7, <1>8, <1>10 DEF MakesRoom
<1>12. Contract!Put(p, k, v)
  BY <1>1, <1>2, <1>9, <1>11, PutWithout DEF e
<1> QED BY <1>2, <1>12

(* Steps the contract does not see.                                        *)
LEMMA HiddenSteps ==
    ASSUME IInv, NEW p \in Procs,
           \/ MarkVisited(p) \/ CountMiss(p) \/ ScanStep(p) \/ RecordOversizeSkip(p)
           \/ \E k \in Keys, v \in Values : BeginEvict(p, k, v)
    PROVE  UNCHANGED <<Store, last, now>>
<1>0. rg \in RegionType /\ RegionOK(rg, hashOf)
  BY InvFacts
<1>1. last' = last /\ now' = now /\ hashOf' = hashOf
  BY DEF MarkVisited, CountMiss, ScanStep, RecordOversizeSkip, BeginEvict
<1>2. RegionOK(rg', hashOf)
  <2>1. IInv'
    BY MarkKeepsInv, CountMissKeepsInv, ScanStepKeepsInv, SkipKeepsInv, BeginEvictKeepsInv
  <2> QED BY <1>1, <2>1 DEF IInv
<1> DEFINE Same == /\ Unmoved(rg', rg)
                   /\ \A t \in Slots : /\ rg'.slots[t].val = rg.slots[t].val
                                       /\ rg'.slots[t].created = rg.slots[t].created
<1>3. ASSUME rg'.slots = rg.slots, Unmoved(rg', rg) PROVE Same
  BY <1>3
<1>4. ASSUME NEW s, VisitedSet(rg', rg, s, FALSE) PROVE Same
  BY <1>4 DEF VisitedSet
<1>5. CASE MarkVisited(p)
  <2> DEFINE s == loc[p].slot
             r1 == WithVisited(rg, s, TRUE)
  <2>1. s \in Slots /\ rg' = WithHits(r1, Bump(r1.hits))
    BY <1>5, InvFacts DEF MarkVisited, ProcsOK, WithHits, WithVisited
  <2>2. VisitedSet(r1, rg, s, TRUE)
    BY <1>0, <2>1, SetVisited
  <2> HIDE DEF r1
  <2>3. Unmoved(r1, rg) /\ \A t \in Slots : /\ r1.slots[t].val = rg.slots[t].val
                                            /\ r1.slots[t].created = rg.slots[t].created
    BY <2>2 DEF VisitedSet
  <2>4. Unmoved(rg', r1) /\ rg'.slots = r1.slots
    BY <2>1, <2>3, SetCounter DEF Unmoved
  <2>5. Unmoved(rg', rg)
    BY <2>3, <2>4 DEF Unmoved
  <2>6. Same
    BY <2>3, <2>4, <2>5
  <2> QED BY <1>0, <1>1, <1>2, <2>6, UnmovedStore, StoreIsOfRegion, StoreIsOfRegionNext
<1>6. CASE CountMiss(p)
  <2>1. Same
    BY <1>0, <1>3, <1>6, CountMissKeepsInv, SetCounter
  <2> QED BY <1>0, <1>1, <1>2, <2>1, UnmovedStore, StoreIsOfRegion, StoreIsOfRegionNext
<1>7. CASE RecordOversizeSkip(p)
  <2>1. Same
    BY <1>0, <1>3, <1>7, SkipKeepsInv, SetCounter
  <2> QED BY <1>0, <1>1, <1>2, <2>1, UnmovedStore, StoreIsOfRegion, StoreIsOfRegionNext
<1>8. CASE ScanStep(p)
  <2>1. Same
    BY <1>0, <1>4, <1>8, ScanStepKeepsInv, SetVisited
  <2> QED BY <1>0, <1>1, <1>2, <2>1, UnmovedStore, StoreIsOfRegion, StoreIsOfRegionNext
<1>9. CASE \E k \in Keys, v \in Values : BeginEvict(p, k, v)
  <2>1. rg' = rg
    BY <1>9 DEF BeginEvict
  <2> QED BY <1>1, <2>1, StoreIsOfRegion, StoreIsOfRegionNext
<1> QED BY <1>5, <1>6, <1>7, <1>8, <1>9

(* What the region represents is empty after create and after clear.       *)
LEMMA EmptyStore ==
    ASSUME NEW r, Occ(r) = {}
    PROVE  StoreOf(r) = [k \in {} |-> 0]
<1>1. KeysOf(r) = {}
  BY DEF KeysOf
<1> QED BY <1>1 DEF StoreOf

(* The shared cache implements the contract of a bounded cache: a get      *)
(* answers with the last value inserted under the key or with a miss,      *)
(* never with an expired one, and an insert costs another key its entry    *)
(* only when the cache is full.                                            *)
THEOREM Refinement == Spec => ImplementsContract
<1>1. Init => Contract!Init
  <2> SUFFICES ASSUME Init PROVE Contract!Init
    OBVIOUS
  <2>1. Occ(rg) = {} /\ last = <<>> /\ now = 0
    BY DEF Init, FreshRegion, Occ
  <2>2. Store = [k \in {} |-> 0]
    BY <2>1, EmptyStore, StoreIsOfRegion
  <2> QED BY <2>1, <2>2 DEF Contract!Init
<1>2. IInv /\ [Next]_vars => [Contract!Next]_<<Store, last, now>>
  <2> SUFFICES ASSUME IInv, [Next]_vars PROVE Contract!Next \/ UNCHANGED <<Store, last, now>>
    OBVIOUS
  <2>1. ASSUME NEW p \in Procs, NEW k \in Keys, Begin(p, k)
        PROVE  Contract!Next \/ UNCHANGED <<Store, last, now>>
    <3>1. CASE GetHit(p, k) \/ GetMiss(p, k) \/ GetExpired(p, k)
      BY <3>1, LookupImplements DEF Contract!Next
    <3>2. ASSUME NEW v \in Values, InsertUpdate(p, k, v) PROVE Contract!Next
      BY <3>2, InsertUpdateImplements DEF Contract!Next
    <3>3. ASSUME NEW v \in Values, InsertFree(p, k, v) PROVE Contract!Next
      BY <3>3, InsertFreeImplements DEF Contract!Next
    <3>4. ASSUME NEW v \in Values, BeginEvict(p, k, v) PROVE UNCHANGED <<Store, last, now>>
      BY <3>4, HiddenSteps
    <3> QED BY <2>1, <3>1, <3>2, <3>3, <3>4 DEF Begin
  <2>2. ASSUME NEW p \in Procs, Continue(p)
        PROVE  Contract!Next \/ UNCHANGED <<Store, last, now>>
    <3>1. CASE RemoveExpired(p)
      BY <3>1, RemoveExpiredImplements DEF Contract!Next
    <3>2. CASE MarkVisited(p) \/ CountMiss(p) \/ ScanStep(p)
      BY <3>2, HiddenSteps
    <3>3. CASE EvictUnvisited(p) \/ EvictFallback(p)
      BY <3>3, ReplaceImplements DEF Contract!Next
    <3> QED BY <2>2, <3>1, <3>2, <3>3 DEF Continue
  <2>3. ASSUME NEW p \in Procs, Clear(p) PROVE Contract!Next
    <3>1. Occ(rg') = {} /\ last' = last /\ now' = now
      BY <2>3, ClearKeepsInv DEF Clear
    <3>2. Store' = [k \in {} |-> 0]
      BY <3>1, EmptyStore, StoreIsOfRegionNext
    <3> QED BY <3>1, <3>2 DEF Contract!Next, Contract!Clear
  <2>4. ASSUME NEW p \in Procs, RecordOversizeSkip(p) PROVE UNCHANGED <<Store, last, now>>
    BY <2>4, HiddenSteps
  <2>5. CASE Tick
    <3>1. rg' = rg /\ last' = last /\ now' = now + 1
      BY <2>5 DEF Tick
    <3>2. Store' = Store
      BY <3>1, StoreIsOfRegion, StoreIsOfRegionNext
    <3> QED BY <3>1, <3>2 DEF Contract!Next, Contract!Tick
  <2>6. CASE UNCHANGED vars
    <3>1. rg' = rg /\ last' = last /\ now' = now
      BY <2>6 DEF vars
    <3> QED BY <3>1, StoreIsOfRegion, StoreIsOfRegionNext
  <2> QED BY <2>1, <2>2, <2>3, <2>4, <2>5, <2>6 DEF Next
<1> QED BY <1>1, <1>2, Invariant, PTL DEF Spec, ImplementsContract, Contract!Spec, Contract!vars
===============================================================================
