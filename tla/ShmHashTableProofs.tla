-------------------------- MODULE ShmHashTableProofs --------------------------
(***************************************************************************)
(* Proofs about ShmHashTable, for every capacity, table size and hash      *)
(* function: what ht_lookup finds, and what ht_insert and ht_remove, with  *)
(* its backward shift, leave behind.                                       *)
(***************************************************************************)
EXTENDS ShmHashTable, InductionLemmas, FiniteSetTheorems

(* The table of a region, as a type.                                       *)
TableType == [Buckets -> [hash : Nat, slot : Slots \cup {NONE}]]

(* Bucket c is passed on the way from bucket a to bucket b.                *)
Passed(a, c, b) == IF a <= b THEN a <= c /\ c < b ELSE a <= c \/ c < b

(* The bucket where the probe for the entry of bucket b begins.            *)
Ideal(ht, b) == Probe(ht[b].hash, 0)

(* No probe for an entry meets an empty bucket on its way.                 *)
ProbesReach(ht) ==
    \A b, c \in Buckets :
        ~IsEmpty(ht, b) /\ Passed(Ideal(ht, b), c, b) => ~IsEmpty(ht, c)

(* No two buckets refer to one slot.                                       *)
OneBucketPerSlot(ht) ==
    \A b, c \in Buckets : ~IsEmpty(ht, b) /\ ht[b].slot = ht[c].slot => b = c

(* What holds of a table, and what lookups, insertions and removals need.  *)
TableOK(ht) == ht \in TableType /\ ProbesReach(ht) /\ OneBucketPerSlot(ht)

-------------------------------------------------------------------------------
(***************************************************************************)
(* Arithmetic of probing                                                   *)
(***************************************************************************)

(* The table has more buckets than there are slots.                        *)
LEMMA HtCapPositive == HtCap \in Nat \ {0} /\ Capacity \in Nat \ {0} /\ Capacity < HtCap
BY HtCapAssumption, CapacityAssumption

(* Adding an offset below H to a remainder wraps at most once.             *)
LEMMA RemainderOfSum ==
    ASSUME NEW H \in Nat \ {0}, NEW h \in Nat, NEW i \in 0 .. H
    PROVE  /\ h % H \in 0 .. H - 1
           /\ (h + i) % H = IF (h % H) + i < H THEN (h % H) + i ELSE (h % H) + i - H
<1> DEFINE q == h \div H
           a == h % H
<1>1. a \in 0 .. H - 1 /\ q \in Nat /\ h = H * q + a
  OBVIOUS
<1>2. ASSUME NEW m \in Nat, NEW b \in 0 .. H - 1 PROVE (m * H + b) % H = b
  OBVIOUS
<1> HIDE DEF q, a
<1>3. CASE a + i < H
  <2>1. h + i = q * H + (a + i) /\ a + i \in 0 .. H - 1
    BY <1>1, <1>3
  <2> QED BY <1>1, <1>2, <1>3, <2>1 DEF a
<1>4. CASE a + i >= H /\ a + i - H < H
  <2>1. h + i = (q + 1) * H + (a + i - H) /\ a + i - H \in 0 .. H - 1 /\ q + 1 \in Nat
    BY <1>1, <1>4
  <2>2. (h + i) % H = a + i - H
    BY <1>2, <2>1, Zenon
  <2> QED BY <1>1, <1>4, <2>2 DEF a
<1> QED BY <1>1, <1>3, <1>4 DEF a

(* Probing goes round the table, bucket by bucket.                         *)
LEMMA ProbeGoesRound ==
    ASSUME NEW h \in Nat, NEW i \in 0 .. HtCap
    PROVE  /\ Probe(h, 0) \in Buckets
           /\ Probe(h, i) \in Buckets
           /\ Probe(h, i) = IF Probe(h, 0) + i < HtCap THEN Probe(h, 0) + i
                                                       ELSE Probe(h, 0) + i - HtCap
<1>1. h + 0 = h
  OBVIOUS
<1>2. /\ h % HtCap \in 0 .. HtCap - 1
      /\ (h + i) % HtCap = IF (h % HtCap) + i < HtCap THEN (h % HtCap) + i
                                                      ELSE (h % HtCap) + i - HtCap
  BY HtCapPositive, RemainderOfSum
<1>3. Probe(h, 0) = h % HtCap /\ Probe(h, i) = (h + i) % HtCap
  BY <1>1 DEF Probe
<1> HIDE DEF Probe
<1> QED BY <1>2, <1>3, HtCapPositive DEF Buckets

(* A bucket is its own beginning.                                          *)
LEMMA ProbeFromBucket ==
    ASSUME NEW b \in Buckets
    PROVE  b \in Nat /\ Probe(b, 0) = b
<1>1. b + 0 = b /\ b \in 0 .. HtCap - 1 /\ b \in Nat
  BY HtCapPositive DEF Buckets
<1> QED BY <1>1, HtCapPositive DEF Probe

(* The distance from bucket a to bucket b.                                 *)
Distance(a, b) == IF a <= b THEN b - a ELSE b - a + HtCap

(* Every bucket is met on the way from every other, and what was met       *)
(* before it was passed.                                                   *)
LEMMA DistanceIsProbed ==
    ASSUME NEW h \in Nat, NEW b \in Buckets
    PROVE  LET a == Probe(h, 0) IN
           /\ Distance(a, b) \in Buckets
           /\ Probe(h, Distance(a, b)) = b
           /\ \A i \in Buckets : i < Distance(a, b) => Passed(a, Probe(h, i), b)
<1> DEFINE a == Probe(h, 0)
<1>1. a \in Buckets /\ \A i \in Buckets : /\ Probe(h, i) \in Buckets
                                          /\ Probe(h, i) = IF a + i < HtCap THEN a + i ELSE a + i - HtCap
  <2>1. ASSUME NEW i \in Buckets PROVE i \in 0 .. HtCap
    BY HtCapPositive DEF Buckets
  <2>2. 0 \in Buckets
    BY HtCapPositive DEF Buckets
  <2> QED BY <2>1, <2>2, ProbeGoesRound
<1> HIDE DEF a
<1>2. Distance(a, b) \in Buckets
  BY <1>1, HtCapPositive DEF Distance, Buckets
<1>3. Probe(h, Distance(a, b)) = b
  BY <1>1, <1>2, HtCapPositive DEF Distance, Buckets
<1>4. ASSUME NEW i \in Buckets, i < Distance(a, b) PROVE Passed(a, Probe(h, i), b)
  BY <1>1, <1>4, HtCapPositive DEF Distance, Buckets, Passed
<1> QED BY <1>2, <1>3, <1>4 DEF a

(* A table with one bucket per slot is never full: it has more buckets     *)
(* than there are slots.                                                   *)
LEMMA SomeBucketIsEmpty ==
    ASSUME NEW ht \in TableType, OneBucketPerSlot(ht)
    PROVE  \E b \in Buckets : IsEmpty(ht, b)
<1> SUFFICES ASSUME \A b \in Buckets : ~IsEmpty(ht, b) PROVE FALSE
  OBVIOUS
<1> DEFINE f == [b \in Buckets |-> ht[b].slot]
<1>1. f \in [Buckets -> Slots]
  BY DEF TableType, IsEmpty
<1>2. IsFiniteSet(Buckets) /\ Cardinality(Buckets) = HtCap
  BY HtCapPositive, FS_Interval DEF Buckets
<1>3. IsFiniteSet(Slots) /\ Cardinality(Slots) = Capacity
  BY HtCapPositive, FS_Interval DEF Slots
<1>4. \E x, y \in Buckets : x # y /\ f[x] = f[y]
  <2> HIDE DEF f
  <2> QED BY <1>1, <1>2, <1>3, HtCapPositive, FS_PigeonHole
<1> QED BY <1>4 DEF OneBucketPerSlot

-------------------------------------------------------------------------------
(***************************************************************************)
(* ht_lookup and ht_insert                                                 *)
(***************************************************************************)

(* Table and slots belong together: the buckets in use are those of the    *)
(* occupied slots, with the hashes of their keys, and keys are cached once. *)
TableMatchesSlots(r) ==
    /\ TableOK(r.ht)
    /\ \A b \in Buckets : ~IsEmpty(r.ht, b) =>
          /\ r.slots[r.ht[b].slot].occupied
          /\ r.slots[r.ht[b].slot].hash = r.ht[b].hash
    /\ \A s \in Slots : r.slots[s].occupied => \E b \in Buckets : r.ht[b].slot = s
    /\ \A s, t \in Slots :
          r.slots[s].occupied /\ r.slots[t].occupied /\ r.slots[s].key = r.slots[t].key => s = t

(* The probe for the entry of bucket b meets no empty bucket before b.     *)
LEMMA NoGapBefore ==
    ASSUME NEW ht, TableOK(ht), NEW b \in Buckets, ~IsEmpty(ht, b),
           NEW i \in Buckets, i < Distance(Ideal(ht, b), b)
    PROVE  ~IsEmpty(ht, Probe(ht[b].hash, i))
<1>1. ht[b].hash \in Nat
  BY DEF TableOK, TableType
<1>2. Passed(Ideal(ht, b), Probe(ht[b].hash, i), b)
  BY <1>1, DistanceIsProbed DEF Ideal
<1>3. Probe(ht[b].hash, i) \in Buckets
  <2>1. i \in 0 .. HtCap
    BY HtCapPositive DEF Buckets
  <2> QED BY <1>1, <2>1, ProbeGoesRound
<1> QED BY <1>2, <1>3 DEF TableOK, ProbesReach

(* The distances at which a probe for hash h and key k may end.            *)
Stops(r, h, k) ==
    {i \in Buckets : IsEmpty(r.ht, Probe(h, i)) \/ RefersTo(r, Probe(h, i), h, k)}

(* A probe stays in the table.                                             *)
LEMMA ProbeInTable ==
    ASSUME NEW h \in Nat, NEW i \in Buckets
    PROVE  Probe(h, i) \in Buckets
<1>1. i \in 0 .. HtCap
  BY HtCapPositive DEF Buckets
<1> QED BY <1>1, ProbeGoesRound

(* Buckets in use refer to occupied slots, so ht_lookup and ht_remove stop *)
(* at the same places.                                                     *)
LEMMA StopsAgree ==
    ASSUME NEW r, TableMatchesSlots(r), NEW h \in Nat, NEW k
    PROVE  Stops(r, h, k) =
           {i \in Buckets : IsEmpty(r.ht, Probe(h, i)) \/ Finds(r, Probe(h, i), h, k)}
<1>1. ASSUME NEW i \in Buckets, ~IsEmpty(r.ht, Probe(h, i))
      PROVE  RefersTo(r, Probe(h, i), h, k) <=> Finds(r, Probe(h, i), h, k)
  <2>1. r.slots[r.ht[Probe(h, i)].slot].occupied
    BY <1>1, ProbeInTable DEF TableMatchesSlots
  <2> QED BY <2>1 DEF Finds
<1> QED BY <1>1 DEF Stops

(* Every probe ends, since some bucket is empty.                           *)
LEMMA ProbesEnd ==
    ASSUME NEW r, TableOK(r.ht), NEW h \in Nat, NEW k
    PROVE  /\ Stops(r, h, k) # {}
           /\ Min(Stops(r, h, k)) \in Stops(r, h, k)
           /\ \A i \in Stops(r, h, k) : Min(Stops(r, h, k)) <= i
           /\ Min(Stops(r, h, k)) \in Buckets
           /\ Probe(h, Min(Stops(r, h, k))) \in Buckets
<1>1. PICK b \in Buckets : IsEmpty(r.ht, b)
  BY SomeBucketIsEmpty DEF TableOK
<1>2. Distance(Probe(h, 0), b) \in Buckets /\ Probe(h, Distance(Probe(h, 0), b)) = b
  BY DistanceIsProbed
<1>3. Stops(r, h, k) # {}
  BY <1>1, <1>2 DEF Stops
<1>4. Stops(r, h, k) \in SUBSET Nat /\ Stops(r, h, k) \in SUBSET Buckets
  BY HtCapPositive DEF Stops, Buckets
<1> DEFINE T == Stops(r, h, k)
<1> HIDE DEF T
<1>5. T \in SUBSET Nat /\ T \in SUBSET Buckets /\ T # {}
  BY <1>3, <1>4 DEF T
<1>6. Min(T) \in T /\ \A i \in T : Min(T) <= i
  BY <1>5, MinIsLeast
<1>7. Min(T) \in Buckets /\ Probe(h, Min(T)) \in Buckets
  BY <1>5, <1>6, ProbeInTable
<1> QED BY <1>3, <1>6, <1>7 DEF T

(* The hash of an occupied slot is a number, and its bucket is found.      *)
LEMMA OccupiedHasBucket ==
    ASSUME NEW r, TableMatchesSlots(r), NEW s \in Slots, r.slots[s].occupied
    PROVE  /\ r.slots[s].hash \in Nat
           /\ \E b \in Buckets : /\ ~IsEmpty(r.ht, b)
                                 /\ r.ht[b] = [hash |-> r.slots[s].hash, slot |-> s]
<1>1. PICK b \in Buckets : r.ht[b].slot = s
  BY DEF TableMatchesSlots
<1>2. r.ht[b] \in [hash : Nat, slot : Slots \cup {NONE}]
  BY DEF TableMatchesSlots, TableOK, TableType
<1>3. ~IsEmpty(r.ht, b)
  BY <1>1, HtCapPositive DEF IsEmpty, Slots, NONE
<1>4. r.ht[b].hash = r.slots[s].hash
  BY <1>1, <1>3 DEF TableMatchesSlots
<1> QED BY <1>1, <1>2, <1>3, <1>4

(* When the key is in slot s, the probe ends at the bucket of s.           *)
LEMMA ProbeEndsAtTheKey ==
    ASSUME NEW r, TableMatchesSlots(r), NEW s \in Slots, r.slots[s].occupied,
           NEW h, NEW k, h = r.slots[s].hash, k = r.slots[s].key
    PROVE  r.ht[Probe(h, Min(Stops(r, h, k)))].slot = s
<1>1. PICK b \in Buckets : ~IsEmpty(r.ht, b) /\ r.ht[b] = [hash |-> h, slot |-> s]
  BY OccupiedHasBucket
<1>2. h \in Nat /\ TableOK(r.ht)
  BY OccupiedHasBucket DEF TableMatchesSlots
<1>3. r.ht[b].hash = h /\ r.ht[b].slot = s
  BY <1>1
<1> DEFINE d == Distance(Ideal(r.ht, b), b)
<1>4. d \in Buckets /\ Probe(h, d) = b
  BY <1>2, <1>3, DistanceIsProbed DEF Ideal
<1>5. d \in Stops(r, h, k)
  BY <1>3, <1>4 DEF Stops, RefersTo
<1> DEFINE m == Min(Stops(r, h, k))
<1>6. m \in Buckets /\ Probe(h, m) \in Buckets /\ m <= d
  BY <1>2, <1>5, ProbesEnd
<1>7. IsEmpty(r.ht, Probe(h, m)) \/ RefersTo(r, Probe(h, m), h, k)
  BY <1>2, ProbesEnd DEF Stops
<1> HIDE DEF m, d
<1>8. CASE m = d
  BY <1>3, <1>4, <1>8 DEF m
<1>9. CASE m < d
  <2>1. ~IsEmpty(r.ht, Probe(h, m))
    BY <1>1, <1>2, <1>3, <1>6, <1>9, NoGapBefore DEF d
  <2> DEFINE t == r.ht[Probe(h, m)].slot
  <2>2. t \in Slots
    BY <1>2, <1>6, <2>1 DEF TableOK, TableType, IsEmpty
  <2>3. r.slots[t].occupied
    BY <1>6, <2>1 DEF TableMatchesSlots
  <2>4. r.slots[t].key = r.slots[s].key
    BY <1>7, <2>1 DEF RefersTo
  <2>5. t = s
    BY <2>2, <2>3, <2>4 DEF TableMatchesSlots
  <2> QED BY <2>5 DEF m
<1>10. m \in Int /\ d \in Int
  BY <1>4, <1>6, HtCapPositive DEF Buckets
<1> QED BY <1>6, <1>8, <1>9, <1>10

(* ht_lookup finds the slot of a cached key.                               *)
LEMMA LookupFinds ==
    ASSUME NEW r, TableMatchesSlots(r), NEW s \in Slots, r.slots[s].occupied
    PROVE  ht_lookup(r, r.slots[s].hash, r.slots[s].key) = s
<1> DEFINE h == r.slots[s].hash
           k == r.slots[s].key
<1>1. h \in Nat /\ TableOK(r.ht)
  BY OccupiedHasBucket DEF TableMatchesSlots
<1>2. r.ht[Probe(h, Min(Stops(r, h, k)))].slot = s
  BY ProbeEndsAtTheKey
<1> HIDE DEF h, k
<1>3. ht_lookup(r, h, k) = r.ht[Probe(h, Min(Stops(r, h, k)))].slot
  <2>1. Stops(r, h, k) # {}
    BY <1>1, ProbesEnd
  <2> QED BY <1>1, <2>1, StopsAgree DEF ht_lookup
<1> QED BY <1>2, <1>3 DEF h, k

(* It finds nothing for a key that is not cached.                          *)
LEMMA LookupMisses ==
    ASSUME NEW r, TableMatchesSlots(r), NEW h \in Nat, NEW k,
           \A s \in Slots : r.slots[s].occupied => r.slots[s].key # k
    PROVE  ht_lookup(r, h, k) = NONE
<1> DEFINE T == Stops(r, h, k)
<1>0. TableOK(r.ht)
  BY DEF TableMatchesSlots
<1>1. T # {} /\ Min(T) \in T /\ Probe(h, Min(T)) \in Buckets
  BY <1>0, ProbesEnd
<1>2. ht_lookup(r, h, k) = r.ht[Probe(h, Min(T))].slot
  BY <1>1, StopsAgree DEF ht_lookup
<1> DEFINE b == Probe(h, Min(T))
<1>3. IsEmpty(r.ht, b) \/ RefersTo(r, b, h, k)
  BY <1>1 DEF Stops
<1>4. ASSUME ~IsEmpty(r.ht, b) PROVE FALSE
  <2> HIDE DEF b, T
  <2>0. b \in Buckets
    BY <1>1 DEF b
  <2>1. r.ht[b].slot \in Slots /\ r.slots[r.ht[b].slot].occupied
    BY <1>0, <2>0, <1>4 DEF TableMatchesSlots, TableOK, TableType, IsEmpty
  <2> QED BY <1>3, <1>4, <2>1 DEF RefersTo
<1> QED BY <1>2, <1>4 DEF IsEmpty

(* What is passed on the way to b is what is closer to the start than b.   *)
LEMMA PassedIsCloser ==
    ASSUME NEW a \in Buckets, NEW b \in Buckets, NEW c \in Buckets
    PROVE  Passed(a, c, b) <=> Distance(a, c) < Distance(a, b)
BY HtCapPositive DEF Passed, Distance, Buckets

(* A region with another table.                                            *)
WithTable(r, ht) == [r EXCEPT !.ht = ht]

(* The i-th probe is i buckets from the first.                             *)
LEMMA DistanceOfProbe ==
    ASSUME NEW h \in Nat, NEW i \in Buckets
    PROVE  Distance(Probe(h, 0), Probe(h, i)) = i
<1>1. i \in 0 .. HtCap
  BY HtCapPositive DEF Buckets
<1>2. /\ Probe(h, 0) \in Buckets
      /\ Probe(h, i) = IF Probe(h, 0) + i < HtCap THEN Probe(h, 0) + i
                                                  ELSE Probe(h, 0) + i - HtCap
  BY <1>1, ProbeGoesRound
<1> QED BY <1>2, HtCapPositive DEF Distance, Buckets

(* ht_insert finds an empty bucket, and the table with the new entry there *)
(* is one in which probes reach every entry.                               *)
LEMMA InsertAddsABucket ==
    ASSUME NEW r, TableOK(r.ht), NEW h \in Nat, NEW s \in Slots,
           \A b \in Buckets : r.ht[b].slot # s
    PROVE  \E b \in Buckets :
               LET ht == [r.ht EXCEPT ![b] = [hash |-> h, slot |-> s]] IN
               /\ IsEmpty(r.ht, b)
               /\ TableOK(ht)
               /\ ht_insert(r, h, s) = WithTable(r, ht)
<1> DEFINE T == {i \in Buckets : IsEmpty(r.ht, Probe(h, i))}
           m == Min(T)
           b == Probe(h, m)
           e == [hash |-> h, slot |-> s]
           ht == [r.ht EXCEPT ![b] = e]
<1>1. PICK z \in Buckets : IsEmpty(r.ht, z)
  BY SomeBucketIsEmpty DEF TableOK
<1>2. T # {}
  BY <1>1, DistanceIsProbed
<1>3. T \in SUBSET Nat
  BY HtCapPositive DEF Buckets
<1>4. m \in T /\ \A i \in T : m <= i
  <2> HIDE DEF T
  <2> QED BY <1>2, <1>3, MinIsLeast
<1>5. m \in Buckets /\ b \in Buckets /\ IsEmpty(r.ht, b)
  <2>1. m \in Buckets /\ IsEmpty(r.ht, b)
    BY <1>4
  <2> QED BY <2>1, ProbeInTable
<1>6. ht_insert(r, h, s) = WithTable(r, ht)
  BY <1>2 DEF ht_insert, WithTable
<1>7. Probe(h, 0) \in Buckets
  BY ProbeInTable, HtCapPositive DEF Buckets
<1>8. ASSUME NEW c \in Buckets, Passed(Probe(h, 0), c, b) PROVE ~IsEmpty(r.ht, c)
  <2> DEFINE d == Distance(Probe(h, 0), c)
  <2>1. d \in Buckets /\ Probe(h, d) = c
    BY DistanceIsProbed
  <2>2. d < m
    BY <1>5, <1>7, <1>8, PassedIsCloser, DistanceOfProbe
  <2>3. d \notin T
    <3> HIDE DEF d, m
    <3>1. m \in Int /\ d \in Int
      BY <1>5, <2>1, HtCapPositive DEF Buckets
    <3> QED BY <2>2, <1>4, <3>1
  <2> QED BY <2>1, <2>3
<1> HIDE DEF b, m, T
<1>9. r.ht \in TableType /\ ht \in TableType
  BY <1>5 DEF TableOK, TableType
<1>10. /\ ht[b] = e /\ s # NONE
       /\ \A c \in Buckets : c # b => ht[c] = r.ht[c]
  BY <1>5, <1>9, HtCapPositive DEF TableType, Slots, NONE
<1> HIDE DEF ht
<1>11. OneBucketPerSlot(ht)
  BY <1>10 DEF TableOK, OneBucketPerSlot, IsEmpty
<1>12. ~IsEmpty(ht, b) /\ Ideal(ht, b) = Probe(h, 0)
  BY <1>10 DEF IsEmpty, Ideal
<1>13. ASSUME NEW x \in Buckets, NEW c \in Buckets, ~IsEmpty(ht, x), Passed(Ideal(ht, x), c, x)
      PROVE  ~IsEmpty(ht, c)
  <2>1. CASE x = b
    BY <1>8, <1>10, <1>12, <1>13, <2>1 DEF IsEmpty
  <2>2. CASE x # b
    <3>1. ~IsEmpty(r.ht, x) /\ Ideal(r.ht, x) = Ideal(ht, x)
      BY <1>10, <1>13, <2>2 DEF IsEmpty, Ideal
    <3>2. ~IsEmpty(r.ht, c)
      BY <1>13, <3>1 DEF TableOK, ProbesReach
    <3> QED BY <3>2, <1>10, <1>12 DEF IsEmpty
  <2> QED BY <2>1, <2>2
<1>14. TableOK(ht)
  BY <1>9, <1>11, <1>13 DEF TableOK, ProbesReach
<1> QED BY <1>5, <1>6, <1>14 DEF ht

-------------------------------------------------------------------------------
(***************************************************************************)
(* ht_remove: the backward shift                                           *)
(***************************************************************************)

(* The entry at j moves exactly when its probe passes the hole.            *)
LEMMA MovesAcrossTheHole ==
    ASSUME NEW e \in Buckets, NEW j \in Buckets, e # j, NEW a \in Buckets
    PROVE  ShouldMove(e, j, a) <=> Passed(a, e, j)
BY HtCapPositive DEF ShouldMove, Passed, Buckets

(* A way that passes x, with z between x and its end, passes z.            *)
LEMMA PassesBetween ==
    ASSUME NEW o \in Buckets, NEW a \in Buckets, NEW x \in Buckets,
           NEW z \in Buckets, NEW b \in Buckets, Passed(a, x, b),
           \/ Distance(o, x) < Distance(o, z) /\ Distance(o, z) < Distance(o, b)
           \/ /\ Distance(o, b) < Distance(o, x)
              /\ Distance(o, x) < Distance(o, z)
    PROVE  Passed(a, z, b)
BY HtCapPositive DEF Distance, Passed, Buckets

(* The run of entries from start ends at an empty bucket.                  *)
LEMMA RunEnds ==
    ASSUME NEW ht, TableOK(ht), NEW start \in Buckets, ~IsEmpty(ht, start)
    PROVE  /\ RunLength(ht, start) \in 1 .. HtCap - 1
           /\ IsEmpty(ht, Probe(start, RunLength(ht, start)))
           /\ Probe(start, RunLength(ht, start)) \in Buckets
           /\ Distance(start, Probe(start, RunLength(ht, start))) = RunLength(ht, start)
           /\ \A c \in Buckets :
                 Distance(start, c) < RunLength(ht, start) => ~IsEmpty(ht, c)
<1> DEFINE T == {d \in 1 .. HtCap : IsEmpty(ht, Probe(start, d))}
           n == Min(T)
<1>0. start \in Nat /\ Probe(start, 0) = start
  BY ProbeFromBucket
<1>1. PICK z \in Buckets : IsEmpty(ht, z)
  BY SomeBucketIsEmpty DEF TableOK
<1>2. Distance(start, z) \in Buckets /\ Probe(start, Distance(start, z)) = z
  BY <1>0, DistanceIsProbed
<1>3. Distance(start, z) \in 1 .. HtCap - 1 /\ Distance(start, z) \in 1 .. HtCap
  <2>1. Distance(start, z) # 0
    BY <1>0, <1>1, <1>2
  <2> QED BY <1>2, <2>1, HtCapPositive DEF Buckets
<1>4. Distance(start, z) \in T
  BY <1>1, <1>2, <1>3
<1>5. T \in SUBSET Nat /\ T # {}
  BY <1>4, HtCapPositive
<1>6. n \in T /\ \A x \in T : n <= x
  <2> HIDE DEF T
  <2> QED BY <1>5, MinIsLeast
<1>7. n \in 1 .. HtCap - 1 /\ IsEmpty(ht, Probe(start, n))
  <2>1. n \in 1 .. HtCap /\ IsEmpty(ht, Probe(start, n))
    BY <1>6
  <2> HIDE DEF n
  <2> QED BY <2>1, <1>3, <1>4, <1>6, HtCapPositive
<1>8. n \in Buckets /\ n \in Nat
  <2> HIDE DEF n
  <2> QED BY <1>7, HtCapPositive DEF Buckets
<1>9. Probe(start, n) \in Buckets /\ Distance(start, Probe(start, n)) = n
  <2> HIDE DEF n
  <2>1. Distance(Probe(start, 0), Probe(start, n)) = n
    BY <1>0, <1>8, DistanceOfProbe
  <2> QED BY <1>0, <1>8, <2>1, ProbeInTable
<1>10. ASSUME NEW c \in Buckets, Distance(start, c) < n PROVE ~IsEmpty(ht, c)
  <2> DEFINE d == Distance(start, c)
  <2>1. d \in Buckets /\ Probe(start, d) = c
    BY <1>0, DistanceIsProbed
  <2>2. CASE d = 0
    BY <1>0, <2>1, <2>2
  <2>3. CASE d # 0
    <3>1. d \in 1 .. HtCap
      BY <2>1, <2>3, HtCapPositive DEF Buckets
    <3>2. d \notin T
      <4> HIDE DEF n, T
      <4>1. n \in Int /\ d \in Int /\ d < n
        BY <1>8, <1>10, <3>1
      <4> HIDE DEF d
      <4> QED BY <4>1, <1>6
    <3> QED BY <2>1, <3>1, <3>2
  <2> QED BY <2>2, <2>3
<1>11. RunLength(ht, start) = n
  BY DEF RunLength
<1> HIDE DEF n
<1> QED BY <1>7, <1>9, <1>10, <1>11

(* The states of the shifting loop.                                        *)
ShiftState == [ht : TableType, hole : Buckets]

(* One iteration of the backward shift keeps the types.                    *)
LEMMA ShiftStepType ==
    ASSUME NEW s \in ShiftState, NEW j \in Buckets
    PROVE  ShiftStep(s, j) \in ShiftState
BY DEF ShiftStep, ShiftState, TableType

(* The function of the loop is what its iterations compute.                *)
LEMMA ShiftsAreSteps ==
    ASSUME NEW ht \in TableType, NEW start \in Buckets,
           RunLength(ht, start) \in 1 .. HtCap - 1
    PROVE  /\ Shifts(ht, start)[0] = [ht |-> ht, hole |-> start]
           /\ \A d \in 1 .. RunLength(ht, start) - 1 :
                 Shifts(ht, start)[d] = ShiftStep(Shifts(ht, start)[d - 1], Probe(start, d))
<1> DEFINE n == RunLength(ht, start)
           s0 == [ht |-> ht, hole |-> start]
           step == [i \in Nat |-> [s \in ShiftState |-> ShiftStep(s, Probe(start, i))]]
<1>1. s0 \in ShiftState
  BY DEF ShiftState
<1>2. step \in [Nat -> [ShiftState -> ShiftState]]
  <2>1. ASSUME NEW i \in Nat PROVE Probe(start, i) \in Buckets
    <3>1. start + i \in Nat /\ 0 \in 0 .. HtCap
      BY HtCapPositive DEF Buckets
    <3>2. (start + i) % HtCap \in 0 .. HtCap - 1
      BY <3>1, HtCapPositive, RemainderOfSum
    <3> QED BY <3>2 DEF Probe, Buckets
  <2> QED BY <2>1, ShiftStepType
<1>3. PICK f \in [Nat -> ShiftState] :
         f[0] = s0 /\ \A i \in Nat : f[i + 1] = step[i + 1][f[i]]
  <2> HIDE DEF s0, step
  <2>1. Runs(ShiftState, s0, step) # {}
    BY <1>1, <1>2, Iteration, Zenon
  <2> QED BY <2>1 DEF Runs
<1>4. ASSUME NEW d \in 1 .. n - 1 PROVE f[d] = ShiftStep(f[d - 1], Probe(start, d))
  <2> HIDE DEF s0
  <2>1. d - 1 \in Nat /\ d \in Nat /\ (d - 1) + 1 = d
    BY HtCapPositive
  <2>2. f[d] = step[d][f[d - 1]]
    <3> HIDE DEF step
    <3> QED BY <1>3, <2>1
  <2> QED BY <2>1, <2>2
<1> DEFINE g == [d \in 0 .. n - 1 |-> f[d]]
<1> HIDE DEF n, step, s0
<1>5. g = [d \in 0 .. n - 1 |-> IF d = 0 THEN s0 ELSE ShiftStep(g[d - 1], Probe(start, d))]
  <2>1. n \in 1 .. HtCap - 1
    BY DEF n
  <2>2. ASSUME NEW d \in 0 .. n - 1
        PROVE  g[d] = IF d = 0 THEN s0 ELSE ShiftStep(g[d - 1], Probe(start, d))
    <3>1. CASE d = 0
      BY <1>3, <3>1
    <3>2. CASE d # 0
      <4>1. d \in 1 .. n - 1 /\ d - 1 \in 0 .. n - 1
        BY <2>1, <3>2, HtCapPositive
      <4> QED BY <1>4, <4>1, <3>2
    <3> QED BY <3>1, <3>2
  <2> QED BY <2>2
<1> HIDE DEF g
<1> DEFINE Q(x) == x = [d \in 0 .. n - 1 |-> IF d = 0 THEN s0 ELSE ShiftStep(x[d - 1], Probe(start, d))]
<1>6. Shifts(ht, start) = CHOOSE x : Q(x)
  BY DEF Shifts, n, s0
<1>7. Q(g)
  BY <1>5
<1>8. Q(Shifts(ht, start))
  <2> HIDE DEF Q
  <2> QED BY <1>6, <1>7
<1> DEFINE sh == Shifts(ht, start)
<1> HIDE DEF sh
<1>9. sh = [d \in 0 .. n - 1 |-> IF d = 0 THEN s0 ELSE ShiftStep(sh[d - 1], Probe(start, d))]
  BY <1>8 DEF sh
<1>10. n \in 1 .. HtCap - 1
  BY DEF n
<1>11. sh[0] = s0
  <2>1. 0 \in 0 .. n - 1
    BY <1>10, HtCapPositive
  <2> QED BY <1>9, <2>1
<1>12. ASSUME NEW d \in 1 .. n - 1 PROVE sh[d] = ShiftStep(sh[d - 1], Probe(start, d))
  <2>1. d \in 0 .. n - 1 /\ d # 0
    BY <1>10, HtCapPositive
  <2> QED BY <1>9, <2>1
<1> QED BY <1>11, <1>12 DEF sh, n, s0

(***************************************************************************)
(* The invariant of the loop, after the bucket at distance d from start    *)
(* was looked at.  The buckets in use stay the same until the last hole is *)
(* emptied; what lies ahead is untouched; but for the hole, the table has  *)
(* the entries of the old one without the removed one; and no probe for an *)
(* entry behind passes the hole.                                           *)
(***************************************************************************)
SameUse(ht, s) == \A c \in Buckets : IsEmpty(s.ht, c) <=> IsEmpty(ht, c)

AheadUntouched(ht, start, d, s) ==
    /\ Distance(start, s.hole) <= d
    /\ \A c \in Buckets : Distance(start, c) > d => s.ht[c] = ht[c]

EntriesKept(ht, start, s) ==
    /\ \A b \in Buckets \ {s.hole} : ~IsEmpty(s.ht, b) =>
          \E c \in Buckets \ {start} : ht[c] = s.ht[b]
    /\ \A c \in Buckets \ {start} : ~IsEmpty(ht, c) =>
          \E b \in Buckets \ {s.hole} : s.ht[b] = ht[c]
    /\ \A b, c \in Buckets \ {s.hole} :
          ~IsEmpty(s.ht, b) /\ s.ht[b].slot = s.ht[c].slot => b = c

StillReached(s) ==
    \A b \in Buckets \ {s.hole} : \A c \in Buckets :
        ~IsEmpty(s.ht, b) /\ Passed(Ideal(s.ht, b), c, b) => ~IsEmpty(s.ht, c)

HoleNotPassed(start, d, s) ==
    \A b \in Buckets \ {s.hole} :
        ~IsEmpty(s.ht, b) /\ Distance(start, b) <= d => ~Passed(Ideal(s.ht, b), s.hole, b)

LoopInv(ht, start, d, s) ==
    /\ s \in ShiftState
    /\ SameUse(ht, s)
    /\ AheadUntouched(ht, start, d, s)
    /\ EntriesKept(ht, start, s)
    /\ StillReached(s)
    /\ HoleNotPassed(start, d, s)

(* Only a bucket itself is at distance 0.                                  *)
LEMMA DistanceType ==
    ASSUME NEW a \in Buckets, NEW b \in Buckets
    PROVE  Distance(a, b) \in Nat /\ (Distance(a, b) = 0 <=> a = b)
BY HtCapPositive DEF Distance, Buckets

(* A bucket's ideal position is a bucket.                                  *)
LEMMA IdealType ==
    ASSUME NEW ht \in TableType, NEW b \in Buckets
    PROVE  Ideal(ht, b) \in Buckets
<1>1. ht[b].hash \in Nat
  BY DEF TableType
<1>2. 0 \in Buckets
  BY HtCapPositive DEF Buckets
<1> QED BY <1>1, <1>2, ProbeInTable DEF Ideal

(* Two buckets are not at the same distance.                               *)
LEMMA DistanceIsInjective ==
    ASSUME NEW a \in Buckets, NEW b \in Buckets, NEW c \in Buckets,
           Distance(a, b) = Distance(a, c)
    PROVE  b = c
BY HtCapPositive DEF Distance, Buckets

(* The invariant of the backward shift holds when the loop begins,         *)
LEMMA LoopStarts ==
    ASSUME NEW ht, TableOK(ht), NEW start \in Buckets
    PROVE  LoopInv(ht, start, 0, [ht |-> ht, hole |-> start])
<1> DEFINE s == [ht |-> ht, hole |-> start]
<1>1. s \in ShiftState /\ s.ht = ht /\ s.hole = start
  BY DEF ShiftState, TableOK
<1> HIDE DEF s
<1>2. SameUse(ht, s)
  BY <1>1 DEF SameUse
<1>3. AheadUntouched(ht, start, 0, s)
  BY <1>1, DistanceType DEF AheadUntouched
<1>4. EntriesKept(ht, start, s)
  BY <1>1 DEF EntriesKept, TableOK, OneBucketPerSlot
<1>5. StillReached(s)
  BY <1>1 DEF StillReached, TableOK, ProbesReach
<1>6. HoleNotPassed(start, 0, s)
  <2>1. ASSUME NEW b \in Buckets \ {start} PROVE ~ (Distance(start, b) <= 0)
    BY DistanceType
  <2> QED BY <1>1, <2>1 DEF HoleNotPassed
<1> QED BY <1>1, <1>2, <1>3, <1>4, <1>5, <1>6 DEF LoopInv, s

(* and after one more iteration.                                           *)
LEMMA LoopContinues ==
    ASSUME NEW ht, TableOK(ht), NEW start \in Buckets, ~IsEmpty(ht, start),
           NEW d \in Nat, d + 1 < RunLength(ht, start), NEW s,
           LoopInv(ht, start, d, s)
    PROVE  LoopInv(ht, start, d + 1, ShiftStep(s, Probe(start, d + 1)))
<1> DEFINE n == RunLength(ht, start)
           z == Probe(start, n)
           j == Probe(start, d + 1)
           g == s.ht
           e == s.hole
           a == Ideal(g, j)
           t == ShiftStep(s, j)
<1>1. /\ n \in 1 .. HtCap - 1 /\ z \in Buckets /\ IsEmpty(ht, z) /\ Distance(start, z) = n
      /\ \A c \in Buckets : Distance(start, c) < n => ~IsEmpty(ht, c)
  BY RunEnds
<1>2. /\ s \in ShiftState /\ g \in TableType /\ e \in Buckets
      /\ SameUse(ht, s) /\ AheadUntouched(ht, start, d, s) /\ EntriesKept(ht, start, s)
      /\ StillReached(s) /\ HoleNotPassed(start, d, s)
  BY DEF LoopInv, ShiftState
<1>3. j \in Buckets /\ Distance(start, j) = d + 1
  <2>1. d + 1 \in Buckets
    BY <1>1, HtCapPositive DEF Buckets
  <2> QED BY <2>1, ProbeFromBucket, ProbeInTable, DistanceOfProbe
<1> HIDE DEF n, z, j
<1>4. j # e /\ Distance(start, e) \in Nat /\ Distance(start, e) <= d
  BY <1>2, <1>3, DistanceType DEF AheadUntouched
<1>5. ~IsEmpty(g, j) /\ ~IsEmpty(g, e) /\ IsEmpty(g, z)
  <2>1. Distance(start, j) < n /\ Distance(start, e) < n
    BY <1>1, <1>3, <1>4 DEF n
  <2> QED BY <1>1, <1>2, <1>3, <2>1 DEF SameUse
<1>6. a \in Buckets /\ (ShouldMove(e, j, a) <=> Passed(a, e, j))
  BY <1>2, <1>3, <1>4, IdealType, MovesAcrossTheHole
<1>7. CASE ~ShouldMove(e, j, a)
  <2>1. t = s
    BY <1>7 DEF ShiftStep, Ideal
  <2>2. AheadUntouched(ht, start, d + 1, s)
    <3>1. ASSUME NEW c \in Buckets, Distance(start, c) > d + 1 PROVE Distance(start, c) > d
      BY <3>1, DistanceType
    <3>2. Distance(start, e) <= d + 1
      BY <1>4
    <3> QED BY <1>2, <3>1, <3>2 DEF AheadUntouched
  <2>3. HoleNotPassed(start, d + 1, s)
    <3>1. ASSUME NEW b \in Buckets \ {e}, ~IsEmpty(g, b), Distance(start, b) <= d + 1
          PROVE  ~Passed(Ideal(g, b), e, b)
      <4>1. Distance(start, b) <= d \/ Distance(start, b) = d + 1
        BY <3>1, DistanceType
      <4>2. CASE Distance(start, b) <= d
        BY <1>2, <3>1, <4>2 DEF HoleNotPassed
      <4>3. CASE Distance(start, b) = d + 1
        <5>1. b = j
          BY <1>3, <4>3, DistanceIsInjective
        <5> QED BY <5>1, <1>6, <1>7
      <4> QED BY <4>1, <4>2, <4>3
    <3> QED BY <3>1 DEF HoleNotPassed
  <2> QED BY <1>2, <2>1, <2>2, <2>3 DEF LoopInv, j
<1>8. CASE ShouldMove(e, j, a)
  <2>1. t = [ht |-> [g EXCEPT ![e] = g[j]], hole |-> j]
    BY <1>8 DEF ShiftStep, Ideal
  <2>2. /\ t.hole = j /\ t.ht[e] = g[j]
        /\ \A c \in Buckets : c # e => t.ht[c] = g[c]
    BY <1>2, <2>1 DEF TableType
  <2>3. t \in ShiftState
    BY <1>2, <1>3, ShiftStepType
  <2> HIDE DEF t
  <2>4. SameUse(ht, t)
    BY <1>2, <1>5, <2>2 DEF SameUse, IsEmpty
  <2>5. AheadUntouched(ht, start, d + 1, t)
    <3>1. ASSUME NEW c \in Buckets, Distance(start, c) > d + 1 PROVE t.ht[c] = ht[c]
      <4>1. Distance(start, c) > d /\ c # e
        BY <1>4, <3>1, DistanceType
      <4> QED BY <1>2, <2>2, <4>1 DEF AheadUntouched
    <3> QED BY <1>3, <2>2, <3>1 DEF AheadUntouched
  <2>6. EntriesKept(ht, start, t)
    <3>1. ASSUME NEW b \in Buckets \ {j}, ~IsEmpty(t.ht, b)
          PROVE  \E c \in Buckets \ {start} : ht[c] = t.ht[b]
      <4>1. CASE b = e
        BY <1>2, <1>3, <1>4, <1>5, <2>2, <4>1 DEF EntriesKept
      <4>2. CASE b # e
        BY <1>2, <3>1, <2>2, <4>2 DEF EntriesKept, IsEmpty
      <4> QED BY <4>1, <4>2
    <3>2. ASSUME NEW c \in Buckets \ {start}, ~IsEmpty(ht, c)
          PROVE  \E b \in Buckets \ {j} : t.ht[b] = ht[c]
      <4>1. PICK b \in Buckets \ {e} : g[b] = ht[c]
        BY <1>2, <3>2 DEF EntriesKept
      <4>2. CASE b = j
        BY <1>2, <1>4, <2>2, <4>1, <4>2
      <4>3. CASE b # j
        BY <2>2, <4>1, <4>3
      <4> QED BY <4>2, <4>3
    <3>3. ASSUME NEW b \in Buckets \ {j}, NEW c \in Buckets \ {j},
                 ~IsEmpty(t.ht, b), t.ht[b].slot = t.ht[c].slot
          PROVE  b = c
      BY <1>2, <1>3, <1>4, <1>5, <2>2, <3>3 DEF EntriesKept, IsEmpty
    <3> QED BY <2>2, <3>1, <3>2, <3>3 DEF EntriesKept
  <2>7. StillReached(t)
    <3>1. ASSUME NEW b \in Buckets \ {j}, NEW c \in Buckets, ~IsEmpty(t.ht, b),
                 Passed(Ideal(t.ht, b), c, b)
          PROVE  ~IsEmpty(g, c)
      <4>1. CASE b = e
        <5>1. Ideal(t.ht, b) = a
          BY <2>2, <4>1 DEF Ideal
        <5>2. Passed(a, c, j)
          <6>1. Distance(a, c) < Distance(a, e) /\ Distance(a, e) < Distance(a, j)
            BY <1>2, <1>3, <1>6, <1>8, <3>1, <4>1, <5>1, PassedIsCloser
          <6>2. Distance(a, c) \in Nat /\ Distance(a, e) \in Nat /\ Distance(a, j) \in Nat
            BY <1>2, <1>3, <1>6, DistanceType
          <6> QED BY <1>3, <1>6, <6>1, <6>2, PassedIsCloser
        <5> QED BY <1>2, <1>3, <1>4, <1>5, <5>2 DEF StillReached
      <4>2. CASE b # e
        <5>1. Ideal(t.ht, b) = Ideal(g, b) /\ ~IsEmpty(g, b)
          BY <2>2, <3>1, <4>2 DEF Ideal, IsEmpty
        <5> QED BY <1>2, <3>1, <4>2, <5>1 DEF StillReached
      <4> QED BY <4>1, <4>2
    <3>2. ASSUME NEW c \in Buckets, ~IsEmpty(g, c) PROVE ~IsEmpty(t.ht, c)
      BY <1>2, <2>4, <3>2 DEF SameUse
    <3> QED BY <2>2, <3>1, <3>2 DEF StillReached
  <2>8. HoleNotPassed(start, d + 1, t)
    <3>1. ASSUME NEW b \in Buckets \ {j}, ~IsEmpty(t.ht, b), Distance(start, b) <= d + 1,
                 Passed(Ideal(t.ht, b), j, b)
          PROVE  FALSE
      <4>1. Distance(start, b) \in Nat /\ Distance(start, b) <= d
        <5>1. Distance(start, b) # d + 1
          BY <1>3, DistanceIsInjective
        <5> QED BY <3>1, <5>1, DistanceType
      <4>2. CASE b = e
        <5>1. Ideal(t.ht, b) = a
          BY <2>2, <4>2 DEF Ideal
        <5>2. Distance(a, e) < Distance(a, j) /\ Distance(a, j) < Distance(a, e)
          BY <1>2, <1>3, <1>6, <1>8, <3>1, <4>2, <5>1, PassedIsCloser
        <5>3. Distance(a, e) \in Nat /\ Distance(a, j) \in Nat
          BY <1>2, <1>3, <1>6, DistanceType
        <5> QED BY <5>2, <5>3
      <4>3. CASE b # e
        <5>1. Ideal(t.ht, b) = Ideal(g, b) /\ ~IsEmpty(g, b) /\ Ideal(g, b) \in Buckets
          BY <1>2, <2>2, <3>1, <4>3, IdealType DEF Ideal, IsEmpty
        <5>2. Distance(start, b) < Distance(start, j) /\ Distance(start, j) < Distance(start, z)
          BY <1>1, <1>3, <4>1 DEF n
        <5>3. Passed(Ideal(g, b), z, b)
          BY <1>1, <1>3, <3>1, <5>1, <5>2, PassesBetween
        <5> QED BY <1>1, <1>2, <1>5, <4>3, <5>1, <5>3 DEF StillReached
      <4> QED BY <4>2, <4>3
    <3> QED BY <2>2, <3>1 DEF HoleNotPassed
  <2> QED BY <2>3, <2>4, <2>5, <2>6, <2>7, <2>8 DEF LoopInv, t, j
<1> QED BY <1>7, <1>8

(* When the loop ends and the last hole is emptied, probes reach every     *)
(* entry, and the entries are the old ones without the removed one.        *)
LEMMA BackwardShiftRemoves ==
    ASSUME NEW ht, TableOK(ht), NEW start \in Buckets, ~IsEmpty(ht, start)
    PROVE  LET new == BackwardShift(ht, start) IN
           /\ TableOK(new)
           /\ \A b \in Buckets : ~IsEmpty(new, b) =>
                 \E c \in Buckets \ {start} : ht[c] = new[b]
           /\ \A c \in Buckets \ {start} : ~IsEmpty(ht, c) =>
                 \E b \in Buckets : new[b] = ht[c]
<1> DEFINE n == RunLength(ht, start)
           z == Probe(start, n)
           sh == Shifts(ht, start)
           s == sh[n - 1]
           new == BackwardShift(ht, start)
<1>1. /\ n \in 1 .. HtCap - 1 /\ z \in Buckets /\ IsEmpty(ht, z) /\ Distance(start, z) = n
  BY RunEnds
<1>2. /\ sh[0] = [ht |-> ht, hole |-> start]
      /\ \A d \in 1 .. n - 1 : sh[d] = ShiftStep(sh[d - 1], Probe(start, d))
  BY <1>1, ShiftsAreSteps DEF TableOK
<1> HIDE DEF sh, z
<1>3. LoopInv(ht, start, n - 1, s)
  <2> DEFINE D == {d \in Nat : d < n => LoopInv(ht, start, d, sh[d])}
  <2>1. 0 \in D
    BY <1>1, <1>2, LoopStarts
  <2>2. ASSUME NEW d \in D PROVE d + 1 \in D
    <3>1. ASSUME d + 1 < n PROVE LoopInv(ht, start, d + 1, sh[d + 1])
      <4>1. d \in Nat /\ LoopInv(ht, start, d, sh[d])
        BY <1>1, <3>1
      <4>2. d + 1 \in 1 .. n - 1 /\ (d + 1) - 1 = d
        BY <1>1, <3>1, <4>1
      <4>3. sh[d + 1] = ShiftStep(sh[d], Probe(start, d + 1))
        <5> HIDE DEF n
        <5> QED BY <1>2, <4>2
      <4> QED BY <3>1, <4>1, <4>3, LoopContinues
    <3> QED BY <3>1
  <2>3. D = Nat
    <3> HIDE DEF D
    <3>1. D \in SUBSET Nat
      BY DEF D
    <3> QED BY <2>1, <2>2, <3>1, SetInduction
  <2>4. n - 1 \in Nat /\ n - 1 < n
    BY <1>1
  <2> QED BY <2>3, <2>4
<1> DEFINE g == s.ht
           e == s.hole
<1>4. new = [g EXCEPT ![e] = EmptyBucket]
  BY DEF BackwardShift, Shifted, sh
<1>5. /\ g \in TableType /\ e \in Buckets
      /\ SameUse(ht, s) /\ AheadUntouched(ht, start, n - 1, s) /\ EntriesKept(ht, start, s)
      /\ StillReached(s) /\ HoleNotPassed(start, n - 1, s)
  BY <1>3 DEF LoopInv, ShiftState
<1>6. /\ new \in TableType /\ IsEmpty(new, e)
      /\ \A c \in Buckets : c # e => new[c] = g[c]
  BY <1>4, <1>5 DEF TableType, EmptyBucket, IsEmpty
<1> HIDE DEF s, new, n
<1>7. ASSUME NEW b \in Buckets, NEW c \in Buckets, ~IsEmpty(new, b), Passed(Ideal(new, b), c, b)
      PROVE  ~IsEmpty(new, c)
  <2>1. b # e /\ ~IsEmpty(g, b) /\ Ideal(new, b) = Ideal(g, b) /\ Ideal(g, b) \in Buckets
    BY <1>5, <1>6, <1>7, IdealType DEF IsEmpty, Ideal
  <2>2. ~IsEmpty(g, c)
    BY <1>5, <1>7, <2>1 DEF StillReached
  <2>3. ASSUME c = e PROVE FALSE
    <3>1. Distance(start, b) \in Nat /\ Distance(start, e) \in Nat /\ Distance(start, e) <= n - 1
      BY <1>5, DistanceType DEF AheadUntouched
    <3>2. CASE Distance(start, b) <= n - 1
      BY <1>5, <1>7, <2>1, <2>3, <3>2 DEF HoleNotPassed
    <3>3. CASE Distance(start, b) > n - 1
      <4>1. IsEmpty(g, z)
        BY <1>1, <1>5 DEF SameUse
      <4>2. Distance(start, b) # n
        BY <1>1, <2>1, <4>1, DistanceIsInjective
      <4>3. Distance(start, e) < Distance(start, z) /\ Distance(start, z) < Distance(start, b)
        BY <1>1, <3>1, <3>3, <4>2
      <4>4. Passed(Ideal(g, b), z, b)
        BY <1>1, <1>5, <1>7, <2>1, <2>3, <4>3, PassesBetween
      <4> QED BY <1>1, <1>5, <2>1, <4>1, <4>4 DEF StillReached
    <3> QED BY <1>1, <3>1, <3>2, <3>3
  <2> QED BY <1>6, <2>2, <2>3 DEF IsEmpty
<1>8. OneBucketPerSlot(new)
  <2>1. ASSUME NEW b \in Buckets, NEW c \in Buckets, ~IsEmpty(new, b), new[b].slot = new[c].slot
        PROVE  b = c
    <3>1. b # e /\ c # e
      BY <1>6, <2>1 DEF IsEmpty
    <3> QED BY <1>5, <1>6, <2>1, <3>1 DEF EntriesKept, IsEmpty
  <2> QED BY <2>1 DEF OneBucketPerSlot
<1>9. TableOK(new)
  BY <1>6, <1>7, <1>8 DEF TableOK, ProbesReach
<1>10. ASSUME NEW b \in Buckets, ~IsEmpty(new, b)
       PROVE  \E c \in Buckets \ {start} : ht[c] = new[b]
  BY <1>5, <1>6, <1>10 DEF EntriesKept, IsEmpty
<1>11. ASSUME NEW c \in Buckets \ {start}, ~IsEmpty(ht, c)
       PROVE  \E b \in Buckets : new[b] = ht[c]
  BY <1>5, <1>6, <1>11 DEF EntriesKept
<1> QED BY <1>9, <1>10, <1>11 DEF new

(* ht_remove of a cached key takes the bucket of its slot out of the       *)
(* table, and no other.                                                    *)
LEMMA RemoveTakesTheBucket ==
    ASSUME NEW r, TableMatchesSlots(r), NEW s \in Slots, r.slots[s].occupied
    PROVE  \E ht : /\ ht_remove(r, r.slots[s].hash, r.slots[s].key) = WithTable(r, ht)
                   /\ TableOK(ht)
                   /\ \A b \in Buckets : ~IsEmpty(ht, b) =>
                         \E c \in Buckets : r.ht[c] = ht[b] /\ r.ht[c].slot # s
                   /\ \A c \in Buckets : ~IsEmpty(r.ht, c) /\ r.ht[c].slot # s =>
                         \E b \in Buckets : ht[b] = r.ht[c]
<1> DEFINE h == r.slots[s].hash
           k == r.slots[s].key
           T == Stops(r, h, k)
           start == Probe(h, Min(T))
           ht == BackwardShift(r.ht, start)
<1>1. h \in Nat /\ TableOK(r.ht)
  BY OccupiedHasBucket DEF TableMatchesSlots
<1>2. r.ht[start].slot = s /\ start \in Buckets /\ T # {}
  BY <1>1, ProbeEndsAtTheKey, ProbesEnd
<1>3. ~IsEmpty(r.ht, start)
  BY <1>2, HtCapPositive DEF IsEmpty, Slots, NONE
<1>4. ht_remove(r, h, k) = WithTable(r, ht)
  <2> HIDE DEF h, k
  <2> QED BY <1>2, <1>3 DEF ht_remove, Stops, WithTable
<1> HIDE DEF start, h, k, T
<1>5. /\ TableOK(ht)
      /\ \A b \in Buckets : ~IsEmpty(ht, b) => \E c \in Buckets \ {start} : r.ht[c] = ht[b]
      /\ \A c \in Buckets \ {start} : ~IsEmpty(r.ht, c) => \E b \in Buckets : ht[b] = r.ht[c]
  BY <1>1, <1>2, <1>3, BackwardShiftRemoves
<1> HIDE DEF ht
<1>6. \A c \in Buckets \ {start} : r.ht[c].slot # s
  BY <1>1, <1>2, <1>3 DEF TableOK, OneBucketPerSlot, IsEmpty
<1>7. /\ \A b \in Buckets : ~IsEmpty(ht, b) =>
            \E c \in Buckets : r.ht[c] = ht[b] /\ r.ht[c].slot # s
      /\ \A c \in Buckets : ~IsEmpty(r.ht, c) /\ r.ht[c].slot # s =>
            \E b \in Buckets : ht[b] = r.ht[c]
  BY <1>2, <1>5, <1>6
<1> QED BY <1>4, <1>5, <1>7 DEF h, k
===============================================================================
