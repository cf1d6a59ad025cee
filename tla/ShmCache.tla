------------------------------- MODULE ShmCache -------------------------------
(***************************************************************************)
(* The shared-memory SIEVE cache of src/shm/mod.rs: get, insert and clear, *)
(* called by processes that map the same region.                           *)
(*                                                                         *)
(* ShmSeqLock shows that what happens under write_lock is atomic to other  *)
(* writers and to validated reads, so a step of this module is a whole     *)
(* locked section or a whole validated lookup.  Two things escape the lock *)
(* and are steps of their own: the store of visited and the counters that  *)
(* a get does after its lookup, and, because they race that store, the     *)
(* iterations of the eviction scan, which run with the lock held.          *)
(***************************************************************************)
EXTENDS ShmHashTable, ShmOrdering

CONSTANTS
    Procs,     \* processes (or threads) that call the cache
    Keys,      \* serialized keys
    Values,    \* serialized values
    Miss,      \* what a get without a hit returns
    Hashes,    \* the hashes a key may have
    Ttl,       \* header.ttl_nanos, 0 for no expiry
    StatMod,   \* 2^64 in the code: the counters wrap
    MaxTime    \* bound: the last instant of the clock

ASSUME KeysAssumption == ZeroKey \notin Keys
ASSUME MissAssumption == Miss \notin Values
ASSUME NumbersAssumption ==
    Ttl \in Nat /\ StatMod \in Nat \ {0} /\ MaxTime \in Nat /\ Hashes \subseteq Nat

VARIABLES
    rg,       \* the mapped region (ShmLayout)
    hashOf,   \* the hash of every key: ahash with fixed seeds, any function here
    pc,       \* pc[p]: where p is in get or insert
    loc,      \* loc[p]: the arguments and locals of p's operation
    last,     \* history <<p, k, v>>: the last get or insert
    now,      \* CLOCK_MONOTONIC
    marks     \* history: visited bits that readers have stored during this scan

vars == <<rg, hashOf, pc, loc, last, now, marks>>

NoLocals == [key |-> ZeroKey, val |-> ZeroValue, slot |-> NONE, steps |-> 0]

Goto(p, label) == pc' = [pc EXCEPT ![p] = label]
Keep(p, locals) == loc' = [loc EXCEPT ![p] = locals]
Done(p) == Goto(p, "idle") /\ Keep(p, NoLocals)

(* An atomic counter of the header goes up by one.                         *)
Bump(n) == (n + 1) % StatMod

Init ==
    /\ rg = FreshRegion
    /\ hashOf \in [Keys -> Hashes]
    /\ pc = [p \in Procs |-> "idle"]
    /\ loc = [p \in Procs |-> NoLocals]
    /\ last = <<>>
    /\ now = 0
    /\ marks = 0

(* The write lock is held between steps only by a scan.                    *)
LockFree == \A p \in Procs : pc[p] # "scan"

SlotOf(k) == ht_lookup(rg, hashOf[k], k)

Expired(s) == Ttl > 0 /\ now - rg.slots[s].created > Ttl

-------------------------------------------------------------------------------
(***************************************************************************)
(* get.  The lookup of get_optimistic takes effect at the instant it is    *)
(* validated for, when no writer is inside the lock.                       *)
(***************************************************************************)

Lookup(p, label, locals, answer) ==
    /\ pc[p] = "idle"
    /\ LockFree
    /\ last' = answer
    /\ Keep(p, locals)
    /\ Goto(p, label)
    /\ UNCHANGED <<rg, hashOf, now, marks>>

GetHit(p, k) ==
    /\ SlotOf(k) # NONE
    /\ ~Expired(SlotOf(k))
    /\ Lookup(p, "mark", [NoLocals EXCEPT !.slot = SlotOf(k)], <<p, k, rg.slots[SlotOf(k)].val>>)

GetMiss(p, k) ==
    /\ SlotOf(k) = NONE
    /\ Lookup(p, "miss", NoLocals, <<p, k, Miss>>)

GetExpired(p, k) ==
    /\ SlotOf(k) # NONE
    /\ Expired(SlotOf(k))
    /\ Lookup(p, "expire", [NoLocals EXCEPT !.key = k, !.slot = SlotOf(k)], <<p, k, Miss>>)

(* After a hit: visited and hits are stored without the lock, at any later *)
(* time, whatever the slot holds by then.                                  *)
MarkVisited(p) ==
    /\ pc[p] = "mark"
    /\ rg' = [rg EXCEPT !.slots[loc[p].slot].visited = TRUE, !.hits = Bump(@)]
    /\ marks' = IF LockFree THEN 0 ELSE marks + 1
    /\ Done(p)
    /\ UNCHANGED <<hashOf, last, now>>

CountMiss(p) ==
    /\ pc[p] = "miss"
    /\ rg' = [rg EXCEPT !.misses = Bump(@)]
    /\ Done(p)
    /\ UNCHANGED <<hashOf, last, now, marks>>

(* Mutant: the removed slot is not pushed onto the free list.              *)
remove_slotLeaks(r, s, k) ==
    LET r1 == list_remove(ht_remove(r, r.slots[s].hash, k), s)
    IN [r1 EXCEPT !.slots[s].occupied = FALSE, !.size = @ - 1]

(* remove_slot                                                             *)
remove_slot(r, s, k) ==
    LET r1 == list_remove(ht_remove(r, r.slots[s].hash, k), s)
    IN [r1 EXCEPT !.slots[s].occupied = FALSE, !.slots[s].next = r1.free,
                  !.slots[s].prev = NONE, !.free = s, !.size = @ - 1]

(* Mutant: the slot is not looked at again under the lock.                 *)
SameEntryAssumed(p) == TRUE

(* The slot still holds the key that was found expired.                    *)
SameEntry(p) ==
    LET slot == rg.slots[loc[p].slot]
    IN slot.occupied /\ slot.hash = hashOf[loc[p].key] /\ slot.key = loc[p].key

(* After an expired lookup: take the lock, look at the slot again, remove. *)
RemoveExpired(p) ==
    /\ pc[p] = "expire"
    /\ LockFree
    /\ rg' = IF SameEntry(p) THEN remove_slot(rg, loc[p].slot, loc[p].key) ELSE rg
    /\ Goto(p, "miss")
    /\ Keep(p, NoLocals)
    /\ UNCHANGED <<hashOf, last, now, marks>>

-------------------------------------------------------------------------------
(***************************************************************************)
(* insert                                                                  *)
(***************************************************************************)

(* The key is there: its value is replaced in place.                       *)
InsertUpdate(p, k, v) ==
    /\ pc[p] = "idle"
    /\ LockFree
    /\ SlotOf(k) # NONE
    /\ rg' = [rg EXCEPT !.slots[SlotOf(k)] =
                  [@ EXCEPT !.val = v, !.created = now, !.visited = TRUE]]
    /\ last' = <<p, k, v>>
    /\ UNCHANGED <<hashOf, pc, loc, now, marks>>

(* The tail of insert_inner: fill slot s and link it everywhere.           *)
Fill(r, s, k, v) ==
    LET entry == [occupied |-> TRUE, key |-> k, hash |-> hashOf[k], val |-> v,
                  created |-> now, visited |-> FALSE, prev |-> NONE, next |-> NONE]
        linked == list_push_tail(ht_insert([r EXCEPT !.slots[s] = entry], hashOf[k], s), s)
    IN [linked EXCEPT !.size = @ + 1]

(* A free slot is popped.                                                  *)
InsertFree(p, k, v) ==
    /\ pc[p] = "idle"
    /\ LockFree
    /\ SlotOf(k) = NONE
    /\ rg.free # NONE
    /\ rg' = Fill([rg EXCEPT !.free = rg.slots[rg.free].next], rg.free, k, v)
    /\ last' = <<p, k, v>>
    /\ UNCHANGED <<hashOf, pc, loc, now, marks>>

(* Mutant: evicts one slot too early, with the free list not yet empty.    *)
MustEvictEarly == rg.size + 1 >= Capacity

MustEvict == rg.free = NONE /\ rg.size >= Capacity

(* No free slot: lock, and begin sieve_evict.                              *)
BeginEvict(p, k, v) ==
    /\ pc[p] = "idle"
    /\ LockFree
    /\ SlotOf(k) = NONE
    /\ MustEvict
    /\ rg.head # NONE
    /\ Keep(p, [key |-> k, val |-> v, slot |-> HandStart(rg), steps |-> 0])
    /\ Goto(p, "scan")
    /\ UNCHANGED <<rg, hashOf, last, now, marks>>

ScanLimit == 2 * Capacity

(* Mutant: the visited bit is not cleared.                                 *)
SecondChanceKeepsBit(s) == rg

SecondChance(s) == [rg EXCEPT !.slots[s].visited = FALSE]

(* One iteration that meets a visited slot: a second chance for it.        *)
ScanStep(p) ==
    LET s == loc[p].slot IN
    /\ pc[p] = "scan"
    /\ loc[p].steps < ScanLimit
    /\ rg.slots[s].visited
    /\ rg' = SecondChance(s)
    /\ Keep(p, [loc[p] EXCEPT !.slot = HandAfter(rg, s), !.steps = @ + 1])
    /\ UNCHANGED <<hashOf, pc, last, now, marks>>

(* The victim leaves table and list, and its slot takes the new entry.     *)
Replace(p, hand) ==
    LET s == loc[p].slot
        out == list_remove(ht_remove(rg, rg.slots[s].hash, rg.slots[s].key), s)
    IN /\ rg' = Fill([out EXCEPT !.size = @ - 1, !.hand = hand], s, loc[p].key, loc[p].val)
       /\ Done(p)
       /\ last' = <<p, loc[p].key, loc[p].val>>
       /\ marks' = 0
       /\ UNCHANGED <<hashOf, now>>

(* The scan meets an unvisited slot.                                       *)
EvictUnvisited(p) ==
    /\ pc[p] = "scan"
    /\ loc[p].steps < ScanLimit
    /\ ~rg.slots[loc[p].slot].visited
    /\ Replace(p, HandAfter(rg, loc[p].slot))

ScanExhausted(p) == loc[p].steps = ScanLimit

(* The scan gives up after two rounds, and takes the slot at the hand.     *)
EvictFallback(p) ==
    /\ pc[p] = "scan"
    /\ ScanExhausted(p)
    /\ Replace(p, NONE)

-------------------------------------------------------------------------------
(***************************************************************************)
(* clear, record_oversize_skip, time                                       *)
(***************************************************************************)

Clear(p) ==
    /\ pc[p] = "idle"
    /\ LockFree
    /\ rg' = [ht_clear(rg) EXCEPT
                 !.slots = [i \in Slots |-> [rg.slots[i] EXCEPT
                     !.occupied = FALSE, !.prev = NONE, !.next = FreeNext(i)]],
                 !.size = 0, !.hits = 0, !.misses = 0, !.skips = 0,
                 !.head = NONE, !.tail = NONE, !.free = 0, !.hand = NONE]
    /\ UNCHANGED <<hashOf, pc, loc, last, now, marks>>

RecordOversizeSkip(p) ==
    /\ pc[p] = "idle"
    /\ rg' = [rg EXCEPT !.skips = Bump(@)]
    /\ UNCHANGED <<hashOf, pc, loc, last, now, marks>>

Tick ==
    /\ now < MaxTime
    /\ now' = now + 1
    /\ UNCHANGED <<rg, hashOf, pc, loc, last, marks>>

-------------------------------------------------------------------------------

(* The steps a process takes inside an operation it has begun.             *)
Continue(p) ==
    \/ MarkVisited(p) \/ CountMiss(p) \/ RemoveExpired(p)
    \/ ScanStep(p) \/ EvictUnvisited(p) \/ EvictFallback(p)

Begin(p, k) ==
    \/ GetHit(p, k) \/ GetMiss(p, k) \/ GetExpired(p, k)
    \/ \E v \in Values : InsertUpdate(p, k, v) \/ InsertFree(p, k, v) \/ BeginEvict(p, k, v)

Next ==
    \/ \E p \in Procs :
        \/ \E k \in Keys : Begin(p, k)
        \/ Continue(p)
        \/ Clear(p)
        \/ RecordOversizeSkip(p)
    \/ Tick

Spec == Init /\ [][Next]_vars

-------------------------------------------------------------------------------
(***************************************************************************)
(* Properties                                                              *)
(***************************************************************************)

Occupied == {s \in Slots : rg.slots[s].occupied}

SlotType ==
    [occupied : BOOLEAN, key : Keys \cup {ZeroKey}, hash : Nat,
     val : Values \cup {ZeroValue}, created : Nat, visited : BOOLEAN,
     prev : Slots \cup {NONE}, next : Slots \cup {NONE}]

RegionType ==
    [ht : [Buckets -> [hash : Nat, slot : Slots \cup {NONE}]],
     slots : [Slots -> SlotType],
     size : 0 .. Capacity, head : Slots \cup {NONE}, tail : Slots \cup {NONE},
     free : Slots \cup {NONE}, hand : Slots \cup {NONE},
     hits : 0 .. StatMod - 1, misses : 0 .. StatMod - 1, skips : 0 .. StatMod - 1]

LocalsType ==
    [key : Keys \cup {ZeroKey}, val : Values \cup {ZeroValue},
     slot : Slots \cup {NONE}, steps : 0 .. ScanLimit]

(* Every variable has its type; in particular current_size (a u32) never   *)
(* leaves 0 .. Capacity and a scan never exceeds its 2x limit.             *)
TypeOK ==
    /\ rg \in RegionType
    /\ hashOf \in [Keys -> Hashes]
    /\ pc \in [Procs -> {"idle", "mark", "miss", "expire", "scan"}]
    /\ loc \in [Procs -> LocalsType]
    /\ last \in {<<>>} \cup (Procs \X Keys \X (Values \cup {Miss}))
    /\ now \in Nat
    /\ marks \in Nat

(* The i-th slot met on the way along next.                                *)
Walk(from) ==
    LET at[i \in 0 .. Capacity] ==
            IF i = 0 THEN from
            ELSE IF at[i - 1] = NONE THEN NONE
            ELSE rg.slots[at[i - 1]].next
    IN at

Visits(from) == {Walk(from)[i] : i \in 0 .. Capacity} \ {NONE}

(* The eviction list is a doubly-linked list, without a cycle, of exactly  *)
(* the occupied slots, whatever mix of inserts, evictions, expiries and    *)
(* clears went before (list_remove, list_push_tail, remove_slot).          *)
ListHoldsTheOccupied ==
    LET at == Walk(rg.head) IN
    /\ at[Capacity] = NONE
    /\ Visits(rg.head) = Occupied
    /\ Occupied = {} => rg.tail = NONE
    /\ \A i \in 0 .. Capacity - 1 : at[i] # NONE =>
        /\ rg.slots[at[i]].prev = IF i = 0 THEN NONE ELSE at[i - 1]
        /\ at[i + 1] = NONE => rg.tail = at[i]

(* No slot leaks and none is free twice: the free list is the rest of the  *)
(* slots, and current_size counts the others (insert_inner, remove_slot).  *)
FreeListHoldsTheRest ==
    /\ Walk(rg.free)[Capacity] = NONE
    /\ Visits(rg.free) = Slots \ Occupied
    /\ rg.size = Cardinality(Occupied)

(* The table finds the slot of every cached key and nothing else, for      *)
(* every hash function: backward-shift deletion leaves no entry behind a   *)
(* gap in its probe path, and no bucket for a slot that was given up.      *)
TableFindsExactlyTheOccupied ==
    /\ \A s \in Occupied : SlotOf(rg.slots[s].key) = s
    /\ {rg.ht[b].slot : b \in Buckets} \ {NONE} = Occupied
    /\ Cardinality({b \in Buckets : ~IsEmpty(rg.ht, b)}) = rg.size

(* The branches of insert_inner that give up without storing ("shouldn't   *)
(* happen") are never taken.                                               *)
AllocationNeverFails ==
    rg.free # NONE \/ (rg.size >= Capacity /\ rg.head # NONE)

(* remove_slot leaves sieve_hand alone, so the hand may point at a freed   *)
(* slot; no scan ever follows it there, since an eviction means that every *)
(* slot is in use again.                                                   *)
ScanStaysInList ==
    \A p \in Procs : pc[p] = "scan" => rg.slots[loc[p].slot].occupied

(* A scan costs at most one round and one more step for every reader that  *)
(* stores visited meanwhile.  So the fallback of sieve_evict, which evicts *)
(* a visited entry, needs as many racing readers as there are slots.       *)
ScanCost ==
    \A p \in Procs : pc[p] = "scan" =>
        loc[p].steps + Cardinality({s \in Slots : rg.slots[s].visited}) <= Capacity + marks

(* The store the region represents.                                        *)
Store ==
    [k \in {rg.slots[s].key : s \in Occupied} |->
        LET slot == rg.slots[CHOOSE s \in Occupied : rg.slots[s].key = k]
        IN [val |-> slot.val, created |-> slot.created]]

(* A late removal may hit a refreshed entry: see OnlyExpiredEntriesExpire.  *)
Contract == INSTANCE CacheContract
    WITH store <- Store, MayBypass <- FALSE, MayDropLive <- TRUE

(* The cache keeps its promises to its callers: a get answers with the     *)
(* last value inserted under the key or with a miss, never with an expired *)
(* value, and an insert costs another key its entry only when the cache is *)
(* full.                                                                   *)
ImplementsContract == Contract!Spec

(* Removing an expired entry removes an expired entry: "Re-verify the slot *)
(* is still the same expired entry" (get).                                 *)
OnlyExpiredEntriesExpire ==
    [][\A p \in Procs : RemoveExpired(p) /\ SameEntry(p) => Expired(loc[p].slot)]_vars
===============================================================================
