------------------------------- MODULE MemShard -------------------------------
(***************************************************************************)
(* One shard of the in-memory cache of src/store.rs and its SIEVE          *)
(* eviction, and how CachedFunction::new cuts max_size into shards.        *)
(*                                                                         *)
(* A shard is a record: map, from the cached keys to their SieveEntry;     *)
(* order, the VecDeque of keys; hand, an index into order, from 0.         *)
(* order may hold a key that has left map, and a key more than once.       *)
(***************************************************************************)
EXTENDS Integers, FiniteSets, SequencesExt

CONSTANTS
    MaxSize,        \* max_size
    MIN_SHARD_SIZE, \* 8 in the code
    MAX_SHARDS      \* 16 in the code

ASSUME SizesAssumption ==
    MaxSize \in Nat /\ MIN_SHARD_SIZE \in Nat \ {0} /\ MAX_SHARDS \in Nat \ {0}

PowerOfTwo[i \in Nat] == IF i = 0 THEN 1 ELSE 2 * PowerOfTwo[i - 1]

(* clamp, next_power_of_two, min                                           *)
n_shards ==
    LET wanted == Min({Max({MaxSize \div MIN_SHARD_SIZE, 1}), MAX_SHARDS})
        rounded == Min({n \in {PowerOfTwo[i] : i \in 0 .. MAX_SHARDS} : n >= wanted})
    IN Min({rounded, MAX_SHARDS})

(* div_ceil                                                                *)
per_shard == (MaxSize + n_shards - 1) \div n_shards

Shards == 0 .. n_shards - 1

EmptyMap == [k \in {} |-> 0]
EmptyShard == [map |-> EmptyMap, order |-> <<>>, hand |-> 0]

Size(s) == Cardinality(DOMAIN s.map)

-------------------------------------------------------------------------------
(***************************************************************************)
(* evict_one                                                               *)
(***************************************************************************)

(* A hand past the end goes back to the front.                             *)
Wrap(hand, order) == IF hand >= Len(order) THEN 0 ELSE hand

(* Some(true): clear the bit and move on.                                  *)
SecondChance(s, at) ==
    [s EXCEPT !.map[s.order[at + 1]].visited = FALSE, !.hand = at + 1, !.scanned = @ + 1]

(* None: the key has left map, and leaves order.                           *)
DropStale(s, at) ==
    LET order == RemoveAt(s.order, at + 1)
    IN [s EXCEPT !.order = order, !.hand = Wrap(at, order)]

(* Some(false): the entry leaves map and order.                            *)
Evict(s, at) ==
    [DropStale(s, at) EXCEPT !.map = Restrict(@, DOMAIN @ \ {s.order[at + 1]}),
                             !.evicted = TRUE]

(* Mutant: the visited bit is not looked at.                               *)
EvictStepFifo(s, limit) ==
    LET at == Wrap(s.hand, s.order)
        k == s.order[at + 1]
    IN IF s.evicted \/ s.scanned > limit \/ s.order = <<>> THEN s
       ELSE IF k \notin DOMAIN s.map THEN DropStale(s, at)
       ELSE Evict(s, at)

(* Mutant: the loop ends one iteration early.                              *)
EvictStepShort(s, limit) ==
    LET at == Wrap(s.hand, s.order)
        k == s.order[at + 1]
    IN IF s.evicted \/ s.scanned >= limit \/ s.order = <<>> THEN s
       ELSE IF k \notin DOMAIN s.map THEN DropStale(s, at)
       ELSE IF s.map[k].visited THEN SecondChance(s, at)
       ELSE Evict(s, at)

(* One iteration of the loop of evict_one.                                 *)
EvictStep(s, limit) ==
    LET at == Wrap(s.hand, s.order)
        k == s.order[at + 1]
    IN IF s.evicted \/ s.scanned > limit \/ s.order = <<>> THEN s
       ELSE IF k \notin DOMAIN s.map THEN DropStale(s, at)
       ELSE IF s.map[k].visited THEN SecondChance(s, at)
       ELSE Evict(s, at)

(* The loop: the shard after every number of iterations.                   *)
Evictions(shard) ==
    LET after[i \in Nat] ==
            IF i = 0
            THEN [map |-> shard.map, order |-> shard.order, hand |-> shard.hand,
                  scanned |-> 0, evicted |-> FALSE]
            ELSE EvictStep(after[i - 1], Len(shard.order))
    IN after

(* An iteration shortens order or counts in scanned, so 2 * len + 1 of     *)
(* them are all there can be.                                              *)
evict_one(shard) ==
    LET end == Evictions(shard)[2 * Len(shard.order) + 1]
    IN [map |-> end.map, order |-> end.order, hand |-> end.hand]

(* Mutant: makes room when it is too late.                                 *)
FullLate(s) == Size(s) > per_shard

Full(s) == Size(s) >= per_shard

(* The loop that makes room: evict while full, until order is empty.       *)
RoomStep(s, i) == IF Full(s) /\ (i = 1 \/ s.order # <<>>) THEN evict_one(s) ELSE s

Rooms(shard) ==
    LET after[i \in Nat] == IF i = 0 THEN shard ELSE RoomStep(after[i - 1], i)
    IN after

MakeRoom(shard) == Rooms(shard)[Len(shard.order) + 1]

NewEntry(v, now) == [val |-> v, created |-> now, visited |-> FALSE]

(* Replaces or adds the entry of k in map; order does not change.          *)
PutEntry(shard, k, entry) ==
    [shard EXCEPT !.map = [j \in DOMAIN shard.map \cup {k} |->
                               IF j = k THEN entry ELSE shard.map[j]]]

(* Mutant: pushes the key before room is made, when it is not in map yet.  *)
InsertNewPushFirst(shard, k, entry) ==
    PutEntry(MakeRoom([shard EXCEPT !.order = Append(@, k)]), k, entry)

(* A key that is not in map: make room, insert, push at the back of order. *)
InsertNew(shard, k, entry) ==
    LET room == MakeRoom(shard)
    IN [PutEntry(room, k, entry) EXCEPT !.order = Append(@, k)]

(* An expired entry leaves map, and its place in order stays.              *)
RemoveFromMap(shard, k) ==
    [shard EXCEPT !.map = Restrict(@, DOMAIN @ \ {k})]
===============================================================================
