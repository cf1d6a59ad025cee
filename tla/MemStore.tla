------------------------------- MODULE MemStore -------------------------------
(***************************************************************************)
(* CachedFunction of src/store.rs: the in-memory cache, called by threads, *)
(* on a build with the GIL (Gil = TRUE) or free-threaded (Gil = FALSE).    *)
(*                                                                         *)
(* A call is a frame <<thread, depth>>.  A lookup or a store is a borrow   *)
(* region: try_enter, take the guard of one shard, work, give it back.     *)
(* Inside a region the comparison of keys runs Python code (__eq__), which *)
(* may call the same function again (the frame one deeper) and, with the   *)
(* GIL, lets the other threads run.  The wrapped function, which may       *)
(* recurse, runs outside every region.                                     *)
(*                                                                         *)
(* Hashing that raises, and cache_info, change nothing and are left out.   *)
(***************************************************************************)
EXTENDS MemShard

CONSTANTS
    Threads,    \* Python threads
    MaxDepth,   \* bound: depth of calls made from inside a call
    Keys,       \* arguments, as cache keys
    HashOf,     \* hash of every key
    Values,     \* results of the wrapped function
    Miss,       \* what a lookup without a hit returns
    NoKey, NoValue,
    Gil,        \* the build: TRUE with the GIL, FALSE free-threaded
    Raising,    \* whether __eq__ of the keys may raise
    Ttl,        \* ttl, 0 for no expiry
    StatMod,    \* 2^64 in the code: the counters wrap
    MaxTime     \* bound: the last instant of the clock

ASSUME StoreAssumption ==
    /\ HashOf \in [Keys -> Nat]
    /\ Miss \notin Values
    /\ NoKey \notin Keys
    /\ {Gil, Raising} \subseteq BOOLEAN
    /\ {MaxDepth, Ttl, MaxTime} \subseteq Nat
    /\ StatMod \in Nat \ {0}

Calls == Threads \X (0 .. MaxDepth)

VARIABLES
    shards,   \* the shards (MemShard)
    pc,       \* pc[c]: where call c is
    loc,      \* loc[c]: its operation and locals
    last,     \* history <<c, k, v>>: the last lookup or store
    now,      \* the clock of Instant::now
    hits, misses

vars == <<shards, pc, loc, last, now, hits, misses>>

NoLocals ==
    [op |-> "none", key |-> NoKey, val |-> NoValue, shard |-> 0,
     entered |-> FALSE, nested |-> FALSE]

Bump(n) == (n + 1) % StatMod

Init ==
    /\ shards = [i \in Shards |-> EmptyShard]
    /\ pc = [c \in Calls |-> "idle"]
    /\ loc = [c \in Calls |-> NoLocals]
    /\ last = <<>>
    /\ now = 0
    /\ hits = 0
    /\ misses = 0

-------------------------------------------------------------------------------
(***************************************************************************)
(* Guards and scheduling                                                   *)
(***************************************************************************)

(* c holds an EnterGuard.                                                  *)
Active(c) == pc[c] \in {"wait", "held"}

(* Mutant: a set flag is overlooked when another thread has set it.        *)
try_enterPerThread(c) == \A d \in Calls : Active(d) => d[1] # c[1]

(* With the GIL one flag per function; else a set of functions per thread. *)
try_enter(c) == \A d \in Calls : Active(d) => ~Gil /\ d[1] # c[1]

Writes(c) == loc[c].op \in {"store", "set", "clear"}

(* Two guards of one shard that the RwLock does not grant together.        *)
Conflict(c, d) == loc[c].shard = loc[d].shard /\ (Writes(c) \/ Writes(d))

shard_of(k) == HashOf[k] % n_shards

Mine(c) == shards[loc[c].shard]

Compares(c) ==
    \E j \in DOMAIN Mine(c).map : loc[c].key # NoKey /\ HashOf[j] = HashOf[loc[c].key]

(* Call c is inside Python code that the region runs: it compares keys of  *)
(* equal hash, or drops the last reference to an evicted or cleared entry. *)
InPython(c) ==
    /\ pc[c] = "held"
    /\ \/ Compares(c)
       \/ loc[c].op \in {"store", "set"} /\ Full(Mine(c))
       \/ loc[c].op = "clear" /\ Mine(c).map # EmptyMap

(* c is the innermost call of its thread, and those that cannot be         *)
(* preempted (others, with the GIL) are inside Python code.                *)
MayRun(c) ==
    /\ \A d \in Calls : d[1] = c[1] /\ d[2] > c[2] => pc[d] = "idle"
    /\ \A d \in Calls \ {c} : Gil /\ Active(d) => InPython(d)

Outer(c) == <<c[1], c[2] - 1>>

(* A thread is free to call, or its outermost call is in code that calls   *)
(* the function again: once per region, and once per computation.          *)
MayBegin(c) ==
    /\ pc[c] = "idle"
    /\ MayRun(c)
    /\ c[2] > 0 => /\ pc[Outer(c)] = "compute" \/ InPython(Outer(c))
                   /\ ~loc[Outer(c)].nested

(* The locals of c, and the mark that its caller has made a nested call.   *)
WithLocals(c, locals) ==
    [d \in Calls |-> IF d = c THEN locals
                     ELSE IF c[2] > 0 /\ d = Outer(c) THEN [loc[d] EXCEPT !.nested = TRUE]
                     ELSE loc[d]]

Goto(c, label) == pc' = [pc EXCEPT ![c] = label]

Leave(c) == Goto(c, "idle") /\ loc' = [loc EXCEPT ![c] = NoLocals]

(* The call enters a region for operation op.                              *)
Begin(c, op, k, v) ==
    /\ MayBegin(c)
    /\ try_enter(c)
    /\ loc' = WithLocals(c, [NoLocals EXCEPT !.op = op, !.key = k, !.val = v,
                                 !.shard = IF k = NoKey THEN 0 ELSE shard_of(k)])
    /\ Goto(c, "wait")
    /\ UNCHANGED <<shards, last, now, hits, misses>>

(* read() or write() of the shard: a GilCell never waits, an RwLock does.  *)
Acquire(c) ==
    /\ pc[c] = "wait"
    /\ MayRun(c)
    /\ Gil \/ \A d \in Calls \ {c} : pc[d] = "held" => ~Conflict(c, d)
    /\ Goto(c, "held")
    /\ UNCHANGED <<shards, loc, last, now, hits, misses>>

-------------------------------------------------------------------------------
(***************************************************************************)
(* Lookups: the first region of __call__ (op probe), get and _probe        *)
(***************************************************************************)

(* Mutant: an entry never expires.                                         *)
LiveForever(s, k) == k \in DOMAIN s.map

Live(s, k) == k \in DOMAIN s.map /\ (Ttl > 0 => now - s.map[k].created <= Ttl)

InRegion(c, ops) == pc[c] = "held" /\ MayRun(c) /\ loc[c].op \in ops

ProbeHit(c) ==
    LET k == loc[c].key IN
    /\ InRegion(c, {"probe", "get"})
    /\ Live(Mine(c), k)
    /\ shards' = [shards EXCEPT ![loc[c].shard].map[k].visited = TRUE]
    /\ last' = <<c, k, Mine(c).map[k].val>>
    /\ hits' = Bump(hits)
    /\ Leave(c)
    /\ UNCHANGED <<now, misses>>

(* __call__ goes on to the wrapped function.                               *)
ProbeMiss(c) ==
    /\ InRegion(c, {"probe"})
    /\ ~Live(Mine(c), loc[c].key)
    /\ last' = <<c, loc[c].key, Miss>>
    /\ Goto(c, "compute")
    /\ loc' = [loc EXCEPT ![c] = [@ EXCEPT !.entered = TRUE, !.nested = FALSE]]
    /\ UNCHANGED <<shards, now, hits, misses>>

GetMiss(c) ==
    /\ InRegion(c, {"get"})
    /\ ~Live(Mine(c), loc[c].key)
    /\ last' = <<c, loc[c].key, Miss>>
    /\ misses' = Bump(misses)
    /\ Leave(c)
    /\ UNCHANGED <<shards, now, hits>>

(* __eq__ raises in the lookup, or in the second lookup of __call__: the   *)
(* exception is the answer.                                                *)
LookupRaises(c) ==
    /\ Raising
    /\ InRegion(c, {"probe", "get", "store"})
    /\ Compares(c)
    /\ Leave(c)
    /\ UNCHANGED <<shards, last, now, hits, misses>>

(* try_enter is refused: get reports a miss, __call__ computes.            *)
GetBypassed(c, k) ==
    /\ MayBegin(c)
    /\ ~try_enter(c)
    /\ last' = <<c, k, Miss>>
    /\ misses' = Bump(misses)
    /\ loc' = WithLocals(c, NoLocals)
    /\ UNCHANGED <<shards, pc, now, hits>>

CallBypassed(c, k) ==
    /\ MayBegin(c)
    /\ ~try_enter(c)
    /\ Goto(c, "compute")
    /\ loc' = WithLocals(c, [NoLocals EXCEPT !.op = "probe", !.key = k])
    /\ UNCHANGED <<shards, last, now, hits, misses>>

-------------------------------------------------------------------------------
(***************************************************************************)
(* The wrapped function, and the second region of __call__                 *)
(***************************************************************************)

Computing(c) == pc[c] = "compute" /\ MayRun(c)

ComputeRaises(c) ==
    /\ Computing(c)
    /\ Leave(c)
    /\ UNCHANGED <<shards, last, now, hits, misses>>

(* Mutant: a bypassed call waits until the function is no longer active.   *)
ReturnBypassedSpins(c) ==
    /\ Computing(c)
    /\ ~loc[c].entered
    /\ misses' = IF try_enter(c) THEN Bump(misses) ELSE misses
    /\ IF try_enter(c) THEN Leave(c) ELSE UNCHANGED <<pc, loc>>
    /\ UNCHANGED <<shards, last, now, hits>>

ReturnBypassed(c) ==
    /\ Computing(c)
    /\ ~loc[c].entered
    /\ misses' = Bump(misses)
    /\ Leave(c)
    /\ UNCHANGED <<shards, last, now, hits>>

BeginStore(c, v) ==
    /\ Computing(c)
    /\ loc[c].entered
    /\ try_enter(c)
    /\ loc' = [loc EXCEPT ![c] = [@ EXCEPT !.op = "store", !.val = v, !.nested = FALSE]]
    /\ Goto(c, "wait")
    /\ UNCHANGED <<shards, last, now, hits, misses>>

(* The second try_enter is refused: the result is returned, not stored.    *)
SkipStore(c) ==
    /\ Computing(c)
    /\ loc[c].entered
    /\ ~try_enter(c)
    /\ misses' = Bump(misses)
    /\ Leave(c)
    /\ UNCHANGED <<shards, last, now, hits>>

(* Mutant: no double-check under the write lock.                           *)
NeedsInsertUnchecked(c) == TRUE

NeedsInsert(c) == ~Live(Mine(c), loc[c].key)

Store(c) ==
    LET s == Mine(c)
        k == loc[c].key
        i == loc[c].shard
    IN
    /\ InRegion(c, {"store"})
    /\ shards' = IF NeedsInsert(c)
                 THEN [shards EXCEPT ![i] =
                          InsertNew(RemoveFromMap(s, k), k, NewEntry(loc[c].val, now))]
                 ELSE shards
    /\ last' = IF NeedsInsert(c) THEN <<c, k, loc[c].val>> ELSE last
    /\ misses' = Bump(misses)
    /\ Leave(c)
    /\ UNCHANGED <<now, hits>>

-------------------------------------------------------------------------------
(***************************************************************************)
(* set and cache_clear                                                     *)
(***************************************************************************)

(* set and cache_clear return nothing, whether or not they did anything.   *)
Return(c) ==
    /\ pc[c] = "returned"
    /\ MayRun(c)
    /\ Leave(c)
    /\ UNCHANGED <<shards, last, now, hits, misses>>

SkipSetOrClear(c, op) ==
    /\ MayBegin(c)
    /\ ~try_enter(c)
    /\ loc' = WithLocals(c, [NoLocals EXCEPT !.op = op])
    /\ Goto(c, "returned")
    /\ UNCHANGED <<shards, last, now, hits, misses>>

(***************************************************************************)
(* The comparison with another key of the same hash may raise, and set     *)
(* does not look for a pending exception.  (One with the key itself would  *)
(* leave the key in map twice; that is left out.)                          *)
(***************************************************************************)
MayRaise(c) == Raising /\ Compares(c) /\ loc[c].key \notin DOMAIN Mine(c).map

(* While an exception is pending every comparison answers "not equal"      *)
(* (rich_compare_eq), so evict_one takes the whole of order for stale, and *)
(* the new entry is added all the same.                                    *)
InsertWhilePending(s, k, entry) ==
    LET drained == IF Full(s) THEN [s EXCEPT !.order = <<>>, !.hand = 0] ELSE s
    IN [PutEntry(drained, k, entry) EXCEPT !.order = Append(@, k)]

Set(c) ==
    LET s == Mine(c)
        k == loc[c].key
        entry == NewEntry(loc[c].val, now)
    IN
    /\ InRegion(c, {"set"})
    /\ \E pending \in {FALSE, MayRaise(c)} :
        shards' = [shards EXCEPT ![loc[c].shard] =
                      IF pending THEN InsertWhilePending(s, k, entry)
                      ELSE IF k \in DOMAIN s.map THEN PutEntry(s, k, entry)
                      ELSE InsertNew(s, k, entry)]
    /\ last' = <<c, k, loc[c].val>>
    /\ Goto(c, "returned")
    /\ UNCHANGED <<loc, now, hits, misses>>

(* Mutant: the hand is not reset.                                          *)
ClearedKeepsHand(s) == [EmptyShard EXCEPT !.hand = s.hand]

Cleared(s) == EmptyShard

(* cache_clear takes the shards one after the other, and then resets the   *)
(* counters.                                                               *)
ClearShard(c) ==
    LET i == loc[c].shard IN
    /\ InRegion(c, {"clear"})
    /\ shards' = [shards EXCEPT ![i] = Cleared(@)]
    /\ IF i + 1 \in Shards
       THEN /\ Goto(c, "wait")
            /\ loc' = [loc EXCEPT ![c].shard = i + 1]
            /\ UNCHANGED <<hits, misses>>
       ELSE /\ Goto(c, "returned")
            /\ hits' = 0
            /\ misses' = 0
            /\ UNCHANGED loc
    /\ UNCHANGED <<last, now>>

Tick ==
    /\ now < MaxTime
    /\ now' = now + 1
    /\ UNCHANGED <<shards, pc, loc, last, hits, misses>>

-------------------------------------------------------------------------------

(* The steps of a call that has begun.                                     *)
Continue(c) ==
    \/ Acquire(c)
    \/ ProbeHit(c) \/ ProbeMiss(c) \/ GetMiss(c) \/ LookupRaises(c)
    \/ ReturnBypassed(c) \/ (\E v \in Values : BeginStore(c, v)) \/ SkipStore(c)
    \/ Store(c) \/ Set(c) \/ ClearShard(c) \/ Return(c)

Start(c) ==
    \/ \E k \in Keys :
        \/ Begin(c, "probe", k, NoValue) \/ CallBypassed(c, k)
        \/ Begin(c, "get", k, NoValue) \/ GetBypassed(c, k)
        \/ \E v \in Values : Begin(c, "set", k, v)
    \/ Begin(c, "clear", NoKey, NoValue)
    \/ \E op \in {"set", "clear"} : SkipSetOrClear(c, op)

Next == (\E c \in Calls : Start(c) \/ Continue(c) \/ ComputeRaises(c)) \/ Tick

Spec == Init /\ [][Next]_vars

(***************************************************************************)
(* The GIL and the RwLock (parking_lot, task-fair) are handed on, threads  *)
(* are scheduled, and the wrapped function returns if it does not raise.   *)
(* A call must return also if its function never raises.                   *)
(***************************************************************************)
FairSpec == Spec /\ \A c \in Calls : SF_vars(Continue(c))

-------------------------------------------------------------------------------
(***************************************************************************)
(* Properties                                                              *)
(***************************************************************************)

EntryType == [val : Values, created : Nat, visited : BOOLEAN]

ShardOK(s) ==
    /\ DOMAIN s.map \subseteq Keys
    /\ \A k \in DOMAIN s.map : s.map[k] \in EntryType
    /\ s.order \in Seq(Keys)
    /\ s.hand \in 0 .. Len(s.order)

LocalsType ==
    [op : {"none", "probe", "get", "store", "set", "clear"}, key : Keys \cup {NoKey},
     val : Values \cup {NoValue}, shard : Shards, entered : BOOLEAN, nested : BOOLEAN]

(* Every variable has its type; in particular the index hand never points  *)
(* more than one past the end of order (evict_one).                        *)
TypeOK ==
    /\ DOMAIN shards = Shards /\ \A i \in Shards : ShardOK(shards[i])
    /\ pc \in [Calls -> {"idle", "wait", "held", "compute", "returned"}]
    /\ loc \in [Calls -> LocalsType]
    /\ last \in {<<>>} \cup (Calls \X Keys \X (Values \cup {Miss}))
    /\ now \in Nat
    /\ hits \in 0 .. StatMod - 1 /\ misses \in 0 .. StatMod - 1

(* Guards do not alias (issue #30): while a call holds a shard to write, no *)
(* other call, nested or of another thread, holds that shard; and with the *)
(* GIL, where the guard is no lock at all, no two guards are ever held.    *)
GuardsDoNotAlias ==
    \A c, d \in Calls :
        c # d /\ pc[c] = "held" /\ pc[d] = "held" => ~Gil /\ ~Conflict(c, d)

(* Every cached entry can be evicted: its key is still in order, however   *)
(* many expiries, replacements and stale positions went before.            *)
EveryEntryEvictable ==
    \A i \in Shards : DOMAIN shards[i].map \subseteq ToSet(shards[i].order)

(* A shard never holds more than its share of max_size.                    *)
ShardBounded == \A i \in Shards : Size(shards[i]) <= per_shard

(* evict_one evicts exactly one entry from any shard that has one: its     *)
(* scan is long enough also when order is full of stale and repeated keys, *)
(* so the loop that makes room ends.                                       *)
EvictOneEvictsOne ==
    \A i \in Shards :
        shards[i].map # EmptyMap => Size(evict_one(shards[i])) = Size(shards[i]) - 1

(* What a step may take from a shard by eviction.                          *)
TakesUnvisited ==
    \A i \in Shards :
        shards'[i].map # EmptyMap /\ IsInjective(shards[i].order) =>
            \A k \in DOMAIN shards[i].map \ DOMAIN shards'[i].map :
                shards[i].map[k].visited =>
                    \A j \in DOMAIN shards[i].map : shards[i].map[j].visited

(* SIEVE: "unvisited entries are evicted before visited ones" (the tests   *)
(* of strategies): an insert takes a visited entry only if all are         *)
(* visited.  This needs order without repetitions: a key that has expired  *)
(* and been computed again is in order twice, and the scan that clears its *)
(* bit at the first place evicts it at the second.                         *)
UnvisitedFirst == [][TakesUnvisited]_vars

(* What a step may do to a live entry.                                     *)
ReplacesOnlyBySet ==
    \A i \in Shards : \A k \in DOMAIN shards[i].map \cap DOMAIN shards'[i].map :
        LET old == shards[i].map[k]
            new == shards'[i].map[k]
        IN Live(shards[i], k) /\ <<old.val, old.created>> # <<new.val, new.created>> =>
            \E c \in Calls : loc[c].op = "set" /\ loc[c].key = k /\ pc'[c] # pc[c]

(* The first result stays: of two threads that compute the same key, the   *)
(* slower one does not replace what others have already been given; only   *)
(* set changes a live entry in place.                                      *)
FirstResultStays == [][ReplacesOnlyBySet]_vars

(* Every call returns: no thread waits for itself when __eq__ or the       *)
(* wrapped function calls the cache again, and none waits for ever for     *)
(* another.                                                                *)
CallsReturn == \A c \in Calls : pc[c] # "idle" ~> pc[c] = "idle"

(* The map, as a store.                                                    *)
Cached ==
    [k \in UNION {DOMAIN shards[i].map : i \in Shards} |->
        LET e == shards[shard_of(k)].map[k] IN [val |-> e.val, created |-> e.created]]

Contract == INSTANCE CacheContract
    WITH store <- Cached, Capacity <- per_shard, Procs <- Calls,
         MayBypass <- TRUE, MayDropLive <- FALSE

(* One shard keeps the promises of a cache: an answer is the last value    *)
(* stored under the key, and not expired; a live entry is lost only to a   *)
(* full shard or a clear.                                                  *)
ImplementsContract == Contract!Spec
===============================================================================
