# warp_cache: TLA+ models, checks and proofs

This directory models the concurrent core of warp_cache, a Python cache in Rust
with two backends: an in-memory one shared by threads, and one in shared memory
that several processes map. Each module names the source file it translates;
`PROJECT.json` maps every definition to its lines.

## 1. Inventory

| Component | Source | State | Operations | Talks to |
|---|---|---|---|---|
| in-memory cache | `src/store.rs`, `src/entry.rs` | shards (map, order, hand), hits, misses, the reentrancy flag or per-thread set | `__call__`, `get`, `_probe`, `set`, `cache_clear`, `cache_info` | wrapped function, key `__eq__`, GIL or `RwLock` |
| cache keys | `src/key.rs` | hash and Python object | equality, hash, shard index | Python `__eq__`, which may call back or raise |
| seqlock | `src/shm/lock.rs` | seq counter, spinlock, both in a mapped file | `read_begin`, `read_validate`, `write_lock`, `write_unlock`, `init`, `from_existing` | every process that maps the region |
| layout | `src/shm/layout.rs` | header, buckets, slots | none | |
| hash table | `src/shm/hashtable.rs` | buckets | lookup, insert, remove with backward shift, clear | slots |
| eviction list | `src/shm/ordering.rs` | prev/next of slots, head, tail, hand | remove, push, `sieve_evict` | readers that set visited bits |
| shared cache | `src/shm/mod.rs` | the region | `get`, `insert`, `clear`, `record_oversize_skip`, `info` | seqlock, table, list, clock |
| life of a region | `src/shm/region.rs` | files, init lock | `create`, `open_paths`, `create_or_open` | other processes' mappings |
| shared cached function | `src/shared_store.rs` | size limits, name of the region | `__call__`, `get`, `_probe`, `set`, `cache_clear`, key and value conversion | shared cache, serialisation, wrapped function, pickle |
| serialisation | `src/serde.rs` | none | tagged encoding and decoding | |
| decorator, async wrapper | `warp_cache/_decorator.py` | in-flight events per loop and key | single-flight `__call__` | either backend |

The hard behaviours, and what correctness means for each part:

* *Seqlock*: readers copy words while a writer stores them, in any order the
  fences allow; a process may be killed anywhere. No torn copy may be validated,
  writers must exclude each other, waiting must end.
* *Shared cache*: everything a `get` does after its lookup happens later, outside
  or under a new lock, when the slot may hold something else. Table, list and
  free list must stay one consistent structure; a `get` must answer with the last
  value stored under its key, or miss.
* *In-memory cache*: comparing keys runs Python code while a shard is borrowed,
  which re-enters the cache or lets another thread in. Guards must not alias, no
  thread may wait for itself, every cached entry must remain evictable although
  `order` and `map` are kept only loosely together.
* *Life of a region*: files are created, opened and recreated by processes that may
  be killed between any two stores, and whose system calls may fail half-way, while
  others have the files mapped. Starters must find finished work, get what they asked
  for and keep it.
* *Shared cached function*: arguments become bytes and bytes become results. Calls
  must be told apart as Python tells them apart, and nothing stored may outgrow
  its slot.
* *Async wrapper*: leaders return, raise, are cancelled, or compute a result that is
  not kept; wake-ups must not be lost and calls must be coalesced, per loop.

`PROJECT.json` lists the hazards one by one, with the property that covers each.

## 2. Modules

| Module | Models | Uses |
|---|---|---|
| `SharedRegion` | abstract: a region that is read and written atomically | |
| `ShmSeqLock` | `lock.rs`, and the copy loops of `mod.rs` around it | refines `SharedRegion` |
| `ShmSeqLockProofs` | proofs about `ShmSeqLock` | |
| `ShmLayout` | the region as a record | |
| `ShmHashTable`, `ShmOrdering` | `hashtable.rs`, `ordering.rs` as operators on a region | `ShmLayout` |
| `ShmCache` | `mod.rs`: processes that call get, insert, clear | the three above; refines `CacheContract` |
| `ShmHashTableProofs`, `ShmCacheProofs` | proofs about the table, and about `ShmCache` | `InductionLemmas` |
| `CacheContract` | abstract: what a bounded cache with expiry promises | |
| `MemShard` | one shard of `store.rs`, `evict_one`, sharding | |
| `MemStore` | `store.rs`: threads, nested calls, both builds | `MemShard`; refines `CacheContract` |
| `MemStoreProofs` | proofs about `MemStore` | `InductionLemmas` |
| `InductionLemmas` | induction over numbers, and loops as functions, for the proofs | |
| `ShmRegion` | `region.rs` and `ShmCache::create_or_open`: processes that start, create, open, fail, are killed | |
| `ShmRegionProofs` | proofs about `ShmRegion` | |
| `Serde` | `serde.rs` as operators | |
| `SharedFunction` | `shared_store.rs`: processes that call functions of one region | `Serde`; composed with `CacheContract` |
| `SharedFunctionProofs` | proofs about `Serde` and `SharedFunction` | `InductionLemmas` |
| `AsyncFlight` | `AsyncCachedFunction` of `_decorator.py`: tasks in event loops | |
| `AsyncFlightProofs` | proofs about `AsyncFlight` | |
| `MCShmSeqLock`, `MCShmHashTable`, `MCShmCache`, `MCShmRegion`, `MCSharedFunction`, `MCMemStore`, `MCAsyncFlight` | instances for TLC | |

Operators whose comment begins with "Mutant" are plausible mistakes in the code
they stand next to; each is used to show that some property would notice it.

### ShmSeqLock

A step is one load or store becoming visible. The region is a set of `Words`; a
copy moves them in any order. The orderings of the code appear as guards:
`MayStoreData` is the release fence at the end of `write_lock`, `MayStoreEven` the
release store of `write_unlock`, `MayValidate` the acquire fence of
`read_validate`. A relaxed load of `seq` by the lock holder is merged with its
store, since nobody else stores to `seq`. The failed iterations of the spin loops
change nothing and are left out. `committed` is a history variable, the contents
after the last even store. `Crash` drops a process's locals and leaves memory as
it is; `Restart` is `from_existing`. `seq` is an unbounded number: at 2^64 the code
wraps to 0, which is even as well, and would deceive only a reader asleep for a
whole cycle of writes.

### ShmCache

`ShmSeqLock` justifies coarser steps: a section under the write lock, or a
validated lookup, is one step. What escapes the lock is separate: `MarkVisited`
(visited bit and hit counter after a hit), `CountMiss`, `RemoveExpired` (under a
new lock). The iterations of `sieve_evict` run under the lock but race
`MarkVisited`, so `ScanStep`, `EvictUnvisited` and `EvictFallback` are steps too,
and while a process is in its scan nobody else enters (`LockFree`). Keys and values
are model values. The hash function is chosen in `Init` among those over `Hashes`;
the runs of `ShmCache` take one hash, so that all keys collide and wrap, and
`hash_table` takes every function over nine. Torn reads (the bounds checks of
`ht_lookup_checked`) cannot survive validation and are left out here.

### MemStore

A call is a frame `<<thread, depth>>`; depth 1 is a call made from the Python code
inside a call of depth 0, either inside `__eq__` or inside the wrapped function. A
borrow region is: `try_enter` (`Begin`), the guard (`Acquire`), and one step that
does the work and gives both back. One step is enough for the work because nobody
else can see the shard in between: this is `GuardsDoNotAlias`, which the model does
not assume. With the GIL, other threads run only while the active call
is in Python code (`InPython`: it compares keys of equal hash, or drops the last
reference to an entry); free-threaded, they run at any time and `Acquire` waits.
With `Raising`, a comparison may raise: `LookupRaises`, and inside `Set`, where the
exception stays pending for the rest of it (`InsertWhilePending`). `order` keeps its stale and
repeated keys. `_probe` differs from `get` in the shape of its answer only.

### ShmRegion

A step of `create_or_open` is one system call or one store that a kill can separate
from the next. The header is stored in any order, as the compiler may have it; the
table, the free list and the three links that are not zero are one part each. The
data file has a size (absent, empty, sized), a magic, the compared fields and the
parts built. `data.by`, `abandoned`, `mixed` and `tainted` are history: for whom the
file was last truncated, whether that creator was killed or failed before it was done,
whether someone has written to it as if it were another region, and whether a kill or
an error inside `create`, an error in opening an existing region, or a disagreement has
ever happened. The init lock is an advisory lock, which the system drops with its process.
`Fault` and `UserFaults` are accesses beyond the end of a file; the first is a label
of its own (`fault`), so that a death in `open_paths` is not taken for a kill.

Every `?` of the code is an exit of the model. `FailHarmlessly` are those that leave
the files as they are: the directory and its check, the init file and its lock, the
truncating open, the flushes at the end. `FailCreate` are those after the truncating
open (`set_len`, the lock file, the maps): the call returns an error, and an empty or
zeroed data file stays. `OpenFails` is an error inside `open_paths`, which
`create_or_open` takes for a corrupted file, so that a good region is recreated.
Which call fails, and why, is not modelled: `MaxErrors` of them fail, anywhere.

A ttl is counted in half nanoseconds, so that it can be too short to count. What `get`
and `insert` do inside a region is `ShmCache`; here a user only keeps its region, or
writes astray.

### Serde and SharedFunction

A Python object is a record of its built-in type, whether it is of a subclass, its
contents and, for a tuple, its items. `Objects` are the objects that are encoded and
whatever they contain; `Depth` says that a tuple does not contain itself. Encoded data
is a sequence of fields, one number for a tag, a length, a number or a character, and
lengths and limits are counted in fields; a length is taken modulo `U32`, as the cast
takes it. `serialize_element`, `deserialize_one` and `Plain` are recursive functions,
whose bodies (`Encoding`, `Decoding`) are operators of their own. `sorted` is any
sequence of the items of `kwargs` in the order of their names. `pickle` is
external: it gives one of several encodings of an object, and gives the object back.
`SharedFunction` composes `make_key`, the size checks and the miss path with the
actions of `CacheContract`, which `ShmCache` implements (run `shm_races`); here keys
and values of the contract are encoded objects. The wrapped function runs between
`CallMiss` and `ReturnComputed`, when the other processes store, clear and evict.
`MayDropLive` is set, as in `ShmCache`.

### AsyncFlight

A task is one call; a step is what it does between two awaits, which its loop does
not interrupt. Tasks of other loops share the dict and the cache. Flight keys and
cache keys are two functions of the arguments, since the first compare by Python
equality and the second, on the shared backend, by encoding; `OneFlightKey` says where
the first is no finer than the second. `Finally` belongs to each
of the three ends of a flight. The cache behind it may store nothing and may lose
entries. `flights` and `lost` are history variables that count calls of the function
and results that were not kept.

## 3. Runs

Passing runs (distinct states):

| Run | Instance | Shows |
|---|---|---|
| `seqlock` | 2 processes, 2 words, 2 values, 2 writes, 1 kill, fair (55 k) | types; `ValidatedReadIsCommitted`; `WritersExclude`; `EvenSeqMeansWhole`; reads and writes end unless a writer was killed inside the lock; the seqlock implements `SharedRegion` |
| `hash_table` | 4 keys, 8 buckets, hashes 0..8 (714 k) | lookup agrees with a search; no stale bucket |
| `shm_races` | 3 processes, 2 slots, 3 keys of one hash that wraps, expiry (124 k) | types; eviction list and free list partition the slots; allocation never fails; the table finds exactly the occupied slots; scans stay in the list and cost no more than their limit and the marks that readers set under them; `ShmCache` implements `CacheContract` |
| `region` | 4 processes: two that agree, one with another ttl, one that is refused; 3 calls, 1 kill, 1 failed system call, fair (257 k) | starters find finished work, get a region of their own, keep it, and finish, with a kill or an error inside `create` as the named exceptions; a ttl of a nanosecond or more takes effect; a refusal leaves the files alone |
| `shared_function` | 2 processes, 13 calls, 3 functions, 2 places (55 k) | types; a cached answer is the result of the same call, by value and type; one entry per call; entries fit their slot |
| `mem_store` | GIL, 2 threads, 3 keys for 2 places, expiry (376 k) | types; guards do not alias; every entry is evictable; shard bound; `evict_one` evicts one; unvisited entries go first; the first result stays; a shard implements `CacheContract` |
| `mem_liveness` | free-threaded, 2 threads nesting once, raising `__eq__`, fair (17 k) | every call returns |
| `async` | 5 calls in 2 loops, one with arguments equal in Python only, 1 lost entry, fair (227 k) | one leader; no lost wake-up; calls are coalesced; answers are the caller's own; every call ends |

The types of `ShmRegion` and `AsyncFlight` are proved (section 4) and not checked again.

Runs that are meant to fail, because the code does not do what a document, a
comment or a test says:

| Run | Counterexample |
|---|---|
| `seqlock_crash` | a process dies inside the lock; a reader of any process, restarted or not, spins for ever |
| `shm_expiry` | p looks up k, expired; q inserts k again; p takes the lock and removes q's fresh entry |
| `region_corrupted` | p1 creates; p2, with another ttl, recreates and its `set_len` fails; p1 starts again, maps the empty file and dies (SIGBUS) |
| `mem_raising_set` | `__eq__` raises in `set`; `order` is emptied and the shard exceeds its capacity |

`PROJECT.json` quotes the words that each contradicts (`findings`).

More differences between words and code showed while modelling. They have
no run of their own; the models contain the behaviour. A passing property says nothing
of such a case, or names it as its exception, so that a repair of the code would
not break it:

* `max_size` is not the largest size: the share of a shard is rounded up
  (`per_shard`), so 17 becomes two shards of 9. `ShardBounded` is therefore stated
  per shard. `docs/usage.md:246` says "Maximum number of cached entries".
* An entry that expires and is computed again is in `order` twice. One scan can
  clear its visited bit at the first place and evict it at the second, while an
  unvisited entry stays; `UnvisitedFirst` therefore asks for an `order` without
  repetitions. Below capacity nothing removes the old place, so `order` grows.
* With the GIL a computed result is not stored if another thread is inside `__eq__`
  at that moment (`SkipStore`); the comment at `store.rs:525` says that `try_enter`
  succeeds there. For the same reason `cache_clear` and `set` may return without doing
  anything (`SkipSetOrClear`).
* A process that asks for other parameters recreates the region under those who
  have it mapped, although the comment at `region.rs:142` says that the files are
  owned exclusively (`UsersKeepTheirRegion`).
* Any error of `open_paths`, such as too many open files, counts as a corrupted file:
  a good region is recreated under its users (`OpenFails`).
* A creator killed after the header goes unnoticed: `open_paths` looks at the magic
  and at the compared fields only, and of those a ttl of zero is right before it is
  stored. The region is then used with a table of zeroes (`ReturnedRegionIsOwn`), where
  `region.rs:250` speaks of "the already-initialized file". It is a second way
  to violate `CorruptedFileIsRecreated`.
* A ttl below a nanosecond, zero or negative means no expiry on the shared backend,
  where `docs/usage.md:247` and `_decorator.py:161` say "`None` = no expiry"; in memory
  such entries expire at once. `TtlTakesEffect` leaves these ttls open.
* `is_instance_of` accepts subclasses: on the shared backend an `IntEnum` argument is
  taken for the int, and a namedtuple is returned as a tuple on a hit. Nested tuples
  take the fast path. `docs/usage.md:223` says "Everything else" is pickled, and 226
  that "nested structures" and "custom objects fall back to pickle".
* Functions of one module and qualified name share a region, closures included, and
  answer for each other; `docs/usage.md:119` says that files are created "per decorated
  function". `CachedAnswersAreOwn` would fail on subclasses and on closures; its run has
  neither, and its theorem excludes them by a hypothesis.
* A key that is pickled has the bytes that pickle gives it, and those of a set of
  strings follow the hash seed: two processes have an entry each. `docs/usage.md:239`
  says that the shared backend is "completely immune to `PYTHONHASHSEED`".
  `OneEntryPerCall` is about the other keys.
* `f(1, k=2)` and `f((1,), (("k", 2),))` have one key, on both backends. It is the
  tuple that `docs/usage.md:194-196` describes; the run has no such pair.
* A NaN argument has one encoding and is equal to no other NaN, so that calls with
  it are not coalesced on the shared backend. `CallsAreCoalesced` therefore asks that
  the arguments of a cache key have one flight key (`OneFlightKey`); the run does not
  contain a NaN.
* A cache of `max_size` 0 has shards of capacity 0 and holds one entry per shard all
  the same: `evict_one` empties the shard and the entry is inserted. The theorems on
  bounds ask for `MaxSize > 0`.

### Bounds

`MaxWrites`, `MaxCrashes`, `MaxErrors`, `MaxTime`, `MaxDepth`, `MaxStarts` and `MaxDrops` bound
runs;
the rest are sizes.
Two writes are what a torn read needs (its copy overlaps one write after another
has committed); a second kill adds nothing once the lock is lost. Two words tell a
torn copy from a whole one. Times up to `Ttl + 1` let an entry expire, and a later
bound lets it expire again after reinsertion. A table of eight buckets holds
clusters that wrap and clusters that do not. Two slots are as many as three racing processes allow, since
the fallback of a scan needs a reader for each slot; that lists longer than two stay
whole is proved (`ListIsExact`, `FreeListIsExact`). One nesting level is enough to meet
the guard of the caller, as deeper calls are refused for the same reason; a call
nests at most once per region and once per computation. Counters are taken modulo
`StatMod`, 1 in the runs of the caches and 2 in `shared_function`: no guard reads them.
Three starts let a region be created, recreated and reopened, with a kill and an error
in between; the theorems of section 4 are about any number of them. Three tasks of one loop are a leader, a follower that takes over and one
that follows it; the second loop needs two to have flights of its own. The calls of
`shared_function` differ pairwise in one thing that a key could lose: type,
function (in name or in module), where a text ends, order of keywords, and some are too
large, too long or not encodable. `U64`, `U32`, `I64`, `TUPLE_MAX` and `MaxCapacity` are
constants, small in the runs. `MIN_SHARD_SIZE` and `MAX_SHARDS` are
constants, small in the runs.

Symmetry is used for processes, threads, keys and values in runs without liveness,
all of which treat their keys alike (one hash for all, or every hash function).

`CHECK_DEADLOCK FALSE` appears where a kill inside the seqlock leaves the others
spinning, which the model shows as no step, and where a bounded number of calls
comes to its end (`region`, `async`).

### Fairness

`ShmSeqLock`: weak fairness of the steps of each process, i.e. the operating system
runs whoever can run; a killed process is started again. The TTAS lock is unfair
and a reader may be overtaken by writers for ever, so `OperationsEndUnlessOrphaned`
holds for finitely many writes (`MaxWrites`) only, and the code promises no more. `ShmRegion`: weak fairness of a process inside `create_or_open`; the
init lock may be granted in any order, to finitely many starters. `AsyncFlight`: weak
fairness of the steps of a task, since a loop runs its ready tasks in turn, and of the
end of a flight, i.e. the wrapped function returns or raises. `ShmCache` and
`SharedFunction` state none.
`MemStore`: strong fairness of each call, since the GIL and parking_lot's task-fair
`RwLock` are handed on to those who wait; it also says that a wrapped function that
does not raise returns. `ComputeRaises` is left out of the fairness, so that no call
returns only because its function must raise in the end.

## 4. Proofs

`ShmSeqLockProofs`, for all sets of processes, words and values and all bounds:
`TypeCorrect`, `NoTornReads`, `MutualExclusion`, `EvenIsWhole`, and `Refinement`
(`Spec => ImplementsSharedRegion`). The inductive invariant `IInv` adds to the three
safety properties: whoever is in the write section holds the spinlock, and a kill
there never frees it (`HolderInv`); seq is odd exactly between the odd and the even
store, with a dead holder either way (`ParityInv`); the words a writer has still to
store are old and the others new (`WriterInv`); and a reader whose seq is still
current has copied only committed words (`ReaderInv`), since seq never decreases.
`NoTornReads` alone is not inductive: it says nothing of a copy that is not finished.
`Refinement` maps the region to `committed`; reads take effect at validation, writes
at the even store.

`ShmHashTableProofs`, for every table size and every hash function: what `ht_lookup`,
`ht_insert` and `ht_remove` do to a table. A table is in order (`TableOK`) if no empty
bucket lies between an entry and its ideal position and no two buckets refer to one
slot; since there are more buckets than slots, one is then empty. The backward shift is
a loop with the invariant `LoopInv`: apart from the hole the table has the entries of the
old one without the removed one, what lies ahead is untouched, and no probe for an
entry the loop has looked at passes the hole. When it ends at an empty bucket it
has looked at every entry whose probe could, so the hole can be emptied.

`ShmCacheProofs`, for every capacity, hash function, set of keys and values and number
of processes: `TypeCorrect`, `InsertsAllocate`, `ScansStayInTheList`, `ScansAreShort`,
`TableIsExact`, `ListIsExact`, `FreeListIsExact` and `Refinement`
(`Spec => ImplementsContract`). The inductive invariant `IInv` is `RegionOK` of the region,
and for each process what its locals are worth (`ProcsOK`, `OneScan`). `RegionOK` says
that there is a one-to-one sequence of the occupied slots whose neighbours are linked
both ways, one of the other slots that is the free list, and a table of exactly the
occupied slots, no key in two. The sequences are witnesses and not state, so that an
operation is proved by giving the sequences after it. A get that has left the lock
knows nothing of its slot, only its number: this is why its late `MarkVisited` may hit
any entry, and the invariant survives it.

`MemStoreProofs`, for all sets of threads and keys, all depths, sizes and both builds.
`NoAliasing` (`Spec => []GuardsDoNotAlias`): the invariant is about calls that
have *entered*, held guard or not: one per function with the GIL, one per thread
without it (`RegionsExclude`), and the lock's own exclusion (`LockExcludes`). With the
GIL no guard ever waits, so nothing else than the flag keeps two apart. `StoreInv` adds
what a call inside a region knows (`KeysKnown`) and the shards (`ShardInv`), and gives
`TypeCorrect`, `EntriesStayEvictable`, `EvictionEvicts`, `ShardsStayBounded`, `FirstResult`,
`SieveOrder` and `Refinement`. The loop of `evict_one` has two invariants. `ScanInv`
counts: until an entry is evicted, each iteration shortens `order` or takes a visited
bit, and these run out before the limit. `SieveInv` follows the hand: what is behind it,
before or after it has turned at the end of `order`, was visited when the scan began,
and the bits ahead are as they were; so it meets an entry whose bit it cleared itself
only after a full turn, when every entry was visited.

The hypotheses of these theorems are needed. `~Raising`, for all but `NoAliasing`,
`TypeCorrect` and `FirstResult`: `mem_raising_set` shows the bound, and the evictability it rests on, fail
otherwise. `MaxSize > 0`: see the difference on `max_size` 0 above. `n_shards = 1`, for
`Refinement`: the contract bounds one store, and the shards of a larger cache are each
full or not on their own.

`ShmRegionProofs`, for all processes, requests and bounds: `TypeCorrect`,
`StartersAreSerialised`, `RegionsAreKept`, `RegionsAreOwn`, `TtlIsEffective` and
`RefusalIsHarmless`. The properties speak of moments; the inductive invariant says in
between what holds: only the holder of the init lock is past it (`HolderInv`); a
creator has done what its label says (`BuildInv`, with `Progress`); whoever is about
to create has found nothing it could open, or there is a taint (`CreateInv`), which is why
a region of the same parameters has no user when it is truncated; nobody has the files mapped while
they are rebuilt, unless there is a taint (`UserInv`); and the file is finished when
nobody creates, or its creator was killed or failed (`RestInv`). The steps that fail
are one lemma (`FailStep`).

`AsyncFlightProofs`, for all tasks, loops and arguments: `TypeCorrect`, `SingleFlight`,
`NoLostWakeUp`, `OwnAnswers` and `Coalescing`. The dict holds exactly the Events of the leaders
(`LeadersAreEntered`, `EntriesAreLeaders`), which makes a second leader impossible and
gives each follower a leader that will wake it; a result is cached under the key of
its arguments (`CachedUnderOwnKey`). For `Coalescing` the invariant counts: flights that
have ended are paid for by the cached result or by a loss, and the one under way is the
`+ 1` (`EveryLossCounts`).

`SharedFunctionProofs`, for all objects, calls, functions, processes, limits and ways to
pickle. First the encoding: `RoundTrip` (whatever follows the encoding of an object,
`deserialize_one` answers the object without its subclasses and consumes just the
encoding), by induction on the depth of tuples; within a tuple, the loop over the items
has consumed after i of them what the first i encodings take (`ItemsComeBack`). From it
`EncodedIsDecoded` and `EncodingsDiffer`: one encoding means one object up to subclasses,
since a decoder gives one answer, and a pickle begins with a tag that nothing else
begins with. `SameKeyTuple` says what the tuple of `make_key` keeps of a call;
it rests on `SortedKwargs`, that the sorted sequence exists and has every item. Then the
specification: `TypeCorrect`, `AnswersAreOwn`, `OneEntry` and `EntriesFitSlots`.
`CachedAnswersAreOwn` is not inductive, as it speaks of decoded values; `FunctionInv` says
that each entry is the key and a result of one shared call (`EntriesBelong`) and within
the limits (`EntriesFit`), that the cache is finite and bounded, and that a pending call
has a key of its own.
`AnswersAreOwn` asks for `DistinguishableCalls`: the region has one function, keys and
results are of no subclass, and no call spells out the key tuple of another's keyword
arguments. Each is needed, as the differences on closures, subclasses and keyword
arguments in section 3 show.
`AnswersAreOwn` and `EntriesFitSlots` ask that the two limits and the slot header together fit u32
(`LimitsFitU32`): the code casts lengths and `slot_size` to u32 unchecked, and with larger
limits an encoded length, or the slot, would wrap. The defaults are far below.

Loops over data are recursive functions in the models. The library's induction theorems
take an operator, which the provers cannot instantiate; `InductionLemmas` proves
induction for a *set* of numbers (`SetInduction`, from the well-foundedness of `<`), and
that a loop given by its step, a function, has a run (`Iteration`), which makes the
recursive function the one its definition says. `DepthRecursion` does the same for a
function that looks only at smaller arguments, such as the encoder. With these the backward shift, the walk
along a list, `evict_one`, the loop around it and the encoding are proved for every size.

The assumptions are the named `ASSUME`s of the modules, which the runs evaluate:
a zero value, natural bounds (`ShmSeqLock`), natural sizes, a hash for every key
(`MemShard`, `MemStore`), a capacity above zero and a table that the code has sized for
it, at least twice as large (`ShmLayout`), hashes that are numbers and a zero key that no
caller uses (`ShmCache`), numbers as parameters and an integer width above one
(`ShmRegion`), a loop and arguments for every task (`AsyncFlight`), contents that go with
the type of an object and items less deep than their tuple (`Serde`), arguments, results
and key tuples that are such objects and keyword arguments of different names
(`SharedFunction`). No proof uses a bound.

Only model-checked: liveness (`OperationsEndUnlessOrphaned`, `StartersFinish`,
`CallsReturn`, `CallsEnd`: fairness and `ENABLED` are out of the prover's reach), and the
driver of the hash table in `MCShmHashTable` (`LookupMatchesSearch`, `NoStaleBucket`).
The driver only calls the operations in any order; `ShmHashTableProofs` covers each of
them for every table, and `TableIsExact` says of the real caller, `ShmCache`, what
`LookupMatchesSearch` says of the driver.

## 5. What is left out

`cache_info` and `info` change nothing; `info` reads `current_size` without the lock,
so in the middle of an eviction its answer may be one too small. The bytes of encoded
fields are left out, and so are pickles as such. An `__eq__` that is not an
equivalence, and one that raises against the key's own entry inside `set` (the map
would hold the key twice), are outside `MemStore`. So is one that raises in a comparison
of the store path after the pending exception has been taken (`map.remove`, `evict_one`
and the insertion, `store.rs:551-566`): with `Raising`, `Store` is more orderly than the
code, which matters to no passing property, since the runs and theorems on shards ask
for keys that do not raise, and `CallsReturn` does not depend on contents.
`MarkVisited` of `ShmCache` stores the visited bit and counts the hit in one step, and
the end of an eviction is one step as well, so that a mark cannot land between the
choice of `sieve_evict` and the clearing of the bit in the refilled slot; such a mark
is lost in the code and has no further effect. The Windows stub and the module entry points have no
behaviour.

## 6. Running

    tlc -config SeqLock.cfg MCShmSeqLock
    tlapm ShmSeqLockProofs.tla

`PROJECT.json` pairs each configuration with its module.

## 7. Abstract specifications

`SharedRegion` is what users of the seqlock rely on, and the licence for the coarse
steps of `ShmCache`. `CacheContract` is what users of either cache rely on: an answer
is the last value stored and not expired, an entry is lost for a reason. Its variable
`last` ties an answer to the caller and the key that asked, and a store to the key it
was meant for; in the caches it is a history variable. Two
constants distinguish the backends: the in-memory cache may answer with a miss
without looking (`MayBypass`), and the shared one may lose an entry before it
expires (`MayDropLive`, the behaviour that `shm_expiry` shows).

## 8. Plan

Left, in this order:

1. Two functions in `MemStore`, for locks taken in opposite orders by key comparisons
   that call each other's function.
2. `cache_info`: what its unlocked reads may see in the middle of an eviction.
3. Proofs: the driver of the hash table as a specification of its own; that
   `CacheContract` never exceeds its capacity.
