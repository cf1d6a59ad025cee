---------------------------- MODULE MemStoreProofs ----------------------------
(***************************************************************************)
(* Proofs about MemStore, for every number of threads, depth of nesting,   *)
(* set of keys and size of the cache, and for both builds.                 *)
(*                                                                         *)
(* First, guards of the shards never alias (issue #30).  GuardsDoNotAlias  *)
(* is not inductive.  With the GIL nothing waits for a guard: what keeps   *)
(* the others away is that they are not even active, so the argument is    *)
(* about the calls that have entered (RegionsExclude), not about those     *)
(* that hold a guard.  Free-threaded, the lock separates the threads, and  *)
(* RegionsExclude keeps one thread from meeting itself.                    *)
(*                                                                         *)
(* Then the shards: the loop of evict_one ends with one entry less, and    *)
(* takes unvisited entries first; a shard keeps within its share; only set *)
(* replaces a live result; a cache of one shard implements CacheContract.  *)
(***************************************************************************)
EXTENDS MemStore, InductionLemmas, FiniteSetTheorems, TLAPS

Labels == {"idle", "wait", "held", "compute", "returned"}
Ops == {"none", "probe", "get", "store", "set", "clear"}
ShardIds == {0} \cup Shards \cup {shard_of(k) : k \in Keys}

LocalsShape ==
    [op : Ops, key : Keys \cup {NoKey}, val : Values \cup {NoValue}, shard : ShardIds,
     entered : BOOLEAN, nested : BOOLEAN]

Shape == pc \in [Calls -> Labels] /\ loc \in [Calls -> LocalsShape]

(* At most one call is inside a region: of the whole function with the     *)
(* GIL, of each thread without it.                                         *)
RegionsExclude ==
    \A c, d \in Calls : Active(c) /\ Active(d) /\ (Gil \/ c[1] = d[1]) => c = d

(* The RwLock grants no two conflicting guards.                            *)
LockExcludes ==
    ~Gil => \A c, d \in Calls :
        c # d /\ pc[c] = "held" /\ pc[d] = "held" => ~Conflict(c, d)

IInv == Shape /\ RegionsExclude /\ LockExcludes

(* What a step of call c may do to the others: their control stays, and so *)
(* do the operation and the shard on which guards conflict.                *)
OthersKeep(c) ==
    \A d \in Calls \ {c} :
        /\ pc'[d] = pc[d]
        /\ loc'[d].op = loc[d].op
        /\ loc'[d].shard = loc[d].shard

-------------------------------------------------------------------------------

(* A call that is outside every region after its step disturbs no guard.   *)
LEMMA OutsideInv ==
    ASSUME IInv, Shape', NEW c \in Calls, OthersKeep(c), pc'[c] \notin {"wait", "held"}
    PROVE  IInv'
<1>1. RegionsExclude'
  BY DEF IInv, RegionsExclude, OthersKeep, Active
<1>2. LockExcludes'
  BY DEF IInv, LockExcludes, OthersKeep, Conflict, Writes
<1>. QED  BY <1>1, <1>2 DEF IInv

(* A call that try_enter has let in waits for a guard: nobody it excludes  *)
(* is active.                                                              *)
LEMMA EnterInv ==
    ASSUME IInv, Shape', NEW c \in Calls, OthersKeep(c), pc'[c] = "wait",
           try_enter(c) \/ Active(c)
    PROVE  IInv'
<1>1. RegionsExclude'
  BY DEF IInv, RegionsExclude, OthersKeep, Active, try_enter
<1>2. LockExcludes'
  BY DEF IInv, LockExcludes, OthersKeep, Conflict, Writes
<1>. QED  BY <1>1, <1>2 DEF IInv

(* A guard that is granted conflicts with no other.                        *)
LEMMA AcquireInv ==
    ASSUME IInv, NEW c \in Calls, Acquire(c)
    PROVE  IInv'
<1>0. Shape'
  BY DEF IInv, Shape, Acquire, Goto, Labels
<1>1. /\ pc[c] = "wait"
      /\ pc' = [pc EXCEPT ![c] = "held"]
      /\ loc' = loc
      /\ Gil \/ \A d \in Calls \ {c} : pc[d] = "held" => ~Conflict(c, d)
  BY DEF Acquire, Goto
<1>2. RegionsExclude'
  BY <1>1 DEF IInv, Shape, RegionsExclude, Active
<1>3. LockExcludes'
  BY <1>1 DEF IInv, Shape, LockExcludes, Conflict, Writes
<1>. QED  BY <1>0, <1>2, <1>3 DEF IInv

(* New locals for c keep the shape, and mark at most its caller.           *)
LEMMA WithLocalsShape ==
    ASSUME Shape, NEW c \in Calls, NEW locals \in LocalsShape, NEW label \in Labels,
           pc' = [pc EXCEPT ![c] = label], loc' = WithLocals(c, locals)
    PROVE  Shape' /\ OthersKeep(c) /\ pc'[c] = label
<1>1. \A d \in Calls : loc'[d] = IF d = c THEN locals
                                 ELSE IF c[2] > 0 /\ d = Outer(c)
                                 THEN [loc[d] EXCEPT !.nested = TRUE] ELSE loc[d]
  BY DEF WithLocals
<1>2. \A d \in Calls : loc[d] \in LocalsShape
  BY DEF Shape
<1>3. \A d \in Calls : /\ [loc[d] EXCEPT !.nested = TRUE] \in LocalsShape
                       /\ [loc[d] EXCEPT !.nested = TRUE].op = loc[d].op
                       /\ [loc[d] EXCEPT !.nested = TRUE].shard = loc[d].shard
  BY <1>2 DEF LocalsShape
<1>4. loc' \in [Calls -> LocalsShape]
  BY <1>1, <1>2, <1>3 DEF WithLocals
<1>5. pc' \in [Calls -> Labels] /\ pc'[c] = label
  BY DEF Shape
<1>6. OthersKeep(c)
  BY <1>1, <1>3 DEF OthersKeep, Shape
<1>. QED  BY <1>4, <1>5, <1>6 DEF Shape

(* A step that sets only the control and the locals of c.                  *)
LEMMA OwnLocalsShape ==
    ASSUME Shape, NEW c \in Calls, NEW locals \in LocalsShape, NEW label \in Labels,
           pc' = [pc EXCEPT ![c] = label], loc' = [loc EXCEPT ![c] = locals]
    PROVE  Shape' /\ OthersKeep(c) /\ pc'[c] = label
BY DEF Shape, OthersKeep

(* The locals of a call that is not running.                               *)
LEMMA NoLocalsShape == NoLocals \in LocalsShape
BY DEF NoLocals, LocalsShape, Ops, ShardIds

(* The end of an operation.                                                *)
LEMMA LeaveInv ==
    ASSUME IInv, NEW c \in Calls, Leave(c)
    PROVE  IInv'
<1>1. Shape' /\ OthersKeep(c) /\ pc'[c] = "idle"
  BY OwnLocalsShape, NoLocalsShape DEF IInv, Leave, Goto, Labels
<1>. QED  BY <1>1, OutsideInv

(* A call that changes neither control nor locals.                         *)
LEMMA StutterInv ==
    ASSUME IInv, UNCHANGED <<pc, loc>>
    PROVE  IInv'
BY DEF IInv, Shape, RegionsExclude, LockExcludes, Active, Conflict, Writes

-------------------------------------------------------------------------------

(* The steps with which a call begins.                                     *)
LEMMA StartInv ==
    ASSUME IInv, NEW c \in Calls, Start(c)
    PROVE  IInv'
<1>1. ASSUME NEW op \in Ops, NEW k \in Keys \cup {NoKey}, NEW v \in Values \cup {NoValue},
             Begin(c, op, k, v)
      PROVE  IInv'
  <2>. DEFINE locals == [NoLocals EXCEPT !.op = op, !.key = k, !.val = v,
                             !.shard = IF k = NoKey THEN 0 ELSE shard_of(k)]
  <2>1. (IF k = NoKey THEN 0 ELSE shard_of(k)) \in ShardIds
    BY <1>1 DEF ShardIds
  <2>2. locals \in LocalsShape
    BY <1>1, <2>1 DEF NoLocals, LocalsShape
  <2>3. Shape' /\ OthersKeep(c) /\ pc'[c] = "wait"
    <3>. HIDE DEF locals
    <3>1. loc' = WithLocals(c, locals) /\ pc' = [pc EXCEPT ![c] = "wait"]
      BY <1>1 DEF Begin, Goto, locals
    <3>. QED  BY <3>1, <2>2, WithLocalsShape DEF IInv, Labels
  <2>. QED  BY <2>3, <1>1, EnterInv DEF Begin
<1>2. ASSUME NEW k \in Keys, CallBypassed(c, k)
      PROVE  IInv'
  <2>1. [NoLocals EXCEPT !.op = "probe", !.key = k] \in LocalsShape
    BY <1>2 DEF NoLocals, LocalsShape, Ops, ShardIds
  <2>2. Shape' /\ OthersKeep(c) /\ pc'[c] = "compute"
    BY <1>2, <2>1, WithLocalsShape DEF CallBypassed, Goto, IInv, Labels
  <2>. QED  BY <2>2, OutsideInv
<1>3. ASSUME NEW k \in Keys, GetBypassed(c, k)
      PROVE  IInv'
  <2>1. pc' = [pc EXCEPT ![c] = "idle"]
    BY <1>3 DEF GetBypassed, MayBegin, IInv, Shape
  <2>2. Shape' /\ OthersKeep(c) /\ pc'[c] = "idle"
    BY <1>3, <2>1, NoLocalsShape, WithLocalsShape DEF GetBypassed, IInv, Labels
  <2>. QED  BY <2>2, OutsideInv
<1>4. ASSUME NEW op \in {"set", "clear"}, SkipSetOrClear(c, op)
      PROVE  IInv'
  <2>1. [NoLocals EXCEPT !.op = op] \in LocalsShape
    BY <1>4 DEF NoLocals, LocalsShape, Ops, ShardIds
  <2>2. Shape' /\ OthersKeep(c) /\ pc'[c] = "returned"
    BY <1>4, <2>1, WithLocalsShape DEF SkipSetOrClear, Goto, IInv, Labels
  <2>. QED  BY <2>2, OutsideInv
<1>. QED  BY <1>1, <1>2, <1>3, <1>4 DEF Start, Ops

(* cache_clear gives back the guard of one shard and waits for the next.   *)
LEMMA ClearInv ==
    ASSUME IInv, NEW c \in Calls, ClearShard(c)
    PROVE  IInv'
<1>. DEFINE i == loc[c].shard
<1>1. loc[c] \in LocalsShape /\ Active(c)
  BY DEF IInv, Shape, ClearShard, InRegion, Active
<1>2. CASE i + 1 \in Shards
  <2>1. [loc[c] EXCEPT !.shard = i + 1] \in LocalsShape
    BY <1>1, <1>2 DEF LocalsShape, ShardIds
  <2>2. /\ pc' = [pc EXCEPT ![c] = "wait"]
        /\ loc' = [loc EXCEPT ![c] = [loc[c] EXCEPT !.shard = i + 1]]
    BY <1>2 DEF ClearShard, Goto
  <2>3. Shape' /\ OthersKeep(c) /\ pc'[c] = "wait"
    BY <2>1, <2>2, OwnLocalsShape DEF IInv, Labels
  <2>. QED  BY <2>3, <1>1, EnterInv
<1>3. CASE i + 1 \notin Shards
  <2>1. pc' = [pc EXCEPT ![c] = "returned"] /\ loc' = loc
    BY <1>3 DEF ClearShard, Goto
  <2>2. Shape' /\ OthersKeep(c) /\ pc'[c] = "returned"
    BY <2>1 DEF IInv, Shape, OthersKeep, Labels
  <2>. QED  BY <2>2, OutsideInv
<1>. QED  BY <1>2, <1>3

(* The steps of a call that has begun.                                     *)
LEMMA ContinueInv ==
    ASSUME IInv, NEW c \in Calls, Continue(c)
    PROVE  IInv'
<1>1. CASE Acquire(c)
  BY <1>1, AcquireInv
<1>2. CASE ClearShard(c)
  BY <1>2, ClearInv
<1>3. CASE Leave(c)
  BY <1>3, LeaveInv
<1>4. CASE ProbeMiss(c)
  <2>1. [loc[c] EXCEPT !.entered = TRUE, !.nested = FALSE] \in LocalsShape
    BY DEF IInv, Shape, LocalsShape
  <2>2. Shape' /\ OthersKeep(c) /\ pc'[c] = "compute"
    BY <1>4, <2>1, OwnLocalsShape DEF ProbeMiss, Goto, IInv, Labels
  <2>. QED  BY <2>2, OutsideInv
<1>5. ASSUME NEW v \in Values, BeginStore(c, v)
      PROVE  IInv'
  <2>1. [loc[c] EXCEPT !.op = "store", !.val = v, !.nested = FALSE] \in LocalsShape
    BY <1>5 DEF IInv, Shape, LocalsShape, Ops
  <2>2. Shape' /\ OthersKeep(c) /\ pc'[c] = "wait"
    BY <1>5, <2>1, OwnLocalsShape DEF BeginStore, Goto, IInv, Labels
  <2>. QED  BY <1>5, <2>2, EnterInv DEF BeginStore
<1>6. CASE Set(c)
  <2>1. pc' = [pc EXCEPT ![c] = "returned"] /\ loc' = loc
    BY <1>6 DEF Set, Goto
  <2>2. Shape' /\ OthersKeep(c) /\ pc'[c] = "returned"
    BY <2>1 DEF IInv, Shape, OthersKeep, Labels
  <2>. QED  BY <2>2, OutsideInv
<1>7. \/ Acquire(c) \/ ClearShard(c) \/ Leave(c) \/ ProbeMiss(c)
      \/ (\E v \in Values : BeginStore(c, v)) \/ Set(c)
  BY DEF Continue, ProbeHit, GetMiss, LookupRaises, ReturnBypassed, SkipStore, Store,
         Return
<1>. QED  BY <1>1, <1>2, <1>3, <1>4, <1>5, <1>6, <1>7

-------------------------------------------------------------------------------

(* IInv holds in every state.                                              *)
THEOREM Invariance == Spec => []IInv
<1>1. Init => IInv
  <2>. SUFFICES ASSUME Init PROVE IInv
    OBVIOUS
  <2>1. Shape
    BY NoLocalsShape DEF Init, Shape, Labels
  <2>2. \A c \in Calls : pc[c] = "idle"
    BY DEF Init
  <2>. QED  BY <2>1, <2>2 DEF IInv, RegionsExclude, LockExcludes, Active
<1>2. IInv /\ [Next]_vars => IInv'
  <2>. SUFFICES ASSUME IInv, [Next]_vars PROVE IInv'
    OBVIOUS
  <2>1. CASE UNCHANGED vars
    BY <2>1, StutterInv DEF vars
  <2>2. CASE Tick
    BY <2>2, StutterInv DEF Tick
  <2>3. ASSUME NEW c \in Calls, Start(c) \/ Continue(c) \/ ComputeRaises(c)
        PROVE  IInv'
    BY <2>3, StartInv, ContinueInv, LeaveInv DEF ComputeRaises
  <2>. QED  BY <2>1, <2>2, <2>3 DEF Next
<1>. QED  BY <1>1, <1>2, PTL DEF Spec

(* Guards never alias: with the GIL no two guards exist at a time, and on  *)
(* a free-threaded build no shard is held by a writer and anybody else,    *)
(* for any number of threads, shards and nested calls (try_enter, read and *)
(* write of a shard, cache_clear's walk over the shards).                  *)
THEOREM NoAliasing == Spec => []GuardsDoNotAlias
<1>1. IInv => GuardsDoNotAlias
  BY DEF IInv, RegionsExclude, LockExcludes, GuardsDoNotAlias, Active
<1>. QED  BY <1>1, Invariance, PTL

-------------------------------------------------------------------------------
(***************************************************************************)
(* How max_size is cut into shards (CachedFunction::new)                   *)
(***************************************************************************)

(* The powers of two, and how they grow.                                   *)
LEMMA Powers ==
    \A i \in Nat : PowerOfTwo[i] \in Nat /\ PowerOfTwo[i] > i
<1> DEFINE step == [i \in Nat |-> [x \in Nat |-> 2 * x]]
<1>1. step \in [Nat -> [Nat -> Nat]]
  OBVIOUS
<1>2. PICK f \in [Nat -> Nat] : f[0] = 1 /\ \A i \in Nat : f[i + 1] = step[i + 1][f[i]]
  <2> HIDE DEF step
  <2>1. Runs(Nat, 1, step) # {}
    BY <1>1, 1 \in Nat, Iteration, Zenon
  <2> QED BY <2>1 DEF Runs
<1> DEFINE Q(x) == x = [i \in Nat |-> IF i = 0 THEN 1 ELSE 2 * x[i - 1]]
<1>3. \A i \in Nat : f[i] = IF i = 0 THEN 1 ELSE 2 * f[i - 1]
  <2> SUFFICES ASSUME NEW i \in Nat, i # 0 PROVE f[i] = 2 * f[i - 1]
    BY <1>2
  <2>1. i - 1 \in Nat /\ (i - 1) + 1 = i
    OBVIOUS
  <2>2. f[i] = step[i][f[i - 1]]
    <3> HIDE DEF step
    <3> QED BY <1>2, <2>1
  <2> QED BY <2>1, <2>2
<1>4. Q(f)
  BY <1>3
<1>5. PowerOfTwo = CHOOSE x : Q(x)
  BY DEF PowerOfTwo
<1>6. Q(PowerOfTwo)
  <2> HIDE DEF Q
  <2> QED BY <1>4, <1>5
<1> HIDE DEF step
<1> DEFINE p == PowerOfTwo
<1> HIDE DEF p
<1>7. p = [i \in Nat |-> IF i = 0 THEN 1 ELSE 2 * p[i - 1]]
  BY <1>6 DEF p
<1> DEFINE T == {i \in Nat : p[i] \in Nat /\ p[i] > i}
<1>8. 0 \in T
  BY <1>7
<1>9. ASSUME NEW i \in T PROVE i + 1 \in T
  <2>1. i \in Nat /\ p[i] \in Nat /\ p[i] > i
    OBVIOUS
  <2>2. p[i + 1] = 2 * p[i]
    BY <1>7, <2>1
  <2> QED BY <2>1, <2>2
<1>10. T = Nat
  BY <1>8, <1>9, SetInduction
<1> QED BY <1>10 DEF p

(* There is at least one shard.                                            *)
LEMMA ShardCount == n_shards \in Nat \ {0}
<1> DEFINE wanted == Min({Max({MaxSize \div MIN_SHARD_SIZE, 1}), MAX_SHARDS})
           Powers2 == {n \in {PowerOfTwo[i] : i \in 0 .. MAX_SHARDS} : n >= wanted}
<1>1. Max({MaxSize \div MIN_SHARD_SIZE, 1}) \in Nat \ {0}
  <2>1. MaxSize \div MIN_SHARD_SIZE \in Nat
    BY SizesAssumption
  <2> DEFINE m == MaxSize \div MIN_SHARD_SIZE
             x == IF m > 1 THEN m ELSE 1
  <2> HIDE DEF m
  <2>2. x \in {m, 1} /\ \A y \in {m, 1} : x >= y
    BY <2>1 DEF m
  <2>3. Max({m, 1}) \in {m, 1} /\ \A y \in {m, 1} : Max({m, 1}) >= y
    <3> HIDE DEF x
    <3> QED BY <2>2 DEF Max
  <2> QED BY <2>1, <2>3 DEF m
<1>2. wanted \in Nat \ {0} /\ wanted <= MAX_SHARDS
  <2> DEFINE a == Max({MaxSize \div MIN_SHARD_SIZE, 1})
  <2> HIDE DEF a
  <2>1. a \in Nat \ {0} /\ MAX_SHARDS \in Nat \ {0}
    BY <1>1, SizesAssumption DEF a
  <2>2. {a, MAX_SHARDS} \in SUBSET Nat /\ {a, MAX_SHARDS} # {}
    BY <2>1
  <2>3. Min({a, MAX_SHARDS}) \in {a, MAX_SHARDS} /\ \A x \in {a, MAX_SHARDS} : Min({a, MAX_SHARDS}) <= x
    BY <2>2, MinIsLeast
  <2> QED BY <2>1, <2>3 DEF a
<1> HIDE DEF wanted
<1>3. Powers2 \in SUBSET Nat /\ \A x \in Powers2 : x # 0
  BY <1>2, Powers
<1>4. PowerOfTwo[MAX_SHARDS] \in Powers2
  <2>1. MAX_SHARDS \in Nat /\ MAX_SHARDS \in 0 .. MAX_SHARDS
    BY SizesAssumption
  <2>2. PowerOfTwo[MAX_SHARDS] \in Nat /\ PowerOfTwo[MAX_SHARDS] >= wanted
    BY <2>1, <1>2, Powers
  <2> QED BY <2>1, <2>2
<1> DEFINE rounded == Min(Powers2)
<1>5. rounded \in Powers2
  <2> HIDE DEF Powers2
  <2> QED BY <1>3, <1>4, MinIsLeast
<1>6. rounded \in Nat \ {0}
  <2> HIDE DEF Powers2, rounded
  <2> QED BY <1>3, <1>5
<1>7. n_shards = Min({rounded, MAX_SHARDS})
  BY DEF n_shards, wanted
<1> HIDE DEF rounded
<1>8. {rounded, MAX_SHARDS} \in SUBSET Nat /\ {rounded, MAX_SHARDS} # {}
  BY <1>6, SizesAssumption
<1>9. Min({rounded, MAX_SHARDS}) \in {rounded, MAX_SHARDS}
  BY <1>8, MinIsLeast
<1> QED BY <1>6, <1>7, <1>9, SizesAssumption

(* Every key has a shard.                                                  *)
LEMMA ShardOfKey == \A k \in Keys : shard_of(k) \in Shards
<1> DEFINE n == n_shards
<1> HIDE DEF n
<1>1. n \in Nat \ {0}
  BY ShardCount DEF n
<1>2. \A h \in Nat : h % n \in 0 .. n - 1
  BY <1>1
<1> QED BY <1>2, StoreAssumption DEF shard_of, Shards, n

(* A shard has room for an entry, unless max_size is 0.                    *)
LEMMA ShareOfMaxSize == per_shard \in Nat /\ (MaxSize > 0 => per_shard >= 1)
<1> DEFINE n == n_shards
           m == MaxSize
<1> HIDE DEF n, m
<1>1. n \in Nat \ {0} /\ m \in Nat
  BY ShardCount, SizesAssumption DEF n, m
<1>2. (m + n - 1) \div n \in Nat
  BY <1>1
<1>3. ASSUME m > 0 PROVE (m + n - 1) \div n >= 1
  BY <1>1, <1>3
<1> QED BY <1>2, <1>3 DEF per_shard, n, m

(* There is a first shard, where cache_clear begins.                       *)
LEMMA ZeroIsAShard == 0 \in Shards /\ ShardIds = Shards
BY ShardCount, ShardOfKey DEF Shards, ShardIds

-------------------------------------------------------------------------------
(***************************************************************************)
(* One iteration of evict_one                                              *)
(***************************************************************************)

MapType == UNION {[D -> EntryType] : D \in SUBSET Keys}

(* A shard, and a shard in the loop of evict_one: the hand is at most one  *)
(* past the end of order.                                                  *)
ShardType ==
    {s \in [map : MapType, order : Seq(Keys), hand : Nat] : s.hand <= Len(s.order)}
LoopType ==
    {s \in [map : MapType, order : Seq(Keys), hand : Nat, scanned : Nat, evicted : BOOLEAN] :
        s.hand <= Len(s.order)}

Visited(map) == {k \in DOMAIN map : map[k].visited}

(* Every entry can be found by the hand.                                   *)
Covered(s) == DOMAIN s.map \subseteq ToSet(s.order)

(* Entries leave a map, or change their visited bit.                       *)
Keeps(old, new) ==
    /\ DOMAIN new \subseteq DOMAIN old
    /\ \A k \in DOMAIN new : new[k].val = old[k].val /\ new[k].created = old[k].created

(* A map, without UNION.                                                   *)
LEMMA MapFacts ==
    ASSUME NEW m
    PROVE  m \in MapType <=> /\ m = [k \in DOMAIN m |-> m[k]]
                             /\ DOMAIN m \subseteq Keys
                             /\ \A k \in DOMAIN m : m[k] \in EntryType
BY DEF MapType

(* order without the key at a position.                                    *)
LEMMA RemovedElements ==
    ASSUME NEW S, NEW q \in Seq(S), NEW i \in 1 .. Len(q)
    PROVE  /\ RemoveAt(q, i) \in Seq(S)
           /\ Len(RemoveAt(q, i)) = Len(q) - 1
           /\ \A j \in 1 .. Len(q) - 1 :
                 RemoveAt(q, i)[j] = IF j < i THEN q[j] ELSE q[j + 1]
<1> DEFINE r == RemoveAt(q, i)
           a == SubSeq(q, 1, i - 1)
           b == SubSeq(q, i + 1, Len(q))
<1>1. /\ a \in Seq(S) /\ Len(a) = i - 1 /\ \A j \in 1 .. i - 1 : a[j] = q[j]
      /\ b \in Seq(S) /\ Len(b) = Len(q) - i /\ \A j \in 1 .. Len(q) - i : b[j] = q[i + j]
  OBVIOUS
<1>2. r = a \o b
  BY DEF RemoveAt
<1> HIDE DEF r, a, b
<1>3. r \in Seq(S) /\ Len(r) = Len(q) - 1
  BY <1>1, <1>2
<1>4. ASSUME NEW j \in 1 .. Len(q) - 1 PROVE r[j] = IF j < i THEN q[j] ELSE q[j + 1]
  <2>1. CASE j < i
    BY <1>1, <1>2, <2>1
  <2>2. CASE ~(j < i)
    <3>1. j - (i - 1) \in 1 .. Len(q) - i /\ i + (j - (i - 1)) = j + 1
      BY <2>2
    <3>2. b[j - (i - 1)] = q[j + 1]
      BY <1>1, <3>1
    <3>3. r[j] = b[j - Len(a)]
      BY <1>1, <1>2, <2>2
    <3> QED BY <1>1, <2>2, <3>2, <3>3
  <2> QED BY <2>1, <2>2
<1> QED BY <1>3, <1>4 DEF r

(* No other key leaves order with it.                                      *)
LEMMA RemovedAt ==
    ASSUME NEW S, NEW q \in Seq(S), NEW i \in 1 .. Len(q)
    PROVE  /\ RemoveAt(q, i) \in Seq(S)
           /\ Len(RemoveAt(q, i)) = Len(q) - 1
           /\ ToSet(q) \ {q[i]} \subseteq ToSet(RemoveAt(q, i))
<1> DEFINE r == RemoveAt(q, i)
<1>1. /\ r \in Seq(S) /\ Len(r) = Len(q) - 1
      /\ \A j \in 1 .. Len(q) - 1 : r[j] = IF j < i THEN q[j] ELSE q[j + 1]
  BY RemovedElements
<1> HIDE DEF r
<1>2. ASSUME NEW x \in ToSet(q) \ {q[i]} PROVE x \in ToSet(r)
  <2>1. PICK j \in 1 .. Len(q) : x = q[j] /\ j # i
    BY <1>2 DEF ToSet
  <2> DEFINE z == IF j < i THEN j ELSE j - 1
  <2>2. z \in 1 .. Len(q) - 1 /\ r[z] = q[j]
    BY <1>1, <2>1
  <2> QED BY <1>1, <2>1, <2>2 DEF ToSet
<1> QED BY <1>1, <1>2 DEF r

(* The position at which an iteration looks.                               *)
LEMMA HandPosition ==
    ASSUME NEW s \in LoopType, s.order # <<>>
    PROVE  /\ Wrap(s.hand, s.order) \in Nat
           /\ Wrap(s.hand, s.order) + 1 \in 1 .. Len(s.order)
           /\ s.order[Wrap(s.hand, s.order) + 1] \in Keys
           /\ s.order[Wrap(s.hand, s.order) + 1] \in ToSet(s.order)
<1> DEFINE at == Wrap(s.hand, s.order)
<1>1. s.order \in Seq(Keys) /\ s.hand \in Nat /\ Len(s.order) # 0
  BY DEF LoopType
<1>2. at \in Nat /\ at + 1 \in 1 .. Len(s.order)
  BY <1>1 DEF Wrap
<1> HIDE DEF at
<1> QED BY <1>1, <1>2 DEF ToSet, at

(* What one iteration may do: stop, drop a stale key, clear a visited bit, *)
(* or evict.                                                               *)
Stopped(s, limit, r) == (s.evicted \/ s.scanned > limit \/ s.order = <<>>) /\ r = s

Dropped(s, r) ==
    /\ r.map = s.map /\ r.scanned = s.scanned /\ ~s.evicted /\ ~r.evicted
    /\ Len(r.order) = Len(s.order) - 1 /\ s.order # <<>>
    /\ Covered(s) => Covered(r)

Spared(s, r) ==
    /\ r.order = s.order /\ r.scanned = s.scanned + 1 /\ ~s.evicted /\ ~r.evicted
    /\ DOMAIN r.map = DOMAIN s.map /\ Keeps(s.map, r.map)
    /\ \E k \in Visited(s.map) : Visited(r.map) = Visited(s.map) \ {k}

Evicted(s, r) ==
    /\ ~s.evicted /\ r.evicted /\ Keeps(s.map, r.map)
    /\ Len(r.order) = Len(s.order) - 1
    /\ \E k \in DOMAIN s.map : DOMAIN r.map = DOMAIN s.map \ {k}
    /\ Covered(s) => Covered(r)

(* A stale key is dropped.                                                 *)
LEMMA DropStaleFacts ==
    ASSUME NEW s \in LoopType, s.order # <<>>
    PROVE  LET at == Wrap(s.hand, s.order)
               r == DropStale(s, at)
           IN /\ r \in LoopType
              /\ r.map = s.map /\ r.scanned = s.scanned /\ r.evicted = s.evicted
              /\ Len(r.order) = Len(s.order) - 1
              /\ ToSet(s.order) \ {s.order[at + 1]} \subseteq ToSet(r.order)
<1> DEFINE at == Wrap(s.hand, s.order)
           q == RemoveAt(s.order, at + 1)
           r == DropStale(s, at)
<1>1. /\ s \in [map : MapType, order : Seq(Keys), hand : Nat, scanned : Nat, evicted : BOOLEAN]
      /\ s.order \in Seq(Keys)
  BY DEF LoopType
<1>2. at + 1 \in 1 .. Len(s.order) /\ at \in Nat
  BY HandPosition
<1>3. /\ q \in Seq(Keys) /\ Len(q) = Len(s.order) - 1
      /\ ToSet(s.order) \ {s.order[at + 1]} \subseteq ToSet(q)
  <2> HIDE DEF at
  <2> QED BY <1>1, <1>2, RemovedAt
<1>4. r = [s EXCEPT !.order = q, !.hand = Wrap(at, q)]
  BY DEF DropStale
<1> HIDE DEF q, at, r
<1>5. Wrap(at, q) \in Nat /\ Wrap(at, q) <= Len(q)
  BY <1>2, <1>3 DEF Wrap
<1> DEFINE h == Wrap(at, q)
<1> HIDE DEF h
<1>6. /\ r.map = s.map /\ r.scanned = s.scanned /\ r.evicted = s.evicted
      /\ r.order = q /\ r.hand = h
      /\ r \in [map : MapType, order : Seq(Keys), hand : Nat, scanned : Nat, evicted : BOOLEAN]
  BY <1>1, <1>3, <1>4, <1>5 DEF h
<1> QED BY <1>3, <1>5, <1>6 DEF LoopType, at, r, h

(* A visited entry is spared, and loses its bit.                           *)
LEMMA SecondChanceFacts ==
    ASSUME NEW s \in LoopType, s.order # <<>>, ~s.evicted,
           s.order[Wrap(s.hand, s.order) + 1] \in Visited(s.map)
    PROVE  LET r == SecondChance(s, Wrap(s.hand, s.order))
           IN r \in LoopType /\ Spared(s, r)
<1> DEFINE at == Wrap(s.hand, s.order)
           k == s.order[at + 1]
           m == [s.map EXCEPT ![k].visited = FALSE]
           r == SecondChance(s, at)
<1>1. /\ s \in [map : MapType, order : Seq(Keys), hand : Nat, scanned : Nat, evicted : BOOLEAN]
      /\ s.order \in Seq(Keys) /\ s.map \in MapType
  BY DEF LoopType
<1>2. at + 1 \in 1 .. Len(s.order) /\ at \in Nat
  BY HandPosition
<1>3. r = [s EXCEPT !.map = m, !.hand = at + 1, !.scanned = s.scanned + 1]
  BY DEF SecondChance
<1>4. k \in DOMAIN s.map /\ s.map[k].visited
  BY DEF Visited
<1> HIDE DEF at, k
<1>5. /\ DOMAIN s.map \subseteq Keys
      /\ \A j \in DOMAIN s.map : s.map[j] \in EntryType
  BY <1>1, MapFacts
<1>6. /\ DOMAIN m = DOMAIN s.map /\ m = [j \in DOMAIN m |-> m[j]]
      /\ \A j \in DOMAIN s.map : j # k => m[j] = s.map[j]
      /\ m[k] = [s.map[k] EXCEPT !.visited = FALSE]
  BY <1>4
<1>7. /\ m[k] \in EntryType /\ ~m[k].visited
      /\ m[k].val = s.map[k].val /\ m[k].created = s.map[k].created
  <2>1. s.map[k] \in EntryType
    BY <1>4, <1>5
  <2> HIDE DEF m
  <2> DEFINE e == s.map[k]
             f == m[k]
  <2>2. f = [e EXCEPT !.visited = FALSE]
    BY <1>6
  <2> HIDE DEF e, f
  <2>3. f \in EntryType /\ ~f.visited /\ f.val = e.val /\ f.created = e.created
    BY <2>1, <2>2 DEF EntryType, e
  <2> QED BY <2>3 DEF e, f
<1> HIDE DEF m, r
<1>8. m \in MapType
  BY <1>5, <1>6, <1>7, MapFacts
<1>9. /\ r \in [map : MapType, order : Seq(Keys), hand : Nat, scanned : Nat, evicted : BOOLEAN]
      /\ r.map = m /\ r.order = s.order /\ r.hand = at + 1 /\ r.scanned = s.scanned + 1
      /\ r.evicted = s.evicted
  <2> DEFINE h == at + 1
             n == s.scanned + 1
  <2>1. h \in Nat /\ n \in Nat
    BY <1>1, <1>2
  <2> HIDE DEF h, n
  <2>2. r = [s EXCEPT !.map = m, !.hand = h, !.scanned = n]
    BY <1>3 DEF h, n
  <2>3. r = [map |-> m, order |-> s.order, hand |-> h, scanned |-> n, evicted |-> s.evicted]
    BY <1>1, <2>2
  <2> QED BY <1>1, <1>8, <2>1, <2>3 DEF h, n
<1>10. r \in LoopType
  BY <1>1, <1>2, <1>9 DEF LoopType
<1>11. Visited(m) = Visited(s.map) \ {k}
  BY <1>6, <1>7 DEF Visited
<1>12. Keeps(s.map, m)
  BY <1>4, <1>6, <1>7 DEF Keeps
<1>13. Spared(s, r)
  BY <1>4, <1>6, <1>9, <1>11, <1>12 DEF Spared, Visited
<1> QED BY <1>10, <1>13 DEF r, at

(* An entry whose bit is not set is evicted.                               *)
LEMMA EvictFacts ==
    ASSUME NEW s \in LoopType, s.order # <<>>, ~s.evicted,
           s.order[Wrap(s.hand, s.order) + 1] \in DOMAIN s.map
    PROVE  LET r == Evict(s, Wrap(s.hand, s.order))
           IN r \in LoopType /\ Evicted(s, r)
<1> DEFINE at == Wrap(s.hand, s.order)
           k == s.order[at + 1]
           d == DropStale(s, at)
           m == Restrict(d.map, DOMAIN d.map \ {k})
           r == Evict(s, at)
<1>1. /\ d \in LoopType /\ d.map = s.map
      /\ Len(d.order) = Len(s.order) - 1
      /\ ToSet(s.order) \ {k} \subseteq ToSet(d.order)
  BY DropStaleFacts
<1>2. r = [d EXCEPT !.map = m, !.evicted = TRUE]
  BY DEF Evict
<1> HIDE DEF d
<1>3. /\ d \in [map : MapType, order : Seq(Keys), hand : Nat, scanned : Nat, evicted : BOOLEAN]
      /\ d.hand <= Len(d.order) /\ s.map \in MapType
  BY <1>1 DEF LoopType
<1> HIDE DEF at, k, r
<1>4. /\ DOMAIN m = DOMAIN s.map \ {k} /\ m = [j \in DOMAIN m |-> m[j]]
      /\ \A j \in DOMAIN m : m[j] = s.map[j]
  BY <1>1 DEF Restrict
<1> HIDE DEF m
<1>5. m \in MapType
  BY <1>3, <1>4, MapFacts
<1>6. /\ r \in [map : MapType, order : Seq(Keys), hand : Nat, scanned : Nat, evicted : BOOLEAN]
      /\ r.map = m /\ r.order = d.order /\ r.hand = d.hand /\ r.evicted
  BY <1>2, <1>3, <1>5
<1>7. r \in LoopType
  BY <1>3, <1>6 DEF LoopType
<1>8. Keeps(s.map, m)
  BY <1>4 DEF Keeps
<1>9. Covered(s) => Covered(r)
  BY <1>1, <1>4, <1>6 DEF Covered
<1>10. k \in DOMAIN s.map
  BY DEF k, at
<1>11. Evicted(s, r)
  BY <1>1, <1>4, <1>6, <1>8, <1>9, <1>10 DEF Evicted
<1> QED BY <1>7, <1>11 DEF r, at

(* One iteration.                                                          *)
LEMMA EvictStepFacts ==
    ASSUME NEW s \in LoopType, NEW limit \in Nat
    PROVE  LET r == EvictStep(s, limit)
           IN /\ r \in LoopType
              /\ Stopped(s, limit, r) \/ Dropped(s, r) \/ Spared(s, r) \/ Evicted(s, r)
<1> DEFINE at == Wrap(s.hand, s.order)
           k == s.order[at + 1]
           r == EvictStep(s, limit)
<1>1. CASE s.evicted \/ s.scanned > limit \/ s.order = <<>>
  BY <1>1 DEF EvictStep, Stopped
<1>2. CASE ~(s.evicted \/ s.scanned > limit \/ s.order = <<>>) /\ k \notin DOMAIN s.map
  <2>1. r = DropStale(s, at)
    BY <1>2 DEF EvictStep
  <2>2. /\ r \in LoopType
        /\ r.map = s.map /\ r.scanned = s.scanned /\ r.evicted = s.evicted
        /\ Len(r.order) = Len(s.order) - 1
        /\ ToSet(s.order) \ {k} \subseteq ToSet(r.order)
    <3> HIDE DEF r
    <3> QED BY <1>2, <2>1, DropStaleFacts
  <2> HIDE DEF r, k
  <2>3. Dropped(s, r)
    BY <1>2, <2>2 DEF Dropped, Covered
  <2> QED BY <2>2, <2>3 DEF r
<1>3. CASE /\ ~(s.evicted \/ s.scanned > limit \/ s.order = <<>>)
           /\ k \in DOMAIN s.map /\ s.map[k].visited
  <2>1. r = SecondChance(s, at)
    BY <1>3 DEF EvictStep
  <2>2. k \in Visited(s.map)
    <3> HIDE DEF k
    <3> QED BY <1>3 DEF Visited
  <2>3. r \in LoopType /\ Spared(s, r)
    <3> HIDE DEF r
    <3> QED BY <1>3, <2>1, <2>2, SecondChanceFacts
  <2> QED BY <2>3
<1>4. CASE /\ ~(s.evicted \/ s.scanned > limit \/ s.order = <<>>)
           /\ k \in DOMAIN s.map /\ ~s.map[k].visited
  <2>1. r = Evict(s, at)
    BY <1>4 DEF EvictStep
  <2>2. r \in LoopType /\ Evicted(s, r)
    <3> HIDE DEF r
    <3> QED BY <1>4, <2>1, EvictFacts
  <2> QED BY <2>2
<1> HIDE DEF r, k
<1> QED BY <1>1, <1>2, <1>3, <1>4 DEF r

-------------------------------------------------------------------------------
(***************************************************************************)
(* The loop of evict_one                                                   *)
(***************************************************************************)

LoopStart(s) ==
    [map |-> s.map, order |-> s.order, hand |-> s.hand, scanned |-> 0, evicted |-> FALSE]

(* The loop applies EvictStep again and again.                             *)
LEMMA EvictionsAreSteps ==
    ASSUME NEW shard \in ShardType
    PROVE  /\ Evictions(shard)[0] = LoopStart(shard)
           /\ \A i \in Nat :
                 /\ Evictions(shard)[i] \in LoopType
                 /\ Evictions(shard)[i + 1] = EvictStep(Evictions(shard)[i], Len(shard.order))
<1> DEFINE n == Len(shard.order)
           s0 == LoopStart(shard)
           step == [i \in Nat |-> [s \in LoopType |-> EvictStep(s, n)]]
<1>1. /\ shard \in [map : MapType, order : Seq(Keys), hand : Nat]
      /\ shard.hand <= Len(shard.order)
  BY DEF ShardType
<1>2. s0 \in LoopType /\ n \in Nat
  BY <1>1 DEF LoopType, LoopStart
<1> HIDE DEF n, s0
<1>3. step \in [Nat -> [LoopType -> LoopType]]
  BY <1>2, EvictStepFacts
<1>4. PICK f \in [Nat -> LoopType] :
         f[0] = s0 /\ \A i \in Nat : f[i + 1] = step[i + 1][f[i]]
  <2> HIDE DEF step
  <2>1. Runs(LoopType, s0, step) # {}
    BY <1>2, <1>3, Iteration, Zenon
  <2> QED BY <2>1 DEF Runs
<1>5. ASSUME NEW i \in Nat PROVE f[i] = IF i = 0 THEN s0 ELSE EvictStep(f[i - 1], n)
  <2>1. CASE i = 0
    BY <1>4, <2>1
  <2>2. CASE i # 0
    <3>1. i - 1 \in Nat /\ (i - 1) + 1 = i
      BY <2>2
    <3>2. f[i] = step[i][f[i - 1]]
      <4> HIDE DEF step
      <4> QED BY <1>4, <3>1
    <3> QED BY <2>2, <3>1, <3>2
  <2> QED BY <2>1, <2>2
<1> HIDE DEF step
<1> DEFINE Q(x) == x = [i \in Nat |-> IF i = 0 THEN s0 ELSE EvictStep(x[i - 1], n)]
<1>6. Q(f)
  BY <1>5
<1>7. Evictions(shard) = CHOOSE x : Q(x)
  BY DEF Evictions, n, s0, LoopStart
<1>8. Q(Evictions(shard))
  <2> HIDE DEF Q
  <2> QED BY <1>6, <1>7
<1> DEFINE e == Evictions(shard)
<1> HIDE DEF e
<1>9. e = [i \in Nat |-> IF i = 0 THEN s0 ELSE EvictStep(e[i - 1], n)]
  BY <1>8 DEF e
<1>10. e[0] = s0
  BY <1>9
<1>11. ASSUME NEW i \in Nat PROVE e[i + 1] = EvictStep(e[i], n)
  <2>1. i + 1 \in Nat /\ i + 1 # 0 /\ (i + 1) - 1 = i
    OBVIOUS
  <2> QED BY <1>9, <2>1
<1> DEFINE T == {i \in Nat : e[i] \in LoopType}
<1>12. 0 \in T
  BY <1>2, <1>10
<1>13. ASSUME NEW i \in T PROVE i + 1 \in T
  <2>1. i \in Nat /\ e[i] \in LoopType
    OBVIOUS
  <2>2. EvictStep(e[i], n) \in LoopType
    BY <2>1, <1>2, EvictStepFacts
  <2> QED BY <1>11, <2>1, <2>2
<1>14. T = Nat
  <2> HIDE DEF T
  <2>1. T \in SUBSET Nat
    BY DEF T
  <2> QED BY <1>12, <1>13, <2>1, SetInduction
<1> QED BY <1>10, <1>11, <1>14 DEF e, n, s0

(* A sequence has at most as many members as positions.                    *)
LEMMA MembersOfOrder ==
    ASSUME NEW S, NEW q \in Seq(S), NEW D, D \subseteq ToSet(q)
    PROVE  IsFiniteSet(D) /\ Cardinality(D) \in Nat /\ Cardinality(D) <= Len(q)
<1>1. q \in [1 .. Len(q) -> S] /\ Len(q) \in Nat
  OBVIOUS
<1>2. q \in Surjection(1 .. Len(q), ToSet(q))
  BY <1>1 DEF Surjection, ToSet
<1>3. IsFiniteSet(1 .. Len(q)) /\ Cardinality(1 .. Len(q)) = Len(q)
  <2>1. \A m \in Nat : IsFiniteSet(1 .. m) /\ Cardinality(1 .. m) = m
    BY FS_Interval
  <2> QED BY <1>1, <2>1
<1>4. IsFiniteSet(ToSet(q)) /\ Cardinality(ToSet(q)) <= Len(q)
  BY <1>2, <1>3, FS_Surjection
<1>5. IsFiniteSet(D) /\ Cardinality(D) <= Cardinality(ToSet(q))
  BY <1>4, FS_Subset
<1> QED BY <1>1, <1>4, <1>5, FS_CardinalityType

(* What every iteration keeps.                                             *)
LEMMA IterationKeeps ==
    ASSUME NEW s \in LoopType, NEW limit \in Nat
    PROVE  LET r == EvictStep(s, limit)
           IN Keeps(s.map, r.map) /\ (Covered(s) => Covered(r))
<1> DEFINE r == EvictStep(s, limit)
<1>1. Stopped(s, limit, r) \/ Dropped(s, r) \/ Spared(s, r) \/ Evicted(s, r)
  BY EvictStepFacts
<1> HIDE DEF r
<1> QED BY <1>1 DEF Stopped, Dropped, Spared, Evicted, Keeps, Covered, r

(***************************************************************************)
(* The invariant of the loop, after i iterations on a covered shard that   *)
(* has an entry.  Until one is evicted, an iteration shortens order or     *)
(* takes a visited bit, and these run out.                                 *)
(***************************************************************************)
StillScanning(shard, i, s) ==
    /\ DOMAIN s.map = DOMAIN shard.map
    /\ Len(s.order) <= Len(shard.order)
    /\ s.scanned + Cardinality(Visited(s.map)) = Cardinality(Visited(shard.map))
    /\ i = (Len(shard.order) - Len(s.order)) + s.scanned

OneIsGone(shard, s) == \E k \in DOMAIN shard.map : DOMAIN s.map = DOMAIN shard.map \ {k}

ScanInv(shard, i, s) ==
    /\ Covered(s)
    /\ IF s.evicted THEN OneIsGone(shard, s) ELSE StillScanning(shard, i, s)

(* The visited entries of a covered shard are at most as many as its       *)
(* positions.                                                              *)
LEMMA VisitedAreFew ==
    ASSUME NEW s, s.order \in Seq(Keys), Covered(s)
    PROVE  /\ IsFiniteSet(Visited(s.map))
           /\ Cardinality(Visited(s.map)) \in Nat
           /\ Cardinality(Visited(s.map)) <= Len(s.order)
<1>1. Visited(s.map) \subseteq ToSet(s.order)
  BY DEF Covered, Visited
<1> QED BY <1>1, MembersOfOrder

(* ScanInv holds after one more iteration.                                 *)
LEMMA ScanContinues ==
    ASSUME NEW shard \in ShardType, Covered(shard), DOMAIN shard.map # {},
           NEW i \in Nat, NEW s \in LoopType, ScanInv(shard, i, s)
    PROVE  ScanInv(shard, i + 1, EvictStep(s, Len(shard.order)))
<1> DEFINE n == Len(shard.order)
           r == EvictStep(s, n)
           V == Cardinality(Visited(shard.map))
           W == Cardinality(Visited(s.map))
<1>1. /\ shard.order \in Seq(Keys) /\ s.order \in Seq(Keys)
      /\ s.scanned \in Nat /\ s.evicted \in BOOLEAN
  BY DEF ShardType, LoopType
<1>2. n \in Nat /\ Len(s.order) \in Nat
  BY <1>1
<1>3. V \in Nat /\ V <= n
  BY <1>1, VisitedAreFew
<1>4. IsFiniteSet(Visited(s.map)) /\ W \in Nat /\ W <= Len(s.order)
  BY <1>1, VisitedAreFew DEF ScanInv
<1>5. r \in LoopType /\ (Stopped(s, n, r) \/ Dropped(s, r) \/ Spared(s, r) \/ Evicted(s, r))
  <2> HIDE DEF n
  <2> QED BY <1>2, EvictStepFacts
<1>6. Covered(r)
  <2> HIDE DEF n
  <2> QED BY <1>2, IterationKeeps DEF ScanInv
<1> HIDE DEF n, r, V, W
<1>7. CASE s.evicted
  <2>1. r = s
    BY <1>5, <1>7 DEF Stopped, Dropped, Spared, Evicted
  <2> QED BY <1>6, <1>7, <2>1 DEF ScanInv, r, n
<1>8. CASE ~s.evicted
  <2>1. /\ DOMAIN s.map = DOMAIN shard.map
        /\ Len(s.order) <= n
        /\ s.scanned + W = V
        /\ i = (n - Len(s.order)) + s.scanned
    BY <1>8 DEF ScanInv, StillScanning, n, V, W
  <2>2. ~(s.scanned > n)
    BY <1>1, <1>2, <1>3, <1>4, <2>1
  <2>3. s.order # <<>>
    BY <2>1 DEF ScanInv, Covered, ToSet
  <2>4. CASE Dropped(s, r)
    <3>1. /\ r.map = s.map /\ r.scanned = s.scanned /\ ~r.evicted
          /\ Len(r.order) = Len(s.order) - 1
      BY <2>4 DEF Dropped
    <3>2. i + 1 = (n - Len(r.order)) + r.scanned /\ Len(r.order) <= n
      <4> DEFINE a == Len(s.order)
                 b == Len(r.order)
                 z == s.scanned
      <4> HIDE DEF a, b, z
      <4>1. /\ a \in Nat /\ b = a - 1 /\ z \in Nat /\ r.scanned = z
            /\ a <= n /\ i = (n - a) + z
        BY <3>1, <2>1, <1>1, <1>2 DEF a, b, z
      <4>2. i + 1 = (n - b) + z /\ b <= n
        BY <4>1, <1>2
      <4> QED BY <4>1, <4>2 DEF b
    <3>3. StillScanning(shard, i + 1, r)
      BY <3>1, <3>2, <2>1 DEF StillScanning, n, V, W
    <3> QED BY <1>6, <3>1, <3>3 DEF ScanInv, r, n
  <2>5. CASE Spared(s, r)
    <3>1. /\ r.order = s.order /\ r.scanned = s.scanned + 1 /\ ~r.evicted
          /\ DOMAIN r.map = DOMAIN s.map
      BY <2>5 DEF Spared
    <3>2. PICK k \in Visited(s.map) : Visited(r.map) = Visited(s.map) \ {k}
      BY <2>5 DEF Spared
    <3>3. Cardinality(Visited(r.map)) = W - 1
      BY <3>2, <1>4, FS_RemoveElement DEF W
    <3>4. i + 1 = (n - Len(r.order)) + r.scanned /\ Len(r.order) <= n
      BY <3>1, <2>1, <1>1, <1>2
    <3>5. r.scanned + Cardinality(Visited(r.map)) = V
      BY <3>1, <3>3, <2>1, <1>1, <1>3, <1>4
    <3>6. StillScanning(shard, i + 1, r)
      BY <3>1, <3>4, <3>5, <2>1 DEF StillScanning, n, V
    <3> QED BY <1>6, <3>1, <3>6 DEF ScanInv, r, n
  <2>6. CASE Evicted(s, r)
    <3>1. r.evicted /\ OneIsGone(shard, r)
      BY <2>6, <2>1 DEF Evicted, OneIsGone
    <3> QED BY <1>6, <3>1 DEF ScanInv, r, n
  <2>7. ~Stopped(s, n, r)
    BY <1>8, <2>2, <2>3 DEF Stopped
  <2> QED BY <1>5, <2>4, <2>5, <2>6, <2>7
<1> QED BY <1>7, <1>8

(* evict_one on any shard: it stays a shard, and nothing is added to it;   *)
(* its entries can still be evicted; and of a covered shard with entries   *)
(* exactly one is gone.                                                    *)
LEMMA EvictOneFacts ==
    ASSUME NEW s \in ShardType
    PROVE  LET r == evict_one(s)
           IN /\ r \in ShardType
              /\ Keeps(s.map, r.map)
              /\ Covered(s) => Covered(r)
              /\ Covered(s) /\ DOMAIN s.map # {} => OneIsGone(s, r)
<1> DEFINE e == Evictions(s)
           n == 2 * Len(s.order) + 1
           r == evict_one(s)
<1>1. s \in [map : MapType, order : Seq(Keys), hand : Nat] /\ s.hand <= Len(s.order)
  BY DEF ShardType
<1>2. n \in Nat /\ Len(s.order) \in Nat
  BY <1>1
<1>3. /\ e[0] = LoopStart(s)
      /\ \A i \in Nat : e[i] \in LoopType /\ e[i + 1] = EvictStep(e[i], Len(s.order))
  BY EvictionsAreSteps
<1>4. r.map = e[n].map /\ r.order = e[n].order /\ r.hand = e[n].hand
      /\ r = [map |-> e[n].map, order |-> e[n].order, hand |-> e[n].hand]
  BY DEF evict_one
<1> HIDE DEF e, n, r
<1>5. r \in ShardType
  <2>1. e[n] \in LoopType
    BY <1>2, <1>3
  <2> DEFINE x == e[n]
  <2> HIDE DEF x
  <2>2. /\ x \in [map : MapType, order : Seq(Keys), hand : Nat, scanned : Nat, evicted : BOOLEAN]
        /\ x.hand <= Len(x.order)
    BY <2>1 DEF LoopType, x
  <2>3. r = [map |-> x.map, order |-> x.order, hand |-> x.hand]
    BY <1>4 DEF x
  <2>4. x.map \in MapType /\ x.order \in Seq(Keys) /\ x.hand \in Nat
    BY <2>2
  <2> QED BY <2>2, <2>3, <2>4 DEF ShardType
<1>6. ASSUME NEW i \in Nat PROVE Keeps(s.map, e[i].map) /\ (Covered(s) => Covered(e[i]))
  <2> DEFINE T == {j \in Nat : Keeps(s.map, e[j].map) /\ (Covered(s) => Covered(e[j]))}
  <2>1. 0 \in T
    <3>1. e[0].map = s.map /\ e[0].order = s.order
      BY <1>3 DEF LoopStart
    <3>2. Keeps(s.map, e[0].map) /\ (Covered(s) => Covered(e[0]))
      BY <3>1 DEF Keeps, Covered
    <3> QED BY <3>2
  <2>2. ASSUME NEW j \in T PROVE j + 1 \in T
    <3>1. j \in Nat /\ e[j] \in LoopType /\ e[j + 1] = EvictStep(e[j], Len(s.order))
      BY <1>3
    <3>2. Keeps(e[j].map, e[j + 1].map) /\ (Covered(e[j]) => Covered(e[j + 1]))
      BY <3>1, <1>2, IterationKeeps
    <3>3. Keeps(s.map, e[j].map) /\ (Covered(s) => Covered(e[j]))
      OBVIOUS
    <3>4. Keeps(s.map, e[j + 1].map)
      <4> HIDE DEF T
      <4> QED BY <3>2, <3>3 DEF Keeps
    <3> QED BY <3>1, <3>2, <3>3, <3>4
  <2>3. T = Nat
    <3> HIDE DEF T
    <3>1. T \in SUBSET Nat
      BY DEF T
    <3> QED BY <2>1, <2>2, <3>1, SetInduction
  <2> QED BY <2>3
<1>7. Keeps(s.map, r.map) /\ (Covered(s) => Covered(r))
  BY <1>2, <1>4, <1>6 DEF Covered
<1>8. ASSUME Covered(s), DOMAIN s.map # {} PROVE OneIsGone(s, r)
  <2> DEFINE T == {j \in Nat : ScanInv(s, j, e[j])}
  <2>1. 0 \in T
    <3>1. /\ e[0].map = s.map /\ e[0].order = s.order /\ e[0].scanned = 0 /\ ~e[0].evicted
      BY <1>3 DEF LoopStart
    <3>2. Cardinality(Visited(s.map)) \in Nat
      BY <1>1, <1>8, VisitedAreFew
    <3>3. StillScanning(s, 0, e[0])
      BY <1>2, <3>1, <3>2 DEF StillScanning
    <3>4. Covered(e[0])
      BY <3>1, <1>8 DEF Covered
    <3> QED BY <3>1, <3>3, <3>4 DEF ScanInv
  <2>2. ASSUME NEW j \in T PROVE j + 1 \in T
    <3>1. j \in Nat /\ e[j] \in LoopType /\ e[j + 1] = EvictStep(e[j], Len(s.order))
      BY <1>3
    <3>2. ScanInv(s, j, e[j])
      OBVIOUS
    <3>3. ScanInv(s, j + 1, e[j + 1])
      <4> HIDE DEF T
      <4> QED BY <3>1, <3>2, <1>8, ScanContinues
    <3> QED BY <3>1, <3>3
  <2>3. T = Nat
    <3> HIDE DEF T
    <3>1. T \in SUBSET Nat
      BY DEF T
    <3> QED BY <2>1, <2>2, <3>1, SetInduction
  <2>4. ScanInv(s, n, e[n]) /\ e[n] \in LoopType
    BY <1>2, <1>3, <2>3
  <2>5. e[n].evicted
    <3> SUFFICES ASSUME ~e[n].evicted PROVE FALSE
      OBVIOUS
    <3>1. StillScanning(s, n, e[n]) /\ Covered(e[n])
      BY <2>4 DEF ScanInv
    <3> DEFINE a == Len(s.order)
               b == Len(e[n].order)
               v == Cardinality(Visited(s.map))
               w == Cardinality(Visited(e[n].map))
               z == e[n].scanned
    <3>2. a \in Nat /\ v \in Nat /\ v <= a
      BY <1>1, <1>8, VisitedAreFew
    <3>3. e[n].order \in Seq(Keys) /\ z \in Nat
      BY <2>4 DEF LoopType
    <3>4. b \in Nat /\ w \in Nat
      BY <3>1, <3>3, VisitedAreFew
    <3>5. b <= a /\ z + w = v /\ n = (a - b) + z
      BY <3>1 DEF StillScanning
    <3>6. n = 2 * a + 1
      BY DEF n
    <3> HIDE DEF a, b, v, w, z
    <3> QED BY <3>2, <3>3, <3>4, <3>5, <3>6
  <2>6. OneIsGone(s, e[n])
    BY <2>4, <2>5 DEF ScanInv
  <2> QED BY <1>4, <2>6 DEF OneIsGone
<1> QED BY <1>5, <1>7, <1>8 DEF r

-------------------------------------------------------------------------------
(***************************************************************************)
(* Making room, and the operations on a shard                              *)
(***************************************************************************)

(* What two operations keep, both in a row keep.                           *)
LEMMA KeepsTransitive ==
    ASSUME NEW a, NEW b, NEW c, Keeps(a, b), Keeps(b, c)
    PROVE  Keeps(a, c)
BY DEF Keeps

(* One iteration of the loop that makes room.                              *)
LEMMA RoomStepFacts ==
    ASSUME NEW s \in ShardType, NEW i \in Nat
    PROVE  LET r == RoomStep(s, i)
           IN /\ r \in ShardType
              /\ Keeps(s.map, r.map)
              /\ Covered(s) => Covered(r)
<1>1. Keeps(s.map, s.map)
  BY DEF Keeps
<1> QED BY <1>1, EvictOneFacts DEF RoomStep

(* The loop applies RoomStep again and again.                              *)
LEMMA RoomsAreSteps ==
    ASSUME NEW shard \in ShardType
    PROVE  /\ Rooms(shard)[0] = shard
           /\ \A i \in Nat : /\ Rooms(shard)[i] \in ShardType
                             /\ Rooms(shard)[i + 1] = RoomStep(Rooms(shard)[i], i + 1)
<1> DEFINE step == [i \in Nat |-> [s \in ShardType |-> RoomStep(s, i)]]
<1>1. step \in [Nat -> [ShardType -> ShardType]]
  BY RoomStepFacts
<1>2. PICK f \in [Nat -> ShardType] :
         f[0] = shard /\ \A i \in Nat : f[i + 1] = step[i + 1][f[i]]
  <2> HIDE DEF step
  <2>1. Runs(ShardType, shard, step) # {}
    BY <1>1, Iteration, Zenon
  <2> QED BY <2>1 DEF Runs
<1>3. ASSUME NEW i \in Nat PROVE f[i] = IF i = 0 THEN shard ELSE RoomStep(f[i - 1], i)
  <2>1. CASE i = 0
    BY <1>2, <2>1
  <2>2. CASE i # 0
    <3>1. i - 1 \in Nat /\ (i - 1) + 1 = i
      BY <2>2
    <3>2. f[i] = step[i][f[i - 1]]
      <4> HIDE DEF step
      <4> QED BY <1>2, <3>1
    <3> QED BY <2>2, <3>1, <3>2
  <2> QED BY <2>1, <2>2
<1> HIDE DEF step
<1> DEFINE Q(x) == x = [i \in Nat |-> IF i = 0 THEN shard ELSE RoomStep(x[i - 1], i)]
<1>4. Q(f)
  BY <1>3
<1>5. Rooms(shard) = CHOOSE x : Q(x)
  BY DEF Rooms
<1>6. Q(Rooms(shard))
  <2> HIDE DEF Q
  <2> QED BY <1>4, <1>5
<1> DEFINE e == Rooms(shard)
<1> HIDE DEF e
<1>7. e = [i \in Nat |-> IF i = 0 THEN shard ELSE RoomStep(e[i - 1], i)]
  BY <1>6 DEF e
<1>8. e[0] = shard
  BY <1>7
<1>9. ASSUME NEW i \in Nat PROVE e[i + 1] = RoomStep(e[i], i + 1)
  <2>1. i + 1 \in Nat /\ i + 1 # 0 /\ (i + 1) - 1 = i
    OBVIOUS
  <2> QED BY <1>7, <2>1
<1> DEFINE T == {i \in Nat : e[i] \in ShardType}
<1>10. 0 \in T
  BY <1>8
<1>11. ASSUME NEW i \in T PROVE i + 1 \in T
  <2>1. i \in Nat /\ e[i] \in ShardType /\ i + 1 \in Nat
    OBVIOUS
  <2>2. RoomStep(e[i], i + 1) \in ShardType
    BY <2>1, RoomStepFacts
  <2> QED BY <1>9, <2>1, <2>2
<1>12. T = Nat
  <2> HIDE DEF T
  <2>1. T \in SUBSET Nat
    BY DEF T
  <2> QED BY <1>10, <1>11, <2>1, SetInduction
<1> QED BY <1>8, <1>9, <1>12 DEF e

(* The entries of a covered shard are finitely many.                       *)
LEMMA SizeOfCovered ==
    ASSUME NEW s \in ShardType, Covered(s)
    PROVE  IsFiniteSet(DOMAIN s.map) /\ Size(s) \in Nat
BY MembersOfOrder DEF ShardType, Covered, Size

(* evict_one takes one from the size of a covered shard.                   *)
LEMMA EvictOneShrinks ==
    ASSUME NEW s \in ShardType, Covered(s), DOMAIN s.map # {}
    PROVE  Size(evict_one(s)) = Size(s) - 1
<1> DEFINE r == evict_one(s)
<1>1. OneIsGone(s, r)
  BY EvictOneFacts
<1> HIDE DEF r
<1>2. PICK k \in DOMAIN s.map : DOMAIN r.map = DOMAIN s.map \ {k}
  BY <1>1 DEF OneIsGone
<1>3. IsFiniteSet(DOMAIN s.map)
  BY SizeOfCovered
<1>4. Cardinality(DOMAIN s.map \ {k}) = Cardinality(DOMAIN s.map) - 1
  BY <1>3, FS_RemoveElement
<1> QED BY <1>2, <1>4 DEF Size, r

(* For a covered shard within its share, room is made by one eviction.     *)
LEMMA OneEvictionMakesRoom ==
    ASSUME NEW s \in ShardType, Covered(s), Size(s) <= per_shard, MaxSize > 0
    PROVE  /\ MakeRoom(s) = IF Full(s) THEN evict_one(s) ELSE s
           /\ Size(MakeRoom(s)) < per_shard
<1> DEFINE e == Rooms(s)
           n == Len(s.order)
           r == IF Full(s) THEN evict_one(s) ELSE s
<1>1. n \in Nat
  BY DEF ShardType
<1>2. e[0] = s /\ \A i \in Nat : e[i + 1] = RoomStep(e[i], i + 1)
  BY RoomsAreSteps
<1>3. MakeRoom(s) = e[n + 1]
  BY DEF MakeRoom
<1>4. per_shard \in Nat /\ per_shard >= 1 /\ Size(s) \in Nat
  BY ShareOfMaxSize, SizeOfCovered
<1>5. Size(r) < per_shard
  <2>1. CASE Full(s)
    <3>1. Size(s) = per_shard
      BY <1>4, <2>1 DEF Full
    <3>2. DOMAIN s.map # {}
      <4>1. Size(s) # 0
        BY <1>4, <3>1
      <4> QED BY <4>1, FS_EmptySet DEF Size
    <3>3. Size(evict_one(s)) = Size(s) - 1
      BY <3>2, EvictOneShrinks
    <3> QED BY <1>4, <2>1, <3>1, <3>3
  <2>2. CASE ~Full(s)
    BY <1>4, <2>2 DEF Full
  <2> QED BY <2>1, <2>2
<1> HIDE DEF e, n
<1>6. e[1] = r
  <2>1. e[0 + 1] = RoomStep(e[0], 0 + 1)
    BY <1>2
  <2> QED BY <1>2, <2>1 DEF RoomStep
<1>7. ~Full(r)
  <2> HIDE DEF r
  <2>1. Size(r) < per_shard => ~(Size(r) >= per_shard)
    <3>1. Covered(r) /\ r \in ShardType
      BY EvictOneFacts DEF r
    <3>2. Size(r) \in Nat
      BY <3>1, SizeOfCovered
    <3> QED BY <1>4, <3>2
  <2> QED BY <1>5, <2>1 DEF Full
<1> HIDE DEF r
<1> DEFINE T == {i \in Nat : e[i + 1] = r}
<1>8. 0 \in T
  BY <1>6
<1>9. ASSUME NEW i \in T PROVE i + 1 \in T
  <2>1. i + 1 \in Nat /\ e[i + 1] = r
    OBVIOUS
  <2>2. e[(i + 1) + 1] = r
    BY <1>2, <1>7, <2>1 DEF RoomStep
  <2> QED BY <2>1, <2>2
<1>10. T = Nat
  <2> HIDE DEF T
  <2>1. T \in SUBSET Nat
    BY DEF T
  <2> QED BY <1>8, <1>9, <2>1, SetInduction
<1>11. e[n + 1] = r
  BY <1>1, <1>10
<1> QED BY <1>3, <1>5, <1>11 DEF r

(* A shard within its share has room for one more after MakeRoom.          *)
LEMMA MakeRoomFacts ==
    ASSUME NEW s \in ShardType
    PROVE  LET r == MakeRoom(s)
           IN /\ r \in ShardType
              /\ Keeps(s.map, r.map)
              /\ Covered(s) => Covered(r)
              /\ Covered(s) /\ Size(s) <= per_shard /\ MaxSize > 0 => Size(r) < per_shard
<1> DEFINE e == Rooms(s)
           n == Len(s.order) + 1
           r == MakeRoom(s)
<1>1. n \in Nat /\ n >= 1
  BY DEF ShardType
<1>2. /\ e[0] = s
      /\ \A i \in Nat : e[i] \in ShardType /\ e[i + 1] = RoomStep(e[i], i + 1)
  BY RoomsAreSteps
<1>3. r = e[n]
  BY DEF MakeRoom
<1> HIDE DEF e, n, r
<1> DEFINE Kept == {i \in Nat : Keeps(s.map, e[i].map) /\ (Covered(s) => Covered(e[i]))}
<1>4. Kept = Nat
  <2>1. 0 \in Kept
    <3>1. Keeps(s.map, e[0].map) /\ (Covered(s) => Covered(e[0]))
      BY <1>2 DEF Keeps
    <3> QED BY <3>1
  <2>2. ASSUME NEW i \in Kept PROVE i + 1 \in Kept
    <3>1. i \in Nat /\ i + 1 \in Nat /\ e[i] \in ShardType /\ e[i + 1] = RoomStep(e[i], i + 1)
      BY <1>2
    <3>2. Keeps(s.map, e[i].map) /\ (Covered(s) => Covered(e[i]))
      OBVIOUS
    <3>3. Keeps(e[i].map, e[i + 1].map) /\ (Covered(e[i]) => Covered(e[i + 1]))
      <4> HIDE DEF Kept
      <4> QED BY <3>1, RoomStepFacts
    <3>4. Keeps(s.map, e[i + 1].map)
      <4> HIDE DEF Kept
      <4> QED BY <3>2, <3>3, KeepsTransitive
    <3> QED BY <3>1, <3>2, <3>3, <3>4
  <2> HIDE DEF Kept
  <2>3. Kept \in SUBSET Nat
    BY DEF Kept
  <2> QED BY <2>1, <2>2, <2>3, SetInduction
<1>5. r \in ShardType /\ Keeps(s.map, r.map) /\ (Covered(s) => Covered(r))
  BY <1>1, <1>2, <1>3, <1>4
<1>6. Covered(s) /\ Size(s) <= per_shard /\ MaxSize > 0 => Size(r) < per_shard
  BY OneEvictionMakesRoom DEF r
<1> QED BY <1>5, <1>6 DEF r

(* What holds of every shard.  A raising __eq__ may leave an entry that    *)
(* the hand cannot find, and then one more than the share.                 *)
ShardInv(s) ==
    /\ s \in ShardType
    /\ ~Raising => Covered(s)
    /\ ~Raising /\ MaxSize > 0 => Size(s) <= per_shard

(* The entry of k is put into the map.                                     *)
LEMMA PutEntryFacts ==
    ASSUME NEW s \in ShardType, NEW k \in Keys, NEW entry \in EntryType
    PROVE  LET r == PutEntry(s, k, entry)
           IN /\ r \in ShardType /\ r.order = s.order /\ r.hand = s.hand
              /\ DOMAIN r.map = DOMAIN s.map \cup {k}
<1> DEFINE m == [j \in DOMAIN s.map \cup {k} |-> IF j = k THEN entry ELSE s.map[j]]
           r == PutEntry(s, k, entry)
<1>1. s \in [map : MapType, order : Seq(Keys), hand : Nat] /\ s.hand <= Len(s.order)
  BY DEF ShardType
<1>2. s.map \in MapType
  BY <1>1
<1>3. m \in MapType /\ DOMAIN m = DOMAIN s.map \cup {k}
  <2>1. DOMAIN s.map \subseteq Keys /\ \A j \in DOMAIN s.map : s.map[j] \in EntryType
    BY <1>2, MapFacts
  <2>2. /\ m = [j \in DOMAIN m |-> m[j]] /\ DOMAIN m \subseteq Keys
        /\ DOMAIN m = DOMAIN s.map \cup {k}
        /\ \A j \in DOMAIN m : m[j] \in EntryType
    BY <2>1
  <2> HIDE DEF m
  <2> QED BY <2>2, MapFacts
<1>4. r = [s EXCEPT !.map = m]
  BY DEF PutEntry
<1> HIDE DEF m, r
<1>5. /\ r \in [map : MapType, order : Seq(Keys), hand : Nat]
      /\ r.map = m /\ r.order = s.order /\ r.hand = s.hand
  BY <1>1, <1>3, <1>4
<1>6. r \in ShardType
  BY <1>1, <1>5 DEF ShardType
<1> QED BY <1>3, <1>5, <1>6 DEF r

(* order with one more key at the back.                                    *)
LEMMA PushedFacts ==
    ASSUME NEW s \in ShardType, NEW k \in Keys
    PROVE  LET r == [s EXCEPT !.order = Append(@, k)]
           IN /\ r \in ShardType /\ r.map = s.map
              /\ ToSet(r.order) = ToSet(s.order) \cup {k}
<1> DEFINE q == Append(s.order, k)
           r == [s EXCEPT !.order = Append(@, k)]
<1>1. s \in [map : MapType, order : Seq(Keys), hand : Nat] /\ s.hand <= Len(s.order)
      /\ s.order \in Seq(Keys) /\ s.hand \in Nat
  BY DEF ShardType
<1>2. /\ q \in Seq(Keys) /\ Len(q) = Len(s.order) + 1
      /\ \A i \in 1 .. Len(s.order) : q[i] = s.order[i]
      /\ q[Len(s.order) + 1] = k
  BY <1>1
<1>3. r = [s EXCEPT !.order = q]
  OBVIOUS
<1> HIDE DEF q, r
<1>4. /\ r \in [map : MapType, order : Seq(Keys), hand : Nat]
      /\ r.map = s.map /\ r.order = q /\ r.hand = s.hand
  BY <1>1, <1>2, <1>3
<1>5. r \in ShardType
  <2>1. Len(s.order) \in Nat
    BY <1>1
  <2>2. s.hand <= Len(q)
    BY <1>1, <1>2, <2>1
  <2> QED BY <1>4, <2>2 DEF ShardType
<1>6. ToSet(q) = ToSet(s.order) \cup {k}
  <2>1. /\ DOMAIN q = 1 .. Len(s.order) + 1 /\ DOMAIN s.order = 1 .. Len(s.order)
        /\ Len(s.order) \in Nat
    BY <1>1, <1>2
  <2> DEFINE n == Len(s.order)
  <2> HIDE DEF n
  <2>2. 1 .. n + 1 = (1 .. n) \cup {n + 1}
    BY <2>1 DEF n
  <2> QED BY <1>2, <2>1, <2>2 DEF ToSet, n
<1> QED BY <1>4, <1>5, <1>6 DEF r

(* A new key is inserted: room is made for it, and the hand will find it.  *)
LEMMA InsertNewFacts ==
    ASSUME NEW s, ShardInv(s), NEW k \in Keys, NEW entry \in EntryType
    PROVE  ShardInv(InsertNew(s, k, entry))
<1> DEFINE room == MakeRoom(s)
           put == PutEntry(room, k, entry)
           r == InsertNew(s, k, entry)
<1>1. s \in ShardType
  BY DEF ShardInv
<1>2. /\ room \in ShardType
      /\ Covered(s) => Covered(room)
      /\ Covered(s) /\ Size(s) <= per_shard /\ MaxSize > 0 => Size(room) < per_shard
  BY <1>1, MakeRoomFacts
<1> HIDE DEF room
<1>3. put \in ShardType /\ put.order = room.order /\ DOMAIN put.map = DOMAIN room.map \cup {k}
  BY <1>2, PutEntryFacts
<1>4. r = [put EXCEPT !.order = Append(@, k)]
  BY DEF InsertNew, room
<1> HIDE DEF put
<1>5. r \in ShardType /\ r.map = put.map /\ ToSet(r.order) = ToSet(put.order) \cup {k}
  BY <1>3, <1>4, PushedFacts
<1> HIDE DEF r
<1>6. ASSUME ~Raising PROVE Covered(r)
  BY <1>2, <1>3, <1>5, <1>6 DEF ShardInv, Covered
<1>7. ASSUME ~Raising, MaxSize > 0 PROVE Size(r) <= per_shard
  <2>1. Covered(room) /\ Size(room) < per_shard
    BY <1>2, <1>7 DEF ShardInv
  <2>2. IsFiniteSet(DOMAIN room.map) /\ Size(room) \in Nat
    BY <1>2, <2>1, SizeOfCovered
  <2>3. Cardinality(DOMAIN room.map \cup {k}) <= Cardinality(DOMAIN room.map) + 1
    <3>1. Cardinality(DOMAIN room.map \cup {k}) =
             IF k \in DOMAIN room.map THEN Cardinality(DOMAIN room.map)
             ELSE Cardinality(DOMAIN room.map) + 1
      BY <2>2, FS_AddElement
    <3>2. Cardinality(DOMAIN room.map) \in Nat
      BY <2>2 DEF Size
    <3> QED BY <3>1, <3>2
  <2>4. Cardinality(DOMAIN room.map \cup {k}) \in Nat
    BY <2>2, FS_AddElement, FS_CardinalityType
  <2> QED BY <1>3, <1>5, <2>1, <2>2, <2>3, <2>4, ShareOfMaxSize DEF Size
<1> QED BY <1>5, <1>6, <1>7 DEF ShardInv, r

(* The entry of a cached key is replaced.                                  *)
LEMMA ReplaceFacts ==
    ASSUME NEW s, ShardInv(s), NEW k \in DOMAIN s.map, NEW entry \in EntryType
    PROVE  ShardInv(PutEntry(s, k, entry))
<1> DEFINE r == PutEntry(s, k, entry)
<1>1. s \in ShardType /\ k \in Keys
  <2>1. s \in ShardType /\ s.map \in MapType
    BY DEF ShardInv, ShardType
  <2> QED BY <2>1, MapFacts
<1>2. r \in ShardType /\ r.order = s.order /\ DOMAIN r.map = DOMAIN s.map
  <2>1. r \in ShardType /\ r.order = s.order /\ DOMAIN r.map = DOMAIN s.map \cup {k}
    BY <1>1, PutEntryFacts
  <2> HIDE DEF r
  <2> QED BY <2>1
<1> HIDE DEF r
<1> QED BY <1>2 DEF ShardInv, Covered, Size, r

(* An expired entry leaves the map.                                        *)
LEMMA RemoveFromMapFacts ==
    ASSUME NEW s, ShardInv(s), NEW k \in Keys
    PROVE  ShardInv(RemoveFromMap(s, k))
<1> DEFINE r == RemoveFromMap(s, k)
           m == Restrict(s.map, DOMAIN s.map \ {k})
<1>1. /\ s \in [map : MapType, order : Seq(Keys), hand : Nat] /\ s.hand <= Len(s.order)
      /\ s.map \in MapType
  BY DEF ShardInv, ShardType
<1>2. DOMAIN m = DOMAIN s.map \ {k} /\ m \in MapType
  <2>1. DOMAIN s.map \subseteq Keys /\ \A j \in DOMAIN s.map : s.map[j] \in EntryType
    BY <1>1, MapFacts
  <2>2. /\ m = [j \in DOMAIN m |-> m[j]] /\ DOMAIN m = DOMAIN s.map \ {k}
        /\ \A j \in DOMAIN m : m[j] \in EntryType
    BY <2>1 DEF Restrict
  <2> HIDE DEF m
  <2> QED BY <2>1, <2>2, MapFacts
<1>3. r = [s EXCEPT !.map = m]
  BY DEF RemoveFromMap
<1> HIDE DEF r, m
<1>4. /\ r \in [map : MapType, order : Seq(Keys), hand : Nat]
      /\ r.map = m /\ r.order = s.order /\ r.hand = s.hand
  BY <1>1, <1>2, <1>3
<1>5. r \in ShardType
  BY <1>1, <1>4 DEF ShardType
<1>6. ASSUME ~Raising PROVE Covered(r)
  BY <1>2, <1>4, <1>6 DEF ShardInv, Covered
<1>7. ASSUME ~Raising, MaxSize > 0 PROVE Size(r) <= per_shard
  <2>1. s \in ShardType /\ Covered(s) /\ Size(s) <= per_shard
    BY <1>7 DEF ShardInv
  <2>2. IsFiniteSet(DOMAIN s.map) /\ Size(s) \in Nat
    BY <2>1, SizeOfCovered
  <2>3. Cardinality(DOMAIN m) <= Cardinality(DOMAIN s.map) /\ Cardinality(DOMAIN m) \in Nat
    BY <1>2, <2>2, FS_Subset, FS_CardinalityType
  <2> QED BY <1>4, <2>1, <2>2, <2>3, ShareOfMaxSize DEF Size
<1> QED BY <1>5, <1>6, <1>7 DEF ShardInv, r

(* set with a pending exception: order starts again, with the new key.     *)
LEMMA InsertWhilePendingFacts ==
    ASSUME NEW s, ShardInv(s), NEW k \in Keys, NEW entry \in EntryType, Raising
    PROVE  ShardInv(InsertWhilePending(s, k, entry))
<1> DEFINE drained == IF Full(s) THEN [s EXCEPT !.order = <<>>, !.hand = 0] ELSE s
           put == PutEntry(drained, k, entry)
           r == InsertWhilePending(s, k, entry)
<1>1. drained \in ShardType
  <2>1. s \in [map : MapType, order : Seq(Keys), hand : Nat] /\ s \in ShardType
    BY DEF ShardInv, ShardType
  <2> DEFINE d == [s EXCEPT !.order = <<>>, !.hand = 0]
  <2>2. /\ d \in [map : MapType, order : Seq(Keys), hand : Nat]
        /\ d.order = <<>> /\ d.hand = 0
    <3> DEFINE q == <<>>
    <3>1. q \in Seq(Keys)
      OBVIOUS
    <3>2. d = [s EXCEPT !.order = q, !.hand = 0]
      OBVIOUS
    <3> HIDE DEF q, d
    <3>3. d = [map |-> s.map, order |-> q, hand |-> 0] /\ s.map \in MapType
      BY <2>1, <3>2
    <3> QED BY <3>1, <3>3 DEF q
  <2>3. d \in ShardType
    <3> HIDE DEF d
    <3> QED BY <2>2 DEF ShardType
  <2> QED BY <2>1, <2>3
<1>2. r = [put EXCEPT !.order = Append(@, k)]
  BY DEF InsertWhilePending
<1> HIDE DEF drained
<1>3. put \in ShardType
  BY <1>1, PutEntryFacts
<1> HIDE DEF put
<1>4. r \in ShardType
  BY <1>2, <1>3, PushedFacts
<1> QED BY <1>4 DEF ShardInv

(* cache_clear, and the beginning.                                         *)
LEMMA EmptyShardFacts == ShardInv(EmptyShard)
<1> DEFINE e == EmptyShard
<1>1. e.map = EmptyMap /\ e.order = <<>> /\ e.hand = 0 /\ DOMAIN EmptyMap = {}
  BY DEF EmptyShard, EmptyMap
<1>2. EmptyMap \in MapType
  BY MapFacts DEF EmptyMap
<1>3. e \in ShardType
  BY <1>1, <1>2 DEF EmptyShard, ShardType
<1> HIDE DEF e
<1>4. Covered(e) /\ Size(e) = 0
  BY <1>1, FS_EmptySet DEF Covered, Size
<1> QED BY <1>3, <1>4, ShareOfMaxSize DEF ShardInv, e

-------------------------------------------------------------------------------
(***************************************************************************)
(* The shards, the counters and the locals in every state                  *)
(***************************************************************************)

ShardsOK == shards \in [Shards -> ShardType] /\ \A i \in Shards : ShardInv(shards[i])

(* A call that computes, or is inside a region other than that of          *)
(* cache_clear, knows its key; one that will store knows its value.        *)
Knows(c) ==
    /\ pc[c] = "compute" \/ (Active(c) /\ loc[c].op # "clear") => loc[c].key \in Keys
    /\ Active(c) /\ loc[c].op \in {"store", "set"} => loc[c].val \in Values

KeysKnown == \A c \in Calls : Knows(c)

Answers == {<<>>} \cup (Calls \X Keys \X (Values \cup {Miss}))
Counts == 0 .. StatMod - 1

DataOK == ShardsOK /\ last \in Answers /\ now \in Nat /\ hits \in Counts /\ misses \in Counts

StoreInv == IInv /\ KeysKnown /\ DataOK

(* A step of c leaves the keys and values of the others alone.             *)
OthersKnow(c) ==
    \A d \in Calls \ {c} :
        /\ pc'[d] = pc[d]
        /\ loc'[d].op = loc[d].op /\ loc'[d].key = loc[d].key /\ loc'[d].val = loc[d].val

(* A step that leaves the locals alone keeps what they know.               *)
LEMMA KeysKept ==
    ASSUME KeysKnown, NEW c \in Calls, OthersKnow(c), Knows(c)'
    PROVE  KeysKnown'
BY DEF KeysKnown, Knows, Active, OthersKnow

(* A step with which a call begins.                                        *)
LEMMA NewLocalsKnown ==
    ASSUME Shape, NEW c \in Calls, NEW label \in Labels, NEW locals \in LocalsShape,
           pc' = [pc EXCEPT ![c] = label], loc' = WithLocals(c, locals)
    PROVE  OthersKnow(c) /\ pc'[c] = label /\ loc'[c] = locals
<1>1. \A d \in Calls : loc'[d] = IF d = c THEN locals
                                 ELSE IF c[2] > 0 /\ d = Outer(c)
                                 THEN [loc[d] EXCEPT !.nested = TRUE] ELSE loc[d]
  BY DEF WithLocals
<1>2. \A d \in Calls : loc[d] \in LocalsShape
  BY DEF Shape
<1>3. \A d \in Calls : /\ [loc[d] EXCEPT !.nested = TRUE].op = loc[d].op
                       /\ [loc[d] EXCEPT !.nested = TRUE].key = loc[d].key
                       /\ [loc[d] EXCEPT !.nested = TRUE].val = loc[d].val
  BY <1>2 DEF LocalsShape
<1>4. pc'[c] = label /\ \A d \in Calls \ {c} : pc'[d] = pc[d]
  BY DEF Shape
<1> QED BY <1>1, <1>3, <1>4 DEF OthersKnow

(* A step that sets only the control and the locals of c.                  *)
LEMMA OwnLocalsKnown ==
    ASSUME Shape, NEW c \in Calls, NEW label, NEW locals,
           pc' = [pc EXCEPT ![c] = label], loc' = [loc EXCEPT ![c] = locals]
    PROVE  OthersKnow(c) /\ pc'[c] = label /\ loc'[c] = locals
BY DEF Shape, OthersKnow

(* A call that ends knows nothing, and need not.                           *)
LEMMA LeaveKnown ==
    ASSUME Shape, KeysKnown, NEW c \in Calls, Leave(c)
    PROVE  KeysKnown'
<1>1. OthersKnow(c) /\ pc'[c] = "idle" /\ loc'[c] = NoLocals
  BY OwnLocalsKnown DEF Leave, Goto
<1>2. Knows(c)'
  BY <1>1 DEF Knows, Active
<1> QED BY <1>1, <1>2, KeysKept

(* The counters wrap within their width.                                   *)
LEMMA CountersWrap == \A n \in Counts : Bump(n) \in Counts
BY StoreAssumption DEF Counts, Bump

(* What a lookup or a store leaves in last.                                *)
LEMMA AnswersType ==
    ASSUME NEW c \in Calls, NEW k \in Keys, NEW v \in Values \cup {Miss}
    PROVE  <<c, k, v>> \in Answers
BY DEF Answers

(* One shard is changed.                                                   *)
LEMMA ShardChanged ==
    ASSUME ShardsOK, NEW i \in Shards, NEW new, ShardInv(new),
           shards' = [shards EXCEPT ![i] = new]
    PROVE  ShardsOK'
<1>1. new \in ShardType
  BY DEF ShardInv
<1>2. \A j \in Shards : shards'[j] = IF j = i THEN new ELSE shards[j]
  BY DEF ShardsOK
<1>3. shards' \in [Shards -> ShardType]
  BY <1>1 DEF ShardsOK
<1>4. \A j \in Shards : ShardInv(shards'[j])
  BY <1>2 DEF ShardsOK
<1> QED BY <1>3, <1>4 DEF ShardsOK, ShardInv, Covered, Size

(* A hit sets the visited bit of its entry.                                *)
LEMMA TouchedFacts ==
    ASSUME NEW s, ShardInv(s), NEW k \in DOMAIN s.map
    PROVE  ShardInv([s EXCEPT !.map[k].visited = TRUE])
<1> DEFINE m == [s.map EXCEPT ![k].visited = TRUE]
           r == [s EXCEPT !.map[k].visited = TRUE]
<1>1. /\ s \in [map : MapType, order : Seq(Keys), hand : Nat] /\ s.hand <= Len(s.order)
      /\ s.map \in MapType
  BY DEF ShardInv, ShardType
<1>2. DOMAIN s.map \subseteq Keys /\ \A j \in DOMAIN s.map : s.map[j] \in EntryType
  BY <1>1, MapFacts
<1>3. /\ DOMAIN m = DOMAIN s.map /\ m = [j \in DOMAIN m |-> m[j]]
      /\ \A j \in DOMAIN s.map : j # k => m[j] = s.map[j]
      /\ m[k] = [s.map[k] EXCEPT !.visited = TRUE]
  OBVIOUS
<1>4. r = [s EXCEPT !.map = m]
  OBVIOUS
<1> HIDE DEF m, r
<1>5. m[k] \in EntryType
  <2> DEFINE e == s.map[k]
             f == m[k]
  <2>1. e \in EntryType /\ f = [e EXCEPT !.visited = TRUE]
    BY <1>2, <1>3
  <2> HIDE DEF e, f
  <2>2. f \in EntryType
    BY <2>1 DEF EntryType
  <2> QED BY <2>2 DEF f
<1>6. m \in MapType
  BY <1>2, <1>3, <1>5, MapFacts
<1>7. /\ r \in [map : MapType, order : Seq(Keys), hand : Nat]
      /\ r.map = m /\ r.order = s.order /\ r.hand = s.hand
  BY <1>1, <1>4, <1>6
<1>8. r \in ShardType
  BY <1>1, <1>7 DEF ShardType
<1>9. DOMAIN r.map = DOMAIN s.map /\ r.order = s.order
  BY <1>3, <1>7
<1>10. ShardInv(r)
  BY <1>8, <1>9 DEF ShardInv, Covered, Size
<1> QED BY <1>10 DEF r

(* The shard of a call.                                                    *)
LEMMA MineFacts ==
    ASSUME StoreInv, NEW c \in Calls
    PROVE  /\ loc[c] \in LocalsShape
           /\ loc[c].shard \in Shards
           /\ ShardInv(Mine(c))
           /\ Mine(c) = shards[loc[c].shard]
           /\ Mine(c).map \in MapType
<1>1. loc[c] \in LocalsShape
  BY DEF StoreInv, IInv, Shape
<1>2. loc[c].shard \in Shards
  BY <1>1, ZeroIsAShard DEF LocalsShape
<1>3. ShardInv(Mine(c)) /\ Mine(c) = shards[loc[c].shard]
  BY <1>2 DEF StoreInv, DataOK, ShardsOK, Mine
<1>4. Mine(c).map \in MapType
  BY <1>3 DEF ShardInv, ShardType
<1> QED BY <1>1, <1>2, <1>3, <1>4

-------------------------------------------------------------------------------

(* The steps with which a call begins change at most last and misses.      *)
LEMMA StartKeepsData ==
    ASSUME StoreInv, NEW c \in Calls, Start(c)
    PROVE  StoreInv'
<1>0. IInv' /\ Shape
  BY StartInv DEF StoreInv, IInv
<1>1. ASSUME NEW op \in Ops, NEW k \in Keys \cup {NoKey}, NEW v \in Values \cup {NoValue},
             Begin(c, op, k, v), op # "clear" => k \in Keys,
             op \in {"store", "set"} => v \in Values
      PROVE  StoreInv'
  <2> DEFINE locals == [NoLocals EXCEPT !.op = op, !.key = k, !.val = v,
                            !.shard = IF k = NoKey THEN 0 ELSE shard_of(k)]
  <2>1. (IF k = NoKey THEN 0 ELSE shard_of(k)) \in ShardIds
    BY <1>1 DEF ShardIds
  <2>2. locals \in LocalsShape /\ locals.op = op /\ locals.key = k /\ locals.val = v
    BY <1>1, <2>1 DEF NoLocals, LocalsShape
  <2> HIDE DEF locals
  <2>3. loc' = WithLocals(c, locals) /\ pc' = [pc EXCEPT ![c] = "wait"]
    BY <1>1 DEF Begin, Goto, locals
  <2>4. OthersKnow(c) /\ pc'[c] = "wait" /\ loc'[c] = locals
    BY <1>0, <2>2, <2>3, NewLocalsKnown DEF Labels
  <2>5. Knows(c)'
    BY <1>1, <2>2, <2>4 DEF Knows, Active
  <2>6. KeysKnown'
    BY <2>4, <2>5, KeysKept DEF StoreInv
  <2>7. DataOK'
    BY <1>1 DEF Begin, StoreInv, DataOK, ShardsOK
  <2> QED BY <1>0, <2>6, <2>7 DEF StoreInv
<1>2. ASSUME NEW k \in Keys, CallBypassed(c, k)
      PROVE  StoreInv'
  <2> DEFINE locals == [NoLocals EXCEPT !.op = "probe", !.key = k]
  <2>1. locals \in LocalsShape /\ locals.key = k
    BY <1>2 DEF NoLocals, LocalsShape, Ops, ShardIds
  <2> HIDE DEF locals
  <2>2. loc' = WithLocals(c, locals) /\ pc' = [pc EXCEPT ![c] = "compute"]
    BY <1>2 DEF CallBypassed, Goto, locals
  <2>3. OthersKnow(c) /\ pc'[c] = "compute" /\ loc'[c] = locals
    BY <1>0, <2>1, <2>2, NewLocalsKnown DEF Labels
  <2>4. Knows(c)'
    BY <2>1, <2>3 DEF Knows, Active
  <2>5. KeysKnown'
    BY <2>3, <2>4, KeysKept DEF StoreInv
  <2>6. DataOK'
    BY <1>2 DEF CallBypassed, StoreInv, DataOK, ShardsOK
  <2> QED BY <1>0, <2>5, <2>6 DEF StoreInv
<1>3. ASSUME NEW k \in Keys, GetBypassed(c, k)
      PROVE  StoreInv'
  <2>1. pc' = [pc EXCEPT ![c] = "idle"] /\ loc' = WithLocals(c, NoLocals)
    BY <1>0, <1>3 DEF GetBypassed, MayBegin, Shape
  <2>2. OthersKnow(c) /\ pc'[c] = "idle" /\ loc'[c] = NoLocals
    BY <1>0, <2>1, NoLocalsShape, NewLocalsKnown DEF Labels
  <2>3. Knows(c)'
    BY <2>2 DEF Knows, Active
  <2>4. KeysKnown'
    BY <2>2, <2>3, KeysKept DEF StoreInv
  <2>5. last' = <<c, k, Miss>> /\ misses' = Bump(misses) /\ UNCHANGED <<shards, now, hits>>
    BY <1>3 DEF GetBypassed
  <2>6. last' \in Answers
    BY <2>5, AnswersType
  <2>7. DataOK'
    BY <2>5, <2>6, CountersWrap DEF StoreInv, DataOK, ShardsOK
  <2> QED BY <1>0, <2>4, <2>7 DEF StoreInv
<1>4. ASSUME NEW op \in {"set", "clear"}, SkipSetOrClear(c, op)
      PROVE  StoreInv'
  <2> DEFINE locals == [NoLocals EXCEPT !.op = op]
  <2>1. locals \in LocalsShape
    BY <1>4 DEF NoLocals, LocalsShape, Ops, ShardIds
  <2> HIDE DEF locals
  <2>2. loc' = WithLocals(c, locals) /\ pc' = [pc EXCEPT ![c] = "returned"]
    BY <1>4 DEF SkipSetOrClear, Goto, locals
  <2>3. OthersKnow(c) /\ pc'[c] = "returned"
    BY <1>0, <2>1, <2>2, NewLocalsKnown DEF Labels
  <2>4. Knows(c)'
    BY <2>3 DEF Knows, Active
  <2>5. KeysKnown'
    BY <2>3, <2>4, KeysKept DEF StoreInv
  <2>6. DataOK'
    BY <1>4 DEF SkipSetOrClear, StoreInv, DataOK, ShardsOK
  <2> QED BY <1>0, <2>5, <2>6 DEF StoreInv
<1>5. ASSUME NEW k \in Keys, Begin(c, "probe", k, NoValue) \/ Begin(c, "get", k, NoValue)
      PROVE  StoreInv'
  BY <1>1, <1>5 DEF Ops
<1>6. ASSUME NEW k \in Keys, NEW v \in Values, Begin(c, "set", k, v)
      PROVE  StoreInv'
  BY <1>1, <1>6 DEF Ops
<1>7. CASE Begin(c, "clear", NoKey, NoValue)
  BY <1>1, <1>7 DEF Ops
<1> QED BY <1>2, <1>3, <1>4, <1>5, <1>6, <1>7 DEF Start

(* The steps of a lookup.                                                  *)
LEMMA LookupKeepsData ==
    ASSUME StoreInv, IInv', NEW c \in Calls,
           ProbeHit(c) \/ ProbeMiss(c) \/ GetMiss(c) \/ LookupRaises(c)
    PROVE  StoreInv'
<1> DEFINE i == loc[c].shard
           k == loc[c].key
<1>1. /\ Shape /\ KeysKnown /\ ShardsOK /\ last \in Answers /\ now \in Nat
      /\ hits \in Counts /\ misses \in Counts
  BY DEF StoreInv, IInv, DataOK
<1>2. /\ loc[c] \in LocalsShape /\ i \in Shards /\ ShardInv(Mine(c))
      /\ Mine(c) = shards[i] /\ Mine(c).map \in MapType
  BY MineFacts
<1>3. CASE ProbeHit(c)
  <2>1. KeysKnown'
    BY <1>1, <1>3, LeaveKnown DEF ProbeHit
  <2>2. k \in Keys
    BY <1>1, <1>3 DEF KeysKnown, Knows, Active, ProbeHit, InRegion
  <2>3. k \in DOMAIN Mine(c).map
    BY <1>3 DEF ProbeHit, Live
  <2>4. Mine(c).map[k] \in EntryType
    BY <1>2, <2>3, MapFacts
  <2>5. Mine(c).map[k].val \in Values
    BY <2>4 DEF EntryType
  <2>6. last' \in Answers
    <3>1. last' = <<c, k, Mine(c).map[k].val>>
      BY <1>3 DEF ProbeHit
    <3> HIDE DEF k
    <3> QED BY <2>2, <2>5, <3>1, AnswersType
  <2>7. ShardsOK'
    <3> DEFINE new == [shards[i] EXCEPT !.map[k].visited = TRUE]
    <3>1. shards' = [shards EXCEPT ![i] = new]
      BY <1>3 DEF ProbeHit
    <3>2. ShardInv(new)
      <4> HIDE DEF i, k
      <4> QED BY <1>2, <2>3, TouchedFacts
    <3> HIDE DEF new, i
    <3> QED BY <1>1, <1>2, <3>1, <3>2, ShardChanged
  <2>8. DataOK'
    BY <1>1, <1>3, <2>6, <2>7, CountersWrap DEF ProbeHit, DataOK
  <2> QED BY <2>1, <2>8 DEF StoreInv
<1>4. CASE ProbeMiss(c)
  <2> DEFINE locals == [loc[c] EXCEPT !.entered = TRUE, !.nested = FALSE]
  <2>1. locals.key = k
    BY <1>2 DEF LocalsShape
  <2>2. pc' = [pc EXCEPT ![c] = "compute"] /\ loc' = [loc EXCEPT ![c] = locals]
    BY <1>4 DEF ProbeMiss, Goto
  <2> HIDE DEF locals
  <2>3. OthersKnow(c) /\ pc'[c] = "compute" /\ loc'[c] = locals
    BY <1>1, <2>2, OwnLocalsKnown
  <2>4. k \in Keys
    BY <1>1, <1>4 DEF KeysKnown, Knows, Active, ProbeMiss, InRegion
  <2>5. Knows(c)'
    BY <2>1, <2>3, <2>4 DEF Knows, Active
  <2>6. KeysKnown'
    BY <1>1, <2>3, <2>5, KeysKept
  <2>7. last' \in Answers /\ UNCHANGED <<shards, now, hits, misses>>
    BY <1>4, <2>4, AnswersType DEF ProbeMiss
  <2>8. DataOK'
    BY <1>1, <2>7 DEF DataOK, ShardsOK
  <2> QED BY <2>6, <2>8 DEF StoreInv
<1>5. CASE GetMiss(c)
  <2>1. KeysKnown'
    BY <1>1, <1>5, LeaveKnown DEF GetMiss
  <2>2. k \in Keys
    BY <1>1, <1>5 DEF KeysKnown, Knows, Active, GetMiss, InRegion
  <2>3. last' \in Answers /\ misses' = Bump(misses) /\ UNCHANGED <<shards, now, hits>>
    BY <1>5, <2>2, AnswersType DEF GetMiss
  <2>4. DataOK'
    BY <1>1, <2>3, CountersWrap DEF DataOK, ShardsOK
  <2> QED BY <2>1, <2>4 DEF StoreInv
<1>6. CASE LookupRaises(c)
  <2>1. KeysKnown'
    BY <1>1, <1>6, LeaveKnown DEF LookupRaises
  <2>2. DataOK'
    BY <1>1, <1>6 DEF LookupRaises, DataOK, ShardsOK
  <2> QED BY <2>1, <2>2 DEF StoreInv
<1> QED BY <1>3, <1>4, <1>5, <1>6

(* The second region of __call__.                                          *)
LEMMA StoreKeepsData ==
    ASSUME StoreInv, IInv', NEW c \in Calls, Store(c)
    PROVE  StoreInv'
<1> DEFINE i == loc[c].shard
           k == loc[c].key
           s == Mine(c)
           entry == NewEntry(loc[c].val, now)
<1>1. /\ Shape /\ KeysKnown /\ ShardsOK /\ last \in Answers /\ now \in Nat
      /\ hits \in Counts /\ misses \in Counts
  BY DEF StoreInv, IInv, DataOK
<1>2. i \in Shards /\ ShardInv(s) /\ s = shards[i]
  BY MineFacts
<1>3. KeysKnown'
  BY <1>1, LeaveKnown DEF Store
<1>4. k \in Keys /\ loc[c].val \in Values
  BY <1>1 DEF KeysKnown, Knows, Active, Store, InRegion
<1>5. entry \in EntryType
  BY <1>1, <1>4 DEF NewEntry, EntryType
<1>6. ShardInv(InsertNew(RemoveFromMap(s, k), k, entry))
  <2> HIDE DEF i, k, s, entry
  <2>1. ShardInv(RemoveFromMap(s, k))
    BY <1>2, <1>4, RemoveFromMapFacts
  <2> QED BY <1>4, <1>5, <2>1, InsertNewFacts
<1>7. ShardsOK'
  <2> DEFINE new == InsertNew(RemoveFromMap(s, k), k, entry)
  <2>1. shards' = [shards EXCEPT ![i] = new] \/ shards' = shards
    BY DEF Store
  <2> HIDE DEF new, i
  <2>2. CASE shards' = shards
    BY <1>1, <2>2 DEF ShardsOK
  <2>3. CASE shards' = [shards EXCEPT ![i] = new]
    BY <1>1, <1>2, <1>6, <2>3, ShardChanged DEF new
  <2> QED BY <2>1, <2>2, <2>3
<1>8. last' \in Answers
  <2>1. last' = last \/ last' = <<c, k, loc[c].val>>
    BY DEF Store
  <2>2. <<c, k, loc[c].val>> \in Answers
    <3> HIDE DEF k
    <3> QED BY <1>4, AnswersType
  <2> QED BY <1>1, <2>1, <2>2
<1>9. misses' = Bump(misses) /\ UNCHANGED <<now, hits>>
  BY DEF Store
<1>10. DataOK'
  BY <1>1, <1>7, <1>8, <1>9, CountersWrap DEF DataOK
<1> QED BY <1>3, <1>10 DEF StoreInv

(* set.                                                                    *)
LEMMA SetKeepsData ==
    ASSUME StoreInv, IInv', NEW c \in Calls, Set(c)
    PROVE  StoreInv'
<1> DEFINE i == loc[c].shard
           k == loc[c].key
           s == Mine(c)
           entry == NewEntry(loc[c].val, now)
           New(pending) == IF pending THEN InsertWhilePending(s, k, entry)
                           ELSE IF k \in DOMAIN s.map THEN PutEntry(s, k, entry)
                           ELSE InsertNew(s, k, entry)
<1>1. /\ Shape /\ KeysKnown /\ ShardsOK /\ last \in Answers /\ now \in Nat
      /\ hits \in Counts /\ misses \in Counts
  BY DEF StoreInv, IInv, DataOK
<1>2. i \in Shards /\ ShardInv(s) /\ s = shards[i]
  BY MineFacts
<1>3. KeysKnown'
  <2>1. OthersKnow(c) /\ pc'[c] = "returned"
    <3>1. pc' = [pc EXCEPT ![c] = "returned"] /\ loc' = loc
      BY DEF Set, Goto
    <3> QED BY <1>1, <3>1 DEF OthersKnow, Shape
  <2>2. Knows(c)'
    BY <2>1 DEF Knows, Active
  <2> QED BY <1>1, <2>1, <2>2, KeysKept
<1>4. k \in Keys /\ loc[c].val \in Values
  BY <1>1 DEF KeysKnown, Knows, Active, Set, InRegion
<1>5. entry \in EntryType
  BY <1>1, <1>4 DEF NewEntry, EntryType
<1>6. PICK pending \in {FALSE, MayRaise(c)} : shards' = [shards EXCEPT ![i] = New(pending)]
  BY DEF Set
<1>7. ShardInv(New(pending))
  <2> HIDE DEF i, k, s, entry
  <2>1. CASE pending
    <3>1. Raising
      BY <1>6, <2>1 DEF MayRaise
    <3> QED BY <1>2, <1>4, <1>5, <2>1, <3>1, InsertWhilePendingFacts
  <2>2. CASE ~pending /\ k \in DOMAIN s.map
    BY <1>2, <1>5, <2>2, ReplaceFacts
  <2>3. CASE ~pending /\ k \notin DOMAIN s.map
    BY <1>2, <1>4, <1>5, <2>3, InsertNewFacts
  <2> QED BY <2>1, <2>2, <2>3
<1>8. ShardsOK'
  <2> DEFINE new == New(pending)
  <2> HIDE DEF New, i
  <2>1. shards' = [shards EXCEPT ![i] = new] /\ ShardInv(new)
    BY <1>6, <1>7
  <2> HIDE DEF new
  <2> QED BY <1>1, <1>2, <2>1, ShardChanged
<1>9. last' \in Answers
  <2>1. last' = <<c, k, loc[c].val>>
    BY DEF Set
  <2> HIDE DEF k
  <2> QED BY <1>4, <2>1, AnswersType
<1>10. DataOK'
  <2>1. UNCHANGED <<now, hits, misses>>
    BY DEF Set
  <2> QED BY <1>1, <1>8, <1>9, <2>1 DEF DataOK
<1> QED BY <1>3, <1>10 DEF StoreInv

(* cache_clear, one shard.                                                 *)
LEMMA ClearKeepsData ==
    ASSUME StoreInv, IInv', NEW c \in Calls, ClearShard(c)
    PROVE  StoreInv'
<1> DEFINE i == loc[c].shard
<1>1. /\ Shape /\ KeysKnown /\ ShardsOK /\ last \in Answers /\ now \in Nat
      /\ hits \in Counts /\ misses \in Counts
  BY DEF StoreInv, IInv, DataOK
<1>2. i \in Shards /\ loc[c] \in LocalsShape
  BY MineFacts
<1>3. ShardsOK'
  <2>1. shards' = [shards EXCEPT ![i] = EmptyShard]
    BY DEF ClearShard, Cleared
  <2> HIDE DEF i
  <2> QED BY <1>1, <1>2, <2>1, EmptyShardFacts, ShardChanged
<1>4. 0 \in Counts
  BY StoreAssumption DEF Counts
<1>5. DataOK'
  BY <1>1, <1>3, <1>4 DEF ClearShard, DataOK
<1>6. KeysKnown'
  <2>1. CASE i + 1 \in Shards
    <3> DEFINE locals == [loc[c] EXCEPT !.shard = i + 1]
    <3>1. pc' = [pc EXCEPT ![c] = "wait"] /\ loc' = [loc EXCEPT ![c] = locals]
      BY <2>1 DEF ClearShard, Goto
    <3>2. locals.op = "clear"
      BY <1>2 DEF ClearShard, InRegion, LocalsShape
    <3> HIDE DEF locals
    <3>3. OthersKnow(c) /\ pc'[c] = "wait" /\ loc'[c] = locals
      BY <1>1, <3>1, OwnLocalsKnown
    <3>4. Knows(c)'
      BY <3>2, <3>3 DEF Knows, Active
    <3> QED BY <1>1, <3>3, <3>4, KeysKept
  <2>2. CASE i + 1 \notin Shards
    <3>1. pc' = [pc EXCEPT ![c] = "returned"] /\ loc' = loc
      BY <2>2 DEF ClearShard, Goto
    <3>2. OthersKnow(c) /\ pc'[c] = "returned"
      BY <1>1, <3>1 DEF OthersKnow, Shape
    <3>3. Knows(c)'
      BY <3>2 DEF Knows, Active
    <3> QED BY <1>1, <3>2, <3>3, KeysKept
  <2> QED BY <2>1, <2>2
<1> QED BY <1>5, <1>6 DEF StoreInv

(* The other steps of a call that has begun.                               *)
LEMMA ContinueKeepsData ==
    ASSUME StoreInv, NEW c \in Calls, Continue(c) \/ ComputeRaises(c)
    PROVE  StoreInv'
<1>0. IInv'
  BY ContinueInv, LeaveInv DEF StoreInv, ComputeRaises
<1>1. /\ Shape /\ KeysKnown /\ ShardsOK /\ last \in Answers /\ now \in Nat
      /\ hits \in Counts /\ misses \in Counts
  BY DEF StoreInv, IInv, DataOK
<1>2. CASE Acquire(c)
  <2>1. pc' = [pc EXCEPT ![c] = "held"] /\ loc' = loc /\ pc[c] = "wait"
    BY <1>2 DEF Acquire, Goto
  <2>2. OthersKnow(c) /\ pc'[c] = "held"
    BY <1>1, <2>1 DEF OthersKnow, Shape
  <2>3. Knows(c)'
    BY <1>1, <2>1, <2>2 DEF KeysKnown, Knows, Active
  <2>4. KeysKnown'
    BY <1>1, <2>2, <2>3, KeysKept
  <2>5. DataOK'
    BY <1>1, <1>2 DEF Acquire, DataOK, ShardsOK
  <2> QED BY <1>0, <2>4, <2>5 DEF StoreInv
<1>3. ASSUME NEW v \in Values, BeginStore(c, v)
      PROVE  StoreInv'
  <2> DEFINE locals == [loc[c] EXCEPT !.op = "store", !.val = v, !.nested = FALSE]
  <2>1. loc[c] \in LocalsShape
    BY <1>1 DEF Shape
  <2>2. locals.key = loc[c].key /\ locals.val = v
    BY <2>1 DEF LocalsShape
  <2>3. pc' = [pc EXCEPT ![c] = "wait"] /\ loc' = [loc EXCEPT ![c] = locals]
    BY <1>3 DEF BeginStore, Goto
  <2> HIDE DEF locals
  <2>4. OthersKnow(c) /\ pc'[c] = "wait" /\ loc'[c] = locals
    BY <1>1, <2>3, OwnLocalsKnown
  <2>5. loc[c].key \in Keys
    BY <1>1, <1>3 DEF KeysKnown, Knows, BeginStore, Computing
  <2>6. Knows(c)'
    BY <1>3, <2>2, <2>4, <2>5 DEF Knows, Active
  <2>7. KeysKnown'
    BY <1>1, <2>4, <2>6, KeysKept
  <2>8. DataOK'
    BY <1>1, <1>3 DEF BeginStore, DataOK, ShardsOK
  <2> QED BY <1>0, <2>7, <2>8 DEF StoreInv
<1>4. CASE ReturnBypassed(c) \/ SkipStore(c)
  <2>1. /\ Leave(c) /\ misses' = Bump(misses)
        /\ UNCHANGED <<shards, last, now, hits>>
    BY <1>4 DEF ReturnBypassed, SkipStore
  <2>2. KeysKnown'
    BY <1>1, <2>1, LeaveKnown
  <2>3. DataOK'
    BY <1>1, <2>1, CountersWrap DEF DataOK, ShardsOK
  <2> QED BY <1>0, <2>2, <2>3 DEF StoreInv
<1>5. CASE Return(c) \/ ComputeRaises(c)
  <2>1. Leave(c) /\ UNCHANGED <<shards, last, now, hits, misses>>
    BY <1>5 DEF Return, ComputeRaises
  <2>2. KeysKnown'
    BY <1>1, <2>1, LeaveKnown
  <2>3. DataOK'
    BY <1>1, <2>1 DEF DataOK, ShardsOK
  <2> QED BY <1>0, <2>2, <2>3 DEF StoreInv
<1> QED BY <1>0, <1>2, <1>3, <1>4, <1>5, LookupKeepsData, StoreKeepsData, SetKeepsData,
           ClearKeepsData DEF Continue

-------------------------------------------------------------------------------

(* StoreInv holds in every state.                                          *)
THEOREM StoreInvariance == Spec => []StoreInv
<1>1. Init => StoreInv
  <2> SUFFICES ASSUME Init PROVE StoreInv
    OBVIOUS
  <2>1. IInv
    <3>1. Shape
      BY NoLocalsShape DEF Init, Shape, Labels
    <3>2. \A c \in Calls : pc[c] = "idle"
      BY DEF Init
    <3> QED BY <3>1, <3>2 DEF IInv, RegionsExclude, LockExcludes, Active
  <2>2. KeysKnown
    BY DEF Init, KeysKnown, Knows, Active
  <2>3. ShardsOK
    <3>1. EmptyShard \in ShardType /\ ShardInv(EmptyShard)
      BY EmptyShardFacts DEF ShardInv
    <3> QED BY <3>1 DEF Init, ShardsOK
  <2>4. 0 \in Counts /\ 0 \in Nat /\ <<>> \in Answers
    BY StoreAssumption DEF Counts, Answers
  <2>5. DataOK
    BY <2>3, <2>4 DEF Init, DataOK
  <2> QED BY <2>1, <2>2, <2>5 DEF StoreInv
<1>2. StoreInv /\ [Next]_vars => StoreInv'
  <2> SUFFICES ASSUME StoreInv, [Next]_vars PROVE StoreInv'
    OBVIOUS
  <2>1. CASE UNCHANGED vars
    <3>1. IInv'
      BY <2>1, StutterInv DEF vars, StoreInv
    <3> QED BY <2>1, <3>1 DEF vars, StoreInv, KeysKnown, Knows, Active, DataOK, ShardsOK
  <2>2. CASE Tick
    <3>1. IInv'
      BY <2>2, StutterInv DEF Tick, StoreInv
    <3> QED BY <2>2, <3>1 DEF Tick, StoreInv, KeysKnown, Knows, Active, DataOK, ShardsOK
  <2>3. ASSUME NEW c \in Calls, Start(c) \/ Continue(c) \/ ComputeRaises(c)
        PROVE  StoreInv'
    BY <2>3, StartKeepsData, ContinueKeepsData
  <2> QED BY <2>1, <2>2, <2>3 DEF Next
<1> QED BY <1>1, <1>2, PTL DEF Spec

(* Every variable has its type in every state, for every build, with keys  *)
(* whose __eq__ raises as well: in particular a key reaches the shard its  *)
(* hash names (shard_of), and the hand of evict_one never points more than *)
(* one past the end of order.                                              *)
THEOREM TypeCorrect == Spec => []TypeOK
<1>1. StoreInv => TypeOK
  <2> SUFFICES ASSUME StoreInv PROVE TypeOK
    OBVIOUS
  <2>1. DOMAIN shards = Shards /\ \A i \in Shards : shards[i] \in ShardType
    BY DEF StoreInv, DataOK, ShardsOK
  <2>2. ASSUME NEW i \in Shards PROVE ShardOK(shards[i])
    <3> DEFINE s == shards[i]
    <3> HIDE DEF s
    <3>1. s.map \in MapType /\ s.order \in Seq(Keys) /\ s.hand \in Nat /\ s.hand <= Len(s.order)
      BY <2>1 DEF ShardType, s
    <3>2. DOMAIN s.map \subseteq Keys /\ \A k \in DOMAIN s.map : s.map[k] \in EntryType
      BY <3>1, MapFacts
    <3>3. s.hand \in 0 .. Len(s.order)
      BY <3>1
    <3> QED BY <3>1, <3>2, <3>3 DEF ShardOK, s
  <2>3. LocalsShape = LocalsType
    BY ZeroIsAShard DEF LocalsShape, LocalsType, Ops
  <2>4. pc \in [Calls -> Labels] /\ loc \in [Calls -> LocalsType]
    BY <2>3 DEF StoreInv, IInv, Shape
  <2> QED BY <2>1, <2>2, <2>4 DEF StoreInv, DataOK, TypeOK, Labels, Answers, Counts
<1> QED BY <1>1, StoreInvariance, PTL

(* If no __eq__ raises, every cached entry can be evicted: its key is      *)
(* still in order, however many expiries, replacements and evictions went  *)
(* before (evict_one, the insert of __call__ and of set).                  *)
THEOREM EntriesStayEvictable == ~Raising => (Spec => []EveryEntryEvictable)
<1> SUFFICES ASSUME ~Raising PROVE Spec => []EveryEntryEvictable
  OBVIOUS
<1>1. StoreInv => EveryEntryEvictable
  BY DEF StoreInv, DataOK, ShardsOK, ShardInv, Covered, EveryEntryEvictable
<1> QED BY <1>1, StoreInvariance, PTL

(* If no __eq__ raises, evict_one evicts exactly one entry of a shard that *)
(* has one: its scan, bounded by the length of order, is never cut off     *)
(* before it has found an entry whose visited bit is clear.                *)
THEOREM EvictionEvicts == ~Raising => (Spec => []EvictOneEvictsOne)
<1> SUFFICES ASSUME ~Raising PROVE Spec => []EvictOneEvictsOne
  OBVIOUS
<1>1. StoreInv => EvictOneEvictsOne
  <2> SUFFICES ASSUME StoreInv, NEW i \in Shards, shards[i].map # EmptyMap
               PROVE  Size(evict_one(shards[i])) = Size(shards[i]) - 1
    BY DEF EvictOneEvictsOne
  <2>1. shards[i] \in ShardType /\ Covered(shards[i])
    BY DEF StoreInv, DataOK, ShardsOK, ShardInv
  <2>2. DOMAIN shards[i].map # {}
    <3> DEFINE m == shards[i].map
    <3> HIDE DEF m
    <3>1. m \in MapType
      BY <2>1 DEF ShardType, m
    <3>2. m = [k \in DOMAIN m |-> m[k]]
      BY <3>1, MapFacts
    <3>3. m # EmptyMap
      BY DEF m
    <3>4. DOMAIN m # {}
      BY <3>2, <3>3 DEF EmptyMap
    <3> QED BY <3>4 DEF m
  <2> QED BY <2>1, <2>2, EvictOneShrinks
<1> QED BY <1>1, StoreInvariance, PTL

(* If no __eq__ raises and max_size is not 0, no shard ever holds more     *)
(* than its share of max_size: the loop that makes room before an insert   *)
(* always makes it.                                                        *)
THEOREM ShardsStayBounded == ~Raising /\ MaxSize > 0 => (Spec => []ShardBounded)
<1> SUFFICES ASSUME ~Raising, MaxSize > 0 PROVE Spec => []ShardBounded
  OBVIOUS
<1>1. StoreInv => ShardBounded
  BY DEF StoreInv, DataOK, ShardsOK, ShardInv, ShardBounded
<1> QED BY <1>1, StoreInvariance, PTL

-------------------------------------------------------------------------------
(***************************************************************************)
(* What the operations do to the entries of a map                          *)
(***************************************************************************)

(* m with entry under k.                                                   *)
MapWith(m, k, entry) == [j \in DOMAIN m \cup {k} |-> IF j = k THEN entry ELSE m[j]]

(* The map after PutEntry.                                                 *)
LEMMA PutEntryMap ==
    ASSUME NEW s \in ShardType, NEW k, NEW entry
    PROVE  PutEntry(s, k, entry).map = MapWith(s.map, k, entry)
<1>1. s \in [map : MapType, order : Seq(Keys), hand : Nat]
  BY DEF ShardType
<1> DEFINE m == MapWith(s.map, k, entry)
<1>2. PutEntry(s, k, entry) = [s EXCEPT !.map = m]
  BY DEF PutEntry, MapWith
<1> HIDE DEF m
<1>3. [s EXCEPT !.map = m].map = m
  BY <1>1
<1> QED BY <1>2, <1>3 DEF m

(* The map after InsertNew: what is left when room is made, and k.         *)
LEMMA InsertNewMap ==
    ASSUME NEW s \in ShardType, NEW k \in Keys, NEW entry \in EntryType
    PROVE  InsertNew(s, k, entry).map = MapWith(MakeRoom(s).map, k, entry)
<1> DEFINE room == MakeRoom(s)
           put == PutEntry(room, k, entry)
<1>1. room \in ShardType
  BY MakeRoomFacts
<1>2. InsertNew(s, k, entry) = [put EXCEPT !.order = Append(@, k)]
  BY DEF InsertNew
<1> HIDE DEF room
<1>3. put \in ShardType /\ put.map = MapWith(room.map, k, entry)
  BY <1>1, PutEntryFacts, PutEntryMap
<1> HIDE DEF put
<1>4. [put EXCEPT !.order = Append(@, k)].map = put.map
  BY <1>3, PushedFacts
<1> QED BY <1>2, <1>3, <1>4 DEF room

(* The map after a set with a pending exception: nothing is evicted.       *)
LEMMA InsertWhilePendingMap ==
    ASSUME NEW s \in ShardType, NEW k \in Keys, NEW entry \in EntryType
    PROVE  InsertWhilePending(s, k, entry).map = MapWith(s.map, k, entry)
<1> DEFINE drained == IF Full(s) THEN [s EXCEPT !.order = <<>>, !.hand = 0] ELSE s
           put == PutEntry(drained, k, entry)
<1>1. drained \in ShardType /\ drained.map = s.map
  <2> DEFINE q == <<>>
             d == [s EXCEPT !.order = <<>>, !.hand = 0]
  <2>1. s \in [map : MapType, order : Seq(Keys), hand : Nat]
    BY DEF ShardType
  <2>2. q \in Seq(Keys) /\ Len(q) = 0
    OBVIOUS
  <2>3. d = [s EXCEPT !.order = q, !.hand = 0]
    OBVIOUS
  <2> HIDE DEF q, d
  <2>4. d = [map |-> s.map, order |-> q, hand |-> 0] /\ s.map \in MapType
    BY <2>1, <2>3
  <2>5. d \in ShardType /\ d.map = s.map
    BY <2>2, <2>4 DEF ShardType
  <2> QED BY <2>5 DEF d
<1>2. InsertWhilePending(s, k, entry) = [put EXCEPT !.order = Append(@, k)]
  BY DEF InsertWhilePending
<1> HIDE DEF drained
<1>3. put \in ShardType /\ put.map = MapWith(drained.map, k, entry)
  BY <1>1, PutEntryFacts, PutEntryMap
<1> HIDE DEF put
<1>4. [put EXCEPT !.order = Append(@, k)].map = put.map
  BY <1>3, PushedFacts
<1> QED BY <1>1, <1>2, <1>3, <1>4

(* The map after an expired entry has left it.                             *)
LEMMA RemoveFromMapMap ==
    ASSUME NEW s \in ShardType, NEW k
    PROVE  RemoveFromMap(s, k).map = Restrict(s.map, DOMAIN s.map \ {k})
BY DEF ShardType, RemoveFromMap

(* All results but that of k stay.                                         *)
KeepsBut(old, new, k) ==
    \A j \in DOMAIN new \ {k} :
        j \in DOMAIN old /\ new[j].val = old[j].val /\ new[j].created = old[j].created

(* An insert changes no result but that of its key.                        *)
LEMMA InsertKeepsOthers ==
    ASSUME NEW s \in ShardType, NEW k \in Keys, NEW entry \in EntryType
    PROVE  KeepsBut(s.map, InsertNew(s, k, entry).map, k)
<1> DEFINE m == MakeRoom(s).map
<1>1. Keeps(s.map, m)
  BY MakeRoomFacts
<1>2. InsertNew(s, k, entry).map = MapWith(m, k, entry)
  BY InsertNewMap
<1> HIDE DEF m
<1>3. DOMAIN MapWith(m, k, entry) = DOMAIN m \cup {k}
  BY DEF MapWith
<1>4. \A j \in DOMAIN m \ {k} : MapWith(m, k, entry)[j] = m[j]
  BY DEF MapWith
<1> QED BY <1>1, <1>2, <1>3, <1>4 DEF Keeps, KeepsBut

(* Neither does a replacement.                                             *)
LEMMA PutKeepsOthers ==
    ASSUME NEW m, NEW k, NEW entry
    PROVE  KeepsBut(m, MapWith(m, k, entry), k)
BY DEF KeepsBut, MapWith

(* Nor the two together, as the second region of __call__ does them.       *)
LEMMA RemoveThenInsertKeepsOthers ==
    ASSUME NEW s, ShardInv(s), NEW k \in Keys, NEW entry \in EntryType
    PROVE  KeepsBut(s.map, InsertNew(RemoveFromMap(s, k), k, entry).map, k)
<1> DEFINE u == RemoveFromMap(s, k)
           v == InsertNew(u, k, entry).map
<1>1. s \in ShardType /\ u \in ShardType
  BY RemoveFromMapFacts DEF ShardInv
<1>2. u.map = Restrict(s.map, DOMAIN s.map \ {k})
  BY <1>1, RemoveFromMapMap
<1>3. DOMAIN u.map = DOMAIN s.map \ {k} /\ \A j \in DOMAIN u.map : u.map[j] = s.map[j]
  <2> HIDE DEF u
  <2> QED BY <1>2 DEF Restrict
<1> HIDE DEF u
<1>4. KeepsBut(u.map, v, k)
  BY <1>1, InsertKeepsOthers
<1> HIDE DEF v
<1>5. KeepsBut(s.map, v, k)
  BY <1>3, <1>4 DEF KeepsBut
<1> QED BY <1>5 DEF v, u

(* Only the shard of c changes, and all its results but that of c's key    *)
(* stay.                                                                   *)
OtherResultsStay(c) ==
    \A i \in Shards : \/ shards'[i] = shards[i]
                      \/ i = loc[c].shard /\ KeepsBut(shards[i].map, shards'[i].map, loc[c].key)

(* A step does nothing to the results, or it inserts or replaces the entry *)
(* of one key, or it clears a shard.                                       *)
LEMMA StepsOnResults ==
    ASSUME StoreInv, NEW c \in Calls, Start(c) \/ Continue(c) \/ ComputeRaises(c)
    PROVE  \/ \A i \in Shards : Keeps(shards[i].map, shards'[i].map)
           \/ Store(c) /\ NeedsInsert(c) /\ OtherResultsStay(c)
           \/ Set(c) /\ OtherResultsStay(c)
<1> DEFINE k == loc[c].key
           i == loc[c].shard
           s == Mine(c)
           entry == NewEntry(loc[c].val, now)
<1>0. \A m : Keeps(m, m)
  BY DEF Keeps
<1>1. /\ ShardsOK /\ now \in Nat /\ KeysKnown
  BY DEF StoreInv, DataOK
<1>2. i \in Shards /\ ShardInv(s) /\ s = shards[i] /\ s.map \in MapType /\ s \in ShardType
  BY MineFacts DEF ShardInv
<1>3. CASE shards' = shards
  BY <1>0, <1>3
<1>4. CASE ProbeHit(c)
  <2> DEFINE new == [s EXCEPT !.map[k].visited = TRUE]
             m == [s.map EXCEPT ![k].visited = TRUE]
  <2>1. shards' = [shards EXCEPT ![i] = new]
    BY <1>4 DEF ProbeHit, Mine
  <2>2. k \in DOMAIN s.map /\ \A j \in DOMAIN s.map : s.map[j] \in EntryType
    BY <1>2, <1>4, MapFacts DEF ProbeHit, Live
  <2>3. new.map = m
    <3>1. s \in [map : MapType, order : Seq(Keys), hand : Nat]
      BY <1>2 DEF ShardType
    <3> HIDE DEF s, k
    <3>2. new = [s EXCEPT !.map = m]
      OBVIOUS
    <3> HIDE DEF new, m
    <3> QED BY <3>1, <3>2
  <2>4. /\ DOMAIN m = DOMAIN s.map
        /\ \A j \in DOMAIN s.map : j # k => m[j] = s.map[j]
        /\ m[k] = [s.map[k] EXCEPT !.visited = TRUE]
    <3> HIDE DEF s, k
    <3> QED BY <2>2
  <2>5. m[k].val = s.map[k].val /\ m[k].created = s.map[k].created
    <3> DEFINE e == s.map[k]
               f == m[k]
    <3>1. e \in EntryType /\ f = [e EXCEPT !.visited = TRUE]
      BY <2>2, <2>4
    <3> HIDE DEF e, f
    <3>2. f.val = e.val /\ f.created = e.created
      BY <3>1 DEF EntryType
    <3> QED BY <3>2 DEF e, f
  <2>6. Keeps(s.map, m)
    <3> HIDE DEF m, s, k
    <3> QED BY <2>4, <2>5 DEF Keeps
  <2> HIDE DEF m, s, k, new, i
  <2>7. \A j \in Shards : shards'[j] = IF j = i THEN new ELSE shards[j]
    BY <1>1, <2>1 DEF ShardsOK
  <2> QED BY <1>0, <1>2, <2>3, <2>6, <2>7
<1>5. CASE Store(c) /\ shards' # shards
  <2> DEFINE new == InsertNew(RemoveFromMap(s, k), k, entry)
  <2>1. NeedsInsert(c) /\ shards' = [shards EXCEPT ![i] = new]
    BY <1>5 DEF Store
  <2>2. k \in Keys /\ loc[c].val \in Values
    BY <1>1, <1>5 DEF KeysKnown, Knows, Active, Store, InRegion
  <2>3. entry \in EntryType
    BY <1>1, <2>2 DEF NewEntry, EntryType
  <2>4. KeepsBut(s.map, new.map, k)
    <3> HIDE DEF s, k, entry
    <3> QED BY <1>2, <2>2, <2>3, RemoveThenInsertKeepsOthers
  <2> HIDE DEF new
  <2>5. \A j \in Shards : shards'[j] = IF j = i THEN new ELSE shards[j]
    <3> HIDE DEF i
    <3> QED BY <1>1, <2>1 DEF ShardsOK
  <2>6. OtherResultsStay(c)
    BY <1>2, <2>4, <2>5 DEF OtherResultsStay
  <2> QED BY <1>5, <2>1, <2>6
<1>6. CASE Set(c)
  <2> DEFINE New(pending) == IF pending THEN InsertWhilePending(s, k, entry)
                             ELSE IF k \in DOMAIN s.map THEN PutEntry(s, k, entry)
                             ELSE InsertNew(s, k, entry)
  <2>1. PICK pending \in {FALSE, MayRaise(c)} : shards' = [shards EXCEPT ![i] = New(pending)]
    BY <1>6 DEF Set
  <2>2. k \in Keys /\ loc[c].val \in Values
    BY <1>1, <1>6 DEF KeysKnown, Knows, Active, Set, InRegion
  <2>3. entry \in EntryType
    BY <1>1, <2>2 DEF NewEntry, EntryType
  <2>4. KeepsBut(s.map, New(pending).map, k)
    <3> HIDE DEF s, k, entry
    <3>1. KeepsBut(s.map, InsertWhilePending(s, k, entry).map, k)
      BY <1>2, <2>2, <2>3, InsertWhilePendingMap, PutKeepsOthers
    <3>2. KeepsBut(s.map, PutEntry(s, k, entry).map, k)
      BY <1>2, PutEntryMap, PutKeepsOthers
    <3>3. KeepsBut(s.map, InsertNew(s, k, entry).map, k)
      BY <1>2, <2>2, <2>3, InsertKeepsOthers
    <3> QED BY <3>1, <3>2, <3>3
  <2> DEFINE new == New(pending)
  <2>5. shards' = [shards EXCEPT ![i] = new] /\ KeepsBut(s.map, new.map, k)
    BY <2>1, <2>4
  <2> HIDE DEF new, New
  <2>6. \A j \in Shards : shards'[j] = IF j = i THEN new ELSE shards[j]
    <3> HIDE DEF i
    <3> QED BY <1>1, <2>5 DEF ShardsOK
  <2>7. OtherResultsStay(c)
    BY <1>2, <2>5, <2>6 DEF OtherResultsStay
  <2> QED BY <1>6, <2>7
<1>7. CASE ClearShard(c)
  <2>1. shards' = [shards EXCEPT ![i] = EmptyShard]
    BY <1>7 DEF ClearShard, Cleared
  <2>2. \A j \in Shards : shards'[j] = IF j = i THEN EmptyShard ELSE shards[j]
    <3> HIDE DEF i
    <3> QED BY <1>1, <2>1 DEF ShardsOK
  <2>3. EmptyShard.map = EmptyMap /\ DOMAIN EmptyMap = {}
    BY DEF EmptyShard, EmptyMap
  <2>4. \A m : Keeps(m, EmptyShard.map)
    BY <2>3 DEF Keeps
  <2> QED BY <1>0, <2>2, <2>4
<1>8. shards' = shards \/ ProbeHit(c) \/ Store(c) \/ Set(c) \/ ClearShard(c)
  BY DEF Start, Continue, ComputeRaises, Begin, CallBypassed, GetBypassed, SkipSetOrClear,
         Acquire, ProbeMiss, GetMiss, LookupRaises, ReturnBypassed, BeginStore, SkipStore,
         Return
<1> QED BY <1>3, <1>4, <1>5, <1>6, <1>7, <1>8

(* Only set changes the result of a live entry: a slower computation of    *)
(* the same key finds the faster one's result under the write lock, and    *)
(* keeps it (the second lookup of __call__).  For every build, with keys   *)
(* whose __eq__ raises as well.                                            *)
THEOREM FirstResult == Spec => FirstResultStays
<1>1. StoreInv /\ [Next]_vars => [ReplacesOnlyBySet]_vars
  <2> SUFFICES ASSUME StoreInv, Next PROVE ReplacesOnlyBySet
    OBVIOUS
  <2> SUFFICES ASSUME NEW i \in Shards,
                      NEW k \in DOMAIN shards[i].map \cap DOMAIN shards'[i].map,
                      Live(shards[i], k),
                      ~(/\ shards'[i].map[k].val = shards[i].map[k].val
                        /\ shards'[i].map[k].created = shards[i].map[k].created)
               PROVE  \E c \in Calls : loc[c].op = "set" /\ loc[c].key = k /\ pc'[c] # pc[c]
    BY DEF ReplacesOnlyBySet
  <2>1. ~Keeps(shards[i].map, shards'[i].map)
    BY DEF Keeps
  <2>2. ~Tick
    <3> SUFFICES ASSUME Tick PROVE FALSE
      OBVIOUS
    <3>1. shards' = shards
      BY DEF Tick
    <3> QED BY <3>1
  <2>3. PICK c \in Calls : Start(c) \/ Continue(c) \/ ComputeRaises(c)
    BY <2>2 DEF Next
  <2>4. ((Store(c) /\ NeedsInsert(c)) \/ Set(c)) /\ OtherResultsStay(c)
    BY <2>1, <2>3, StepsOnResults
  <2>5. i = loc[c].shard /\ k = loc[c].key
    <3>1. shards'[i] # shards[i]
      OBVIOUS
    <3>2. i = loc[c].shard /\ KeepsBut(shards[i].map, shards'[i].map, loc[c].key)
      BY <2>4, <3>1 DEF OtherResultsStay
    <3> QED BY <3>2 DEF KeepsBut
  <2>6. ~NeedsInsert(c)
    BY <2>5 DEF NeedsInsert, Mine
  <2>7. Set(c)
    BY <2>4, <2>6
  <2>8. pc[c] = "held" /\ loc[c].op = "set"
    BY <2>7 DEF Set, InRegion
  <2>9. pc'[c] = "returned"
    BY <2>7 DEF Set, Goto, StoreInv, IInv, Shape
  <2> QED BY <2>5, <2>8, <2>9
<1> QED BY <1>1, StoreInvariance, PTL DEF Spec, FirstResultStays

-------------------------------------------------------------------------------
(***************************************************************************)
(* The cache as a store (CacheContract), for a cache of one shard          *)
(***************************************************************************)

OneBoundedShard == ~Raising /\ MaxSize > 0 /\ n_shards = 1

(* What the entries of a map are worth to a caller.                        *)
Result(e) == [val |-> e.val, created |-> e.created]
Results(m) == [k \in DOMAIN m |-> Result(m[k])]

(* store with the result of k, and without some others.                    *)
Putting(store, gone, k, e) ==
    [x \in (DOMAIN store \ gone) \cup {k} |-> IF x = k THEN e ELSE store[x]]

(* With one shard every key belongs to it.                                 *)
LEMMA OneShardOnly ==
    ASSUME n_shards = 1
    PROVE  Shards = {0} /\ \A k \in Keys : shard_of(k) = 0
<1>1. Shards = {0}
  BY DEF Shards
<1> QED BY <1>1, ShardOfKey

(* Then the store of the contract is the map of that shard.                *)
LEMMA CachedResults ==
    ASSUME n_shards = 1, ShardsOK
    PROVE  Cached = Results(shards[0].map)
<1>1. Shards = {0} /\ \A k \in Keys : shard_of(k) = 0
  BY OneShardOnly
<1>2. DOMAIN shards[0].map \subseteq Keys
  <2>1. shards[0].map \in MapType
    BY <1>1 DEF ShardsOK, ShardType
  <2> QED BY <2>1, MapFacts
<1>3. UNION {DOMAIN shards[i].map : i \in Shards} = DOMAIN shards[0].map
  BY <1>1
<1> QED BY <1>1, <1>2, <1>3 DEF Cached, Results, Result

(* The same after a step.                                                  *)
LEMMA CachedResultsNext ==
    ASSUME n_shards = 1, ShardsOK'
    PROVE  Cached' = Results(shards'[0].map)
<1>1. Shards = {0} /\ \A k \in Keys : shard_of(k) = 0
  BY OneShardOnly
<1>2. DOMAIN shards'[0].map \subseteq Keys
  <2>1. shards'[0].map \in MapType
    BY <1>1 DEF ShardsOK, ShardType
  <2> QED BY <2>1, MapFacts
<1>3. UNION {DOMAIN shards'[i].map : i \in Shards} = DOMAIN shards'[0].map
  BY <1>1
<1> QED BY <1>1, <1>2, <1>3 DEF Cached, Results, Result

(* A visited bit is not part of the store.                                 *)
LEMMA SameResults ==
    ASSUME NEW old, NEW new, DOMAIN new = DOMAIN old, Keeps(old, new)
    PROVE  Results(new) = Results(old)
BY DEF Keeps, Results, Result

(* Who makes room for the entry of k.                                      *)
MakesRoom(m, k, gone) ==
    /\ gone \in SUBSET (DOMAIN m \ {k})
    /\ IF k \notin DOMAIN m /\ Cardinality(DOMAIN m) = per_shard
       THEN Cardinality(gone) = 1
       ELSE gone = {}

PutsEntry(old, new, k, entry, gone) ==
    /\ DOMAIN new = (DOMAIN old \ gone) \cup {k} /\ new[k] = entry
    /\ KeepsBut(old, new, k)

(* The store after the entry of k was put and others are gone.             *)
LEMMA PutResults ==
    ASSUME NEW old, NEW new, NEW k, NEW gone, NEW e, PutsEntry(old, new, k, e, gone)
    PROVE  Results(new) = Putting(Results(old), gone, k, Result(e))
<1>0. /\ DOMAIN new = (DOMAIN old \ gone) \cup {k} /\ new[k] = e
      /\ KeepsBut(old, new, k)
  BY DEF PutsEntry
<1>1. DOMAIN Results(new) = DOMAIN new /\ DOMAIN Results(old) = DOMAIN old
  BY DEF Results
<1>2. ASSUME NEW x \in DOMAIN new
      PROVE  Results(new)[x] = IF x = k THEN Result(e) ELSE Results(old)[x]
  <2>1. Results(new)[x] = Result(new[x])
    BY DEF Results
  <2>2. CASE x = k
    BY <1>0, <2>1, <2>2
  <2>3. CASE x # k
    <3>1. x \in DOMAIN old /\ new[x].val = old[x].val /\ new[x].created = old[x].created
      BY <1>0, <2>3 DEF KeepsBut
    <3>2. Results(old)[x] = Result(old[x])
      BY <3>1 DEF Results
    <3> QED BY <2>1, <2>3, <3>1, <3>2 DEF Result
  <2> QED BY <2>2, <2>3
<1>3. Results(new) = [x \in DOMAIN new |-> IF x = k THEN Result(e) ELSE Results(old)[x]]
  <2>1. Results(new) = [x \in DOMAIN new |-> Results(new)[x]]
    BY DEF Results
  <2> QED BY <1>2, <2>1
<1> QED BY <1>0, <1>1, <1>3 DEF Putting

(* An insert takes another entry exactly when the shard is full.           *)
LEMMA InsertPuts ==
    ASSUME NEW s, ShardInv(s), ~Raising, MaxSize > 0, NEW k \in Keys, k \notin DOMAIN s.map,
           NEW entry \in EntryType
    PROVE  \E gone : /\ MakesRoom(s.map, k, gone)
                     /\ PutsEntry(s.map, InsertNew(s, k, entry).map, k, entry, gone)
<1> DEFINE room == MakeRoom(s)
           new == InsertNew(s, k, entry).map
<1>1. s \in ShardType /\ Covered(s) /\ Size(s) <= per_shard
  BY DEF ShardInv
<1>2. Size(s) \in Nat /\ per_shard \in Nat /\ per_shard >= 1
  BY <1>1, SizeOfCovered, ShareOfMaxSize
<1>3. room = IF Full(s) THEN evict_one(s) ELSE s
  BY <1>1, OneEvictionMakesRoom
<1>4. new = MapWith(room.map, k, entry) /\ KeepsBut(s.map, new, k)
  BY <1>1, InsertNewMap, InsertKeepsOthers
<1> HIDE DEF room, new
<1>5. DOMAIN new = DOMAIN room.map \cup {k} /\ new[k] = entry
  BY <1>4 DEF MapWith
<1>6. CASE Full(s)
  <2>1. Size(s) = per_shard
    BY <1>1, <1>2, <1>6 DEF Full
  <2>2. DOMAIN s.map # {}
    <3>1. Size(s) # 0
      BY <1>2, <2>1
    <3> QED BY <3>1, FS_EmptySet DEF Size
  <2>3. OneIsGone(s, room)
    BY <1>1, <1>3, <1>6, <2>2, EvictOneFacts
  <2>4. PICK g \in DOMAIN s.map : DOMAIN room.map = DOMAIN s.map \ {g}
    BY <2>3 DEF OneIsGone
  <2>5. Cardinality({g}) = 1
    BY FS_Singleton
  <2>6. MakesRoom(s.map, k, {g})
    BY <2>1, <2>4, <2>5 DEF MakesRoom, Size
  <2>7. PutsEntry(s.map, new, k, entry, {g})
    BY <1>4, <1>5, <2>4 DEF PutsEntry
  <2> QED BY <2>6, <2>7 DEF new
<1>7. CASE ~Full(s)
  <2>1. Size(s) # per_shard
    BY <1>2, <1>7 DEF Full
  <2>2. MakesRoom(s.map, k, {})
    BY <2>1 DEF MakesRoom, Size
  <2>3. PutsEntry(s.map, new, k, entry, {})
    BY <1>3, <1>4, <1>5, <1>7 DEF PutsEntry
  <2> QED BY <2>2, <2>3 DEF new
<1> QED BY <1>6, <1>7

(* A replacement takes no other entry.                                     *)
LEMMA ReplacePuts ==
    ASSUME NEW m, NEW k \in DOMAIN m, NEW entry
    PROVE  MakesRoom(m, k, {}) /\ PutsEntry(m, MapWith(m, k, entry), k, entry, {})
<1>1. KeepsBut(m, MapWith(m, k, entry), k)
  BY PutKeepsOthers
<1>2. DOMAIN MapWith(m, k, entry) = DOMAIN m \cup {k} /\ MapWith(m, k, entry)[k] = entry
  BY DEF MapWith
<1> QED BY <1>1, <1>2 DEF MakesRoom, PutsEntry

(* Neither does the second region of __call__ for a key that has expired:  *)
(* the entry goes first, and leaves the room.                              *)
LEMMA StorePuts ==
    ASSUME NEW s, ShardInv(s), ~Raising, MaxSize > 0, NEW k \in Keys, NEW entry \in EntryType
    PROVE  \E gone : /\ MakesRoom(s.map, k, gone)
                     /\ PutsEntry(s.map, InsertNew(RemoveFromMap(s, k), k, entry).map,
                                  k, entry, gone)
<1> DEFINE u == RemoveFromMap(s, k)
           new == InsertNew(u, k, entry).map
<1>1. s \in ShardType /\ Covered(s) /\ Size(s) <= per_shard
  BY DEF ShardInv
<1>2. ShardInv(u)
  BY RemoveFromMapFacts
<1>3. u.map = Restrict(s.map, DOMAIN s.map \ {k})
  BY <1>1, RemoveFromMapMap
<1> HIDE DEF u
<1>4. DOMAIN u.map = DOMAIN s.map \ {k} /\ \A j \in DOMAIN u.map : u.map[j] = s.map[j]
  BY <1>3 DEF Restrict
<1>5. PICK gone : /\ MakesRoom(u.map, k, gone)
                  /\ PutsEntry(u.map, new, k, entry, gone)
  BY <1>2, <1>4, InsertPuts
<1> HIDE DEF new
<1>6. KeepsBut(s.map, new, k)
  BY <1>4, <1>5 DEF PutsEntry, KeepsBut
<1>7. CASE k \notin DOMAIN s.map
  <2>1. DOMAIN u.map = DOMAIN s.map
    BY <1>4, <1>7
  <2>2. MakesRoom(s.map, k, gone)
    BY <1>5, <2>1 DEF MakesRoom
  <2>3. PutsEntry(s.map, new, k, entry, gone)
    BY <1>5, <1>6, <2>1 DEF PutsEntry
  <2> QED BY <2>2, <2>3 DEF new, u
<1>8. CASE k \in DOMAIN s.map
  <2>1. IsFiniteSet(DOMAIN s.map) /\ Size(s) \in Nat /\ per_shard \in Nat
    BY <1>1, SizeOfCovered, ShareOfMaxSize
  <2>2. Cardinality(DOMAIN u.map) = Cardinality(DOMAIN s.map) - 1
    BY <1>4, <1>8, <2>1, FS_RemoveElement
  <2>3. Cardinality(DOMAIN u.map) # per_shard
    BY <1>1, <2>1, <2>2 DEF Size
  <2>4. gone = {}
    BY <1>5, <2>3 DEF MakesRoom
  <2>5. MakesRoom(s.map, k, {})
    BY <1>8 DEF MakesRoom
  <2>6. PutsEntry(s.map, new, k, entry, {})
    BY <1>4, <1>5, <1>6, <1>8, <2>4 DEF PutsEntry
  <2> QED BY <2>5, <2>6 DEF new, u
<1> QED BY <1>7, <1>8

(* The contract's instance has its own copy of Cardinality.                *)
LEMMA SameCardinality ==
    ASSUME NEW S
    PROVE  Contract!Cardinality(S) = Cardinality(S)
BY DEF Contract!Cardinality, Cardinality

(* Putting an entry is a put.                                              *)
LEMMA PutImplements ==
    ASSUME NEW c, NEW k, NEW v, NEW old, NEW new, NEW gone,
           MakesRoom(old, k, gone), PutsEntry(old, new, k, NewEntry(v, now), gone),
           Cached = Results(old), Cached' = Results(new), last' = <<c, k, v>>, now' = now
    PROVE  Contract!Put(c, k, v)
<1> DEFINE e == NewEntry(v, now)
<1>1. Result(e) = [val |-> v, created |-> now]
  BY DEF Result, NewEntry
<1> HIDE DEF e
<1>2. Results(new) = Putting(Results(old), gone, k, Result(e))
  BY PutResults DEF e
<1>3. Cached' = [x \in (DOMAIN Cached \ gone) \cup {k} |->
                    IF x = k THEN [val |-> v, created |-> now] ELSE Cached[x]]
  BY <1>1, <1>2 DEF Putting
<1>4. DOMAIN Cached = DOMAIN old
  BY DEF Results
<1>5. gone \in SUBSET (DOMAIN Cached \ {k})
  BY <1>4 DEF MakesRoom
<1>6. IF k \notin DOMAIN Cached /\ Contract!Cardinality(DOMAIN Cached) = per_shard
      THEN Contract!Cardinality(gone) = 1
      ELSE gone = {}
  BY <1>4, SameCardinality DEF MakesRoom
<1> QED BY <1>3, <1>5, <1>6 DEF Contract!Put

(* A hit is a get of a live entry.                                         *)
LEMMA HitImplements ==
    ASSUME OneBoundedShard, StoreInv, StoreInv', NEW c \in Calls, ProbeHit(c)
    PROVE  \E k \in Keys : Contract!Get(c, k)
<1> DEFINE k == loc[c].key
           i == loc[c].shard
           s == Mine(c)
<1>1. Shards = {0} /\ Cached = Results(shards[0].map) /\ Cached' = Results(shards'[0].map)
  BY OneShardOnly, CachedResults, CachedResultsNext DEF OneBoundedShard, StoreInv, DataOK
<1>2. i = 0 /\ s = shards[0]
  BY <1>1, MineFacts
<1>3. k \in Keys
  BY DEF StoreInv, KeysKnown, Knows, Active, ProbeHit, InRegion
<1>4. Live(s, k) /\ last' = <<c, k, s.map[k].val>> /\ now' = now
  BY DEF ProbeHit
<1>5. \A j \in Shards : Keeps(shards[j].map, shards'[j].map)
  <2>1. ~Store(c) /\ ~Set(c)
    BY DEF ProbeHit, Store, Set, InRegion
  <2>2. Continue(c)
    BY DEF Continue
  <2> QED BY <2>1, <2>2, StepsOnResults
<1>6. DOMAIN shards'[0].map = DOMAIN shards[0].map
  <2> DEFINE m == [shards[0].map EXCEPT ![k].visited = TRUE]
             new == [shards[0] EXCEPT !.map[k].visited = TRUE]
  <2>1. shards' = [shards EXCEPT ![0] = new]
    BY <1>2 DEF ProbeHit
  <2>2. shards \in [Shards -> ShardType]
    BY DEF StoreInv, DataOK, ShardsOK
  <2>3. new = [shards[0] EXCEPT !.map = m]
    OBVIOUS
  <2>4. DOMAIN m = DOMAIN shards[0].map
    OBVIOUS
  <2> HIDE DEF m
  <2>5. new.map = m
    <3>1. shards[0] \in [map : MapType, order : Seq(Keys), hand : Nat]
      BY <1>1, <2>2 DEF ShardType
    <3> HIDE DEF new
    <3> QED BY <2>3, <3>1
  <2> HIDE DEF new
  <2>6. shards'[0] = new
    BY <1>1, <2>1, <2>2
  <2> QED BY <2>4, <2>5, <2>6
<1>7. Cached' = Cached
  BY <1>1, <1>5, <1>6, SameResults
<1> HIDE DEF k, s
<1>8. k \in DOMAIN s.map /\ (Ttl > 0 => now - s.map[k].created <= Ttl)
  BY <1>4 DEF Live
<1>9. /\ k \in DOMAIN Cached /\ Cached[k].val = s.map[k].val
      /\ Cached[k].created = s.map[k].created
  BY <1>1, <1>2, <1>8 DEF Results, Result
<1>10. Contract!Live(k)
  BY <1>8, <1>9 DEF Contract!Live
<1>11. Contract!Get(c, k)
  BY <1>4, <1>7, <1>9, <1>10 DEF Contract!Get
<1> QED BY <1>3, <1>11

(* The write of a call that has computed, and that of set.                 *)
LEMMA WriteImplements ==
    ASSUME OneBoundedShard, StoreInv, StoreInv', NEW c \in Calls,
           (Store(c) /\ NeedsInsert(c)) \/ Set(c)
    PROVE  \E k \in Keys, v \in Values : Contract!Put(c, k, v)
<1> DEFINE k == loc[c].key
           v == loc[c].val
           i == loc[c].shard
           s == Mine(c)
           entry == NewEntry(v, now)
<1>1. /\ Shards = {0} /\ Cached = Results(shards[0].map) /\ Cached' = Results(shards'[0].map)
      /\ shards \in [Shards -> ShardType]
  BY OneShardOnly, CachedResults, CachedResultsNext
     DEF OneBoundedShard, StoreInv, DataOK, ShardsOK
<1>2. i = 0 /\ s = shards[0] /\ ShardInv(s) /\ s \in ShardType
  BY <1>1, MineFacts DEF ShardInv
<1>3. k \in Keys /\ v \in Values /\ now \in Nat
  BY DEF StoreInv, DataOK, KeysKnown, Knows, Active, Store, Set, InRegion
<1>4. last' = <<c, k, v>> /\ now' = now
  BY DEF Store, Set
<1>5. entry \in EntryType
  BY <1>3 DEF NewEntry, EntryType
<1>6. ~Raising /\ MaxSize > 0
  BY DEF OneBoundedShard
<1>7. CASE Store(c) /\ NeedsInsert(c)
  <2> DEFINE new == InsertNew(RemoveFromMap(s, k), k, entry)
  <2>1. shards' = [shards EXCEPT ![0] = new]
    BY <1>2, <1>7 DEF Store
  <2>2. \E gone : MakesRoom(s.map, k, gone) /\ PutsEntry(s.map, new.map, k, entry, gone)
    <3> HIDE DEF s, k, entry
    <3> QED BY <1>2, <1>3, <1>5, <1>6, StorePuts
  <2> HIDE DEF new
  <2>3. shards'[0] = new
    BY <1>1, <2>1
  <2>4. Contract!Put(c, k, v)
    <3> HIDE DEF s, k, v
    <3> QED BY <1>1, <1>2, <1>4, <2>2, <2>3, PutImplements
  <2> QED BY <1>3, <2>4
<1>8. CASE Set(c)
  <2> DEFINE new == IF k \in DOMAIN s.map THEN PutEntry(s, k, entry) ELSE InsertNew(s, k, entry)
  <2>1. shards' = [shards EXCEPT ![0] = new]
    BY <1>2, <1>6, <1>8 DEF Set, MayRaise
  <2>2. \E gone : MakesRoom(s.map, k, gone) /\ PutsEntry(s.map, new.map, k, entry, gone)
    <3> HIDE DEF s, k, entry
    <3>1. CASE k \in DOMAIN s.map
      BY <1>2, <3>1, PutEntryMap, ReplacePuts
    <3>2. CASE k \notin DOMAIN s.map
      BY <1>2, <1>3, <1>5, <1>6, <3>2, InsertPuts
    <3> QED BY <3>1, <3>2
  <2> HIDE DEF new
  <2>3. shards'[0] = new
    BY <1>1, <2>1
  <2>4. Contract!Put(c, k, v)
    <3> HIDE DEF s, k, v
    <3> QED BY <1>1, <1>2, <1>4, <2>2, <2>3, PutImplements
  <2> QED BY <1>3, <2>4
<1> QED BY <1>7, <1>8

(* A cache of one shard keeps the contract of a bounded cache with a time  *)
(* to live, if no __eq__ raises: an answer is the last value stored under  *)
(* the key, and not expired; and a store takes another key's entry only    *)
(* when the shard is full, and then one.                                   *)
THEOREM Refinement == OneBoundedShard => (Spec => ImplementsContract)
<1> SUFFICES ASSUME OneBoundedShard PROVE Spec => ImplementsContract
  OBVIOUS
<1>0. n_shards = 1
  BY DEF OneBoundedShard
<1>1. Init => Contract!Init
  <2> SUFFICES ASSUME Init PROVE Contract!Init
    OBVIOUS
  <2>1. Shards = {0}
    BY <1>0, OneShardOnly
  <2>2. DOMAIN EmptyMap = {} /\ EmptyShard.map = EmptyMap
    BY DEF EmptyMap, EmptyShard
  <2>3. UNION {DOMAIN shards[i].map : i \in Shards} = {}
    BY <2>1, <2>2 DEF Init
  <2>4. Cached = [k \in {} |-> 0]
    BY <2>3 DEF Cached
  <2> QED BY <2>4 DEF Init, Contract!Init
<1>2. StoreInv /\ StoreInv' /\ [Next]_vars => [Contract!Next]_<<Cached, last, now>>
  <2> SUFFICES ASSUME StoreInv, StoreInv', [Next]_vars
               PROVE  Contract!Next \/ UNCHANGED <<Cached, last, now>>
    OBVIOUS
  <2>0. ASSUME shards' = shards PROVE Cached' = Cached
    BY <2>0 DEF Cached
  <2>1. ASSUME NEW c \in Calls, NEW k \in Keys, shards' = shards, now' = now,
               last' = <<c, k, Miss>>
        PROVE  Contract!Next
    BY <2>0, <2>1 DEF Contract!Next, Contract!Bypass
  <2>2. ASSUME NEW c \in Calls, Start(c)
        PROVE  Contract!Next \/ UNCHANGED <<Cached, last, now>>
    <3>1. ASSUME NEW k \in Keys, GetBypassed(c, k) PROVE Contract!Next
      BY <2>1, <3>1 DEF GetBypassed
    <3>2. CASE UNCHANGED <<shards, last, now>>
      BY <2>0, <3>2
    <3>3. UNCHANGED <<shards, last, now>> \/ \E k \in Keys : GetBypassed(c, k)
      BY <2>2 DEF Start, Begin, CallBypassed, SkipSetOrClear
    <3> QED BY <3>1, <3>2, <3>3
  <2>3. ASSUME NEW c \in Calls, Continue(c) \/ ComputeRaises(c)
        PROVE  Contract!Next \/ UNCHANGED <<Cached, last, now>>
    <3>1. CASE ProbeHit(c)
      BY <3>1, HitImplements DEF Contract!Next
    <3>2. CASE ProbeMiss(c) \/ GetMiss(c)
      <4>1. loc[c].key \in Keys
        BY <3>2 DEF StoreInv, KeysKnown, Knows, Active, ProbeMiss, GetMiss, InRegion
      <4>2. shards' = shards /\ now' = now /\ last' = <<c, loc[c].key, Miss>>
        BY <3>2 DEF ProbeMiss, GetMiss
      <4> QED BY <2>1, <4>1, <4>2
    <3>3. CASE (Store(c) /\ NeedsInsert(c)) \/ Set(c)
      BY <3>3, WriteImplements DEF Contract!Next
    <3>4. CASE ClearShard(c)
      <4>1. Shards = {0} /\ loc[c].shard \in Shards /\ shards \in [Shards -> ShardType]
        BY <1>0, OneShardOnly, MineFacts DEF StoreInv, DataOK, ShardsOK
      <4>2. shards'[0] = EmptyShard /\ last' = last /\ now' = now
        BY <3>4, <4>1 DEF ClearShard, Cleared
      <4>3. DOMAIN EmptyMap = {} /\ EmptyShard.map = EmptyMap
        BY DEF EmptyMap, EmptyShard
      <4>4. Cached' = Results(EmptyMap)
        BY <1>0, <4>2, <4>3, CachedResultsNext DEF StoreInv, DataOK
      <4>5. Results(EmptyMap) = [k \in {} |-> 0]
        BY <4>3 DEF Results
      <4> QED BY <4>2, <4>4, <4>5 DEF Contract!Next, Contract!Clear
    <3>5. CASE UNCHANGED <<shards, last, now>>
      BY <2>0, <3>5
    <3>6. \/ ProbeHit(c) \/ ProbeMiss(c) \/ GetMiss(c) \/ (Store(c) /\ NeedsInsert(c)) \/ Set(c)
          \/ ClearShard(c) \/ UNCHANGED <<shards, last, now>>
      BY <2>3 DEF Continue, ComputeRaises, Acquire, LookupRaises, ReturnBypassed, BeginStore,
                  SkipStore, Store, Return
    <3> QED BY <3>1, <3>2, <3>3, <3>4, <3>5, <3>6
  <2>4. CASE Tick
    BY <2>0, <2>4 DEF Tick, Contract!Next, Contract!Tick
  <2>5. CASE UNCHANGED vars
    BY <2>0, <2>5 DEF vars
  <2> QED BY <2>2, <2>3, <2>4, <2>5 DEF Next
<1> QED BY <1>1, <1>2, StoreInvariance, PTL
        DEF Spec, ImplementsContract, Contract!Spec, Contract!vars

-------------------------------------------------------------------------------
(***************************************************************************)
(* SIEVE takes unvisited entries first                                     *)
(***************************************************************************)

At(s) == Wrap(s.hand, s.order)
KeyAt(s) == s.order[At(s) + 1]

(* One iteration, at the hand.                                             *)
DropsHere(s, r) ==
    /\ KeyAt(s) \notin DOMAIN s.map
    /\ r.map = s.map /\ r.order = RemoveAt(s.order, At(s) + 1) /\ r.hand = Wrap(At(s), r.order)
    /\ ~r.evicted

SparesHere(s, r) ==
    /\ KeyAt(s) \in DOMAIN s.map /\ s.map[KeyAt(s)].visited
    /\ r.order = s.order /\ r.hand = At(s) + 1 /\ ~r.evicted
    /\ DOMAIN r.map = DOMAIN s.map
    /\ \A j \in DOMAIN s.map : j # KeyAt(s) => r.map[j].visited = s.map[j].visited

EvictsHere(s, r) ==
    /\ KeyAt(s) \in DOMAIN s.map /\ ~s.map[KeyAt(s)].visited
    /\ r.evicted
    /\ DOMAIN r.map = DOMAIN s.map \ {KeyAt(s)}

(* One iteration stops, or drops, spares or evicts the key at the hand.    *)
LEMMA StepAtTheHand ==
    ASSUME NEW s \in LoopType, NEW limit \in Nat
    PROVE  LET r == EvictStep(s, limit)
           IN \/ Stopped(s, limit, r)
              \/ ~s.evicted /\ s.order # <<>> /\ (DropsHere(s, r) \/ SparesHere(s, r) \/ EvictsHere(s, r))
<1> DEFINE at == Wrap(s.hand, s.order)
           k == s.order[at + 1]
           r == EvictStep(s, limit)
<1>0. /\ s \in [map : MapType, order : Seq(Keys), hand : Nat, scanned : Nat, evicted : BOOLEAN]
      /\ at = At(s) /\ k = KeyAt(s)
  BY DEF LoopType, At, KeyAt
<1>1. CASE s.evicted \/ s.scanned > limit \/ s.order = <<>>
  BY <1>1 DEF EvictStep, Stopped
<1>2. CASE ~(s.evicted \/ s.scanned > limit \/ s.order = <<>>) /\ k \notin DOMAIN s.map
  <2> DEFINE q == RemoveAt(s.order, at + 1)
             h == Wrap(at, q)
  <2>1. r = [s EXCEPT !.order = q, !.hand = h]
    BY <1>2 DEF EvictStep, DropStale
  <2> HIDE DEF q, h, r, at
  <2>2. r.map = s.map /\ r.order = q /\ r.hand = h /\ r.evicted = s.evicted
    BY <1>0, <2>1
  <2>3. DropsHere(s, r)
    BY <1>0, <1>2, <2>2 DEF DropsHere, q, h
  <2> QED BY <1>2, <2>3 DEF r
<1>3. CASE /\ ~(s.evicted \/ s.scanned > limit \/ s.order = <<>>)
           /\ k \in DOMAIN s.map /\ s.map[k].visited
  <2> DEFINE m == [s.map EXCEPT ![k].visited = FALSE]
             h == at + 1
             n == s.scanned + 1
  <2>1. r = [s EXCEPT !.map = m, !.hand = h, !.scanned = n]
    BY <1>3 DEF EvictStep, SecondChance
  <2>2. DOMAIN m = DOMAIN s.map /\ \A j \in DOMAIN s.map : j # k => m[j] = s.map[j]
    <3> HIDE DEF k
    <3> QED BY <1>3
  <2> HIDE DEF m, h, n, r, k
  <2>3. r.map = m /\ r.order = s.order /\ r.hand = h /\ r.evicted = s.evicted
    BY <1>0, <2>1
  <2>4. SparesHere(s, r)
    BY <1>0, <1>3, <2>2, <2>3 DEF SparesHere, h
  <2> QED BY <1>3, <2>4 DEF r
<1>4. CASE /\ ~(s.evicted \/ s.scanned > limit \/ s.order = <<>>)
           /\ k \in DOMAIN s.map /\ ~s.map[k].visited
  <2> DEFINE d == DropStale(s, at)
             m == Restrict(d.map, DOMAIN d.map \ {k})
  <2>1. r = [d EXCEPT !.map = m, !.evicted = TRUE]
    BY <1>4 DEF EvictStep, Evict
  <2>2. d \in LoopType /\ d.map = s.map
    BY <1>4, DropStaleFacts
  <2> HIDE DEF d
  <2>3. DOMAIN m = DOMAIN s.map \ {k}
    <3> HIDE DEF k
    <3> QED BY <2>2 DEF Restrict
  <2> HIDE DEF m, r, k
  <2>4. d \in [map : MapType, order : Seq(Keys), hand : Nat, scanned : Nat, evicted : BOOLEAN]
    BY <2>2 DEF LoopType
  <2>5. r.map = m /\ r.evicted
    BY <2>1, <2>4
  <2>6. EvictsHere(s, r)
    BY <1>0, <1>4, <2>3, <2>5 DEF EvictsHere
  <2> QED BY <1>4, <2>6 DEF r
<1> HIDE DEF r, k
<1> QED BY <1>1, <1>2, <1>3, <1>4

(* The hand set out at position b; position p (from 1) is behind it.  It   *)
(* has turned at the end of order, or not yet.                             *)
Behind(turned, b, hand, p) ==
    IF turned THEN p <= hand \/ p > b ELSE b < p /\ p <= hand

AllVisited(map) == \A k \in DOMAIN map : map[k].visited

(* Every entry behind the hand was visited when the scan began, and the    *)
(* bits of the others are as they were.                                    *)
Progress(map, s, turned, b) ==
    /\ b \in 0 .. Len(s.order)
    /\ IF turned THEN s.hand <= b ELSE b <= s.hand
    /\ \A p \in 1 .. Len(s.order) :
          s.order[p] \in DOMAIN map =>
              IF Behind(turned, b, s.hand, p)
              THEN map[s.order[p]].visited
              ELSE s.map[s.order[p]].visited = map[s.order[p]].visited

TakesFairly(old, new) ==
    \A k \in DOMAIN old \ DOMAIN new : old[k].visited => AllVisited(old)

SieveInv(map, s) ==
    IF s.evicted THEN TakesFairly(map, s.map)
    ELSE /\ DOMAIN s.map = DOMAIN map
         /\ Covered(s)
         /\ IsInjective(s.order)
         /\ AllVisited(map) \/ \E turned \in BOOLEAN, b \in Nat : Progress(map, s, turned, b)

(* The hand meets a position that is behind it only after a full turn.     *)
LEMMA FullTurn ==
    ASSUME NEW n \in Nat \ {0}, NEW hand \in 0 .. n, NEW b \in 0 .. n, NEW turned \in BOOLEAN,
           IF turned THEN hand <= b ELSE b <= hand,
           Behind(turned, b, hand, (IF hand >= n THEN 0 ELSE hand) + 1)
    PROVE  \A p \in 1 .. n : Behind(turned, b, hand, p)
BY DEF Behind

(* If the hand meets what is behind it, every entry was visited.           *)
LEMMA BehindEverything ==
    ASSUME NEW map, NEW s \in LoopType, s.order # <<>>, DOMAIN s.map = DOMAIN map, Covered(s),
           NEW turned \in BOOLEAN, NEW b \in Nat, Progress(map, s, turned, b),
           Behind(turned, b, s.hand, At(s) + 1)
    PROVE  AllVisited(map)
<1> DEFINE n == Len(s.order)
<1>1. s.order \in Seq(Keys) /\ s.hand \in Nat /\ s.hand <= n
  BY DEF LoopType
<1>2. n \in Nat \ {0}
  BY <1>1
<1>3. At(s) = IF s.hand >= n THEN 0 ELSE s.hand
  BY DEF At, Wrap
<1>4. b \in 0 .. n /\ (IF turned THEN s.hand <= b ELSE b <= s.hand)
  BY DEF Progress
<1>5. \A p \in 1 .. n : Behind(turned, b, s.hand, p)
  <2> HIDE DEF n
  <2>1. s.hand \in 0 .. n
    BY <1>1, <1>2
  <2> QED BY <1>2, <1>3, <1>4, <2>1, FullTurn
<1>6. ASSUME NEW k \in DOMAIN map PROVE map[k].visited
  <2>1. k \in ToSet(s.order)
    BY DEF Covered
  <2>2. PICK p \in 1 .. n : s.order[p] = k
    BY <1>1, <2>1 DEF ToSet
  <2> QED BY <1>5, <2>2 DEF Progress
<1> QED BY <1>6 DEF AllVisited

Sided(turned, b, hand) == IF turned THEN hand <= b ELSE b <= hand

(* The number of position p before the position at + 1 left order.         *)
Before(at, p) == IF p < at + 1 THEN p ELSE p + 1

BehindDropped(n, turned, b, hand, at, t, d, h) ==
    /\ Sided(t, d, h)
    /\ \A p \in 1 .. n - 1 : Behind(t, d, h, p) <=> Behind(turned, b, hand, Before(at, p))

BehindSpared(n, turned, b, hand, at, t) ==
    /\ Sided(t, b, at + 1)
    /\ \A p \in 1 .. n :
          Behind(t, b, at + 1, p) <=> (Behind(turned, b, hand, p) \/ p = at + 1)

(* What is behind the hand when the position it is at leaves order: the    *)
(* same positions, renumbered.                                             *)
LEMMA BehindAfterDrop ==
    ASSUME NEW n \in Nat \ {0}, NEW hand \in 0 .. n, NEW b \in 0 .. n, NEW turned \in BOOLEAN,
           NEW at, at = IF hand >= n THEN 0 ELSE hand,
           NEW h, h = IF at >= n - 1 THEN 0 ELSE at,
           Sided(turned, b, hand), ~Behind(turned, b, hand, at + 1)
    PROVE  \E t \in BOOLEAN, d \in 0 .. n - 1 : BehindDropped(n, turned, b, hand, at, t, d, h)
<1> DEFINE Good(t, d) == BehindDropped(n, turned, b, hand, at, t, d, h)
<1>1. CASE ~turned /\ hand < n - 1
  <2>1. b \in 0 .. n - 1 /\ Good(FALSE, b)
    BY <1>1 DEF Behind, Sided, Before, BehindDropped
  <2> QED BY <2>1
<1>2. CASE ~turned /\ hand = n - 1
  <2>1. b \in 0 .. n - 1 /\ Good(TRUE, b)
    BY <1>2 DEF Behind, Sided, Before, BehindDropped
  <2> QED BY <2>1
<1>3. CASE ~turned /\ hand = n
  <2>1. b - 1 \in 0 .. n - 1 /\ Good(TRUE, b - 1)
    BY <1>3 DEF Behind, Sided, Before, BehindDropped
  <2> QED BY <2>1
<1>4. CASE turned /\ hand < n - 1
  <2>1. b - 1 \in 0 .. n - 1 /\ Good(TRUE, b - 1)
    BY <1>4 DEF Behind, Sided, Before, BehindDropped
  <2> QED BY <2>1
<1>5. CASE turned /\ hand = n - 1
  <2>1. 0 \in 0 .. n - 1 /\ Good(TRUE, 0)
    BY <1>5 DEF Behind, Sided, Before, BehindDropped
  <2> QED BY <2>1
<1>6. ~(turned /\ hand = n)
  BY DEF Behind, Sided, Before, BehindDropped
<1> QED BY <1>1, <1>2, <1>3, <1>4, <1>5, <1>6

(* And when the hand moves past it: that position too.                     *)
LEMMA BehindAfterSpare ==
    ASSUME NEW n \in Nat \ {0}, NEW hand \in 0 .. n, NEW b \in 0 .. n, NEW turned \in BOOLEAN,
           NEW at, at = IF hand >= n THEN 0 ELSE hand,
           Sided(turned, b, hand), ~Behind(turned, b, hand, at + 1)
    PROVE  \E t \in BOOLEAN : BehindSpared(n, turned, b, hand, at, t)
<1> DEFINE Good(t) == BehindSpared(n, turned, b, hand, at, t)
<1>1. CASE ~turned /\ hand < n
  <2>1. Good(FALSE)
    BY <1>1 DEF Behind, Sided, BehindSpared
  <2> QED BY <2>1
<1>2. CASE ~turned /\ hand = n
  <2>1. Good(TRUE)
    BY <1>2 DEF Behind, Sided, BehindSpared
  <2> QED BY <2>1
<1>3. CASE turned /\ hand < n
  <2>1. Good(TRUE)
    BY <1>3 DEF Behind, Sided, BehindSpared
  <2> QED BY <2>1
<1>4. ~(turned /\ hand = n)
  BY DEF Behind, Sided, BehindSpared
<1> QED BY <1>1, <1>2, <1>3, <1>4

(* order without the key at a position still has no repetitions.           *)
LEMMA RemovedInjective ==
    ASSUME NEW S, NEW q \in Seq(S), NEW i \in 1 .. Len(q), IsInjective(q)
    PROVE  IsInjective(RemoveAt(q, i))
<1> DEFINE r == RemoveAt(q, i)
           n == Len(q)
<1>1. /\ r \in Seq(S) /\ Len(r) = n - 1
      /\ \A j \in 1 .. n - 1 : r[j] = IF j < i THEN q[j] ELSE q[j + 1]
  BY RemovedElements
<1>2. n \in Nat /\ DOMAIN q = 1 .. n
  OBVIOUS
<1> HIDE DEF r, n
<1>3. DOMAIN r = 1 .. n - 1
  BY <1>1
<1>4. i \in 1 .. n /\ \A a, b \in 1 .. n : q[a] = q[b] => a = b
  BY <1>2 DEF IsInjective, n
<1>5. ASSUME NEW a \in 1 .. n - 1, NEW b \in 1 .. n - 1, r[a] = r[b] PROVE a = b
  <2> DEFINE x == IF a < i THEN a ELSE a + 1
             y == IF b < i THEN b ELSE b + 1
  <2>1. x \in 1 .. n /\ y \in 1 .. n /\ r[a] = q[x] /\ r[b] = q[y]
    BY <1>1, <1>2, <1>4
  <2>2. x = y
    <3> HIDE DEF x, y
    <3> QED BY <1>4, <1>5, <2>1
  <2> QED BY <1>2, <1>4, <2>2
<1>6. IsInjective(r)
  BY <1>3, <1>5 DEF IsInjective
<1> QED BY <1>6 DEF r

(* Positions and the hand, as numbers.                                     *)
LEMMA HandNumbers ==
    ASSUME NEW map, NEW s \in LoopType, s.order # <<>>,
           NEW turned \in BOOLEAN, NEW b \in Nat, Progress(map, s, turned, b)
    PROVE  /\ s.order \in Seq(Keys)
           /\ Len(s.order) \in Nat \ {0}
           /\ s.hand \in 0 .. Len(s.order) /\ b \in 0 .. Len(s.order)
           /\ At(s) = IF s.hand >= Len(s.order) THEN 0 ELSE s.hand
           /\ At(s) + 1 \in 1 .. Len(s.order)
           /\ Sided(turned, b, s.hand)
<1>1. s.order \in Seq(Keys) /\ s.hand \in Nat /\ s.hand <= Len(s.order)
  BY DEF LoopType
<1>2. Len(s.order) \in Nat \ {0}
  BY <1>1
<1>3. At(s) = IF s.hand >= Len(s.order) THEN 0 ELSE s.hand
  BY DEF At, Wrap
<1>4. At(s) + 1 \in 1 .. Len(s.order) /\ s.hand \in 0 .. Len(s.order)
  BY <1>1, <1>2, <1>3
<1>5. b \in 0 .. Len(s.order) /\ Sided(turned, b, s.hand)
  BY DEF Progress, Sided
<1> QED BY <1>1, <1>2, <1>3, <1>4, <1>5

(* A stale key leaves order.                                               *)
LEMMA SieveDrop ==
    ASSUME NEW map, NEW s \in LoopType, s.order # <<>>, NEW r, DropsHere(s, r),
           NEW turned \in BOOLEAN, NEW b \in Nat, Progress(map, s, turned, b),
           ~Behind(turned, b, s.hand, At(s) + 1)
    PROVE  \E t \in BOOLEAN, d \in Nat : Progress(map, r, t, d)
<1> DEFINE n == Len(s.order)
           at == At(s)
<1>1. /\ s.order \in Seq(Keys) /\ n \in Nat \ {0} /\ s.hand \in 0 .. n /\ b \in 0 .. n
      /\ at = (IF s.hand >= n THEN 0 ELSE s.hand) /\ at + 1 \in 1 .. n
      /\ Sided(turned, b, s.hand)
  BY HandNumbers
<1>2. r.map = s.map /\ r.order = RemoveAt(s.order, at + 1) /\ r.hand = Wrap(at, r.order)
  BY DEF DropsHere
<1>3. /\ Len(r.order) = n - 1
      /\ \A p \in 1 .. n - 1 : r.order[p] = s.order[Before(at, p)]
  BY <1>1, <1>2, RemovedElements DEF Before
<1>4. r.hand = IF at >= n - 1 THEN 0 ELSE at
  BY <1>2, <1>3 DEF Wrap
<1>5. ~Behind(turned, b, s.hand, at + 1)
  OBVIOUS
<1>6. \A p \in 1 .. n - 1 : Before(at, p) \in 1 .. n
  BY <1>1 DEF Before
<1>7. \A p \in 1 .. n :
         s.order[p] \in DOMAIN map =>
             IF Behind(turned, b, s.hand, p) THEN map[s.order[p]].visited
             ELSE s.map[s.order[p]].visited = map[s.order[p]].visited
  BY DEF Progress
<1> HIDE DEF n, at
<1>8. PICK t \in BOOLEAN, d \in 0 .. n - 1 :
         BehindDropped(n, turned, b, s.hand, at, t, d, r.hand)
  BY <1>1, <1>4, <1>5, BehindAfterDrop
<1>9. \A p \in 1 .. n - 1 :
         r.order[p] \in DOMAIN map =>
             IF Behind(t, d, r.hand, p) THEN map[r.order[p]].visited
             ELSE r.map[r.order[p]].visited = map[r.order[p]].visited
  BY <1>2, <1>3, <1>6, <1>7, <1>8 DEF BehindDropped
<1>10. Progress(map, r, t, d)
  BY <1>3, <1>8, <1>9 DEF Progress, Sided, BehindDropped
<1>11. d \in Nat
  BY <1>1, <1>8
<1> QED BY <1>10, <1>11

(* A visited entry gets its second chance.                                 *)
LEMMA SieveSpare ==
    ASSUME NEW map, NEW s \in LoopType, s.order # <<>>, NEW r, SparesHere(s, r),
           DOMAIN s.map = DOMAIN map, IsInjective(s.order),
           NEW turned \in BOOLEAN, NEW b \in Nat, Progress(map, s, turned, b),
           ~Behind(turned, b, s.hand, At(s) + 1)
    PROVE  \E t \in BOOLEAN : Progress(map, r, t, b)
<1> DEFINE n == Len(s.order)
           at == At(s)
<1>1. /\ s.order \in Seq(Keys) /\ n \in Nat \ {0} /\ s.hand \in 0 .. n /\ b \in 0 .. n
      /\ at = (IF s.hand >= n THEN 0 ELSE s.hand) /\ at + 1 \in 1 .. n
      /\ Sided(turned, b, s.hand)
  BY HandNumbers
<1>2. /\ s.order[at + 1] \in DOMAIN s.map /\ s.map[s.order[at + 1]].visited
      /\ r.order = s.order /\ r.hand = at + 1
      /\ \A j \in DOMAIN s.map : j # s.order[at + 1] => r.map[j].visited = s.map[j].visited
  BY DEF SparesHere, KeyAt
<1>3. \A p \in 1 .. n : s.order[p] = s.order[at + 1] => p = at + 1
  BY <1>1 DEF IsInjective
<1>4. ~Behind(turned, b, s.hand, at + 1)
  OBVIOUS
<1>5. \A p \in 1 .. n :
         s.order[p] \in DOMAIN map =>
             IF Behind(turned, b, s.hand, p) THEN map[s.order[p]].visited
             ELSE s.map[s.order[p]].visited = map[s.order[p]].visited
  BY DEF Progress
<1> HIDE DEF n, at
<1>6. PICK t \in BOOLEAN : BehindSpared(n, turned, b, s.hand, at, t)
  BY <1>1, <1>4, BehindAfterSpare
<1>7. ASSUME NEW p \in 1 .. n, r.order[p] \in DOMAIN map
      PROVE  IF Behind(t, b, r.hand, p) THEN map[r.order[p]].visited
             ELSE r.map[r.order[p]].visited = map[r.order[p]].visited
  <2>1. CASE p = at + 1
    BY <1>2, <1>4, <1>5, <1>6, <1>7, <2>1 DEF BehindSpared
  <2>2. CASE p # at + 1
    BY <1>2, <1>3, <1>5, <1>6, <1>7, <2>2 DEF BehindSpared
  <2> QED BY <2>1, <2>2
<1>8. Progress(map, r, t, b)
  BY <1>1, <1>2, <1>6, <1>7 DEF Progress, Sided, BehindSpared, n
<1> QED BY <1>8

(* SieveInv is the invariant of the loop.                                  *)
LEMMA SieveContinues ==
    ASSUME NEW map, NEW s \in LoopType, NEW limit \in Nat, SieveInv(map, s)
    PROVE  SieveInv(map, EvictStep(s, limit))
<1> DEFINE r == EvictStep(s, limit)
<1>1. \/ Stopped(s, limit, r)
      \/ ~s.evicted /\ s.order # <<>> /\ (DropsHere(s, r) \/ SparesHere(s, r) \/ EvictsHere(s, r))
  BY StepAtTheHand
<1>2. Covered(s) => Covered(r)
  BY IterationKeeps
<1> HIDE DEF r
<1>3. CASE Stopped(s, limit, r)
  BY <1>3 DEF Stopped, r
<1>4. CASE /\ ~s.evicted /\ s.order # <<>>
           /\ DropsHere(s, r) \/ SparesHere(s, r) \/ EvictsHere(s, r)
  <2>1. /\ DOMAIN s.map = DOMAIN map /\ Covered(s) /\ IsInjective(s.order)
        /\ AllVisited(map) \/ \E turned \in BOOLEAN, b \in Nat : Progress(map, s, turned, b)
    BY <1>4 DEF SieveInv
  <2>2. s.order \in Seq(Keys) /\ At(s) + 1 \in 1 .. Len(s.order)
    BY <1>4, HandPosition DEF At, LoopType
  <2>3. CASE DropsHere(s, r)
    <3>1. /\ ~r.evicted /\ DOMAIN r.map = DOMAIN map /\ r.order = RemoveAt(s.order, At(s) + 1)
      BY <2>1, <2>3 DEF DropsHere
    <3>2. IsInjective(r.order)
      BY <2>1, <2>2, <3>1, RemovedInjective
    <3>3. AllVisited(map) \/ \E t \in BOOLEAN, d \in Nat : Progress(map, r, t, d)
      BY <1>4, <2>1, <2>3, BehindEverything, SieveDrop
    <3>4. SieveInv(map, r)
      BY <1>2, <2>1, <3>1, <3>2, <3>3 DEF SieveInv
    <3> QED BY <3>4 DEF r
  <2>4. CASE SparesHere(s, r)
    <3>1. ~r.evicted /\ DOMAIN r.map = DOMAIN map /\ r.order = s.order
      BY <2>1, <2>4 DEF SparesHere
    <3>2. AllVisited(map) \/ \E t \in BOOLEAN, d \in Nat : Progress(map, r, t, d)
      BY <1>4, <2>1, <2>4, BehindEverything, SieveSpare
    <3>3. SieveInv(map, r)
      BY <1>2, <2>1, <3>1, <3>2 DEF SieveInv
    <3> QED BY <3>3 DEF r
  <2>5. CASE EvictsHere(s, r)
    <3>1. /\ KeyAt(s) \in DOMAIN map /\ ~s.map[KeyAt(s)].visited
          /\ r.evicted /\ DOMAIN r.map = DOMAIN map \ {KeyAt(s)}
      BY <2>1, <2>5 DEF EvictsHere
    <3>2. AllVisited(map) \/ ~map[KeyAt(s)].visited
      <4> SUFFICES ASSUME ~AllVisited(map) PROVE ~map[KeyAt(s)].visited
        OBVIOUS
      <4>1. PICK turned \in BOOLEAN, b \in Nat : Progress(map, s, turned, b)
        BY <2>1
      <4>2. ~Behind(turned, b, s.hand, At(s) + 1)
        BY <1>4, <2>1, <4>1, BehindEverything
      <4>3. s.map[KeyAt(s)].visited = map[KeyAt(s)].visited
        BY <2>2, <3>1, <4>1, <4>2 DEF Progress, KeyAt
      <4> QED BY <3>1, <4>3
    <3>3. TakesFairly(map, r.map)
      BY <3>1, <3>2 DEF TakesFairly
    <3> QED BY <3>1, <3>3 DEF SieveInv, r
  <2> QED BY <1>4, <2>3, <2>4, <2>5
<1> QED BY <1>1, <1>3, <1>4 DEF r

(* evict_one takes a visited entry only if all are visited.                *)
LEMMA EvictOneIsFair ==
    ASSUME NEW s \in ShardType, Covered(s), IsInjective(s.order)
    PROVE  TakesFairly(s.map, evict_one(s).map)
<1> DEFINE e == Evictions(s)
           n == 2 * Len(s.order) + 1
           T == {j \in Nat : SieveInv(s.map, e[j])}
<1>1. /\ s.order \in Seq(Keys) /\ s.hand \in Nat /\ s.hand <= Len(s.order)
      /\ n \in Nat /\ Len(s.order) \in Nat
  BY DEF ShardType
<1>2. /\ e[0] = LoopStart(s)
      /\ \A i \in Nat : e[i] \in LoopType /\ e[i + 1] = EvictStep(e[i], Len(s.order))
  BY EvictionsAreSteps
<1>3. evict_one(s).map = e[n].map
  BY DEF evict_one
<1> HIDE DEF e, n
<1>4. 0 \in T
  <2>1. /\ e[0].map = s.map /\ e[0].order = s.order /\ e[0].hand = s.hand /\ ~e[0].evicted
    BY <1>2 DEF LoopStart
  <2>2. Progress(s.map, e[0], FALSE, s.hand)
    BY <1>1, <2>1 DEF Progress, Behind
  <2>3. Covered(e[0])
    BY <2>1 DEF Covered
  <2>4. SieveInv(s.map, e[0])
    BY <1>1, <2>1, <2>2, <2>3 DEF SieveInv
  <2> QED BY <2>4
<1>5. ASSUME NEW j \in T PROVE j + 1 \in T
  <2>1. j \in Nat /\ e[j] \in LoopType /\ e[j + 1] = EvictStep(e[j], Len(s.order))
    BY <1>2
  <2>2. SieveInv(s.map, e[j])
    OBVIOUS
  <2>3. SieveInv(s.map, e[j + 1])
    <3> HIDE DEF T
    <3> QED BY <1>1, <2>1, <2>2, SieveContinues
  <2> QED BY <2>1, <2>3
<1>6. T = Nat
  <2> HIDE DEF T
  <2>1. T \in SUBSET Nat
    BY DEF T
  <2> QED BY <1>4, <1>5, <2>1, SetInduction
<1>7. SieveInv(s.map, e[n])
  BY <1>1, <1>6
<1>8. TakesFairly(s.map, e[n].map)
  BY <1>7 DEF SieveInv, TakesFairly
<1> QED BY <1>3, <1>8

(* So do the inserts, into a shard within its share.                       *)
LEMMA InsertIsFair ==
    ASSUME NEW s \in ShardType, Covered(s), Size(s) <= per_shard, MaxSize > 0,
           IsInjective(s.order), NEW k \in Keys, NEW entry \in EntryType
    PROVE  TakesFairly(s.map, InsertNew(s, k, entry).map)
<1> DEFINE m == MakeRoom(s).map
<1>1. TakesFairly(s.map, m)
  <2>1. MakeRoom(s) = IF Full(s) THEN evict_one(s) ELSE s
    BY OneEvictionMakesRoom
  <2>2. TakesFairly(s.map, evict_one(s).map)
    BY EvictOneIsFair
  <2>3. TakesFairly(s.map, s.map)
    BY DEF TakesFairly
  <2> QED BY <2>1, <2>2, <2>3
<1>2. InsertNew(s, k, entry).map = MapWith(m, k, entry)
  BY InsertNewMap
<1> HIDE DEF m
<1>3. DOMAIN MapWith(m, k, entry) = DOMAIN m \cup {k}
  BY DEF MapWith
<1> QED BY <1>1, <1>2, <1>3 DEF TakesFairly

(* The second region of __call__ takes a visited entry only if all are     *)
(* visited; none if its own key was there, expired.                        *)
LEMMA StoreIsFair ==
    ASSUME NEW s, ShardInv(s), ~Raising, MaxSize > 0, IsInjective(s.order),
           NEW k \in Keys, NEW entry \in EntryType
    PROVE  TakesFairly(s.map, InsertNew(RemoveFromMap(s, k), k, entry).map)
<1> DEFINE u == RemoveFromMap(s, k)
           new == InsertNew(u, k, entry).map
<1>1. s \in ShardType /\ Covered(s) /\ Size(s) <= per_shard
  BY DEF ShardInv
<1>2. CASE k \in DOMAIN s.map
  <2>1. PICK gone : MakesRoom(s.map, k, gone) /\ PutsEntry(s.map, new, k, entry, gone)
    BY StorePuts
  <2> HIDE DEF new
  <2>2. DOMAIN s.map \subseteq DOMAIN new
    BY <1>2, <2>1 DEF MakesRoom, PutsEntry
  <2>3. TakesFairly(s.map, new)
    BY <2>2 DEF TakesFairly
  <2> QED BY <2>3 DEF new
<1>3. CASE k \notin DOMAIN s.map
  <2>1. ShardInv(u) /\ u.map = Restrict(s.map, DOMAIN s.map \ {k})
    BY <1>1, RemoveFromMapFacts, RemoveFromMapMap
  <2>2. u.order = s.order
    <3>1. s \in [map : MapType, order : Seq(Keys), hand : Nat]
      BY <1>1 DEF ShardType
    <3> DEFINE m == Restrict(s.map, DOMAIN s.map \ {k})
    <3>2. u = [s EXCEPT !.map = m]
      BY DEF RemoveFromMap
    <3> HIDE DEF m, u
    <3> QED BY <3>1, <3>2
  <2> HIDE DEF u
  <2>3. u \in ShardType /\ Covered(u) /\ Size(u) <= per_shard /\ IsInjective(u.order)
    BY <2>1, <2>2 DEF ShardInv
  <2>4. TakesFairly(u.map, new)
    BY <2>3, InsertIsFair
  <2>5. u.map = s.map
    <3>1. s.map \in MapType
      BY <1>1 DEF ShardType
    <3>2. s.map = [j \in DOMAIN s.map |-> s.map[j]]
      BY <3>1, MapFacts
    <3>3. DOMAIN s.map \ {k} = DOMAIN s.map
      BY <1>3
    <3> QED BY <2>1, <3>2, <3>3 DEF Restrict
  <2> QED BY <2>4, <2>5 DEF u
<1> QED BY <1>2, <1>3

(* What a step does to the shards.                                         *)
StepIsFair ==
    \A i \in Shards :
        \/ shards'[i].map = EmptyMap
        \/ IsInjective(shards[i].order) => TakesFairly(shards[i].map, shards'[i].map)

(* So does every step that does not clear the shard.                       *)
LEMMA StepsAreFair ==
    ASSUME StoreInv, ~Raising, MaxSize > 0,
           NEW c \in Calls, Start(c) \/ Continue(c) \/ ComputeRaises(c)
    PROVE  StepIsFair
<1> DEFINE k == loc[c].key
           i == loc[c].shard
           s == Mine(c)
           entry == NewEntry(loc[c].val, now)
<1>0. \A m, w : DOMAIN m \subseteq DOMAIN w => TakesFairly(m, w)
  BY DEF TakesFairly
<1>1. shards \in [Shards -> ShardType] /\ now \in Nat /\ KeysKnown
  BY DEF StoreInv, DataOK, ShardsOK
<1>2. i \in Shards /\ ShardInv(s) /\ s = shards[i] /\ s \in ShardType /\ Covered(s)
      /\ Size(s) <= per_shard
  BY MineFacts DEF ShardInv
<1>3. ASSUME NEW new, shards' = [shards EXCEPT ![i] = new],
             new.map = EmptyMap \/ (IsInjective(s.order) => TakesFairly(s.map, new.map))
      PROVE  StepIsFair
  <2> HIDE DEF i, s
  <2>1. \A j \in Shards : shards'[j] = IF j = i THEN new ELSE shards[j]
    BY <1>1, <1>3
  <2>2. \A m : TakesFairly(m, m)
    BY <1>0
  <2> QED BY <1>2, <1>3, <2>1, <2>2 DEF StepIsFair
<1>4. CASE shards' = shards
  BY <1>0, <1>4 DEF StepIsFair
<1>5. CASE ProbeHit(c)
  <2> DEFINE new == [s EXCEPT !.map[k].visited = TRUE]
             m == [s.map EXCEPT ![k].visited = TRUE]
  <2>1. shards' = [shards EXCEPT ![i] = new]
    BY <1>5 DEF ProbeHit, Mine
  <2>2. new.map = m
    <3>1. s \in [map : MapType, order : Seq(Keys), hand : Nat]
      BY <1>2 DEF ShardType
    <3> HIDE DEF s, k
    <3>2. new = [s EXCEPT !.map = m]
      OBVIOUS
    <3> HIDE DEF new, m
    <3> QED BY <3>1, <3>2
  <2>3. DOMAIN m = DOMAIN s.map
    OBVIOUS
  <2> HIDE DEF m, s, new, i
  <2> QED BY <1>0, <1>3, <2>1, <2>2, <2>3
<1>6. CASE Store(c) /\ shards' # shards
  <2> DEFINE new == InsertNew(RemoveFromMap(s, k), k, entry)
  <2>1. shards' = [shards EXCEPT ![i] = new]
    BY <1>6 DEF Store
  <2>2. k \in Keys /\ loc[c].val \in Values
    BY <1>1, <1>6 DEF KeysKnown, Knows, Active, Store, InRegion
  <2>3. entry \in EntryType
    BY <1>1, <2>2 DEF NewEntry, EntryType
  <2>4. IsInjective(s.order) => TakesFairly(s.map, new.map)
    <3> HIDE DEF s, k, entry
    <3> QED BY <1>2, <2>2, <2>3, StoreIsFair
  <2> HIDE DEF new, i, s
  <2> QED BY <1>3, <2>1, <2>4
<1>7. CASE Set(c)
  <2> DEFINE new == IF k \in DOMAIN s.map THEN PutEntry(s, k, entry) ELSE InsertNew(s, k, entry)
  <2>1. shards' = [shards EXCEPT ![i] = new]
    BY <1>7 DEF Set, MayRaise
  <2>2. k \in Keys /\ loc[c].val \in Values
    BY <1>1, <1>7 DEF KeysKnown, Knows, Active, Set, InRegion
  <2>3. entry \in EntryType
    BY <1>1, <2>2 DEF NewEntry, EntryType
  <2>4. IsInjective(s.order) => TakesFairly(s.map, new.map)
    <3> HIDE DEF s, k, entry
    <3>1. PutEntry(s, k, entry).map = MapWith(s.map, k, entry)
      BY <1>2, PutEntryMap
    <3>2. DOMAIN s.map \subseteq DOMAIN MapWith(s.map, k, entry)
      BY DEF MapWith
    <3>3. TakesFairly(s.map, PutEntry(s, k, entry).map)
      BY <1>0, <3>1, <3>2
    <3>4. IsInjective(s.order) => TakesFairly(s.map, InsertNew(s, k, entry).map)
      BY <1>2, <2>2, <2>3, InsertIsFair
    <3> QED BY <3>3, <3>4
  <2> HIDE DEF new, i, s
  <2> QED BY <1>3, <2>1, <2>4
<1>8. CASE ClearShard(c)
  <2>1. shards' = [shards EXCEPT ![i] = EmptyShard]
    BY <1>8 DEF ClearShard, Cleared
  <2>2. EmptyShard.map = EmptyMap
    BY DEF EmptyShard
  <2> HIDE DEF i, s
  <2> QED BY <1>3, <2>1, <2>2
<1>9. shards' = shards \/ ProbeHit(c) \/ Store(c) \/ Set(c) \/ ClearShard(c)
  BY DEF Start, Continue, ComputeRaises, Begin, CallBypassed, GetBypassed, SkipSetOrClear,
         Acquire, ProbeMiss, GetMiss, LookupRaises, ReturnBypassed, BeginStore, SkipStore,
         Return
<1> QED BY <1>4, <1>5, <1>6, <1>7, <1>8, <1>9

(* SIEVE evicts unvisited entries before visited ones, wherever its hand   *)
(* stands and whatever stale keys it drops on the way: an insert into a    *)
(* shard whose order has no repetitions takes a visited entry only if all  *)
(* are visited.  For a cache that holds something, if no __eq__ raises.    *)
THEOREM SieveOrder == ~Raising /\ MaxSize > 0 => (Spec => UnvisitedFirst)
<1> SUFFICES ASSUME ~Raising, MaxSize > 0 PROVE Spec => UnvisitedFirst
  OBVIOUS
<1>1. StoreInv /\ [Next]_vars => [TakesUnvisited]_vars
  <2> SUFFICES ASSUME StoreInv, Next PROVE TakesUnvisited
    OBVIOUS
  <2>1. CASE Tick
    <3>1. shards' = shards
      BY <2>1 DEF Tick
    <3> QED BY <3>1 DEF TakesUnvisited
  <2>2. ASSUME NEW c \in Calls, Start(c) \/ Continue(c) \/ ComputeRaises(c)
        PROVE  TakesUnvisited
    <3>1. StepIsFair
      BY <2>2, StepsAreFair
    <3> QED BY <3>1 DEF StepIsFair, TakesFairly, AllVisited, TakesUnvisited
  <2> QED BY <2>1, <2>2 DEF Next
<1> QED BY <1>1, StoreInvariance, PTL DEF Spec, UnvisitedFirst
===============================================================================
