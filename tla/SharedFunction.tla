---------------------------- MODULE SharedFunction ----------------------------
(***************************************************************************)
(* SharedCachedFunction of src/shared_store.rs: processes that call cached *)
(* functions whose results are in one shared cache.  The cache is any that *)
(* keeps CacheContract, as ShmCache does; its keys and values are encoded  *)
(* objects (Serde).                                                        *)
(*                                                                         *)
(* A call is a record: fn the function, args its positional arguments, kw  *)
(* its keyword arguments in the order they were written, each with a name  *)
(* (a number) and a value.  pickle and the wrapped functions may raise.    *)
(***************************************************************************)
EXTENDS Serde, FiniteSets

CONSTANTS
    Procs,
    AllFunctions,     \* the functions of all processes: [module, qualname, id]
    Region,           \* the name of the region that is modelled
    Calls,            \* calls of the functions
    Results,          \* Results[c]: what the wrapped function returns
    Variants,         \* the ways of pickle.dumps to pickle one object
    max_key_size, max_value_size,
    Capacity, Miss,
    StatMod           \* 2^64 in the code: the counters wrap

(* A call does not name a keyword twice: Python refuses it.                *)
ASSUME FunctionAssumption ==
    /\ \A c \in Calls :
        /\ c.fn \in AllFunctions
        /\ c.args \in Seq(Objects)
        /\ c.kw \in Seq([name : Int, value : Objects])
        /\ \A i, j \in DOMAIN c.kw : c.kw[i].name = c.kw[j].name => i = j
    /\ Results \in [Calls -> Objects]
    /\ {max_key_size, max_value_size, Capacity} \subseteq Nat
    /\ StatMod \in Nat \ {0}

VARIABLES
    store, last, now,   \* the shared cache (CacheContract)
    pending,            \* pending[p]: the call whose result p computes, and its key, or <<>>
    skips               \* header.oversize_skips

vars == <<store, last, now, pending, skips>>

(* Functions of one module and qualified name have one region.             *)
derive_shm_name(f) == <<f.module, f.qualname>>

(* The slots of the region, in fields: ShmCache::create_or_open.           *)
SLOT_HEADER_SIZE == 1
slot_size == (SLOT_HEADER_SIZE + (max_key_size % U32) + (max_value_size % U32)) % U32

Sharers == {f \in AllFunctions : derive_shm_name(f) = Region}
SharedCalls == {c \in Calls : c.fn \in Sharers}

-------------------------------------------------------------------------------
(***************************************************************************)
(* Keys                                                                    *)
(***************************************************************************)

(* Mutant: keyword arguments in the order of the call.                     *)
sortedAsWritten(kw) == kw

(* sorted() of the items of kwargs, which differ in their names.           *)
sorted(kw) ==
    CHOOSE s \in [DOMAIN kw -> ToSet(kw)] :
        \A i, j \in DOMAIN kw : i < j => s[i].name < s[j].name

Item(kwarg) == Tuple(<<Object("str", <<kwarg.name>>), kwarg.value>>)

(* The tuple that make_key encodes.                                        *)
KeyObject(c) ==
    IF c.kw = <<>> THEN Tuple(c.args)
    ELSE LET items == sorted(c.kw)
         IN Tuple(<<Tuple(c.args), Tuple([i \in DOMAIN items |-> Item(items[i])])>>)

(* The tuples that make_key builds are objects too.                        *)
ASSUME KeyAssumption == \A c \in Calls : KeyObject(c) \in Objects

make_key(c, variant) == Encoded(KeyObject(c), variant)

(* Computed once: all keys a call may have, and all encodings of results.  *)
KeysOf == [c \in Calls |-> {make_key(c, i) : i \in Variants}]
ValuesOf == [c \in Calls |-> {Encoded(Results[c], i) : i \in Variants}]

Cache == INSTANCE CacheContract
    WITH Keys <- UNION {KeysOf[c] : c \in Calls}, Values <- UNION {ValuesOf[c] : c \in Calls},
         Ttl <- 0, MayBypass <- FALSE, MayDropLive <- TRUE

Init ==
    /\ Cache!Init
    /\ pending = [p \in Procs |-> <<>>]
    /\ skips = 0

-------------------------------------------------------------------------------
(***************************************************************************)
(* __call__                                                                *)
(***************************************************************************)

KeyTooLarge(k) == Len(k) > max_key_size

record_oversize_skip == skips' = (skips + 1) % StatMod

(* The key is too large: the function is called, and nothing is cached.    *)
CallUncached(p, c, k) ==
    /\ pending[p] = <<>>
    /\ KeyTooLarge(k)
    /\ record_oversize_skip
    /\ UNCHANGED <<store, last, now, pending>>

(* A hit: Decoded(last'[3]) is returned, or pickle.loads raises.           *)
CallHit(p, c, k) ==
    /\ pending[p] = <<>>
    /\ ~KeyTooLarge(k)
    /\ Cache!Live(k)
    /\ Cache!Get(p, k)
    /\ UNCHANGED <<pending, skips>>

CallMiss(p, c, k) ==
    /\ pending[p] = <<>>
    /\ ~KeyTooLarge(k)
    /\ ~Cache!Live(k)
    /\ Cache!Get(p, k)
    /\ pending' = [pending EXCEPT ![p] = <<c, k>>]
    /\ UNCHANGED skips

(* Mutant: the key is taken to have been checked before.                   *)
OversizeValue(k, v) == Len(v) > max_value_size

Oversize(k, v) == KeyTooLarge(k) \/ Len(v) > max_value_size

(* Mutant: the arguments of insert, both of them bytes, are swapped.       *)
store_resultSwapped(p, k, v) ==
    IF Oversize(k, v)
    THEN record_oversize_skip /\ UNCHANGED <<store, last, now>>
    ELSE Cache!Put(p, v, k) /\ UNCHANGED skips

(* The end of store_result: count a skip, or insert.                       *)
store_result(p, k, v) ==
    IF Oversize(k, v)
    THEN record_oversize_skip /\ UNCHANGED <<store, last, now>>
    ELSE Cache!Put(p, k, v) /\ UNCHANGED skips

(* The wrapped function returns; its result is stored and returned.        *)
ReturnComputed(p) ==
    /\ pending[p] # <<>>
    /\ \E v \in ValuesOf[pending[p][1]] : store_result(p, pending[p][2], v)
    /\ pending' = [pending EXCEPT ![p] = <<>>]

(* The wrapped function raises, or its result cannot be pickled.           *)
Raise(p) ==
    /\ pending[p] # <<>>
    /\ pending' = [pending EXCEPT ![p] = <<>>]
    /\ UNCHANGED <<store, last, now, skips>>

-------------------------------------------------------------------------------
(***************************************************************************)
(* get, _probe, set and cache_clear, as the async wrapper calls them       *)
(***************************************************************************)

(* get and _probe do not look at the size of the key.                      *)
Probe(p, c, k) ==
    /\ pending[p] = <<>>
    /\ Cache!Get(p, k)
    /\ UNCHANGED <<pending, skips>>

Set(p, c, k) ==
    /\ pending[p] = <<>>
    /\ \E v \in ValuesOf[c] : store_result(p, k, v)
    /\ UNCHANGED pending

CacheClear(p) ==
    /\ pending[p] = <<>>
    /\ Cache!Clear
    /\ skips' = 0
    /\ UNCHANGED pending

(* The cache loses an entry: ShmCache!RemoveExpired.                       *)
Drop(k) == Cache!Drop(k) /\ UNCHANGED <<pending, skips>>

-------------------------------------------------------------------------------

Next ==
    \/ \E p \in Procs :
        \/ \E c \in SharedCalls : \E k \in KeysOf[c] :
            CallUncached(p, c, k) \/ CallHit(p, c, k) \/ CallMiss(p, c, k)
                \/ Probe(p, c, k) \/ Set(p, c, k)
        \/ ReturnComputed(p) \/ Raise(p) \/ CacheClear(p)
    \/ \E k \in DOMAIN store : Drop(k)

Spec == Init /\ [][Next]_vars

-------------------------------------------------------------------------------
(***************************************************************************)
(* Properties                                                              *)
(***************************************************************************)

(* The cache holds keys and values that calls can have, at most Capacity   *)
(* of them, and the counter is a u64.                                      *)
TypeOK ==
    /\ DOMAIN store \subseteq UNION {KeysOf[c] : c \in SharedCalls}
    /\ \A k \in DOMAIN store : store[k].val \in UNION {ValuesOf[c] : c \in SharedCalls}
    /\ Cardinality(DOMAIN store) <= Capacity
    /\ \A p \in Procs : pending[p] # <<>> =>
        \E c \in SharedCalls : \E k \in KeysOf[c] : pending[p] = <<c, k>>
    /\ skips \in 0 .. StatMod - 1

(* A call is answered with its own result: whatever it would find in the   *)
(* cache is, decoded, what its function has returned for the same          *)
(* arguments, value by value and type by type (make_key, serde).  1, 1.0   *)
(* and True are different arguments, and keyword arguments in another      *)
(* order are not.  This is so for calls of one function without subclasses *)
(* of the built-in types; for others the code does not keep it, and they   *)
(* are not among the calls of the run.                                     *)
CachedAnswersAreOwn ==
    \A k \in DOMAIN store : \A c \in SharedCalls : k \in KeysOf[c] =>
        \E b \in SharedCalls :
            /\ b.fn = c.fn /\ b.args = c.args /\ ToSet(b.kw) = ToSet(c.kw)
            /\ Decoded(store[k].val) = Results[b]

(* Two ways of writing one call share an entry, in all processes: the      *)
(* order of keyword arguments and the process make no difference, unless   *)
(* the key has to be pickled.                                              *)
OneEntryPerCall ==
    \A b, c \in SharedCalls :
        /\ b.args = c.args
        /\ ToSet(b.kw) = ToSet(c.kw)
        /\ serialize(KeyObject(b)) # Unsupported
        => Cardinality((KeysOf[b] \cup KeysOf[c]) \cap DOMAIN store) <= 1

(* What is stored fits the slot that ShmCache::create_or_open has sized    *)
(* from the same limits, cast to u32; insert_inner does not check again.   *)
EntriesFitTheirSlot ==
    \A k \in DOMAIN store : SLOT_HEADER_SIZE + Len(k) + Len(store[k].val) <= slot_size
===============================================================================
