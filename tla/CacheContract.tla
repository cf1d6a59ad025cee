----------------------------- MODULE CacheContract -----------------------------
(***************************************************************************)
(* What a bounded cache with a time to live promises its callers.  It      *)
(* never holds more than Capacity entries, forgets an entry for a reason   *)
(* (a full cache, an expiry, a clear), and answers a get with the value    *)
(* last put under that key, or with Miss.  Which entry makes room is not   *)
(* part of the promise.  ShmCache and MemStore implement this module.       *)
(***************************************************************************)
EXTENDS Integers, FiniteSets, Functions

CONSTANTS
    Procs, Keys, Values, Miss, Capacity, Ttl,
    MayBypass,    \* whether a get may answer Miss without looking
    MayDropLive   \* whether an entry may be lost before it expires

VARIABLES
    store,   \* key -> [val, created], for the keys the cache holds
    last,    \* <<p, k, v>>: the last get or put, by p of k, and its value
    now      \* the clock the entries are stamped with

vars == <<store, last, now>>

Init ==
    /\ store = [k \in {} |-> 0]
    /\ last = <<>>
    /\ now = 0

Live(k) ==
    /\ k \in DOMAIN store
    /\ Ttl > 0 => now - store[k].created <= Ttl

Get(p, k) ==
    /\ last' = <<p, k, IF Live(k) THEN store[k].val ELSE Miss>>
    /\ UNCHANGED <<store, now>>

Bypass(p, k) ==
    /\ MayBypass
    /\ last' = <<p, k, Miss>>
    /\ UNCHANGED <<store, now>>

(* Another entry goes only when the new one does not fit.                  *)
Put(p, k, v) ==
    /\ \E gone \in SUBSET (DOMAIN store \ {k}) :
        /\ IF k \notin DOMAIN store /\ Cardinality(DOMAIN store) = Capacity
           THEN Cardinality(gone) = 1
           ELSE gone = {}
        /\ store' = [x \in (DOMAIN store \ gone) \cup {k} |->
                        IF x = k THEN [val |-> v, created |-> now] ELSE store[x]]
    /\ last' = <<p, k, v>>
    /\ UNCHANGED now

Drop(k) ==
    /\ MayDropLive \/ ~Live(k)
    /\ store' = Restrict(store, DOMAIN store \ {k})
    /\ UNCHANGED <<last, now>>

Clear == store' = [k \in {} |-> 0] /\ UNCHANGED <<last, now>>

Tick == now' = now + 1 /\ UNCHANGED <<store, last>>

Next ==
    \/ \E p \in Procs, k \in Keys :
        \/ Get(p, k)
        \/ Bypass(p, k)
        \/ \E v \in Values : Put(p, k, v)
    \/ \E k \in Keys : Drop(k)
    \/ Clear
    \/ Tick

Spec == Init /\ [][Next]_vars
===============================================================================
