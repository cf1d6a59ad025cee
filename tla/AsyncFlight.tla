------------------------------ MODULE AsyncFlight ------------------------------
(***************************************************************************)
(* AsyncCachedFunction of warp_cache/_decorator.py: calls of a cached      *)
(* coroutine function, coalesced per event loop.  A task is one call.      *)
(*                                                                         *)
(* Between two awaits a task runs alone in its loop, so a step is what a   *)
(* task does from one await to the next.  Tasks of other loops, in other   *)
(* threads, share the cache and the dict of flights.  A task awaits the    *)
(* wrapped function as the leader of its flight, or the leader's Event as  *)
(* a follower; it may be cancelled at either.  A leader has one Event in   *)
(* its life, so the Event goes by the leader's name.                       *)
(*                                                                         *)
(* The cache behind _probe and set is any that may forget (Drop) and may   *)
(* not store: too large, skipped, evicted at once.                         *)
(***************************************************************************)
EXTENDS Naturals, FiniteSets

CONSTANTS
    Tasks,       \* calls of the function
    Loops,       \* running event loops
    LoopOf,      \* LoopOf[t]: the loop that runs t
    Args,        \* arguments
    ArgsOf,      \* ArgsOf[t]: the arguments of t
    FlightKey,   \* FlightKey[a]: a as a dict key; equal for 1, 1.0 and True
    CacheKey,    \* CacheKey[a]: a as a key of the cache
    NoTask, NoArgs,
    MaxDrops     \* bound: entries the cache loses

ASSUME TasksAssumption ==
    /\ LoopOf \in [Tasks -> Loops]
    /\ ArgsOf \in [Tasks -> Args]
    /\ NoTask \notin Tasks
    /\ NoArgs \notin Args
ASSUME KeysAssumption == DOMAIN FlightKey = Args /\ DOMAIN CacheKey = Args
ASSUME DropsAssumption == MaxDrops \in Nat

FlightKeys == {FlightKey[a] : a \in Args}
CacheKeys == {CacheKey[a] : a \in Args}

VARIABLES
    pc,         \* pc[t]: "new", "follow", "lead", "done" or "raised"
    event,      \* event[t]: the Event a follower waits for, by its leader
    isSet,      \* the Events that are set
    inflight,   \* inflight[<<loop, key>>]: the Event of the flight, or NoTask
    cached,     \* cached[k]: the arguments whose result is cached under k
    answer,     \* answer[t]: the arguments whose result t has returned
    flights,    \* history: flights[<<loop, key>>]: calls of the function
    lost,       \* history: lost[<<loop, key>>]: results that were not kept
    drops       \* entries lost so far

vars == <<pc, event, isSet, inflight, cached, answer, flights, lost, drops>>

Key(t) == CacheKey[ArgsOf[t]]
Flight(t) == <<LoopOf[t], FlightKey[ArgsOf[t]]>>
Place(t) == <<LoopOf[t], Key(t)>>

Init ==
    /\ pc = [t \in Tasks |-> "new"]
    /\ event = [t \in Tasks |-> NoTask]
    /\ isSet = {}
    /\ inflight = [f \in Loops \X FlightKeys |-> NoTask]
    /\ cached = [k \in CacheKeys |-> NoArgs]
    /\ answer = [t \in Tasks |-> NoArgs]
    /\ flights = [x \in Loops \X CacheKeys |-> 0]
    /\ lost = [x \in Loops \X CacheKeys |-> 0]
    /\ drops = 0

Goto(t, label) == pc' = [pc EXCEPT ![t] = label]

-------------------------------------------------------------------------------
(***************************************************************************)
(* Probing.  A task runs when it begins, and when the Event it waits for   *)
(* is set.                                                                 *)
(***************************************************************************)

Runs(t) == pc[t] = "new" \/ (pc[t] = "follow" /\ event[t] \in isSet)

(* Mutant: a woken follower does not probe again.                          *)
HitOnce(t) == pc[t] = "new" /\ cached[Key(t)] # NoArgs

Hit(t) == cached[Key(t)] # NoArgs

(* Mutant: a follower takes its leader's result.                           *)
AnswerOfLeader(t) ==
    IF pc[t] = "follow" THEN cached[Key(event[t])] ELSE cached[Key(t)]

Answer(t) == cached[Key(t)]

ReturnCached(t) ==
    /\ Runs(t)
    /\ Hit(t)
    /\ answer' = [answer EXCEPT ![t] = Answer(t)]
    /\ Goto(t, "done")
    /\ UNCHANGED <<event, isSet, inflight, cached, flights, lost, drops>>

(* There is a flight: wait for its Event.                                  *)
Follow(t) ==
    /\ Runs(t)
    /\ ~Hit(t)
    /\ inflight[Flight(t)] # NoTask
    /\ event' = [event EXCEPT ![t] = inflight[Flight(t)]]
    /\ Goto(t, "follow")
    /\ UNCHANGED <<isSet, inflight, cached, answer, flights, lost, drops>>

(* Mutant: the flight is entered when the function has returned.           *)
RegisteredLate(t) == inflight

Registered(t) == [inflight EXCEPT ![Flight(t)] = t]

(* There is none: enter a new Event in the dict and await the function.    *)
Lead(t) ==
    /\ Runs(t)
    /\ ~Hit(t)
    /\ inflight[Flight(t)] = NoTask
    /\ inflight' = Registered(t)
    /\ flights' = [flights EXCEPT ![Place(t)] = @ + 1]
    /\ Goto(t, "lead")
    /\ UNCHANGED <<event, isSet, cached, answer, lost, drops>>

(* _probe raises: arguments without a hash, an __eq__ that raises, a value *)
(* that cannot be decoded.                                                 *)
ProbeRaises(t) ==
    /\ Runs(t)
    /\ Goto(t, "raised")
    /\ UNCHANGED <<event, isSet, inflight, cached, answer, flights, lost, drops>>

-------------------------------------------------------------------------------
(***************************************************************************)
(* The end of a flight                                                     *)
(***************************************************************************)

(* Mutant: the entry stays in the dict.                                    *)
FinallyKeepsEntry(t) == isSet' = isSet \cup {t} /\ UNCHANGED inflight

(* The finally clause.                                                     *)
Finally(t) ==
    /\ isSet' = isSet \cup {t}
    /\ inflight' = [inflight EXCEPT ![Flight(t)] = NoTask]

(* The function has returned, and set has stored the result.               *)
LeaderStores(t) ==
    /\ pc[t] = "lead"
    /\ cached' = [cached EXCEPT ![Key(t)] = ArgsOf[t]]
    /\ answer' = [answer EXCEPT ![t] = ArgsOf[t]]
    /\ Finally(t)
    /\ Goto(t, "done")
    /\ UNCHANGED <<event, flights, lost, drops>>

(* The function has returned, and set has stored nothing.                  *)
LeaderStoresNothing(t) ==
    /\ pc[t] = "lead"
    /\ answer' = [answer EXCEPT ![t] = ArgsOf[t]]
    /\ lost' = [lost EXCEPT ![Place(t)] = @ + 1]
    /\ Finally(t)
    /\ Goto(t, "done")
    /\ UNCHANGED <<event, cached, flights, drops>>

(* Mutant: no finally: the followers of a failed leader are not woken.     *)
LeaderFailsSilently(t) ==
    /\ pc[t] = "lead"
    /\ lost' = [lost EXCEPT ![Place(t)] = @ + 1]
    /\ inflight' = [inflight EXCEPT ![Flight(t)] = NoTask]
    /\ Goto(t, "raised")
    /\ UNCHANGED <<event, isSet, cached, answer, flights, drops>>

(* The function or set raises, or the leader is cancelled.                 *)
LeaderFails(t) ==
    /\ pc[t] = "lead"
    /\ lost' = [lost EXCEPT ![Place(t)] = @ + 1]
    /\ Finally(t)
    /\ Goto(t, "raised")
    /\ UNCHANGED <<event, cached, answer, flights, drops>>

(* A follower is cancelled inside event.wait().                            *)
CancelFollower(t) ==
    /\ pc[t] = "follow"
    /\ Goto(t, "raised")
    /\ UNCHANGED <<event, isSet, inflight, cached, answer, flights, lost, drops>>

(* An entry expires, is evicted or cleared.                                *)
Drop(k) ==
    /\ cached[k] # NoArgs
    /\ drops < MaxDrops
    /\ drops' = drops + 1
    /\ cached' = [cached EXCEPT ![k] = NoArgs]
    /\ lost' = [x \in DOMAIN lost |-> IF x[2] = k THEN lost[x] + 1 ELSE lost[x]]
    /\ UNCHANGED <<pc, event, isSet, inflight, answer, flights>>

-------------------------------------------------------------------------------

Probe(t) == ReturnCached(t) \/ Follow(t) \/ Lead(t)

EndFlight(t) == LeaderStores(t) \/ LeaderStoresNothing(t) \/ LeaderFails(t)

Next ==
    \/ \E t \in Tasks :
        Probe(t) \/ ProbeRaises(t) \/ EndFlight(t) \/ CancelFollower(t)
    \/ \E k \in CacheKeys : Drop(k)

Spec == Init /\ [][Next]_vars

(* A loop runs its tasks, and the wrapped function returns or raises.      *)
FairSpec ==
    Spec /\ \A t \in Tasks : WF_vars(Probe(t)) /\ WF_vars(EndFlight(t))

-------------------------------------------------------------------------------
(***************************************************************************)
(* Properties                                                              *)
(***************************************************************************)

(* Every variable has its type, and a follower an Event to wait for        *)
(* (__call__).                                                             *)
TypeOK ==
    /\ pc \in [Tasks -> {"new", "follow", "lead", "done", "raised"}]
    /\ event \in [Tasks -> Tasks \cup {NoTask}]
    /\ \A t \in Tasks : pc[t] = "follow" => event[t] \in Tasks
    /\ isSet \in SUBSET Tasks
    /\ inflight \in [Loops \X FlightKeys -> Tasks \cup {NoTask}]
    /\ cached \in [CacheKeys -> Args \cup {NoArgs}]
    /\ answer \in [Tasks -> Args \cup {NoArgs}]
    /\ flights \in [Loops \X CacheKeys -> Nat]
    /\ lost \in [Loops \X CacheKeys -> Nat]
    /\ drops \in Nat

(* "Multiple concurrent coroutines for the same key: only one computes"    *)
(* (test_async): of the tasks of one loop with equal arguments at most one *)
(* awaits the function.                                                    *)
OneLeader ==
    \A t, u \in Tasks : pc[t] = "lead" /\ pc[u] = "lead" /\ Flight(t) = Flight(u) => t = u

(* No wake-up is lost: the Event a follower waits for is set, or the task  *)
(* that will set it is awaiting the function, in the follower's own loop   *)
(* (an Event must not be awaited from another, issue #35).                 *)
FollowersWillWake ==
    \A t \in Tasks : pc[t] = "follow" =>
        /\ event[t] \in isSet \/ pc[event[t]] = "lead"
        /\ LoopOf[event[t]] = LoopOf[t]

(* All arguments with the cache key k are equal as dict keys.  Python      *)
(* values that equal nothing but themselves, such as NaN, may have one     *)
(* encoding in the shared cache and still be different keys of the dict.   *)
OneFlightKey(k) ==
    \A a, b \in Args : CacheKey[a] = k /\ CacheKey[b] = k => FlightKey[a] = FlightKey[b]

(* Calls are coalesced: in one loop the function is called for a key once, *)
(* and once more for every result that was not stored or has been lost,    *)
(* as far as the dict takes the arguments for equal (__call__).            *)
CallsAreCoalesced ==
    \A x \in Loops \X CacheKeys : OneFlightKey(x[2]) => flights[x] <= lost[x] + 1

(* A call returns the result for its own arguments (as far as the cache    *)
(* tells arguments apart), also where it has waited for a flight of        *)
(* arguments that are equal in Python and not in the cache.                *)
AnswersAreOwn ==
    \A t \in Tasks : pc[t] = "done" => answer[t] # NoArgs /\ CacheKey[answer[t]] = Key(t)

(* Every call ends: "If the leader fails, a waiter becomes the new leader  *)
(* and retries" (test_async), however leaders end.                         *)
CallsEnd == \A t \in Tasks : <>(pc[t] \in {"done", "raised"})
===============================================================================
