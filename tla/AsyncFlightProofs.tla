--------------------------- MODULE AsyncFlightProofs ---------------------------
(***************************************************************************)
(* Proofs about AsyncFlight, for all tasks, loops, arguments and keys.     *)
(***************************************************************************)
EXTENDS AsyncFlight, TLAPS

(* A leader's Event is in the dict until the finally clause.               *)
LeadersAreEntered == \A t \in Tasks : pc[t] = "lead" => inflight[Flight(t)] = t

(* And the dict holds nothing else.                                        *)
EntriesAreLeaders ==
    \A f \in Loops \X FlightKeys : inflight[f] # NoTask =>
        pc[inflight[f]] = "lead" /\ Flight(inflight[f]) = f

(* A result is cached under the key of its arguments.                      *)
CachedUnderOwnKey == \A k \in CacheKeys : cached[k] # NoArgs => CacheKey[cached[k]] = k

(* The wake-ups rest on the dict: a follower takes its Event from there.   *)
FlightInv == TypeOK /\ LeadersAreEntered /\ EntriesAreLeaders /\ FollowersWillWake

AnswerInv == TypeOK /\ CachedUnderOwnKey /\ AnswersAreOwn

(* A flight that has ended without an entry in the cache has been counted  *)
(* as lost: only a leader, or a cached result, may be one ahead.           *)
EveryLossCounts ==
    \A l \in Loops, k \in CacheKeys : OneFlightKey(k) =>
        \/ flights[<<l, k>>] <= lost[<<l, k>>]
        \/ /\ flights[<<l, k>>] <= lost[<<l, k>>] + 1
           /\ cached[k] # NoArgs \/ \E t \in Tasks : pc[t] = "lead" /\ Place(t) = <<l, k>>

CoalesceInv == FlightInv /\ EveryLossCounts

(* Flight, Place and Key are in the domains of what they index.            *)
LEMMA KeysInDomain ==
    ASSUME NEW t \in Tasks
    PROVE  /\ ArgsOf[t] \in Args
           /\ LoopOf[t] \in Loops
           /\ Flight(t) \in Loops \X FlightKeys
           /\ Place(t) \in Loops \X CacheKeys
           /\ Key(t) \in CacheKeys
BY TasksAssumption, KeysAssumption DEF Flight, Place, Key, FlightKeys, CacheKeys

(* Every variable keeps its type.                                          *)
LEMMA TypeStep == TypeOK /\ [Next]_vars => TypeOK'
<1> SUFFICES ASSUME TypeOK, [Next]_vars PROVE TypeOK'
    OBVIOUS
<1> USE KeysInDomain DEF TypeOK, Goto
<1>1. ASSUME NEW t \in Tasks, ReturnCached(t) PROVE TypeOK'
    BY <1>1 DEF ReturnCached, Answer
<1>2. ASSUME NEW t \in Tasks, Follow(t) PROVE TypeOK'
    BY <1>2 DEF Follow
<1>3. ASSUME NEW t \in Tasks, Lead(t) PROVE TypeOK'
    BY <1>3 DEF Lead, Registered
<1>4. ASSUME NEW t \in Tasks, ProbeRaises(t) PROVE TypeOK'
    BY <1>4 DEF ProbeRaises
<1>5. ASSUME NEW t \in Tasks, LeaderStores(t) PROVE TypeOK'
    BY <1>5 DEF LeaderStores, Finally
<1>6. ASSUME NEW t \in Tasks, LeaderStoresNothing(t) PROVE TypeOK'
    BY <1>6 DEF LeaderStoresNothing, Finally
<1>7. ASSUME NEW t \in Tasks, LeaderFails(t) PROVE TypeOK'
    BY <1>7 DEF LeaderFails, Finally
<1>8. ASSUME NEW t \in Tasks, CancelFollower(t) PROVE TypeOK'
    BY <1>8 DEF CancelFollower
<1>9. ASSUME NEW k \in CacheKeys, Drop(k) PROVE TypeOK'
    BY <1>9 DEF Drop
<1>10. CASE UNCHANGED vars
    BY <1>10 DEF vars
<1> QED
    BY <1>1, <1>2, <1>3, <1>4, <1>5, <1>6, <1>7, <1>8, <1>9, <1>10
    DEF Next, Probe, EndFlight

(* A step that ends the flight of t keeps FlightInv: t was a leader, so    *)
(* its own entry is the only one that goes, and whoever waits for it runs. *)
LEMMA EndFlightStep ==
    ASSUME FlightInv, TypeOK', NEW t \in Tasks, NEW label \in {"done", "raised"},
           pc[t] = "lead", Finally(t), Goto(t, label), UNCHANGED event
    PROVE  FlightInv'
<1> USE KeysInDomain, TasksAssumption DEF FlightInv, TypeOK, Goto, Finally
<1>1. LeadersAreEntered'
    BY DEF LeadersAreEntered, EntriesAreLeaders, Flight
<1>2. EntriesAreLeaders'
    BY DEF LeadersAreEntered, EntriesAreLeaders, Flight
<1>3. FollowersWillWake'
    BY DEF FollowersWillWake
<1> QED
    BY <1>1, <1>2, <1>3

(* The dict holds the Events of the leaders, and every follower has the    *)
(* Event of a leader or one that is set.                                   *)
LEMMA FlightStep == FlightInv /\ [Next]_vars => FlightInv'
<1> SUFFICES ASSUME FlightInv, [Next]_vars PROVE FlightInv'
    OBVIOUS
<1>0. TypeOK /\ TypeOK'
    BY TypeStep DEF FlightInv
<1> USE <1>0, KeysInDomain, TasksAssumption DEF FlightInv, TypeOK, Goto
<1>1. ASSUME NEW t \in Tasks, ReturnCached(t) PROVE FlightInv'
    BY <1>1 DEF ReturnCached, Runs, LeadersAreEntered, EntriesAreLeaders, FollowersWillWake, Flight
<1>2. ASSUME NEW t \in Tasks, Follow(t) PROVE FlightInv'
    <2>1. LeadersAreEntered' /\ EntriesAreLeaders'
        BY <1>2 DEF Follow, Runs, LeadersAreEntered, EntriesAreLeaders, Flight
    <2>2. pc[inflight[Flight(t)]] = "lead" /\ Flight(inflight[Flight(t)]) = Flight(t)
        BY <1>2 DEF Follow, EntriesAreLeaders
    <2>3. LoopOf[inflight[Flight(t)]] = LoopOf[t]
        BY <2>2 DEF Flight
    <2>4. FollowersWillWake'
        BY <1>2, <2>2, <2>3 DEF Follow, Runs, FollowersWillWake
    <2> QED
        BY <2>1, <2>4
<1>3. ASSUME NEW t \in Tasks, Lead(t) PROVE FlightInv'
    <2>1. LeadersAreEntered' /\ EntriesAreLeaders'
        BY <1>3 DEF Lead, Registered, Runs, LeadersAreEntered, EntriesAreLeaders, Flight
    <2>2. FollowersWillWake'
        BY <1>3 DEF Lead, Runs, FollowersWillWake
    <2> QED
        BY <2>1, <2>2
<1>4. ASSUME NEW t \in Tasks, ProbeRaises(t) PROVE FlightInv'
    BY <1>4 DEF ProbeRaises, Runs, LeadersAreEntered, EntriesAreLeaders, FollowersWillWake, Flight
<1>5. ASSUME NEW t \in Tasks, LeaderStores(t) PROVE FlightInv'
    BY <1>5, EndFlightStep DEF LeaderStores
<1>6. ASSUME NEW t \in Tasks, LeaderStoresNothing(t) PROVE FlightInv'
    BY <1>6, EndFlightStep DEF LeaderStoresNothing
<1>7. ASSUME NEW t \in Tasks, LeaderFails(t) PROVE FlightInv'
    BY <1>7, EndFlightStep DEF LeaderFails
<1>8. ASSUME NEW t \in Tasks, CancelFollower(t) PROVE FlightInv'
    BY <1>8 DEF CancelFollower, LeadersAreEntered, EntriesAreLeaders, FollowersWillWake, Flight
<1>9. ASSUME NEW k \in CacheKeys, Drop(k) PROVE FlightInv'
    BY <1>9 DEF Drop, LeadersAreEntered, EntriesAreLeaders, FollowersWillWake, Flight
<1>10. CASE UNCHANGED vars
    BY <1>10 DEF vars, LeadersAreEntered, EntriesAreLeaders, FollowersWillWake, Flight
<1> QED
    BY <1>1, <1>2, <1>3, <1>4, <1>5, <1>6, <1>7, <1>8, <1>9, <1>10
    DEF Next, Probe, EndFlight

(* What a call answers is cached under its own key, or its own result.     *)
LEMMA AnswerStep == AnswerInv /\ [Next]_vars => AnswerInv'
<1> SUFFICES ASSUME AnswerInv, [Next]_vars PROVE AnswerInv'
    OBVIOUS
<1>0. TypeOK /\ TypeOK'
    BY TypeStep DEF AnswerInv
<1> USE <1>0, KeysInDomain, TasksAssumption DEF AnswerInv, TypeOK, Goto
<1>1. ASSUME NEW t \in Tasks, ReturnCached(t) PROVE AnswerInv'
    BY <1>1 DEF ReturnCached, Hit, Answer, CachedUnderOwnKey, AnswersAreOwn, Key
<1>2. ASSUME NEW t \in Tasks, Follow(t) \/ Lead(t) \/ ProbeRaises(t) \/ CancelFollower(t)
      PROVE AnswerInv'
    BY <1>2 DEF Follow, Lead, ProbeRaises, CancelFollower, CachedUnderOwnKey, AnswersAreOwn, Key
<1>3. ASSUME NEW t \in Tasks, LeaderStores(t) PROVE AnswerInv'
    BY <1>3 DEF LeaderStores, CachedUnderOwnKey, AnswersAreOwn, Key
<1>4. ASSUME NEW t \in Tasks, LeaderStoresNothing(t) PROVE AnswerInv'
    BY <1>4 DEF LeaderStoresNothing, CachedUnderOwnKey, AnswersAreOwn, Key
<1>5. ASSUME NEW t \in Tasks, LeaderFails(t) PROVE AnswerInv'
    BY <1>5 DEF LeaderFails, CachedUnderOwnKey, AnswersAreOwn, Key
<1>6. ASSUME NEW k \in CacheKeys, Drop(k) PROVE AnswerInv'
    BY <1>6 DEF Drop, CachedUnderOwnKey, AnswersAreOwn, Key
<1>7. CASE UNCHANGED vars
    BY <1>7 DEF vars, CachedUnderOwnKey, AnswersAreOwn, Key
<1> QED
    BY <1>1, <1>2, <1>3, <1>4, <1>5, <1>6, <1>7 DEF Next, Probe, EndFlight

(* The flight of a place: who leads for its loop and key is in the dict.   *)
LEMMA LeaderOfPlace ==
    ASSUME FlightInv, NEW t \in Tasks, NEW u \in Tasks, OneFlightKey(Key(t)),
           pc[u] = "lead", Place(u) = Place(t)
    PROVE  inflight[Flight(t)] = u
<1>1. LoopOf[u] = LoopOf[t] /\ CacheKey[ArgsOf[u]] = Key(t)
    BY DEF Place, Key
<1>2. FlightKey[ArgsOf[u]] = FlightKey[ArgsOf[t]]
    BY <1>1, KeysInDomain DEF OneFlightKey, Key
<1> QED
    BY <1>1, <1>2 DEF FlightInv, LeadersAreEntered, Flight

(* A new flight begins only when the last one is accounted for.            *)
LEMMA CoalesceStep == CoalesceInv /\ [Next]_vars => CoalesceInv'
<1> SUFFICES ASSUME CoalesceInv, [Next]_vars PROVE EveryLossCounts'
    BY FlightStep DEF CoalesceInv
<1>0. TypeOK /\ FlightInv
    BY DEF CoalesceInv, FlightInv
<1> SUFFICES ASSUME NEW l \in Loops, NEW k \in CacheKeys, OneFlightKey(k)
             PROVE  \/ flights'[<<l, k>>] <= lost'[<<l, k>>]
                    \/ /\ flights'[<<l, k>>] <= lost'[<<l, k>>] + 1
                       /\ \/ cached'[k] # NoArgs
                          \/ \E t \in Tasks : pc'[t] = "lead" /\ Place(t) = <<l, k>>
    BY DEF EveryLossCounts, OneFlightKey, Place, Key
<1> DEFINE x == <<l, k>>
<1>a. x \in Loops \X CacheKeys /\ flights[x] \in Nat /\ lost[x] \in Nat
    BY <1>0 DEF TypeOK
<1>b. \/ flights[x] <= lost[x]
      \/ /\ flights[x] <= lost[x] + 1
         /\ cached[k] # NoArgs \/ \E t \in Tasks : pc[t] = "lead" /\ Place(t) = x
    BY DEF CoalesceInv, EveryLossCounts
<1> HIDE DEF x
<1>1. ASSUME NEW t \in Tasks,
             ReturnCached(t) \/ Follow(t) \/ ProbeRaises(t) \/ CancelFollower(t)
      PROVE  \/ flights'[x] <= lost'[x]
             \/ /\ flights'[x] <= lost'[x] + 1
                /\ cached'[k] # NoArgs \/ \E u \in Tasks : pc'[u] = "lead" /\ Place(u) = x
    BY <1>0, <1>1, <1>b DEF ReturnCached, Follow, ProbeRaises, CancelFollower, Runs, Goto, TypeOK
<1>2. ASSUME NEW t \in Tasks, Lead(t)
      PROVE  \/ flights'[x] <= lost'[x]
             \/ /\ flights'[x] <= lost'[x] + 1
                /\ cached'[k] # NoArgs \/ \E u \in Tasks : pc'[u] = "lead" /\ Place(u) = x
    <2>1. CASE Place(t) = x
        <3>1. Key(t) = k
            BY <2>1 DEF Place, x
        <3>2. ~ \E u \in Tasks : pc[u] = "lead" /\ Place(u) = x
            BY <1>0, <1>2, <2>1, <3>1, LeaderOfPlace, TasksAssumption DEF Lead
        <3>3. flights[x] <= lost[x]
            BY <1>2, <1>b, <3>1, <3>2 DEF Lead, Hit
        <3>4. flights'[x] = flights[x] + 1 /\ lost' = lost /\ pc'[t] = "lead"
            BY <1>0, <1>2, <1>a, <2>1 DEF Lead, Goto, TypeOK
        <3> QED
            BY <1>a, <2>1, <3>3, <3>4
    <2>2. CASE Place(t) # x
        <3>1. flights'[x] = flights[x] /\ lost' = lost /\ cached' = cached
            BY <1>0, <1>2, <1>a, <2>2, KeysInDomain DEF Lead, TypeOK
        <3>2. \A u \in Tasks : pc[u] = "lead" => pc'[u] = "lead"
            BY <1>0, <1>2 DEF Lead, Goto, TypeOK
        <3> QED
            BY <1>b, <3>1, <3>2
    <2> QED
        BY <2>1, <2>2
<1>3. ASSUME NEW t \in Tasks, EndFlight(t)
      PROVE  \/ flights'[x] <= lost'[x]
             \/ /\ flights'[x] <= lost'[x] + 1
                /\ cached'[k] # NoArgs \/ \E u \in Tasks : pc'[u] = "lead" /\ Place(u) = x
    <2>0. flights' = flights /\ \A u \in Tasks : u # t /\ pc[u] = "lead" => pc'[u] = "lead"
        BY <1>0, <1>3 DEF EndFlight, LeaderStores, LeaderStoresNothing, LeaderFails, Goto, TypeOK
    <2>1. CASE Place(t) = x /\ LeaderStores(t)
        <3>1. Key(t) = k
            BY <2>1 DEF Place, x
        <3>2. cached'[k] # NoArgs /\ lost' = lost
            BY <1>0, <2>1, <3>1, KeysInDomain, TasksAssumption DEF LeaderStores, TypeOK
        <3> QED
            BY <1>a, <1>b, <2>0, <3>2
    <2>2. CASE Place(t) = x /\ ~LeaderStores(t)
        <3>1. lost'[x] = lost[x] + 1
            BY <1>0, <1>3, <1>a, <2>2 DEF EndFlight, LeaderStoresNothing, LeaderFails, TypeOK
        <3> QED
            BY <1>a, <1>b, <2>0, <3>1
    <2>3. CASE Place(t) # x
        <3>1. lost'[x] = lost[x]
            BY <1>0, <1>3, <1>a, <2>3
            DEF EndFlight, LeaderStores, LeaderStoresNothing, LeaderFails, TypeOK
        <3>2. cached[k] # NoArgs => cached'[k] # NoArgs
            BY <1>0, <1>3, KeysInDomain, TasksAssumption
            DEF EndFlight, LeaderStores, LeaderStoresNothing, LeaderFails, TypeOK
        <3> QED
            BY <1>b, <2>0, <2>3, <3>1, <3>2
    <2> QED
        BY <2>1, <2>2, <2>3
<1>4. ASSUME NEW j \in CacheKeys, Drop(j)
      PROVE  \/ flights'[x] <= lost'[x]
             \/ /\ flights'[x] <= lost'[x] + 1
                /\ cached'[k] # NoArgs \/ \E u \in Tasks : pc'[u] = "lead" /\ Place(u) = x
    <2>0. flights' = flights /\ pc' = pc
        BY <1>4 DEF Drop
    <2>1. lost'[x] = IF k = j THEN lost[x] + 1 ELSE lost[x]
        BY <1>0, <1>4, <1>a DEF Drop, TypeOK, x
    <2>2. k # j => cached'[k] = cached[k]
        BY <1>0, <1>4 DEF Drop, TypeOK
    <2> QED
        BY <1>a, <1>b, <2>0, <2>1, <2>2
<1>5. CASE UNCHANGED vars
    BY <1>5, <1>b DEF vars, x
<1> QED
    BY <1>1, <1>2, <1>3, <1>4, <1>5 DEF Next, Probe, x

(* All three invariants hold before any call.                              *)
LEMMA InitOK == Init => FlightInv /\ AnswerInv
BY TasksAssumption DEF Init, FlightInv, AnswerInv, TypeOK, LeadersAreEntered, EntriesAreLeaders,
       FollowersWillWake, CachedUnderOwnKey, AnswersAreOwn

(* Every variable of the single flight keeps its type, and no follower     *)
(* waits for an entry that is not there (__call__).                        *)
THEOREM TypeCorrect == Spec => []TypeOK
<1>1. Init => TypeOK
    BY InitOK DEF FlightInv
<1> QED
    BY <1>1, TypeStep, PTL DEF Spec

(* Of the calls of one loop with equal keys at most one awaits the wrapped *)
(* function (__call__, _inflight).                                         *)
THEOREM SingleFlight == Spec => []OneLeader
<1>1. FlightInv => OneLeader
    BY DEF FlightInv, LeadersAreEntered, OneLeader
<1> QED
    BY <1>1, InitOK, FlightStep, PTL DEF Spec

(* No wake-up is lost, and no Event is awaited from another loop, however  *)
(* leaders end (the finally clause of __call__).                           *)
THEOREM NoLostWakeUp == Spec => []FollowersWillWake
<1>1. FlightInv => FollowersWillWake
    BY DEF FlightInv
<1> QED
    BY <1>1, InitOK, FlightStep, PTL DEF Spec

(* A call is answered with a result for its own cache key (the second      *)
(* _probe of __call__), whatever the dict takes for equal.                 *)
THEOREM OwnAnswers == Spec => []AnswersAreOwn
<1>1. AnswerInv => AnswersAreOwn
    BY DEF AnswerInv
<1> QED
    BY <1>1, InitOK, AnswerStep, PTL DEF Spec

(* In one loop the wrapped function is called for a key at most once more  *)
(* than its results were not stored or were lost (_inflight, __call__), as *)
(* far as the dict takes the arguments for equal.                          *)
THEOREM Coalescing == Spec => []CallsAreCoalesced
<1>1. Init => CoalesceInv
    BY InitOK DEF Init, CoalesceInv, EveryLossCounts
<1>2. CoalesceInv => CallsAreCoalesced
    <2> SUFFICES ASSUME CoalesceInv, NEW l \in Loops, NEW k \in CacheKeys, OneFlightKey(k)
                 PROVE  flights[<<l, k>>] <= lost[<<l, k>>] + 1
        BY DEF CallsAreCoalesced
    <2>1. flights[<<l, k>>] \in Nat /\ lost[<<l, k>>] \in Nat
        BY DEF CoalesceInv, FlightInv, TypeOK
    <2> QED
        BY <2>1 DEF CoalesceInv, EveryLossCounts
<1> QED
    BY <1>1, <1>2, CoalesceStep, PTL DEF Spec
===============================================================================
