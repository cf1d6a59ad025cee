\* Three calls in one loop and two in another; one call has arguments that are equal to the
\* others' in Python, and another key in the cache.
CONSTANTS
  t1 = t1
  t2 = t2
  t3 = t3
  t4 = t4
  t5 = t5
  l1 = l1
  l2 = l2
  a1 = a1
  a2 = a2
  NoTask = NoTask
  NoArgs = NoArgs
  Tasks <- FiveTasks
  Loops <- TwoLoops
  LoopOf <- ThreeAndTwo
  Args <- TwoArgs
  ArgsOf <- OneOdd
  FlightKey <- OneKey
  CacheKey <- OwnKeys
  MaxDrops = 1
SPECIFICATION FairSpec
INVARIANT OneLeader
INVARIANT FollowersWillWake
INVARIANT CallsAreCoalesced
INVARIANT AnswersAreOwn
PROPERTY CallsEnd
\* Every task is one call, so all of them end.
CHECK_DEADLOCK FALSE
