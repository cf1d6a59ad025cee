\* Fair scheduling: two processes, two words, two values, two writes, one kill.
CONSTANTS
  p1 = p1
  p2 = p2
  p3 = p3
  w1 = w1
  w2 = w2
  v1 = v1
  v2 = v2
  Procs <- TwoProcs
  Words <- TwoWords
  Values <- TwoValues
  Zero = v1
  MaxWrites = 2
  MaxCrashes = 1
SPECIFICATION FairSpec
INVARIANT TypeOK
INVARIANT ValidatedReadIsCommitted
INVARIANT WritersExclude
INVARIANT EvenSeqMeansWhole
PROPERTY OperationsEndUnlessOrphaned
PROPERTY ImplementsSharedRegion
\* A process killed inside the lock leaves the others spinning.
CHECK_DEADLOCK FALSE
