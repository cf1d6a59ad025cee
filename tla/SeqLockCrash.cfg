\* Fair scheduling, one kill, every killed process is started again.
CONSTANTS
  p1 = p1
  p2 = p2
  p3 = p3
  w1 = w1
  w2 = w2
  v1 = v1
  v2 = v2
  Procs <- TwoProcs
  Words <- TwoWords
  Values <- TwoValues
  Zero = v1
  MaxWrites = 1
  MaxCrashes = 1
SPECIFICATION FairSpec
PROPERTY ReadCompletes
CHECK_DEADLOCK FALSE
