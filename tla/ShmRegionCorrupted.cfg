\* One system call fails while a region is recreated; nobody is killed.
CONSTANTS
  p1 = p1
  p2 = p2
  p3 = p3
  p4 = p4
  NoTtl = NoTtl
  NoProc = NoProc
  Procs <- TwoProcs
  Request <- UnequalRequests
  MaxCapacity = 2
  U64 = 4
  MaxStarts = 3
  MaxCrashes = 0
  MaxErrors = 1
SPECIFICATION FairSpec
PROPERTY CorruptedFileIsRecreated
CHECK_DEADLOCK FALSE
