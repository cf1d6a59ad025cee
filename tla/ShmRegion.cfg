\* Two processes of equal parameters, one that wants another ttl, one that is refused.
CONSTANTS
  p1 = p1
  p2 = p2
  p3 = p3
  p4 = p4
  NoTtl = NoTtl
  NoProc = NoProc
  Procs <- FourProcs
  Request <- FourRequests
  MaxCapacity = 2
  U64 = 4
  MaxStarts = 3
  MaxCrashes = 1
  MaxErrors = 1
SPECIFICATION FairSpec
INVARIANT DeciderFindsFinishedWork
INVARIANT UsersKeepTheirRegion
INVARIANT TtlTakesEffect
PROPERTY ReturnedRegionIsOwn
PROPERTY RefusedLeavesFilesAlone
PROPERTY StartersFinish
\* The bound on calls ends every run.
CHECK_DEADLOCK FALSE
