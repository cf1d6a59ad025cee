\* Three processes, two slots, three keys of one hash that wraps: scans race with as
\* many readers as there are slots.
CONSTANTS
  p1 = p1
  p2 = p2
  p3 = p3
  k1 = k1
  k2 = k2
  k3 = k3
  v1 = v1
  v2 = v2
  Miss = Miss
  ZeroKey = ZeroKey
  ZeroValue = ZeroValue
  Procs <- ThreeProcs
  Keys <- ThreeKeys
  Values <- OneValue
  Hashes <- LastOfFour
  Capacity = 2
  HtCap = 4
  Ttl = 1
  StatMod = 1
  MaxTime = 2
SPECIFICATION Spec
SYMMETRY Symmetry
INVARIANT TypeOK
INVARIANT ListHoldsTheOccupied
INVARIANT FreeListHoldsTheRest
INVARIANT AllocationNeverFails
INVARIANT TableFindsExactlyTheOccupied
INVARIANT ScanStaysInList
INVARIANT ScanCost
PROPERTY ImplementsContract
