\* Two processes race an expired lookup with an insert of the same key.
CONSTANTS
  p1 = p1
  p2 = p2
  p3 = p3
  k1 = k1
  k2 = k2
  k3 = k3
  v1 = v1
  v2 = v2
  Miss = Miss
  ZeroKey = ZeroKey
  ZeroValue = ZeroValue
  Procs <- TwoProcs
  Keys <- TwoKeys
  Values <- OneValue
  Hashes <- OneHash
  Capacity = 1
  HtCap = 2
  Ttl = 1
  StatMod = 1
  MaxTime = 2
SPECIFICATION Spec
PROPERTY OnlyExpiredEntriesExpire
