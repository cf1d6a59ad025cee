\* One thread, two keys of one hash, an __eq__ that may raise, one entry.
CONSTANTS
  t1 = t1
  t2 = t2
  k1 = k1
  k2 = k2
  k3 = k3
  k4 = k4
  v1 = v1
  v2 = v2
  Miss = Miss
  NoKey = NoKey
  NoValue = NoValue
  Threads <- OneThread
  MaxDepth = 0
  Keys <- TwoKeys
  HashOf <- SameHash
  Values <- OneValue
  Gil = TRUE
  Raising = TRUE
  Ttl = 0
  StatMod = 1
  MaxTime = 0
  MaxSize = 1
  MIN_SHARD_SIZE = 1
  MAX_SHARDS = 1
SPECIFICATION Spec
INVARIANT ShardBounded
