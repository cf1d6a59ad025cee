\* Free-threaded, two threads that nest one call deep, one key whose __eq__ may raise,
\* two shards to clear.
CONSTANTS
  t1 = t1
  t2 = t2
  k1 = k1
  k2 = k2
  k3 = k3
  k4 = k4
  v1 = v1
  v2 = v2
  Miss = Miss
  NoKey = NoKey
  NoValue = NoValue
  Threads <- TwoThreads
  MaxDepth = 1
  Keys <- OneKey
  HashOf <- SameHash
  Values <- OneValue
  Gil = FALSE
  Raising = TRUE
  Ttl = 0
  StatMod = 1
  MaxTime = 0
  MaxSize = 2
  MIN_SHARD_SIZE = 1
  MAX_SHARDS = 2
SPECIFICATION FairSpec
PROPERTY CallsReturn
