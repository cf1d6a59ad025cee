\* With the GIL: two threads, three keys of one hash for two places, entries that expire:
\* order fills with stale and repeated keys.
CONSTANTS
  t1 = t1
  t2 = t2
  k1 = k1
  k2 = k2
  k3 = k3
  k4 = k4
  v1 = v1
  v2 = v2
  Miss = Miss
  NoKey = NoKey
  NoValue = NoValue
  Threads <- TwoThreads
  MaxDepth = 0
  Keys <- ThreeKeys
  HashOf <- SameHash
  Values <- OneValue
  Gil = TRUE
  Raising = FALSE
  Ttl = 1
  StatMod = 1
  MaxTime = 2
  MaxSize = 2
  MIN_SHARD_SIZE = 1
  MAX_SHARDS = 1
SPECIFICATION Spec
SYMMETRY Symmetry
INVARIANT TypeOK
INVARIANT GuardsDoNotAlias
INVARIANT EveryEntryEvictable
INVARIANT ShardBounded
INVARIANT EvictOneEvictsOne
PROPERTY UnvisitedFirst
PROPERTY FirstResultStays
PROPERTY ImplementsContract
