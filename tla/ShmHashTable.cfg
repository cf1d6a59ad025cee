\* Four slots and keys, eight buckets, every hash from 0 to 8 for every key:
\* all collisions, equal hashes, equal buckets of unequal hashes, and wraps.
CONSTANTS
  k1 = k1
  k2 = k2
  k3 = k3
  k4 = k4
  ZeroKey = ZeroKey
  ZeroValue = ZeroValue
  Capacity = 4
  HtCap = 8
  Hashes = {0, 1, 2, 3, 4, 5, 6, 7, 8}
SPECIFICATION Spec
SYMMETRY Symmetry
INVARIANT LookupMatchesSearch
INVARIANT NoStaleBucket
