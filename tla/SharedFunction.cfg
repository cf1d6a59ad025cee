\* Two processes and thirteen calls that differ in what a key could lose.
CONSTANTS
  p1 = p1
  p2 = p2
  Miss = Miss
  Procs <- TwoProcs
  AllFunctions <- ThreeFunctions
  Region <- RegionOfF
  Calls <- PlainCalls
  Objects <- SomeObjects
  Depth <- TheirDepth
  Results <- TheirResults
  Variants = {0, 1}
  max_key_size = 22
  max_value_size = 11
  U32 = 64
  Capacity = 2
  StatMod = 2
  I64 = 16
  TUPLE_MAX = 2
  SURROGATE = 99
SYMMETRY Symmetry
SPECIFICATION Spec
INVARIANT TypeOK
INVARIANT CachedAnswersAreOwn
INVARIANT OneEntryPerCall
INVARIANT EntriesFitTheirSlot
