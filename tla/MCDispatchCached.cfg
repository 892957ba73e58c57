SPECIFICATION Spec
CONSTANTS
  Leaf = 2
  FirstPerl = 2
  Nested = {}
  CacheAutoload = TRUE
  MaxDepth = 12
INVARIANTS SuperReachesParent
