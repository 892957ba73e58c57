SPECIFICATION Spec
CONSTANTS
  Leaf = 3
  FirstPerl = 2
  Nested <- MCNested
  CacheAutoload = TRUE
  MaxDepth = 12
INVARIANTS TypeOK LoopsAreKnown
