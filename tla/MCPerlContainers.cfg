\* The program has no meaning after it used a dead object: it may stop there.
SPECIFICATION EndsSpec
CONSTANTS
  private = private
  shared = shared
  key = key
  Text = Text
  None = None
  Objects <- MCObjects
  Shared <- MCShared
  Keys <- MCKeys
  MaxLen = 3
  MaxRefs = 2
INVARIANTS
  TypeOK
  RetainsMatch
  OnlySharedDie
PROPERTY
  RemovalIsDeferred
CHECK_DEADLOCK FALSE
