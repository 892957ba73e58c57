\* The program has no meaning after it went wrong: it may stop there.
SPECIFICATION Spec
CONSTANTS
  private = private
  shared = shared
  key = key
  Text = Text
  None = None
  Objects <- MCObjects
  Shared <- MCShared
  Keys <- MCKeys
  MaxLen = 3
  MaxRefs = 2
INVARIANT
  StoredLive
CHECK_DEADLOCK FALSE
