SPECIFICATION FairSpec
CONSTANTS
  NSString = NSString
  NSObjectController = NSObjectController
  ABPerson = ABPerson
  ABGroup = ABGroup
  MyView = MyView
  Linked <- MCLinked
  Bundled <- MCBundled
  Registered <- MCRegistered
  Skipped <- MCSkipped
  MaxObjects = 3
INVARIANTS TypeOK ClassesWrapped HalfStartIsKnown
PROPERTIES BridgeStays ParentsStay StartEnds
