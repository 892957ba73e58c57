SPECIFICATION FairSpec
CONSTANTS
  d1 = d1
  d2 = d2
  Dies <- MCDies
  FalseDies <- MCFalseDies
  MaxDepth = 7
  MaxScope = 4
  MaxSlots = 3
INVARIANTS TypeOK WellNested ScopesHeld LeakNeedsSwallow ArgStackIntact
PROPERTIES ImpBalanced PropagatesErrors ErrorsSettle
