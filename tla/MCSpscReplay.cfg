SPECIFICATION Spec
CONSTANTS
  Capacity = 2
  NumEvents = 5
  Calls <- CheckedCalls
INVARIANTS
  StatsAddUp
PROPERTIES
  FollowsRing
  SameAsSingleThread
  Terminates
