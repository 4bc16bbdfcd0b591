SPECIFICATION Spec
CONSTANTS
  Capacity = 2
  NumEvents = 5
  Calls <- CheckedCalls
INVARIANTS
  ProducedEqualsConsumed
