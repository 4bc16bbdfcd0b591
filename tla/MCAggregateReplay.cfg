SPECIFICATION Spec
CONSTANTS
  SymbolCount = 2
  BurstSize = 2
  MidPrice = 2
  PriceRange = 1
  Quantities = {2}
  Scenarios <- MCScenarios
  MaxFaults = 1
INVARIANTS Parity FaithfulOrFlagged ModesAgree
CHECK_DEADLOCK FALSE
