CONSTANTS
  LimitSets <- Permitting
  NewRequests <- MCRequests
  ClientOrderIds = {1, 2, 3, 4, 5}
  CancelIds = {}
  ExchangeIds = {1, 2, 3}
  ReplacePrices = {1, 2}
  ReplaceQuantities = {1, 2}
  Reports = {}
  Symbols = {1}
  ReferencePrices = {1}
  Positions = {}
  Clients = {1, 2}
  MaxClock = 0
  Symbol = 1
  MaxOrders = 3
SPECIFICATION GatedSpec
CONSTRAINT FreshInOrder
INVARIANT RestingWithinMaximum
