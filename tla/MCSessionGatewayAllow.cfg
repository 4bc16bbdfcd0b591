CONSTANTS
  LimitSets <- Allowing
  NewRequests <- MCRequests
  ClientOrderIds = {1, 2}
  ExchangeIds = {1, 2}
  ReplacePrices = {}
  ReplaceQuantities = {}
  Reports = {}
  Symbols = {1}
  ReferencePrices = {1}
  Positions = {}
  Clients = {1}
  MaxClock = 0
  MaxEvents = 8
SPECIFICATION Spec
CONSTRAINT FreshInOrder
PROPERTY DisconnectReleases
