CONSTANTS
  LimitSets <- Refusing
  NewRequests <- MCRequests
  ClientOrderIds = {1, 2}
  ExchangeIds = {0, 1, 2}
  ReplacePrices = {}
  ReplaceQuantities = {}
  Reports = {}
  Symbols = {1}
  ReferencePrices = {1}
  Positions = {}
  Clients = {1}
  MaxClock = 0
  MaxEvents = 8
SPECIFICATION Spec
CONSTRAINT FreshInOrder
INVARIANTS TrackedIsLive LogTellsAll
PROPERTIES FinalIsFinal DisconnectReleases
