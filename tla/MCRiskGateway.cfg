CONSTANTS
  LimitSets <- MCLimits
  NewRequests <- MCRequests
  ClientOrderIds = {1, 2, 3}
  ExchangeIds <- MCExchangeIds
  ReplacePrices = {0, 1, 2}
  ReplaceQuantities = {0, 1, 2}
  Reports <- MCReports
  Symbols = {1}
  ReferencePrices = {1}
  Positions = {2}
  Clients = {1, 2}
  MaxClock = 1
SPECIFICATION GatewaySpec
CONSTRAINT FreshInOrder
INVARIANTS ExposureMatchesOrders StoppedMeansNothingWorks
