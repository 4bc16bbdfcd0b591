CONSTANTS
  Symbol = 1
  NewRequests <- MCRequests
  Prices <- MCPrices
  Quantities <- MCQuantities
  ClientOrderIds = {1, 2, 3, 4}
  MaxOrders = 3
SPECIFICATION Spec
CONSTRAINT FreshInOrder
INVARIANTS BookMatchesStates ReportsDescribeBook NoSelfTrade
PROPERTIES TerminalIsFinal PriceTimeSpec
