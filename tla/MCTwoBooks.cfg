CONSTANTS
  o1 = o1
  o2 = o2
  o3 = o3
  Ids <- MCIds
  Prices <- MCPrices
  Quantities <- MCQuantities
  Symbol = 1
  Orders <- MCOrders
SPECIFICATION BothSpec
SYMMETRY Symmetric
INVARIANTS BookSound PooledBookSound BooksAgree
PROPERTY PriceTimeSpec
