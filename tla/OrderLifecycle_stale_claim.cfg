SPECIFICATION Spec
CONSTANTS
  Orders = {o1}
  Skus = {s1}
  Keys = {k1, k2}
  Requests = {r1, r2}
  StockPerSku = 1
  Stock <- MCStock
  MaxQuantity = 1
SYMMETRY AnyNames
INVARIANT NewAttemptsOnPayableOrders
