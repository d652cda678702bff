SPECIFICATION RetriedSpec
CONSTANTS
  Orders = {o1}
  Skus = {s1, s2}
  Keys = {k1, k2}
  Requests = {r1}
  StockPerSku = 1
  Stock <- MCStock
  MaxQuantity = 1
PROPERTIES
  ClaimedPaymentsSettle
  OverdueOrdersSettle
  ImplementsLedger
