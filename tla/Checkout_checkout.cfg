SPECIFICATION Spec
CONSTANTS
  Skus <- MCSkus
  Keys = {k1, k2}
  Processes = {p1, p2}
  Offers <- MCOffers
  Stock <- MCStock
  MaxQuantity = 2
  MaxItems = 2
  MaxVersion = 2
  MaxTokens = 1
SYMMETRY Interchangeable
INVARIANTS
  ItemsAccounted
  VersionFixesQuantity
  OrderIsPreviewed
  DeadlockNeedsClear
PROPERTY ReplayNotRejected
