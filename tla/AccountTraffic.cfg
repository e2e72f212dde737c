SPECIFICATION Spec
CONSTANTS
  Orders = {"o1", "o2", "o3"}
  Holdings = {"h"}
  Symbols = {"AAA", "BBB"}
  SymbolOf <- Symbol
  Cost <- Price
  Funds = 3
  Ages = {0, 200, 400}
  b1 = b1
  b2 = b2
  w = w
  Batches = {b1, b2}
  Workers = {w}
  Deployments <- Supported
  BucketOf <- Bucket
  MaxOrdersPerRun = 2
  MaxNewsOrders = 1
  Reserve = 1
  MaxStaleAge = 390
  NoOrder = NoOrder
  Cleanups = {"c"}
  MaxAges = {120, 390}
  Reports = {"r"}
SYMMETRY Symmetry
INVARIANTS
  TypeOK
  ReserveKept
  OneOpenDealPerSymbol
  NoDealCountedTwice
PROPERTIES
  
  CleanupSparesFreshOrders
CHECK_DEADLOCK FALSE
