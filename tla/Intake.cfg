SPECIFICATION Spec
CONSTANTS
  a1 = a1
  a2 = a2
  t1 = t1
  t2 = t2
  Requests = {r1, r2}
  Trades = {t1, t2}
  Approvals = {a1, a2}
  Fits <- SharedApproval
  Buckets = {"value_rebound", "unassigned"}
  Unassigned = "unassigned"
  BucketLostBy = {"create", "update"}
  MetadataLost = TRUE
  TradingMode = "LIVE"
  Faults = {"db_call", "crash"}
  NoTrade = NoTrade
SYMMETRY Symmetry
INVARIANTS
  TypeOK
  ApprovalBuysOneOrder
  MismatchKeepsApproval
PROPERTIES
  KeepsLedger
CHECK_DEADLOCK FALSE
