SPECIFICATION FairSpec
CONSTANTS
  Orders = {o1}
  Loops = {w1}
  Routes = {}
  Batches = {b1}
  MaxAttempts = 3
  TradingMode = "PAPER"
  TradingEnabled = TRUE
  DbDropsMetadata = TRUE
  Faults = {"job_reply"}
  NoOrder = NoOrder
  NoClaim = NoClaim
INVARIANTS
  SucceededIsTracked
PROPERTIES
  EveryJobFinishes
CHECK_DEADLOCK FALSE
