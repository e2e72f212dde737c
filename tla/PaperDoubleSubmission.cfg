SPECIFICATION Spec
CONSTANTS
  Orders = {o1}
  Loops = {w1}
  Routes = {}
  Batches = {b1}
  MaxAttempts = 2
  TradingMode = "PAPER"
  TradingEnabled = TRUE
  DbDropsMetadata = FALSE
  Faults = {}
  NoOrder = NoOrder
  NoClaim = NoClaim
SYMMETRY Symmetry
INVARIANTS
  AtMostOneSubmission
CHECK_DEADLOCK FALSE
