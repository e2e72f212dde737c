SPECIFICATION FairSpec
CONSTANTS
  Orders = {1}
  Quantity = 3
  Sweepers = {w}
  Readers = {g}
  Submitters = {s1}
  Cancellers = {}
  Limit = 2
  TradingMode = "LIVE"
  Faults = {}
INVARIANTS
  CheckpointIsRecorded
  RowNeverAheadOfBroker
PROPERTIES
  SettledOrderIsLearnt
CHECK_DEADLOCK FALSE
