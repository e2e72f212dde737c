SPECIFICATION Spec
CONSTANTS
  Orders = {1, 2}
  Quantity = 2
  Sweepers = {w}
  Readers = {}
  Submitters = {s1}
  Cancellers = {c1}
  Limit = 2
  TradingMode = "LIVE"
  Faults = {"db_call", "broker_call", "no_average", "crash"}
SYMMETRY Symmetry
INVARIANTS
  TypeOK
  NoShareRecordedTwice
  RowNeverAheadOfBroker
  FillIsPricedFromItsCheckpoint
PROPERTIES
  CheckpointNeverMovesBack
CHECK_DEADLOCK FALSE
