SPECIFICATION SimulationSpec
CONSTANTS
  Orders = {1}
  Quantity = 2
  Sweepers = {}
  Readers = {g}
  Submitters = {s1}
  Cancellers = {}
  Limit = 1
  TradingMode = "PAPER"
  Faults = {}
  Scenario <- Failing
  Size <- OneShare
  StatusQuantity = 2
INVARIANTS
  FailSymbolFails
CHECK_DEADLOCK FALSE
