SPECIFICATION Spec
CONSTANTS
  Orders = {o1, o2}
  Loops = {w1}
  Routes = {rt1}
  Batches = {b1}
  MaxAttempts = 3
  TradingMode = "LIVE"
  TradingEnabled = TRUE
  DbDropsMetadata = FALSE
  Faults = {"crash", "db_call"}
  NoOrder = NoOrder
  NoClaim = NoClaim
SYMMETRY Symmetry
INVARIANTS
  TypeOK
  AtMostOneSubmission
  ExclusiveExecution
  SubmissionIsWitnessed
  SucceededIsTracked
PROPERTIES
  FinishedJobStays
  FollowsSubmissionProtocol
CHECK_DEADLOCK FALSE
