SPECIFICATION Spec
CONSTANTS
  Reconcilers = {r1}
  Upgraders = {u1}
  Quantity = 2
  Books <- AllBooks
  Faults = {"cancel_slow", "cancel_lost", "submit_lost", "refused", "crash"}
INVARIANTS
  TypeOK
  ReplacedAfterCancelled
  GapIsReported
  VerifiedIsProtected
CHECK_DEADLOCK FALSE
