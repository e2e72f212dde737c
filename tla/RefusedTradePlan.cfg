SPECIFICATION Spec
CONSTANTS
  MaxPrice = 19
  Dollar = 16
  Cent = 8
  SubCent = 4
INVARIANTS
  TradePlanIsSubmittable
CHECK_DEADLOCK FALSE
