SPECIFICATION Spec
CONSTANTS
  MaxPrice = 19
  Dollar = 16
  Cent = 8
  SubCent = 4
INVARIANTS
  TypeOK
  RoundingKeepsSides
  SentPricesAreTicks
CHECK_DEADLOCK FALSE
