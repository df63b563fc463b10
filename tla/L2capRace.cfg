SPECIFICATION Spec
CHECK_DEADLOCK FALSE
CONSTANTS
  SidLen = 2
  KeyLen = 1
  Null = Null
  MaxBytes = 4
  Psms <- EdgePsms
  Credit = 2
  HighWater = 2
  BackToBack = TRUE
  Faults = {}
INVARIANTS
  InOrder
