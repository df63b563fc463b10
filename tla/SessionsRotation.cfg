SPECIFICATION Spec
CHECK_DEADLOCK FALSE
CONSTANTS
  Ids = {s1, s2, s3}
  MaxInbound = 2
  MaxPsm = 4
  MaxDrains = 2
  Mac = FALSE
  SlowPublish = TRUE
SYMMETRY IdSymmetry
INVARIANTS
  SessionsInv
  ServedWithinMax
  DeadPsmRotates
PROPERTIES
  LastOneRotates
