SPECIFICATION FairSpec
CHECK_DEADLOCK FALSE
CONSTANTS
  MaxPeers = 3
  MaxDials = 3
  Overlap = FALSE
INVARIANTS
  CadenceRight
  QuietWhileSuspended
PROPERTIES
  ScanRecurs
  ScanRests
