SPECIFICATION FairSpec
CHECK_DEADLOCK FALSE
CONSTANTS
  SidLen = 2
  KeyLen = 1
  Null = Null
  MaxBytes = 4
  Psms <- EdgePsms
  Credit = 2
  HighWater = 2
  BackToBack = FALSE
  Faults = {"slow", "silence", "throw", "close", "ended", "reaped"}
INVARIANTS
  PsmCarried
  ChannelAttended
PROPERTIES
  BytePipe
  NoOrphan
  BytesArrive
