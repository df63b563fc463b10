SPECIFICATION FairSpec
CHECK_DEADLOCK FALSE
CONSTANTS
  Ids = {s1, s2}
  MaxInbound = 2
  MaxPsm = 4
  MaxDrains = 2
  Mac = TRUE
  SlowPublish = FALSE
INVARIANTS
  NeverYanked
  NoStrayListener
PROPERTIES
  PendingResolves
