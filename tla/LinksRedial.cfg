SPECIFICATION FairSpec
CHECK_DEADLOCK FALSE
CONSTANTS
  ann = ann
  bob = bob
  cat = cat
  dan = dan
  None = None
  Devices <- Pair
  Key <- PairKey
  Pipe <- PairL2cap
  Accepts <- PairOpenPolicy
  Sees <- BobSees
  MaxInbound <- Two
  MaxOutbound <- Two
  Slots <- TwoSlots
  Faults = {"loss", "error"}
  SharedLink = FALSE
INVARIANTS
  DeadlineUntilAnswered
  OneChannelPerDirection
PROPERTIES
  HostPromise
  SessionsReclaimed
  DialsResolve
