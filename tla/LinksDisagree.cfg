SPECIFICATION Spec
CHECK_DEADLOCK FALSE
CONSTANTS
  ann = ann
  bob = bob
  cat = cat
  dan = dan
  None = None
  Devices <- Pair
  Key <- PairKey
  Pipe <- PairL2cap
  Accepts <- PairOpenPolicy
  Sees <- AnnSees
  MaxInbound <- Two
  MaxOutbound <- Two
  Slots <- TwoSlots
  Faults = {"centralError"}
  SharedLink = FALSE
INVARIANTS
  RetireSameChannel
