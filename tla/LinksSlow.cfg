SPECIFICATION Spec
CHECK_DEADLOCK FALSE
CONSTANTS
  ann = ann
  bob = bob
  cat = cat
  dan = dan
  None = None
  Devices <- Pair
  Key <- PairKey
  Pipe <- PairL2cap
  Accepts <- PairOpenPolicy
  Sees <- PairSees
  MaxInbound <- Two
  MaxOutbound <- Two
  Slots <- OneSlot
  Faults = {"slow", "loss", "psm"}
  SharedLink = TRUE
INVARIANTS
  LinkInv
  RetireSameChannel
