SPECIFICATION FairSpec
CHECK_DEADLOCK FALSE
CONSTANTS
  ann = ann
  bob = bob
  cat = cat
  dan = dan
  None = None
  Devices <- Four
  Key <- FourKey
  Pipe <- FourPipe
  Accepts <- FourPolicy
  Sees <- FourSees
  MaxInbound <- Two
  MaxOutbound <- Two
  Slots <- OneSlot
  Faults = {}
  SharedLink = FALSE
INVARIANTS
  RefusedBeforeNoise
PROPERTIES
  LinksSettle
