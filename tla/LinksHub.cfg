SPECIFICATION Spec
CHECK_DEADLOCK FALSE
CONSTANTS
  ann = ann
  bob = bob
  cat = cat
  dan = dan
  None = None
  Devices <- Three
  Key <- HubKey
  Pipe <- HubPipe
  Accepts <- HubPolicy
  Sees <- HubSees
  MaxInbound <- One
  MaxOutbound <- One
  Slots <- OneSlot
  Faults = {"loss", "error"}
  SharedLink = TRUE
INVARIANTS
  RecordsTrue
  InboundCap
