SPECIFICATION FairSpec
CHECK_DEADLOCK FALSE
CONSTANTS
  MaxBytes = 4
  MaxCtrl = 2
  Payloads = {1, 3}
  Capacity = 1
  Faults = {"slow", "silence", "error", "throw", "loss", "reset"}
  MaxFaults = 2
  MtuMidWrite = FALSE
INVARIANTS
  OneWriteInFlight
  AckIsReceipt
  WriteAttended
PROPERTIES
  BytePipe
  CarrierDrains
  BytesArrive
