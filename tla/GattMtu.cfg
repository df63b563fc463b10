SPECIFICATION Spec
CHECK_DEADLOCK FALSE
CONSTANTS
  MaxBytes = 4
  MaxCtrl = 2
  Payloads = {1, 3}
  Capacity = 1
  Faults = {}
  MaxFaults = 2
  MtuMidWrite = TRUE
INVARIANTS
  InOrder
