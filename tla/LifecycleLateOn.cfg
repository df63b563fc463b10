SPECIFICATION Spec
CHECK_DEADLOCK FALSE
CONSTANTS
  Topics = {k1}
  Platform = "android"
  MaxCalls = 4
  MaxCycles = 0
  Hazards = {"slow"}
  NoTopic = NoTopic
INVARIANTS
  RestoredAtRest
