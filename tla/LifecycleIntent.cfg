SPECIFICATION FairSpec
CHECK_DEADLOCK FALSE
CONSTANTS
  Topics = {k1, k2}
  Platform = "ios"
  MaxCalls = 4
  MaxCycles = 2
  Hazards = {"rebuild"}
  NoTopic = NoTopic
INVARIANTS
  IntentKept
PROPERTIES
  RadioFollowsIntent
