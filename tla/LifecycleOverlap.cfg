SPECIFICATION Spec
CHECK_DEADLOCK FALSE
CONSTANTS
  Topics = {k1, k2}
  Platform = "mac"
  MaxCalls = 5
  MaxCycles = 1
  Hazards = {"overlap", "rebuild", "cycle"}
  NoTopic = NoTopic
SYMMETRY TopicSymmetry
INVARIANTS
  TypeOK
  QuietUnlessWanted
  OneTopicAtRest
