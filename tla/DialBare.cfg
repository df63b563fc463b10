SPECIFICATION Spec
CHECK_DEADLOCK FALSE
CONSTANTS
  MaxConnects = 4
  MaxSessions = 5
  Reuse = {TRUE, FALSE}
INVARIANTS
  AlwaysTimed
