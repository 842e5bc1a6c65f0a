SPECIFICATION Spec
CONSTANTS
  Capacity = 2
  Owner = owner
  Others = {p1}
INVARIANT NoJobEverLost
CHECK_DEADLOCK FALSE
