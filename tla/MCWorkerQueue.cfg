SPECIFICATION GroupSpec
CONSTANTS
  Jobs = {j1, j2, j3}
  Null = null
  Owner = owner
  Thieves = {t1, t2}
  Capacity = 4
  MaxIndex = 5
  IndexModulus = 16
  CounterModulus = 8
  Disciplined = FALSE
INVARIANTS
  GroupTypeOK
  NestedJobsKept
  NoJobOverwritten
PROPERTY WaitCoversUnlessMisled
SYMMETRY Symmetry
CHECK_DEADLOCK FALSE
