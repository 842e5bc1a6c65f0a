SPECIFICATION Spec
CONSTANTS
  Jobs = {j1, j2}
  Null = null
  Owner = owner
  Thieves = {t1}
  Capacity = 2
  CounterModulus = 8
  MaxMakes = 2
INVARIANTS
  ExecutedOnce
CHECK_DEADLOCK FALSE
