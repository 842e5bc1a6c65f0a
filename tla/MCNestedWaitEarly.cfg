SPECIFICATION GroupSpec
CONSTANTS
  Jobs = {j1}
  Null = null
  Owner = owner
  Thieves = {t1}
  Capacity = 2
  MaxIndex = 3
  IndexModulus = 16
  CounterModulus = 8
  Disciplined = FALSE
PROPERTY GroupWaitCoversAll
CHECK_DEADLOCK FALSE
