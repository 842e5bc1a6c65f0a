SPECIFICATION FairSpec
CONSTANTS
  Jobs = {j1, j2}
  Null = null
  Owner = owner
  Thieves = {t1}
  Capacity = 2
  CounterModulus = 8
  MaxMakes = 3
INVARIANTS
  TypeOK
  AtMostOnce
  RecycledOnlyWhenDone
  ActiveCoversWork
PROPERTIES
  GroupWaitCoversAll
  FailsOnlyWhenInUse
  WaitsEnd
CHECK_DEADLOCK FALSE
