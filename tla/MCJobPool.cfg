SPECIFICATION Spec
CONSTANTS
  Capacity = 3
  Owner = owner
  Others = {p1}
INVARIANTS
  TypeOK
  UnfinishedStayAllocated
  OneHolder
  NoJobLost
  ListHasRoom
PROPERTIES
  FailsOnlyWhenAllUnfinished
  KeepsAllocatorContract
CHECK_DEADLOCK FALSE
