SPECIFICATION Spec
CONSTANTS
  Jobs = {j1, j2}
  Null = null
  Owner = owner
  Thieves = {t1, t2}
  Capacity = 2
  MaxIndex = 6
  IndexModulus = 16
  Disciplined = TRUE
INVARIANTS
  QueueInv
  StealClaimsCurrentEntry
  PopMissesOnlyWhenEmpty
PROPERTY ImplementsAtomicQueue
