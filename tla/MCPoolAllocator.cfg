SPECIFICATION Spec
CONSTANTS
  MaxBlocks = 4
  Disciplined = TRUE
INVARIANTS
  TypeOK
  FreeListIntact
  CountsHeldBlocks
PROPERTY AllocatesFreeBlock
