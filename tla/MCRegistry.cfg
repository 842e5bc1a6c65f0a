SPECIFICATION PoolSpec
CONSTANTS
  Threads = {main, a, b, c}
  Main = main
  WorkerThreads = {w1, w2}
  Arguments <- StatedMains
  MaxStarts = 1
INVARIANTS
  OneOwnerPerQueue
  RegistryInv
  IndexInPool
  OneThreadPerIndex
CHECK_DEADLOCK FALSE
