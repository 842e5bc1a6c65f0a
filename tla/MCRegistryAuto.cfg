SPECIFICATION PoolSpec
CONSTANTS
  Threads = {main, a, b, c}
  Main = main
  WorkerThreads = {w1, w2}
  Arguments <- AutoMains
  MaxStarts = 1
INVARIANT OneOwnerPerQueue
CHECK_DEADLOCK FALSE
