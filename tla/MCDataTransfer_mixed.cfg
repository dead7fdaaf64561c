SPECIFICATION Spec
CONSTANTS
  WorkerNumber = 2
  PoolSize = 2
  Page = 1
  Threshold = 4
  Sizes <- EvenSizes
  SignalPeriod = 2
  MaxTransfers = 1
  MaxCalls = 0
  MaxBroken = 0
INVARIANTS Transferred
CHECK_DEADLOCK FALSE
