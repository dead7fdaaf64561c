SPECIFICATION FairSpec
CONSTANTS
  WorkerNumber = 2
  PoolSize = 2
  Page = 1
  Threshold = 4
  Sizes <- AllSizes
  SignalPeriod = 2
  MaxTransfers = 2
  MaxCalls = 3
  MaxBroken = 1
INVARIANTS TypeOK CompletionBalance NothingOutstanding TransferredByCaller PartsCover
PROPERTIES EveryTransferReturns
CHECK_DEADLOCK FALSE
