SPECIFICATION FairSpec
CONSTANTS
  s1 = s1
  s2 = s2
  Servers = {s1, s2}
  SignalPeriod = 3
  MaxPostList = 2
  Depth = 12
  MaxUnpolled = 1
INVARIANTS TypeOK CompletionBalance SendQueueBound
PROPERTY EveryPostReturns
