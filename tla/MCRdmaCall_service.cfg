SPECIFICATION FairSpec
CONSTANTS
  c1 = c1
  c2 = c2
  w1 = w1
  Clients = {c1,c2}
  Workers = {w1}
  CqOf <- OneQueue
  Requests = {"TEST", "DISCONNECT"}
  RecvDepth = 2
  SignalPeriod = 2
  MaxCalls = 3
  MaxResends = 0
INVARIANTS TypeOK OwnAnswer InFlightBound ReceivesAccounted
PROPERTIES BufferHandover ExactlyOnce EveryCallReturns
CHECK_DEADLOCK FALSE
