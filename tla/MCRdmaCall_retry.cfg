SPECIFICATION Spec
CONSTANTS
  c1 = c1
  c2 = c2
  w1 = w1
  Clients = {c1,c2}
  Workers = {w1}
  CqOf <- OneQueue
  Requests = {"TEST", "MALLOC"}
  RecvDepth = 2
  SignalPeriod = 2
  MaxCalls = 2
  MaxResends = 1
INVARIANTS OwnAnswer InFlightBound ReceivesAccounted
PROPERTY BufferHandover
CHECK_DEADLOCK FALSE
