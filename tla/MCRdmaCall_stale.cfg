SPECIFICATION Spec
CONSTANTS
  c1 = c1
  c2 = c2
  w1 = w1
  Clients = {c1}
  Workers = {w1}
  CqOf <- OneQueue
  Requests = {"TEST"}
  RecvDepth = 2
  SignalPeriod = 2
  MaxCalls = 2
  MaxResends = 1
INVARIANT OwnAnswerAlways
CHECK_DEADLOCK FALSE
