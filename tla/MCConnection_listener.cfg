SPECIFICATION FairSpec
CONSTANTS
  c1 = c1
  c2 = c2
  ServerCount = 2
  Clients = {c1, c2}
  CqNum = 2
  MayCrash = {c1}
PROPERTIES ListenerAccepts
CHECK_DEADLOCK FALSE
