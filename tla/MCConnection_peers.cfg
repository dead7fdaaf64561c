SPECIFICATION FairSpec
CONSTANTS
  c1 = c1
  c2 = c2
  ServerCount = 2
  Clients = {c1, c2}
  CqNum = 2
  MayCrash = {c1}
INVARIANTS TypeOK UniqueNodeIDs Ownership
PROPERTIES Joined ConnectReturns
CHECK_DEADLOCK FALSE
