SPECIFICATION Spec
CONSTANTS
  below = below
  above = above
  client = client
  Peers = {below, above, client}
  ServerPeers = {below, above}
  Accepted = {above, client}
  CqNum = 2
  QpNumber = 3
INVARIANTS TypeOK ReadyPeers FailureLeavesNothing ClientGivesBack Crashes
CHECK_DEADLOCK FALSE
