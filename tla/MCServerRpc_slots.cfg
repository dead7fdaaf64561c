SPECIFICATION FairSpec
CONSTANTS
  a = a
  b = b
  c = c
  MessageSize = 1
  MaxClientNumber = 1
  ServerMessageNum = 2
  MetadataSize = 1
  ServerCount = 2
  DataSize = 3
  FillSize = 1
  Threads = {a, b, c}
  Home <- MCHome
  Slot <- MCSlot
  ClientIDs = {3, 4}
  RecvDepth = 2
  MaxCalls <- MCCalls
  MaxWrites <- MCWrites
INVARIANTS TypeOK Protected OwnAnswer ReceivesAccounted
PROPERTIES ExactlyOnce SlotHandover EveryCallReturns
CHECK_DEADLOCK FALSE
