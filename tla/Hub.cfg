SPECIFICATION FairSpec
CONSTANTS
  Clients = {c1, c2}
  MaxMessages = 4
  BroadcastCap = 2
  SendCap = 2
INVARIANTS
  ClosedOnce
  InOrder
PROPERTIES
  KeepsFeed
  NeverStuck
  DeadClientLeaves
CHECK_DEADLOCK FALSE
