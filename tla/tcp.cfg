CONSTANTS
  c1 = c1
  c2 = c2
  s = s
  Clients = {c1, c2}
  Sender = s
  InboxCap = 1
  EventsCap = 2
  MayFail = TRUE
SPECIFICATION FairSpec
CHECK_DEADLOCK FALSE
INVARIANTS TypeOK NoLostEdge TokensNameConnections SenderNeverStuck
PROPERTIES AllServed
