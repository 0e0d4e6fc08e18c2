CONSTANTS
  Senders = {"a", "b", "c"}
  PipeCap = 2
  QueueCap = 1
  MayKill = TRUE
SPECIFICATION FairSpec
CHECK_DEADLOCK FALSE
INVARIANT BrokenMeansUnread
PROPERTIES SenderReleased ReaderSeesEnd
