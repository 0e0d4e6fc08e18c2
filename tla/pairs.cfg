CONSTANTS
  ChanCap = 3
  MayStop = TRUE
SPECIFICATION FairSpec
CHECK_DEADLOCK FALSE
INVARIANTS TypeOK NoLostEdge SenderWoken
PROPERTIES Attended SenderResumes
