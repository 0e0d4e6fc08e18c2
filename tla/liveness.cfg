CONSTANTS
  k1 = k1
  k2 = k2
  ks = ks
  Keys = {k1, k2}
  StreamKey = ks
  MaxSendDgrams = 1
  WriteCap = 1
  CmdCap = 1
  InitCwnd = 3
  MaxDgrams = 6
  Ends <- EndsLive
  Script <- ScriptLive
  MayCancel = FALSE
  EarlyDrop = {"recv_stream"}
  Reading = {}
  MaxStreamWrites = 0
SPECIFICATION FairSpec
CHECK_DEADLOCK FALSE
PROPERTIES ReturnsOrStalls ReadyNotified ShutdownReleases PipeLiveness
