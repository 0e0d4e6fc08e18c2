CONSTANTS
  k1 = k1
  k2 = k2
  ks = ks
  Keys = {k1, k2}
  StreamKey = ks
  MaxSendDgrams = 1
  WriteCap = 1
  CmdCap = 1
  InitCwnd = 4
  MaxDgrams = 5
  Ends <- EndsMain
  Script <- ScriptCancel
  MayCancel = TRUE
  EarlyDrop = {}
  Reading = {}
  MaxStreamWrites = 0
SPECIFICATION Spec
CHECK_DEADLOCK FALSE
INVARIANTS NoPanic
