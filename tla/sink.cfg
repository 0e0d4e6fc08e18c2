CONSTANTS
  k1 = k1
  k2 = k2
  ks = ks
  Keys = {k1, k2}
  StreamKey = ks
  MaxSendDgrams = 1
  WriteCap = 1
  CmdCap = 1
  InitCwnd = 4
  MaxDgrams = 5
  Ends <- EndsSink
  Script <- ScriptSink
  MayCancel = TRUE
  EarlyDrop = {"read_dgram"}
  Reading = {"recv_stream", "read_dgram"}
  MaxStreamWrites = 0
SPECIFICATION Spec
CHECK_DEADLOCK FALSE
SYMMETRY KeySymmetry
INVARIANTS AnswerOwed ErrorMeansClosed
