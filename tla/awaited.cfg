CONSTANTS
  k1 = k1
  k2 = k2
  ks = ks
  Keys = {k1, k2}
  StreamKey = ks
  MaxSendDgrams = 1
  WriteCap = 1
  CmdCap = 1
  InitCwnd = 3
  MaxDgrams = 5
  Ends <- EndsAwaited
  Script <- ScriptAwaited
  MayCancel = FALSE
  EarlyDrop = {"recv_stream"}
  Reading = {}
  MaxStreamWrites = 1
SPECIFICATION Spec
CHECK_DEADLOCK FALSE
SYMMETRY KeySymmetry
INVARIANTS TypeOK Fifo WindowRespected BuffersBounded AnswerOwed NoPanic FlushBarrier ReadyMeansSlot
PROPERTIES PipeSafety
