CONSTANTS
  Interfaces = {1, 2, 3}
  Default = 1
  MayFail = TRUE
SPECIFICATION Spec
CHECK_DEADLOCK FALSE
INVARIANTS EachReportedOnce SentAsOftenAsPrinted LeftAsPrinted
