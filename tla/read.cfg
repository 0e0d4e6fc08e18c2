CONSTANTS
  BufLen = 1300
  ReadCap = 1
  Sizes <- MainSizes
  MayAbandon = TRUE
  MaxReads = 4
SPECIFICATION FairSpec
CHECK_DEADLOCK FALSE
INVARIANTS TypeOK Contiguous Backpressure
PROPERTIES ReadReturns ReadsExactly
