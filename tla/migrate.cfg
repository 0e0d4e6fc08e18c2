CONSTANTS
  Addrs = {101, 102}
  Source = 101
  InboxCap = 2
SPECIFICATION Spec
CHECK_DEADLOCK FALSE
INVARIANTS DestinationShown SourceNamed RightForWholeHeaders
