SPECIFICATION FairSpec
CONSTANTS
  nl = nl
  x = x
  Bytes <- MCBytes
  Delim <- MCNewline
  MaxSz = 3
  InitCap = 2
  MaxInput = 4
PROPERTY OversizeReported
CHECK_DEADLOCK FALSE
