SPECIFICATION FairSpec
CONSTANTS
  nl = nl
  x = x
  Bytes <- MCBytes
  Delim <- MCDelim
  MaxSz = 5
  InitCap = 2
  MaxInput = 7
INVARIANTS
  TypeOK
  CapacityBound
  HoldsUnreturned
PROPERTIES
  SplitterSpec
  EndsUnlessFull
CHECK_DEADLOCK FALSE
