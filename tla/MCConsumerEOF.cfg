SPECIFICATION FairSpec
CONSTANTS
  Configs <- MCExitEOF
  Timestamps = {1, 2, 3}
  Ids = {1}
  MaxLog = 2
  MaxSignals = 0
PROPERTY ExitsAtEOF
CHECK_DEADLOCK FALSE
