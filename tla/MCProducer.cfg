SPECIFICATION FairSpec
CONSTANTS
  a = a
  c = c
  d = d
  Nil = Nil
  MsgSize = 6
  Bytes = {a, c, d}
  Lines <- MCLines
  Configs <- MCConfigs
  MaxLines = 3
  MaxCopies = 2
  MaxSignals = 1
INVARIANTS
  TypeOK
  KeyValueLossless
  LimitHonoured
  TeeFollowsAcks
  ExitCodeTells
PROPERTIES
  PipeSpec
  Terminates
  StopsUnlessWaiting
CHECK_DEADLOCK FALSE
