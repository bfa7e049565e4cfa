SPECIFICATION Spec
CONSTANTS
  a = a
  c = c
  d = d
  Nil = Nil
  MsgSize = 6
  Bytes = {a, c, d}
  Lines <- MCLines
  Configs <- DocumentedConfigs
  MaxLines = 2
  MaxCopies = 1
  MaxSignals = 0
INVARIANT SentAsDocumented
CHECK_DEADLOCK FALSE
