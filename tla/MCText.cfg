\* every input of the conversions up to the bounds
SPECIFICATION Spec
CONSTANTS
  Bytes = {1, 2}
  MaxPattern = 3
  MaxInput = 7
  Brokers <- MCBrokers
  Args <- MCArgs
  MaxArgs = 3
  MaxWritten = 4
  DelimItems <- MCDelimItems
  FormatItems <- MCFormatItems
  MaxFormat = 4
  PackTokens = {" ", "<", "b", "h", "i", "q", "s", "$", "?"}
  DataSizes = {0, 1, 2, 3, 4, 5, 7, 8, 9, 10}
INVARIANTS
  IndexIsFirstOccurrence
  StrnstrMissesOnlyNearEnd
  EscapesMean
  KeyDelimShown
  UnpackOutcome
  AvroInverts
  QueryAnswers
PROPERTY GrowthKeepsMatch
CHECK_DEADLOCK FALSE
