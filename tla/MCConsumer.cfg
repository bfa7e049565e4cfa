SPECIFICATION FairSpec
CONSTANTS
  Configs <- MCConfigs
  Timestamps = {1, 2, 3}
  Ids = {1, 2}
  MaxLog = 3
  MaxSignals = 2
INVARIANTS
  TypeOK
  StopTSHonoured
  LimitExact
  SchemaSticks
  ExitCodeTells
PROPERTIES
  FeedSpec
  StopsWhenAsked
  Drains
CHECK_DEADLOCK FALSE
