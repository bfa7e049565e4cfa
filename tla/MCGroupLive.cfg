SPECIFICATION FairSpec
CONSTANTS
  Members = {m1, m2}
  p1 = p1
  p2 = p2
  Partitions = {p1}
  LogLen <- OnePartition
  Limit = 2
  MayStall = TRUE
  MaxRebalances = 1
  None = None
PROPERTIES
  StopsWhenAsked
  Drains
CHECK_DEADLOCK FALSE
