SPECIFICATION Spec
CONSTANTS
  Members = {m1, m2}
  p1 = p1
  p2 = p2
  Partitions = {p1, p2}
  LogLen <- TwoPartitions
  Limit = 2
  MayStall = TRUE
  MaxRebalances = 1
  None = None
SYMMETRY Symmetry
INVARIANTS
  TypeOK
  CommittedAccountedFor
  InOrderPerGeneration
  AtMostOnce
  LimitExact
CHECK_DEADLOCK FALSE
