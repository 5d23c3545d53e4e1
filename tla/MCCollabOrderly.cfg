SPECIFICATION FairSpec
CONSTANTS
  Page = {p1, p2, p3}
  MaxConnections = 3
  MaxTyped = 1
  MaxFaults = 0
  EarlierOps = 1
  Disciplines = {"orderly", "turns"}
  p1 = p1
  p2 = p2
  p3 = p3
INVARIANTS
  OrderlyAgree
  TurnsSaved
PROPERTIES
  GetsOnline
CHECK_DEADLOCK FALSE
