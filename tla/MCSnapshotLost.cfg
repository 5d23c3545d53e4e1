SPECIFICATION Spec
CONSTANTS
  Page = {p1, p2}
  MaxConnections = 2
  MaxTyped = 2
  MaxFaults = 0
  EarlierOps = 0
  Disciplines = {"orderly"}
  p1 = p1
  p2 = p2
INVARIANTS
  SnapshotReady
CHECK_DEADLOCK FALSE
