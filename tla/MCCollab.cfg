SPECIFICATION Spec
CONSTANTS
  Page = {p1, p2}
  MaxConnections = 3
  MaxTyped = 3
  MaxFaults = 1
  EarlierOps = 0
  Disciplines = {"free"}
  p1 = p1
  p2 = p2
SYMMETRY Symmetry
INVARIANTS
  TypeOK
  SentInOrder
  LiveInOrder
CHECK_DEADLOCK FALSE
