SPECIFICATION DisciplineSpec
CONSTANTS
  Client = {0, 1, 2}
  MaxInserts = 4
  MaxDeletes = 0
  TurnClient = {0, 1}
INVARIANTS
  Convergence
  RightBoundary
CHECK_DEADLOCK FALSE
