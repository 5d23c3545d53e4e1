SPECIFICATION Spec
CONSTANTS
  Client = {0, 1}
  MaxInserts = 3
  MaxDeletes = 0
INVARIANTS
  Convergence
CHECK_DEADLOCK FALSE
