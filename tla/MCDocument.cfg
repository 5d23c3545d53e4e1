SPECIFICATION Spec
CONSTANTS
  Client = {0, 1}
  MaxInserts = 4
  MaxDeletes = 1
INVARIANTS
  TypeOK
  WellFormedList
  CounterMatches
  LogsPartition
  NothingStuck
  IntentionKept
  LoopAgrees
  DeltaComplete
PROPERTIES
  OrderStable
  ImplementsOpLog
CHECK_DEADLOCK FALSE
