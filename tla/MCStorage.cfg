SPECIFICATION StorageSpec
CONSTANTS
  Client = {0, 1}
  MaxInserts = 3
  MaxDeletes = 1
  SaveFirst = TRUE
  MaxRestarts = 2
INVARIANTS
  LogsPartition
  IdentifiersUnique
PROPERTIES
  SavedFaithfully
CHECK_DEADLOCK FALSE
