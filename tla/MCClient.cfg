SPECIFICATION Spec
CONSTANTS
  MaxMessages = 2
  MaxConnections = 2
  MaxRemote = 1
  RemoteKinds = {"live", "sync1", "sync2"}
INVARIANTS
  TypeOK
  NothingLost
  SentInOrder
  NoConnectionLeaks
  ConnectionMatchesState
  WakeUpPending
PROPERTIES
  ClosingIsFinal
CHECK_DEADLOCK FALSE
