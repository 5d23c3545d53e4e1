SPECIFICATION FairSpec
CONSTANTS
  MaxMessages = 1
  MaxConnections = 2
  MaxRemote = 1
  RemoteKinds = {"live", "sync1", "sync2"}
PROPERTIES
  Reconnects
  Ends
  ReaderCompletes
CHECK_DEADLOCK FALSE
