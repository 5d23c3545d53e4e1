SPECIFICATION FairSpec
CONSTANTS
  Connection = {c1, c2}
  RoomID = {r1, r2}
  ClientID = {k1, k2}
  MaxMessages = 1
  MayStall = TRUE
  c1 = c1
  c2 = c2
  r1 = r1
  r2 = r2
  k1 = k1
  k2 = k2
INVARIANTS
  TypeOK
  SessionsMatch
  NoEmptyRoom
  StaysInRoom
PROPERTIES
  Leaves
CHECK_DEADLOCK FALSE
