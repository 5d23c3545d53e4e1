SPECIFICATION OrderlySpec
CONSTANTS
  Connection = {c1, c2, c3}
  RoomID = {r1}
  ClientID = {k1, k2, k3}
  MaxMessages = 2
  MayStall = FALSE
  c1 = c1
  c2 = c2
  c3 = c3
  r1 = r1
  k1 = k1
  k2 = k2
  k3 = k3
INVARIANTS
  ForwardedInOrder
  PresenceTrue
SYMMETRY Symmetry
CHECK_DEADLOCK FALSE
