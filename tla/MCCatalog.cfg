SPECIFICATION Spec
CONSTANTS
  Page = {p1, p2}
  Patient = {p1}
  MaxRequests = 5
  p1 = p1
  p2 = p2
INVARIANTS
  CreatedShownOnce
  OwnRenamesShown
CHECK_DEADLOCK FALSE
