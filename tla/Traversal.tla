------------------------------ MODULE Traversal ------------------------------
(***************************************************************************)
(* The place where an insert goes, once more: the loops of traversal.go as *)
(* they run, to compare with IsInsertionPoint.  A pointer to an element is *)
(* its place in the list l, its Right the place after it, and a loop is a  *)
(* function of its iterations.                                             *)
(***************************************************************************)
EXTENDS Document

\* conflictZone: what has been appended when the walk from origin.Right reaches current.
WalkZone(l, op) ==
  LET origin == Position(l, op.origin)
      right == Position(l, op.right)
      conflictingElements[current \in origin + 1 .. right] ==
        IF current = origin + 1 THEN <<>>
        ELSE Append(conflictingElements[current - 1], current - 1)
  IN  conflictingElements[right]

\* isOriginAfter: what the walk answers from current on; it begins at Start.Right.
WalkOrigins(l, insertOperation, conflictiveOperation) ==
  LET answer[current \in 2 .. Len(l)] ==
        IF l[current].id = End \/ current = insertOperation THEN FALSE
        ELSE IF l[current].id = l[conflictiveOperation].origin THEN TRUE
        ELSE answer[current + 1]
  IN  answer[2]

\* findInsetionPoint: left and right, and whether the loop was left, after n elements of
\* the zone.
WalkConflicts(l, op) ==
  LET origin == Position(l, op.origin)
      zone == WalkZone(l, op)
      Larger(a, b) == a.clock > b.clock \/ (a.clock = b.clock /\ a.client >= b.client)
      after[n \in 0 .. Len(zone)] ==
        IF n = 0 THEN [left |-> origin, right |-> origin + 1, break |-> FALSE]
        ELSE IF after[n - 1].break THEN after[n - 1]
        ELSE IF WalkOrigins(l, origin, zone[n]) THEN [after[n - 1] EXCEPT !.break = TRUE]
        ELSE IF Larger(l[zone[n]].id, op.id)
        THEN [after[n - 1] EXCEPT !.right = zone[n], !.break = TRUE]
        ELSE [left |-> zone[n], right |-> zone[n] + 1, break |-> FALSE]
  IN  after[Len(zone)]

\* The loops end with two neighbours of the list, and between them is the one and only
\* place that IsInsertionPoint allows.
LoopAgrees ==
  \A c \in Client : \A op \in Issued :
    op.id \notin Present(c) /\ Resolvable(c, op) /\ ~WalksOff(list[c], op) =>
      LET point == WalkConflicts(list[c], op)
      IN  /\ point.right = point.left + 1 /\ point.right \in 2 .. Len(list[c])
          /\ \A k \in 1 .. Len(list[c]) : IsInsertionPoint(list[c], op, k) <=> k = point.right

=============================================================================
