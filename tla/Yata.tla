-------------------------------- MODULE Yata --------------------------------
(***************************************************************************)
(* The sequence algorithm of the document CRDT: identifiers, elements, the *)
(* conflict zone and the place where a remote insert is spliced in.  The   *)
(* doubly linked list Start <-> ... <-> End of the code is the sequence of *)
(* its elements: Left and Right of every element are its neighbours, since *)
(* the code only ever splices an element between two adjacent ones.  The   *)
(* character an element carries plays no part in any decision and is left  *)
(* out.  Go (internal/document) and JavaScript (frontend/src/crdt) run the *)
(* same algorithm.                                                         *)
(***************************************************************************)
EXTENDS Integers, Sequences, FiniteSets, SequencesExt

CONSTANT Client   \* the clients; their order as numbers is the order of their names

ASSUME ClientAssumption == Client \subseteq Nat

ID == [client : Client, clock : Nat]

\* The identifiers of the two sentinel nodes; no client generates either.
Start == [client |-> -1, clock |-> -1]
End == [client |-> -2, clock |-> -2]

\* What an insert message and InsertLog say of a character.
InsertOperation == [id : ID, origin : ID \cup {Start}, right : ID \cup {End}]

\* An Element of the list: its identifier and its immutable Origin.
Element == [id : ID \cup {Start, End}, origin : ID \cup {Start}]

ElementOf(op) == [id |-> op.id, origin |-> op.origin]

\* The list of a new document.  The sentinels' Origin is nil and never read.
NewList == <<[id |-> Start, origin |-> Start], [id |-> End, origin |-> Start]>>

\* The keys of ElementsByID.
ElementIDs(list) == {list[k].id : k \in 1..Len(list)}

Position(list, id) == CHOOSE k \in 1..Len(list) : list[k].id = id

-----------------------------------------------------------------------------

\* Mutant: ties on the clock are not broken by the client.
IDLessByClock(a, b) == a.clock < b.clock

\* The tie-break among concurrent inserts: the clock first, then the client.
IDLess(a, b) ==
  \/ a.clock < b.clock
  \/ a.clock = b.clock /\ a.client < b.client

\* isOriginAfter: the walk starts at Start.Right, so it meets neither Start
\* nor End; it answers true when it meets the Origin of the conflicting element
\* strictly before the origin of the insert.
IsOriginAfter(list, origin, conflicting) ==
  /\ conflicting.origin # Start
  /\ \/ origin = Start
     \/ Position(list, conflicting.origin) < Position(list, origin)

\* Mutant: the walk starts at origin itself.
ConflictZoneWithOrigin(list, op) ==
  Position(list, op.origin) .. Position(list, op.right) - 1

\* The walk of conflictZone from origin.Right to right; when right does not
\* follow origin the walk runs past End and dereferences nil.
ConflictZone(list, op) ==
  Position(list, op.origin) + 1 .. Position(list, op.right) - 1

WalksOff(list, op) == Position(list, op.right) <= Position(list, op.origin)

\* Mutant: the loop does not look at the origins of the conflicting elements.
StopsAtID(list, op, k) == ~IDLess(list[k].id, op.id)

\* The loop of findInsetionPoint stops at the first element of the zone whose
\* origin crosses or whose identifier does not precede the new one; left and
\* right stay adjacent, so the new element goes just before that element, or
\* before right when the loop runs to the end of the zone.
StopsAt(list, op, k) ==
  \/ IsOriginAfter(list, op.origin, list[k])
  \/ ~IDLess(list[k].id, op.id)

Stops(list, op) ==
  {k \in ConflictZone(list, op) : StopsAt(list, op, k)} \cup {Position(list, op.right)}

IsInsertionPoint(list, op, k) ==
  /\ k \in Stops(list, op)
  /\ \A j \in Stops(list, op) : k <= j

-----------------------------------------------------------------------------

\* What every list of the program is: Start first, End last, no identifier twice.
WellFormed(list) ==
  /\ Len(list) >= 2
  /\ list[1].id = Start
  /\ list[Len(list)].id = End
  /\ \A j, k \in 1..Len(list) : list[j].id = list[k].id => j = k

=============================================================================
