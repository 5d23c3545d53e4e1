------------------------------ MODULE Document ------------------------------
(***************************************************************************)
(* The replicas of one shared document.  Every client holds a Document     *)
(* (internal/document, frontend/src/crdt/document.js), edits it locally    *)
(* and integrates the inserts and deletes of the others, which arrive late,*)
(* twice, out of order, one at a time or as the delta of a synchronisation.*)
(*                                                                         *)
(* A handler of the code runs to its end under DocMutex (Go) or on the one *)
(* thread of the page (JavaScript).  RemoteInsert loops over the pending   *)
(* map, IntegrateDelta loops over the delta; each iteration is a step here *)
(* and nothing else touches the replica until the handler has ended.       *)
(***************************************************************************)
EXTENDS Yata

CONSTANTS MaxInserts,   \* bound: the inserts typed by all clients together
          MaxDeletes    \* bound: the elements deleted

ASSUME DocumentAssumption == MaxInserts \in Nat /\ MaxDeletes \in Nat

VARIABLES
  clock,            \* [Client -> Nat]  Document.Clock
  list,             \* the linked list from Start to End
  tombstones,       \* the elements whose IsDeleted is set
  characterCounter, \* Document.CharacterCounter
  insertLog,        \* Document.InsertLog
  deleteLog,        \* Document.DeleteLog
  pendingInserts,   \* Document.PendingInserts
  pendingDeletes,   \* Document.PendingDeletes
  todoInserts,      \* inserts of the delta being integrated, not yet reached
  todoDeletes,      \* deletes of that delta
  draining,         \* RemoteInsert is inside processPending
  aborted           \* clients in which a walk of conflictZone ran past End

logs == <<insertLog, deleteLog>>
pendings == <<pendingInserts, pendingDeletes>>
handler == <<todoInserts, todoDeletes, draining>>
vars == <<clock, list, tombstones, characterCounter, logs, pendings, handler, aborted>>

-----------------------------------------------------------------------------

Init ==
  /\ clock = [c \in Client |-> 0]
  /\ list = [c \in Client |-> NewList]
  /\ tombstones = [c \in Client |-> {}]
  /\ characterCounter = [c \in Client |-> 0]
  /\ insertLog = [c \in Client |-> {}]
  /\ deleteLog = [c \in Client |-> {}]
  /\ pendingInserts = [c \in Client |-> {}]
  /\ pendingDeletes = [c \in Client |-> {}]
  /\ todoInserts = [c \in Client |-> {}]
  /\ todoDeletes = [c \in Client |-> {}]
  /\ draining = [c \in Client |-> FALSE]
  /\ aborted = {}

Present(c) == ElementIDs(list[c])

\* A nil dereference ends a Go process.  A page only loses the handler, but its
\* document is left half updated; neither is followed any further.
Running(c) == c \notin aborted

Idle(c) == todoInserts[c] = {} /\ todoDeletes[c] = {} /\ ~draining[c]

\* Everything any client has typed or deleted: what can be in flight.
Issued == UNION {insertLog[c] : c \in Client}
IssuedDeletes == UNION {deleteLog[c] : c \in Client}

-----------------------------------------------------------------------------
\* Local edits.

\* findVisiblePosition and findVisibleElement count the elements that are not
\* deleted from Start.Right on; End is one of them.
Visible(c, k) == list[c][k].id \notin tombstones[c]

IsVisiblePosition(c, index, k) ==
  /\ Visible(c, k)
  /\ Cardinality({j \in 2..(k - 1) : Visible(c, j)}) = index

\* Mutant: generateElementID does not advance the clock.
InsertElementSameClock(c, index) ==
  /\ Running(c) /\ Idle(c)
  /\ Cardinality(Issued) < MaxInserts
  /\ index <= characterCounter[c]
  /\ \E k \in 2..Len(list[c]) :
       /\ IsVisiblePosition(c, index, k)
       /\ LET op == [id |-> [client |-> c, clock |-> clock[c]],
                     origin |-> list[c][k - 1].id,
                     right |-> list[c][k].id]
          IN  /\ list' = [list EXCEPT ![c] = InsertAt(@, k, ElementOf(op))]
              /\ insertLog' = [insertLog EXCEPT ![c] = @ \cup {op}]
  /\ characterCounter' = [characterCounter EXCEPT ![c] = @ + 1]
  /\ UNCHANGED <<clock, tombstones, deleteLog, pendings, handler, aborted>>

\* InsertElement: the new element goes between the visible element at index
\* and whatever precedes it, a tombstone perhaps.
InsertElement(c, index) ==
  /\ Running(c) /\ Idle(c)
  /\ Cardinality(Issued) < MaxInserts
  /\ index <= characterCounter[c]
  /\ \E k \in 2..Len(list[c]) :
       /\ IsVisiblePosition(c, index, k)
       /\ LET op == [id |-> [client |-> c, clock |-> clock[c]],
                     origin |-> list[c][k - 1].id,
                     right |-> list[c][k].id]
          IN  /\ list' = [list EXCEPT ![c] = InsertAt(@, k, ElementOf(op))]
              /\ insertLog' = [insertLog EXCEPT ![c] = @ \cup {op}]
  /\ clock' = [clock EXCEPT ![c] = @ + 1]
  /\ characterCounter' = [characterCounter EXCEPT ![c] = @ + 1]
  /\ UNCHANGED <<tombstones, deleteLog, pendings, handler, aborted>>

\* Mutant: the index of a deletion may equal the counter, as that of an insertion.
DeleteElementAtEnd(c, index) ==
  /\ Running(c) /\ Idle(c)
  /\ Cardinality(IssuedDeletes) < MaxDeletes
  /\ index <= characterCounter[c]
  /\ \E k \in 2..Len(list[c]) :
       /\ IsVisiblePosition(c, index, k)
       /\ tombstones' = [tombstones EXCEPT ![c] = @ \cup {list[c][k].id}]
       /\ deleteLog' = [deleteLog EXCEPT ![c] = @ \cup {list[c][k].id}]
  /\ characterCounter' = [characterCounter EXCEPT ![c] = @ - 1]
  /\ UNCHANGED <<clock, list, insertLog, pendings, handler, aborted>>

\* Delete: only marks the element.
DeleteElement(c, index) ==
  /\ Running(c) /\ Idle(c)
  /\ Cardinality(IssuedDeletes) < MaxDeletes
  /\ index < characterCounter[c]
  /\ \E k \in 2..Len(list[c]) :
       /\ IsVisiblePosition(c, index, k)
       /\ tombstones' = [tombstones EXCEPT ![c] = @ \cup {list[c][k].id}]
       /\ deleteLog' = [deleteLog EXCEPT ![c] = @ \cup {list[c][k].id}]
  /\ characterCounter' = [characterCounter EXCEPT ![c] = @ - 1]
  /\ UNCHANGED <<clock, list, insertLog, pendings, handler, aborted>>

-----------------------------------------------------------------------------
\* Remote operations.

\* RemoteInsert is called for a message, or for the next insert of a delta.
Takes(c, op) ==
  /\ Running(c) /\ ~draining[c]
  /\ op \in todoInserts[c] \/ Idle(c)

Resolvable(c, op) == {op.origin, op.right} \subseteq Present(c)

\* Mutant: left stays at the origin while right moves through the zone.
IntegrateInsertAtOrigin(c, op) ==
  /\ \E k \in 1..Len(list[c]) :
       /\ IsInsertionPoint(list[c], op, k)
       /\ list' = [list EXCEPT ![c] =
                     SubSeq(@, 1, Position(@, op.origin)) \o <<ElementOf(op)>>
                       \o SubSeq(@, k, Len(@))]
  /\ insertLog' = [insertLog EXCEPT ![c] = @ \cup {op}]
  /\ characterCounter' = [characterCounter EXCEPT ![c] = @ + 1]

\* Mutant: the element is spliced in after the one the loop stopped at.
IntegrateInsertAfterStop(c, op) ==
  /\ \E k \in 1..Len(list[c]) :
       /\ IsInsertionPoint(list[c], op, k)
       /\ list' = [list EXCEPT ![c] = InsertAt(@, k + 1, ElementOf(op))]
  /\ insertLog' = [insertLog EXCEPT ![c] = @ \cup {op}]
  /\ characterCounter' = [characterCounter EXCEPT ![c] = @ + 1]

\* integrateInsert: splice the element in between left and right.
IntegrateInsert(c, op) ==
  /\ \E k \in 1..Len(list[c]) :
       /\ IsInsertionPoint(list[c], op, k)
       /\ list' = [list EXCEPT ![c] = InsertAt(@, k, ElementOf(op))]
  /\ insertLog' = [insertLog EXCEPT ![c] = @ \cup {op}]
  /\ characterCounter' = [characterCounter EXCEPT ![c] = @ + 1]

\* The walk past End: the Go process is gone; on a page the rest of the
\* handler, with the rest of the delta, is skipped.
Abort(c) ==
  /\ aborted' = aborted \cup {c}
  /\ todoInserts' = [todoInserts EXCEPT ![c] = {}]
  /\ todoDeletes' = [todoDeletes EXCEPT ![c] = {}]
  /\ draining' = [draining EXCEPT ![c] = FALSE]
  /\ UNCHANGED <<clock, list, tombstones, characterCounter, logs, pendings>>

\* "The value was already inserted."
SkipInsert(c, op) ==
  /\ op.id \in Present(c)
  /\ UNCHANGED <<clock, list, tombstones, characterCounter, logs, pendings, draining, aborted>>

\* Mutant: a pending insert is not logged.
ParkInsertUnlogged(c, op) ==
  /\ op.id \notin Present(c)
  /\ ~Resolvable(c, op)
  /\ pendingInserts' = [pendingInserts EXCEPT ![c] = @ \cup {op}]
  /\ UNCHANGED <<clock, list, tombstones, characterCounter, insertLog, deleteLog>>
  /\ UNCHANGED <<pendingDeletes, draining, aborted>>

\* "Pending value.": the origin or the right of the insert is not there yet.
ParkInsert(c, op) ==
  /\ op.id \notin Present(c)
  /\ ~Resolvable(c, op)
  /\ pendingInserts' = [pendingInserts EXCEPT ![c] = @ \cup {op}]
  /\ insertLog' = [insertLog EXCEPT ![c] = @ \cup {op}]
  /\ UNCHANGED <<clock, list, tombstones, characterCounter, deleteLog, pendingDeletes, draining, aborted>>

\* Mutant: RemoteInsert integrates an insert it already has.
ApplyInsertAgain(c, op) ==
  /\ Resolvable(c, op)
  /\ ~WalksOff(list[c], op)
  /\ IntegrateInsert(c, op)
  /\ draining' = [draining EXCEPT ![c] = TRUE]
  /\ UNCHANGED <<clock, tombstones, deleteLog, pendings, aborted>>

\* The rest of RemoteInsert, up to its call of processPending.
ApplyInsert(c, op) ==
  /\ op.id \notin Present(c)
  /\ Resolvable(c, op)
  /\ ~WalksOff(list[c], op)
  /\ IntegrateInsert(c, op)
  /\ draining' = [draining EXCEPT ![c] = TRUE]
  /\ UNCHANGED <<clock, tombstones, deleteLog, pendings, aborted>>

RemoteInsert(c, op) ==
  /\ Takes(c, op)
  /\ SkipInsert(c, op) \/ ParkInsert(c, op) \/ ApplyInsert(c, op)
  /\ todoInserts' = [todoInserts EXCEPT ![c] = @ \ {op}]
  /\ UNCHANGED todoDeletes

RemoteInsertAborts(c, op) ==
  /\ Takes(c, op)
  /\ op.id \notin Present(c)
  /\ Resolvable(c, op)
  /\ WalksOff(list[c], op)
  /\ Abort(c)

\* One iteration of processPending: Go visits the map in any order, and passes
\* over it until a pass integrates nothing.
ProcessPending(c, op) ==
  /\ draining[c]
  /\ op \in pendingInserts[c]
  /\ Resolvable(c, op)
  /\ ~WalksOff(list[c], op)
  /\ IntegrateInsert(c, op)
  /\ pendingInserts' = [pendingInserts EXCEPT ![c] = @ \ {op}]
  /\ UNCHANGED <<clock, tombstones, deleteLog, pendingDeletes, handler, aborted>>

ProcessPendingAborts(c, op) ==
  /\ draining[c]
  /\ op \in pendingInserts[c]
  /\ Resolvable(c, op)
  /\ WalksOff(list[c], op)
  /\ Abort(c)

\* Mutant: processPending is one pass over the map.
ProcessPendingDeletesEarly(c) ==
  /\ draining[c]
  /\ LET arrived == pendingDeletes[c] \cap Present(c)
     IN  /\ tombstones' = [tombstones EXCEPT ![c] = @ \cup arrived]
         /\ characterCounter' = [characterCounter EXCEPT ![c] = @ - Cardinality(arrived)]
         /\ deleteLog' = [deleteLog EXCEPT ![c] = @ \cup arrived]
         /\ pendingDeletes' = [pendingDeletes EXCEPT ![c] = @ \ arrived]
  /\ draining' = [draining EXCEPT ![c] = FALSE]
  /\ UNCHANGED <<clock, list, insertLog, pendingInserts, todoInserts, todoDeletes, aborted>>

\* processPendingDeletes, with integrateDeletion of every delete whose target
\* has arrived; then RemoteInsert returns.
ProcessPendingDeletes(c) ==
  /\ draining[c]
  /\ \A op \in pendingInserts[c] : ~Resolvable(c, op)
  /\ LET arrived == pendingDeletes[c] \cap Present(c)
     IN  /\ tombstones' = [tombstones EXCEPT ![c] = @ \cup arrived]
         /\ characterCounter' = [characterCounter EXCEPT ![c] = @ - Cardinality(arrived)]
         /\ deleteLog' = [deleteLog EXCEPT ![c] = @ \cup arrived]
         /\ pendingDeletes' = [pendingDeletes EXCEPT ![c] = @ \ arrived]
  /\ draining' = [draining EXCEPT ![c] = FALSE]
  /\ UNCHANGED <<clock, list, insertLog, pendingInserts, todoInserts, todoDeletes, aborted>>

\* Mutant: RemoteDelete does not look at IsDeleted.
RemoteDeleteAgain(c, id) ==
  /\ Running(c) /\ ~draining[c]
  /\ Idle(c) \/ (todoInserts[c] = {} /\ id \in todoDeletes[c])
  /\ IF id \notin Present(c)
     THEN /\ pendingDeletes' = [pendingDeletes EXCEPT ![c] = @ \cup {id}]
          /\ deleteLog' = [deleteLog EXCEPT ![c] = @ \cup {id}]
          /\ UNCHANGED <<tombstones, characterCounter>>
     ELSE /\ tombstones' = [tombstones EXCEPT ![c] = @ \cup {id}]
          /\ characterCounter' = [characterCounter EXCEPT ![c] = @ - 1]
          /\ deleteLog' = [deleteLog EXCEPT ![c] = @ \cup {id}]
          /\ UNCHANGED pendingDeletes
  /\ todoDeletes' = [todoDeletes EXCEPT ![c] = @ \ {id}]
  /\ UNCHANGED <<clock, list, insertLog, pendingInserts, todoInserts, draining, aborted>>

\* RemoteDelete, for a message or for the next delete of a delta: IntegrateDelta
\* reaches the deletes once it has been through the inserts.
RemoteDelete(c, id) ==
  /\ Running(c) /\ ~draining[c]
  /\ Idle(c) \/ (todoInserts[c] = {} /\ id \in todoDeletes[c])
  /\ IF id \notin Present(c)
     THEN /\ pendingDeletes' = [pendingDeletes EXCEPT ![c] = @ \cup {id}]
          /\ deleteLog' = [deleteLog EXCEPT ![c] = @ \cup {id}]
          /\ UNCHANGED <<tombstones, characterCounter>>
     ELSE IF id \in tombstones[c]
     THEN UNCHANGED <<tombstones, characterCounter, deleteLog, pendingDeletes>>
     ELSE /\ tombstones' = [tombstones EXCEPT ![c] = @ \cup {id}]
          /\ characterCounter' = [characterCounter EXCEPT ![c] = @ - 1]
          /\ deleteLog' = [deleteLog EXCEPT ![c] = @ \cup {id}]
          /\ UNCHANGED pendingDeletes
  /\ todoDeletes' = [todoDeletes EXCEPT ![c] = @ \ {id}]
  /\ UNCHANGED <<clock, list, insertLog, pendingInserts, todoInserts, draining, aborted>>

-----------------------------------------------------------------------------
\* Synchronisation (sync/statevector.go, frontend/src/sync/vector.js).

Clocks(log, c) == {op.id.clock : op \in {o \in log : o.id.client = c}}

\* Mutant: the vector holds the greatest clock whether or not there are gaps.
StateVectorOfMaximum(log) == [c \in Client |-> Clocks(log, c)]

\* GenerateStateVector with validateClockContinuity: the clocks of a client up
\* to the first one the log misses.  A pending insert is in the log.
StateVector(log) ==
  [c \in Client |-> {n \in Clocks(log, c) : 0..n \subseteq Clocks(log, c)}]

\* ComputeDelta and ComputeSerializedDelta, answering sync_step1; the vector
\* sends the greatest clock, an insert above it is missing.
MissingInserts(log, vector) ==
  {op \in log : \A n \in vector[op.id.client] : n < op.id.clock}

MissingDeletes(log, deleteSet) == log \ deleteSet

\* The relay broadcasts sync_step2 to the room: c integrates what p answered
\* to the vector of r, its own or that of a third replica.
IntegrateDelta(c, p, r) ==
  /\ Running(c) /\ Idle(c)
  /\ todoInserts' =
       [todoInserts EXCEPT ![c] = MissingInserts(insertLog[p], StateVector(insertLog[r]))]
  /\ todoDeletes' = [todoDeletes EXCEPT ![c] = MissingDeletes(deleteLog[p], deleteLog[r])]
  /\ UNCHANGED <<clock, list, tombstones, characterCounter, logs, pendings, draining, aborted>>

-----------------------------------------------------------------------------

Local(c) ==
  \E index \in 0..characterCounter[c] : InsertElement(c, index) \/ DeleteElement(c, index)

Remote(c) ==
  \/ \E op \in Issued :
       \/ RemoteInsert(c, op)
       \/ RemoteInsertAborts(c, op)
       \/ ProcessPending(c, op)
       \/ ProcessPendingAborts(c, op)
  \/ ProcessPendingDeletes(c)
  \/ \E id \in IssuedDeletes : RemoteDelete(c, id)
  \/ \E p \in Client \ {c} : \E r \in Client \ {p} : IntegrateDelta(c, p, r)

Next == \E c \in Client : Local(c) \/ Remote(c)

Spec == Init /\ [][Next]_vars

-----------------------------------------------------------------------------
\* Properties.

IDs(ops) == {op.id : op \in ops}

\* Every variable keeps the shape the code gives it; in particular no sentinel is
\* ever deleted or typed.
TypeOK ==
  /\ clock \in [Client -> Nat]
  /\ list \in [Client -> Seq(Element)]
  /\ tombstones \in [Client -> SUBSET ID]
  /\ characterCounter \in [Client -> Int]
  /\ insertLog \in [Client -> SUBSET InsertOperation]
  /\ deleteLog \in [Client -> SUBSET ID]
  /\ pendingInserts \in [Client -> SUBSET InsertOperation]
  /\ pendingDeletes \in [Client -> SUBSET ID]
  /\ todoInserts \in [Client -> SUBSET InsertOperation]
  /\ todoDeletes \in [Client -> SUBSET ID]
  /\ draining \in [Client -> BOOLEAN]
  /\ aborted \subseteq Client

\* A list runs from Start to End and holds no identifier twice, however often
\* and by whichever way (message, delta, pending map) an insert arrives.
WellFormedList == \A c \in Client : WellFormed(list[c])

\* CharacterCounter, which InsertElement and Delete check an index against, is
\* the number of characters the user sees, whatever mixture of local, remote,
\* repeated and parked deletes has run.
CounterMatches ==
  \A c \in Client :
    characterCounter[c] = Cardinality((Present(c) \ {Start, End}) \ tombstones[c])

\* The logs say everything: the inserts not in the list are the pending ones and
\* the deletes that mark nothing are the pending ones.  ReconstructPendingInserts
\* and ReconstructPendingDeletes rebuild both maps from the logs on this ground.
LogsPartition ==
  \A c \in Client :
    /\ pendingInserts[c] = {op \in insertLog[c] : op.id \notin Present(c)}
    /\ Present(c) \ {Start, End} = IDs(insertLog[c] \ pendingInserts[c])
    /\ pendingDeletes[c] = deleteLog[c] \ tombstones[c]
    /\ tombstones[c] \subseteq deleteLog[c] \cap Present(c)

\* Once the handler has ended, whatever still waits waits for an operation the
\* replica has never heard of: when the log holds the origin and the right of
\* all its inserts nothing is pending, in whatever order they arrived.
NothingStuck ==
  \A c \in Client : Running(c) /\ ~draining[c] =>
    LET known == IDs(insertLog[c]) \cup {Start, End}
    IN  (\A op \in insertLog[c] : {op.origin, op.right} \subseteq known) =>
          /\ pendingInserts[c] = {}
          /\ pendingDeletes[c] \cap known = {}

\* README, design decision 1: the origin lets a replica reconstruct the
\* intention of the insert even if its list has changed; on every replica the
\* character sits between the two characters it was typed between.
IntentionKept ==
  \A c \in Client : \A op \in insertLog[c] \ pendingInserts[c] :
    /\ Position(list[c], op.origin) < Position(list[c], op.id)
    /\ Position(list[c], op.id) < Position(list[c], op.right)

\* The answer to sync_step1 leaves no insert out: what p has and r has not, the
\* vector of r does not claim, with pending inserts in the logs and gaps in the
\* clocks on both sides.
DeltaComplete ==
  \A p, r \in Client :
    insertLog[p] \subseteq
      insertLog[r] \cup MissingInserts(insertLog[p], StateVector(insertLog[r]))

KeepsOrder(c) ==
  \A j, k \in 1..Len(list[c]) : j < k =>
    \E m, n \in 1..Len(list'[c]) :
      m < n /\ list'[c][m] = list[c][j] /\ list'[c][n] = list[c][k]

\* No integration drops an element from a list or swaps two of them.
OrderStable == [][\A c \in Client : list'[c] # list[c] => KeepsOrder(c)]_vars

\* The logs implement the operation sets the replicas promise each other.
Log == INSTANCE OpLog WITH inserts <- insertLog, deletes <- deleteLog

ImplementsOpLog == Log!Spec

\* README line 8: each client runs its own YATA instance, "guaranteeing data
\* convergence": replicas that have integrated the same operations show the
\* same characters in the same order.
Settled(c) == Running(c) /\ Idle(c) /\ pendingInserts[c] = {} /\ pendingDeletes[c] = {}

Convergence ==
  \A c, d \in Client :
    Settled(c) /\ Settled(d) /\ insertLog[c] = insertLog[d] /\ deleteLog[c] = deleteLog[d] =>
      list[c] = list[d] /\ tombstones[c] = tombstones[d]

\* README, design decision 1: the right reference "creates a right boundary" of
\* the conflict zone: the walk of conflictZone always ends at it.
RightBoundary == aborted = {}

=============================================================================
