# The collaborative editor, specified

A verification development of the YATA collaborative editor: the TLA+ modules that
model it, the TLC configurations that check them on small instances, and the proofs
TLAPS checks for every instance. Paths below are relative to the repository.

## 1. The system

| Component | State | Operations | Talks to |
|---|---|---|---|
| YATA algorithm (`backend/internal/document/traversal.go`, `frontend/src/crdt/document.js`) | none of its own; reads the list | conflictZone, isOriginAfter, findInsetionPoint | the document |
| Document replica (`backend/internal/document/document.go`, same JS file) | doubly linked list, `ElementsByID`, `Clock`, `CharacterCounter`, `PendingInserts`, `PendingDeletes`, `InsertLog`, `DeleteLog` | InsertElement, Delete, RemoteInsert, RemoteDelete, IntegrateDelta, processPending, processPendingDeletes | called by the client under `DocMutex`, or on the page's only thread |
| State vectors (`backend/internal/sync/statevector.go`, `frontend/src/sync/vector.js`) | none; functions of a document | GenerateStateVector, GenerateDeleteSet, ComputeDelta, ComputeSerializedDelta | used by both clients for sync_step1, sync_step2 and snapshots |
| Go client (`backend/internal/client/client.go`, `cmd/editor`) | `State`, `Conn`, `OfflineQueue`, the two signals, five locks | Start, Close, ReconnectLoop, RemoteMessageLoop, SendOrQueue, FlushOfflineQueue, SendSync1, SendCurrentSnapshot | the relay over a websocket; four kinds of goroutines share it |
| Browser client (`frontend/src/hooks/useCollaborativeDocument.js`) | status, socket, `pendingOperations`, the document | connect, onmessage, sendOrQueue, flushPendingOperations, sendSnapshot, reconnection timer | the relay |
| Relay hub (`backend/internal/relay/hub.go`, `room.go`, `client.go`) | rooms and their sessions under one RW lock | Join, Leave, BroadcastToRoom, BroadcastToAllInRoom, GetActiveUsers | one handler goroutine per connection |
| Relay handler (`backend/internal/relay/handler.go`) | the session of its connection | join, dispatch of updates, snapshot, sync1 without a peer, leave | hub, storage |
| Presence (`backend/internal/presence`) | none | the list of users broadcast after a join or a leave | hub |
| Storage (`backend/internal/storage`, `internal/document/hydrate.go`) | per room one delta (the relay), or four buckets of a document | SaveSnapshotRoom, LoadInternalSnapshot; SaveSnapshot, ReconstructDocument | the handler uses the first two; only tests use the others |
| Wire protocol (`internal/protocol`, `internal/sync/adapter.go`, `frontend/src/protocol`) | none | encode, decode, validate | both clients, relay |
| Catalog and HTTP API (`internal/catalog`, `internal/httpapi`, `frontend/src/App.jsx`) | documents table in SQLite; in each page the list it shows | list, create, rename and the read after it | the web pages |

Every replica applies its own edits at once and sends them to the relay, which forwards
them to the other sessions of the room without looking into them. A client that joins
broadcasts its state vector (sync_step1); every other client of the room answers with what
the vector does not claim (sync_step2), which the relay again broadcasts to the whole
room; with nobody else in the room the relay answers from the stored snapshot.

What is hard here:

* several people type at the same place at the same time, and every replica must place
  their characters alike whatever the order in which it hears of them;
* operations arrive before the ones they refer to, repeatedly, and by several ways at once
  (live, in a delta, out of the pending maps);
* the logs run ahead of the list: a pending insert is logged, claimed in vectors and
  forwarded before it is integrated;
* the clients' goroutines and callbacks interleave around reconnection, and the answer to a
  sync goes to everybody;
* receivers fail in the middle of a broadcast, a syncing peer disconnects, snapshots
  overwrite each other.

`PROJECT.json` lists these hazards with their lines and the properties that cover them, or why none does: what fails
in this code as it is has no property that holds, and is described under "Further disagreements" in section 3.

What makes each component correct: the **document** converges and keeps the intention of
every insert, counts its visible characters, loses and doubles nothing; the **vectors** never
claim what a replica lacks; the **Go client** always gets from Syncing to Online or back to
Disconnected, and sends every queued operation; the **hub** has one session per client and
room and no empty room, and its last presence list is the truth; the **relay** and its
**snapshot** lose no operation that all clients have seen; the **pages** of a room come to know the same
operations; the **storage** gives back the document it was given and never makes a client reuse an
identifier; the list of a page shows what its user did.

## 2. The modules

| Module | What it is |
|---|---|
| `Yata` | identifiers, operations, elements, and the place where a remote insert goes, as operators |
| `Document` | the replicas: one variable per field of `Document`, indexed by client, and one action per operation |
| `OpLog` | the abstract specification: grow-only sets of operations, issued once, learned from each other |
| `Disciplines` | `Document` under two restrictions on who may type when |
| `Traversal` | the loops of `traversal.go` as they run, as recursive functions, to compare `Yata` with |
| `DocumentProofs` | lemmas about the list operators, and the inductive invariant of `Document` |
| `ReplicaProofs` | the order of the lists, intention, deltas, the refinement of `OpLog`, that nothing stays pending, the loops, and that handlers end |
| `DisciplineProofs` | convergence under the two disciplines |
| `GoClient` | the goroutines of the Go client around its connection and its queue |
| `GoClientProofs` | the inductive invariants of `GoClient` and its theorems |
| `Relay` | the hub with its rooms, and the handler goroutine of every connection |
| `MCRelay` | the symmetry of `Relay`, for TLC |
| `RelayProofs` | the inductive invariants of `Relay` and its theorems |
| `Collab` | a room: the pages with their websockets, the handlers that forward for them, the stored snapshot |
| `MCCollab` | the symmetry of `Collab`, for TLC |
| `CollabProofs` | the inductive invariants of `Collab` and its theorems |
| `Storage` | `Document` with the buckets it is saved to, crashes and reconstruction |
| `StorageProofs` | the inductive invariants of `Storage` when nobody hears of an edit before it is saved, and what survives restarts |
| `Catalog` | the table of documents, the HTTP handlers, and the lists the pages keep |
| `CatalogProofs` | the inductive invariant of `Catalog` and its theorems |

### Yata

The list is a sequence from `Start` to `End`. The code only ever splices a new element
between two adjacent ones, so `Left` and `Right` are always the neighbours, and the sequence
loses nothing. A client is a number; its order stands for the order of the names, which
decides between equal clocks. Characters play no part in any decision and are left out.

`IsInsertionPoint(list, op, k)` says that the element goes just before place `k`: the first
place of the conflict zone where the loop of `findInsetionPoint` breaks, or that of the right
reference. It is a relation and not a `CHOOSE`, so that what is proved holds wherever it is
true. `Traversal` has the loops themselves: `conflictZone` collects the zone, `isOriginAfter`
walks from `Start`, and `findInsetionPoint` moves `left` and `right` through the zone until it
breaks. A pointer is a place of the list there, and a loop a function of its iterations.
`LoopAgrees` says, for every operation a replica has not integrated and can, that
the loops end between two neighbours, and that the place between them is the one and only
insertion point.

### Document

A handler of the code runs to its end without interference on its own document (`DocMutex`
in Go, one thread on a page). Two of them loop, so they take several steps here:
`RemoteInsert` calls `processPending`, whose order is that of a Go map, and `IntegrateDelta`
goes through a delta. `draining` and `todoInserts`/`todoDeletes` say how far a handler is;
other steps on the same replica wait for it, while other replicas go on.

| Code | Definition |
|---|---|
| `InsertElement`, `generateElementID`, `findVisiblePosition` | `InsertElement`, `IsVisiblePosition` |
| `Delete`, `findVisibleElement` | `DeleteElement` |
| `RemoteInsert`: already there / not resolvable / integrate | `SkipInsert`, `ParkInsert`, `ApplyInsert` |
| `integrateInsert`, `findInsetionPoint` | `IntegrateInsert`, `IsInsertionPoint` |
| an iteration of `processPending` | `ProcessPending` |
| end of `processPending`, `processPendingDeletes` | `ProcessPendingDeletes` |
| `RemoteDelete`, `integrateDeletion` | `RemoteDelete` |
| `GenerateStateVector`, `validateClockContinuity` | `StateVector` |
| `ComputeDelta`, `ComputeSerializedDelta` | `MissingInserts`, `MissingDeletes` |
| `IntegrateDelta` | `IntegrateDelta`, then the steps above |
| nil dereference in `conflictZone` | `RemoteInsertAborts`, `ProcessPendingAborts` |

Delivery is as bad as it can be: at any time a replica may get any operation anybody has
issued, again and in any order, or a whole delta that any other replica computed for
itself or for a third one (sync_step2 is broadcast). That covers live messages, lost messages
(never delivered), retries, answers computed from an old vector and stored snapshots,
so what holds here holds under every relay. How operations do travel is the subject of `Collab`.

A replica whose walk of the conflict zone runs past `End` stops being followed: the Go
process has panicked, a page has lost the rest of its handler. `RightBoundary` says when
that can be.

### OpLog

The promise of the logs, without characters, lists, counters or pending maps: an operation
is issued under a fresh identifier by its own client and refers to characters that client
knows, is learned only from somebody who has it, and is never forgotten. `ImplementsOpLog`
maps `inserts` to `insertLog` and `deletes` to `deleteLog`.

### GoClient

The goroutines are the user's (the command loop of `cmd/editor`, `User`), `ReconnectLoop`
(`Loop`) and one `RemoteMessageLoop` per connection, named by its connection. `pc` says
where each of them is; a step is a section under `ConnMutex`, a write or a read on a websocket, or
an operation on a channel, so a goroutine can be held up at every place where another one can
see the difference. `FlushMutex` is held over several steps; `WriteMutex` is held over one
step except in `SendCurrentSnapshot`, which looks at the connection and writes under it.

| Code | Definition |
|---|---|
| `SendOrQueue`, `EnqueueOffline` | `SendOrQueue`, `WriteMessage`, `EnqueueOffline` |
| `MarkDisconnected`, `RequestReconnect` | `MarkDisconnected`, `CloseMarked` |
| `SendCurrentSnapshot` | `CaptureConnection`, `CheckSnapshot`, `WriteSnapshot` |
| `Start`, `Close` | `Start`; `Close`, `Stop` |
| `ReconnectLoop`: the two `select`s | `AwaitSignal`, `Wait` |
| `BeginReconnect` | `BeginReconnect` |
| `DialAndJoin`, `ReconnectOnce` | `Dial` or `DialFails`, `InstallConnection` |
| `SendSync1` | `SendSync1` |
| `RemoteMessageLoop` | `ReadError`, `ReadMessage`, `CheckOnline`, `Answer` |
| `FlushOfflineQueue` | `LockFlush`, `FlushNext`, `FlushWrite`, `FlushPop`, `UnlockFlush` |
| `ReconnectSignal` (one token), `StopSignal` | `signal`, `stopped` |

The document is left out: `DocMutex` guards it and nothing else, and what the messages do
to it is the subject of `Document`. An operation of the user is its number in the order of
typing. A local variable is forgotten (0 or `None`) as soon as the code reads it no more.
The network and the relay are external: a connection breaks at any time, a write succeeds
exactly while the connection is neither broken nor closed, messages that were received before the
break may still be read, the relay forwards messages of others and has a sync_step1 answered.
A message that makes the loop `continue` before it has any effect is as good as never sent.

### Relay

Every connection has a handler, the function `ws`; `pc` says where it is. `rooms` is
`Hub.rooms` with the connection standing for the session, `session` the two immutable fields of a
session. A step is a section under the lock of the hub, one read, or one write on one websocket
(which `writeMutex` makes atomic): both broadcasts copy the receivers under the lock and write to
them one by one after it is released, so others join, leave and write between any two receivers, whose
order is that of a Go map.

| Code | Definition |
|---|---|
| the first message, `Hub.Join` | `RefuseJoin` or `Join` |
| `session.Send(ackBytes)` | `SendAck` |
| `GetActiveUsers`, after the join and after the leave | `GetActiveUsers` |
| `BroadcastToAllInRoom`: under the lock, one receiver | `CaptureRoom`, `Announce` |
| `BroadcastToRoom`: under the lock, one receiver | `Receive`, `Forward` |
| every other message; the answers and errors written to the sender | `ReceiveOther`, `Reply` |
| `ReadMessage` fails | `ReadError` |
| the deferred calls | `Leave`, `GetActiveUsers`, `CaptureRoom`, `Announce`, `CloseConnection` |

A message is opaque: one that is forwarded is its sender and its number. `shown` and `got` record
what was written on a connection: its last list of users, and the forwarded messages. What the snapshots and the answers made of them say is in
`Collab`; here a sync_step1 without receivers is a `Reply`. The clients are external: they send anything in any order, break their
connection at any time (`Break`), and may stop reading without closing it until the buffers between are
full (`Stall`), after which a write does not return, as it has no deadline.

### Collab

`Relay` is about the hub; `Collab` is about what the users of a room end up with. It composes the pages
(`useCollaborativeDocument.js`), the two directions of every websocket as FIFO queues (`up`, `down`), the
handlers of the relay cut as in `Relay`, and the snapshot of the room in BoltDB. A document is the set of the operations it has
integrated, which is all that vectors, deltas and snapshots look at and what `OpLog` says of a replica; an operation is its author and
the clock of its author. A handler of a page runs to its end on the page's only thread, so it is one step.

| Code | Definition |
|---|---|
| `connect`, `onopen`; the timer that connects again | `Connect` |
| `onmessage`: join_ack, sync_step1, sync_step2, insert | `OnJoinAck`, `OnSync1`, `OnSync2`, `OnOperation` |
| the websocket leaves OPEN; `onclose` | `CloseBegins`; `OnClose` |
| `handleInput`, `sendOrQueue`, `sendSnapshot` | `HandleInput` |
| `flushPendingOperations` | in `OnSync2` |
| the effect's clean-up, when the page is left | `Unmount` |
| `generateStateVector`; `computeDelta` | `Claimed`; `Missing` |
| the first message, `Hub.Join`; a connection that ends before it | `Join`, `JoinFails` |
| `BroadcastToRoom`: under the lock, one receiver, a receiver that fails | `Receive`, `Forward`, `ForwardFails` |
| `SaveSnapshotRoom`; `LoadInternalSnapshot` and the answer made of it | `SaveSnapshot`; `Answer` |
| the deferred `Leave` | `Leave` |

`discipline` says how the editor is used, and is chosen once: `free` (anything happens, connections break,
the relay restarts), `orderly` (pages are opened and left only when nothing is under way, connections hold, and everybody types when he likes, except
while the relay has not noticed that somebody left), `turns` (moreover people type only when nothing is
under way). `sent` and `accepted` are history variables: no guard reads them.

A write on a websocket that is broken, unnoticed, is lost (`Write`); one that is closed by the page still delivers what was
written before. A `Restart` of the relay loses the hub and every connection and keeps the store.

### Storage

`Storage` extends `Document`: its replicas are saved and come back. `SaveSnapshot` is one bolt transaction and thus one step, which puts the
metadata, the elements of the list with their three references, and both logs under their keys, and never
takes a key out. A crash may come at any moment, in the middle of a handler, too; `Restart` is the crash and
`ReconstructDocument` up to `processPending`, after which the steps of `Document` go on.

| Code | Definition |
|---|---|
| `ToPersistedElement`, `ToPersistedMetadata` | `PersistedElement`, `PersistedMetadata` |
| `SaveMetadata`, `SaveElements`, `SaveInsertOperations`, `SaveDeleteOperations` | `SaveMetadata`, `SaveElements`, `PutInserts`, the last conjunct of `SaveSnapshot`; `Put` is the `Put` of a bucket, for every key |
| `RebuildRelations` | `RelationsRebuild` (whether it fails), `Linked` (the list it makes) |
| `ReconstructPendingInserts`, `ReconstructPendingDeletes` | the same names |
| `ReconstructDocument` | `Restart` |

No program of this commit calls `SaveSnapshot` or `ReconstructDocument`; their tests do. How they are meant to
be used is in `backend/cmd/editor/README.md:85`: a save comes immediately after every edit, and where it fails (`:88`) the edit stays in
memory; `:26` says that a client without a snapshot starts with a new identity. So `Save` may come whenever no handler is under way, and a crash may come
between an edit and its save: then the client is back with an older `Clock`, without what it typed last, and types under the same identifiers again.
What keeps them unique is `SaveFirst = TRUE`: others hear of an edit only once it has been saved (`HearsSaved`, a guard of `Handle`). That is
the one thing assumed of a program that uses the storage and sends what is typed, so `Edit`, `HearsSaved`, `Handle` and `StorageNext` are marked external. With
`SaveFirst = FALSE` `IdentifiersUnique` fails at once: a client that loses an edit others have seen types another character under its identifier.

### Catalog

Every request has a handler of its own and every SQL statement is a step, so the rename handler takes two.
Answers come in any order. A page keeps its list to itself: the answer to `GET` replaces it, a created
document is put in front, a renamed one replaces the entry with its identifier (`OnList`, `OnCreated`,
`OnRenamed`). A name is how often the document has been renamed, which tells newer from older. `Patient` are the
pages whose users wait for the list before they act, and for a rename before they rename the same document again. The catalog has no
delete operation.

## 3. The runs

Checked with two workers; each run takes from a second to about three minutes on a small machine.

| Run | Instance | States | What it shows |
|---|---|---|---|
| `document_two` | 2 clients, 4 inserts, 1 delete | 380 thousand | the safety of a replica, see below |
| `disciplines` | 3 clients, 4 inserts, one per client and round; and 2 clients, 4 inserts, in turn | 1.49 million | `Convergence` and `RightBoundary` hold |
| `diverge` | 2 clients, 3 inserts | violation | `Convergence` fails under free typing |
| `client_safety` | 2 typed operations, 2 connections, 1 message of others | 796 thousand | the safety of the Go client |
| `client_liveness` | 1 typed operation, otherwise the same | 278 thousand | `Reconnects`, `Ends`, `ReaderCompletes` |
| `relay` | 2 connections, 2 rooms, 2 clients, 1 message, clients may stall | 477 thousand | the safety of the hub, and `Leaves` |
| `relay_orderly` | 3 connections, 1 room, 3 clients, 2 messages, one join or leave at a time | 1.24 million | `ForwardedInOrder` and `PresenceTrue` |
| `collab` | 2 pages, 3 connections, 3 operations, 1 fault, everything free | 2.48 million | `SentInOrder` and `LiveInOrder` |
| `collab_orderly` | 3 pages, 3 connections, 1 operation on top of 1 stored, orderly and in turns | 108 thousand | `OrderlyAgree`, `TurnsSaved`, `GetsOnline` |
| `snapshot_lost` | 2 pages, 2 connections, 2 operations, orderly, no fault | violation | `SnapshotReady` fails |
| `storage` | 2 clients, 3 inserts, 1 delete, 2 restarts | 395 thousand | what is saved is the document, and identifiers stay unique though unsaved edits are lost |
| `catalog` | 2 pages, one of them patient, 5 requests | 312 thousand | what a page shows of its own creations and renames |

Properties of `document_two`:

* `TypeOK`: in particular no sentinel is ever deleted, which only the comparison of the index
  with `CharacterCounter` prevents, since the list walks include `End`.
* `WellFormedList`: from `Start` to `End`, no identifier twice, however often an insert arrives.
* `CounterMatches`: the counter is the number of visible characters.
* `LogsPartition`: the pending maps are exactly what the logs hold and the list (or the
  tombstones) does not. `ReconstructPendingInserts` and `ReconstructPendingDeletes` rely on it.
* `NothingStuck`: a replica whose log is closed under origins and rights has nothing pending,
  whatever order the operations arrived in.
* `IntentionKept`: every character stands between its origin and its right on every replica.
* `LoopAgrees`: the loops end between two neighbours, at the only place the declarative insertion point allows.
* `DeltaComplete`: an answer to a state vector leaves no insert out, with gaps in the clocks and
  pending inserts in the logs of both sides. (The deletes of a delta are a plain difference of sets.)
* `OrderStable` (action property): no step drops an element or swaps two.
* `ImplementsOpLog`: refinement of `OpLog`.

Properties of the Go client:

* `TypeOK`: what is queued or written is always an operation the user typed.
* `NothingLost`: every operation typed was written on some connection, or is in the queue, or
  is in the hands of `SendOrQueue`, which writes it outside the lock that chose the connection.
* `SentInOrder`: on one connection the operations go out in the order of typing, none twice,
  although the user's goroutine and a flush both write and a flush may repeat the head of the
  queue on the next connection.
* `NoConnectionLeaks`: an open connection is `Conn`, or some goroutine is about to
  install or to close it.
* `ConnectionMatchesState`: `Syncing` and `Online` are the states with a connection.
* `WakeUpPending`: a disconnected client has a token in `ReconnectSignal`, or one on its way,
  or its loop is about to look. A token is dropped when one is there already, and may be
  taken out while the state does not allow a dial.
* `ClosingIsFinal` (action property): nothing leaves `Closing`, and no connection is installed in it.
* `Reconnects`: a disconnected client tries again, unless it is closed.
* `Ends`: after `Close` every goroutine ends and every connection is closed, also one whose dial was under way.
* `ReaderCompletes`: a syncing client gets online, or loses its connection, or is closed, unless the
  reader of its connection has ended.

Properties of the relay:

* `TypeOK`: in particular no session or room has an empty name.
* `SessionsMatch`: the hub holds the sessions of the handlers between their join and their leave and no
  others, each under its own room and client: also when a client comes back before its old handler has
  left, or a room empties while somebody joins it.
* `NoEmptyRoom`: a room goes with its last client.
* `StaysInRoom`: what is forwarded stays in the room of its sender and does not come back to it.
* `ForwardedInOrder`: a receiver is written the messages of one sender in their order, none twice.
* `PresenceTrue`: when every join and leave has been announced, everybody in a room was shown last exactly
  its users. It holds when clients come and go one at a time.
* `Leaves`: the session of a broken connection goes, however many others fail meanwhile, unless a client
  keeps its connection open without reading.

Properties of a room (`Collab`):

* `TypeOK`: in particular a page has one of the four statuses, and only connections that were opened are live or joined.
* `SentInOrder`: what a page has sent and what it has queued are together its operations, each once, in the order of
  its clock: across disconnections, early answers (sync_step2 is broadcast, so a page may go online and flush on the answer to
  somebody else) and operations typed between a join and its answer.
* `LiveInOrder`: the operations of a page reach another page in the order of their clocks, also when the page has come back on another
  connection while the handler of its old connection still holds a message. The reason is the refusal of a second session of
  a client: without it (the mutant) the new handler overtakes the old one.
* `OrderlyAgree`: with pages opened and left one at a time on connections that hold, all pages know the same whenever
  nothing is under way, however much they type at the same time.
* `TurnsSaved`: if moreover nobody types before he has heard of everything, the store has every operation.
* `GetsOnline` (liveness): a page that is opened while the others are online gets online.
* `SnapshotReady`: when no page is left the store has every operation the relay has forwarded.

Properties of the storage:

* `SavedFaithfully` (action property): whenever the buckets of a client change, they then hold exactly its document: the rebuilt
  list, tombstones, logs and metadata are those of the replica, and no key of an earlier save (perhaps from before a restart) spoils them.
* `IdentifiersUnique`: no two operations in any log or database share an identifier, although a client that crashes before it has saved takes up
  an older clock and issues identifiers for a second time.
* `LogsPartition`: as above, also for a replica that was just rebuilt and its pending maps with it.

Properties of the catalog:

* `CreatedShownOnce`: a page whose user waits for the list shows every document it created, once.
* `OwnRenamesShown`: a page whose user renames a document once at a time shows a name as new as his last one or newer, though the
  handler answers with what it reads after the update.

**Bounds.** `MaxInserts` and `MaxDeletes` bound what all clients type together; nothing else
is bounded. Divergence needs three inserts and the walk past the end four, so both are
within reach of `document_two`, whose properties therefore also hold after divergence. Two
clients are enough for every conflict between a local and a remote insert, and for vectors with gaps; the third is
needed for ties between more than two characters, so the rounds have three. For turns two take
part (`TurnClient`), and `disciplines` has no deletes, which move nothing in a list: what they do to the
tombstones is `LogsPartition`. A Go client has at most one connection that matters and any number of stale
ones, on which all goroutines behave alike, so two connections are enough; two operations
are enough for one to overtake the other or to be repeated; the one message of others
comes on top of the answer to each sync_step1, so that two readers may want to flush. One delete is enough for a delete to be repeated, parked, forwarded and
performed by two users: the same element may be deleted by both.

Two connections of the relay are enough for two sessions of one client, for a room that empties during a join and for two
rooms; forwarding to several receivers and a third party that two announcements reach in different orders
need a third. With three connections joining and leaving freely the state space is out of reach, so
`relay_orderly` lets one client at a time join or leave (`OneAtATime`) while messages are
forwarded; `ForwardedInOrder` without that restriction, and `PresenceTrue` with it but for any number of connections, are theorems. `MaxMessages` bounds the messages to
forward of all clients together; two are enough to swap or to repeat. The connections, rooms and clients are
interchangeable where no liveness is checked: the relay only compares them.

In `collab` two pages and three connections let one page come back once while its old handler is still at
work, and both come back after a restart; three operations let one be queued, one be sent and one follow. One
fault is a break or a restart; a page may also be left at any time. `collab_orderly` needs a third page for an answer that is
broadcast to somebody who waits for another one, and then has one operation on top of `EarlierOps` that only the store has. In
`storage` two restarts allow one from a snapshot that was itself saved after a restart, and three inserts one to be pending for
another. In `catalog` five requests are a list, a creation, two renames by different pages and one more; pages beyond two only add renames.
`MaxConnections`, `MaxTyped`, `MaxFaults`, `MaxRestarts` and `MaxRequests` are bounds of the model and not of the code.

**Deadlock** is not checked: everybody may stop typing, a closed client is at its end, a connection
of the relay is used once, and the bounds of the other modules end their behaviours.

**Fairness** is used for the Go client, the relay and the room; all properties of the other modules are safety
properties. In `GoClient`, `Fairness` says that the scheduler runs each goroutine that can run (weak fairness of
`Start`, of a command that has begun, of `ReconnectLoop` and of each reader), that locks are
not withheld for ever (they are free again after finitely many steps of their holder), and, for a
connection that stays, that somebody answers a sync_step1. Nothing is assumed of the user, who need
not type or close, of the connections, which may break or last, of the dial, which may fail
each time, or of the others. That a dial ends at all is assumed, although `DialAndJoin` reads the
acknowledgement without a deadline and a relay that stays silent would hold it for ever.

In `Relay` it says that the scheduler runs each handler that can run, and that a read on a broken connection
returns. A write to a stalled client cannot run. Nothing is assumed of the clients: none has to send, break
or read. That several writers wait for the `writeMutex` of one session changes nothing, since it is held for one write.

In `Collab` it says that a page handles the events it has, that the timer of two seconds fires, and that the handlers of the
relay are scheduled. Nobody has to open a page, to type or to leave.

### Where the code does not do what its documents say

* `diverge`. `README.md:8` promises convergence. Client 0 types *a* and then *b* before it
  (clocks 0 and 1) while client 1 types *x* (clock 0) into the same empty document. Client 0
  has `b a` and integrates *x*: the loop breaks at *b*, whose clock is 1, which gives `x b a`.
  Client 1 has `x`, integrates *a* before it by the tie-break on the names and *b* before *a*, which
  gives `b a x`. With the same three operations the two texts differ. `disciplines`
  says how far the promise does hold: with no concurrent typing, and with concurrent
  typing of single characters.
* `snapshot_lost`. `README.md:52` promises a new client a stored snapshot with the most recent information when nobody is
  connected. Each page saves its own whole document after each of its edits, the last save wins (`handler.go:232`), and
  a page that receives an operation saves nothing. Two pages that type at about the same time save two snapshots, each without
  the operation of the other; the second overwrites the first. Both pages have both operations, but once they are
  left one is gone for good. `TurnsSaved` says how far the promise holds.

Further disagreements, each a definition that TLC finds violated; they are kept out of the runs, and this is how to see them:

* `Document!RightBoundary` (`Spec`, 2 clients, 4 inserts, no deletes). `README.md:282` counts on the right reference as a right boundary.
  After a divergence two replicas hold the same two characters in opposite orders; a character
  then typed between them on one has, on the other, a right that stands before its origin.
  The walk of `conflictZone` leaves the list and dereferences nil: a panic in Go, a `TypeError` in the page.
* `GoClient!SyncCompletes` (fair, 1 connection, 1 message of others). `README.md:50` says that a client that reconnects receives what it misses and
  applies its pending operations. `RemoteMessageLoop` returns after a live operation unless the
  client is online (`client.go:585`); while it is still syncing that ends the only
  reader of the connection. The answer to its sync_step1 stays unread, the queue is never flushed, and even
  a break of the connection goes unnoticed. `ReaderCompletes` says that this is the only way to get stuck.
* `GoClient!OnlineSends` (fair, 1 operation, 2 connections). `README.md:48` says that an operation is sent once it is applied. `SendOrQueue`
  picks the connection under `ConnMutex` and writes after releasing it; if meanwhile that
  connection is replaced by one that has already flushed the queue, the write fails and the
  operation is queued (`client.go:167`) in a client that is online, where nothing flushes until the next
  reconnection. `NothingLost` says that it is not lost.
* `Relay!PresenceTrue` (`Spec`, 3 connections in one room). `README.md:231` says that presence is broadcast on every join and leave and updates the list of
  users. The handler lists the users and broadcasts the list in two steps (`handler.go:125`, also
  `handler.go:95`): of two that join at once, the one that listed first may write last, and a third client
  goes on showing a list without the other until somebody comes or goes again. `relay_orderly` says that this is the only way.
* `Relay!BroadcastReachesAll` (3 connections, 1 message). `README.md:127` says that the relay broadcasts an insert to all other clients of the room.
  `BroadcastToRoom` returns at the first receiver that fails (`hub.go:228`), unlike `BroadcastToAllInRoom`,
  which goes on. The sender is told `internal_error` and has no reason to send the operation again. For the same reason `OrderlyAgree` fails
  if people type before the relay has noticed that somebody left (`MayType` without `Noticed`).
* `Collab!PagesAgree` (`Spec`, free, 2 pages, 1 operation, 1 fault). `README.md:50` says that every client reaches the same state after a
  reconnection. A page that types on a connection that is broken, unnoticed, neither queues the operation nor sends it again (`useCollaborativeDocument.js:478`), and
  when it comes back it only asks what it misses itself: others get the operation only if they sync while it is there.
* `Catalog!CreatedShownOnce` and `OwnRenamesShown` with every page in the place of a patient one: the answer to the first `GET`
  replaces a list to which a document has been added meanwhile, which loses it or, if both answers have it, shows it twice; and two renames of one
  document may be answered in the opposite order.

## 4. The proofs

The theorems of `DocumentProofs` and `ReplicaProofs` are about `Document!Spec` and hold for every finite or infinite set of clients
and every bound. What is assumed: `Client \subseteq Nat` and `MaxInserts, MaxDeletes \in Nat`
(named in `Document`).

| Theorem | States |
|---|---|
| `Invariance` | `Spec => []Inv`, the inductive invariant |
| `TypeCorrect`, `ListsWellFormed`, `CountersMatch`, `LogsArePartitioned` | the conjuncts of `Inv` that the runs check |
| `OrderIsStable` | the action property `OrderStable` |
| `IntentionIsKept` | `IntentionKept`, through the strengthening `IntentionInv` |
| `DeltasComplete` | `DeltaComplete`, through `InvDeltaComplete` |
| `RefinesOpLog` | `Spec => ImplementsOpLog` |
| `NothingIsStuck` | `NothingStuck`, through `Grounded` |
| `LoopsAgree` | `LoopAgrees`: the loops of the code and the declarative insertion point are the same thing |
| `HandlersGetOn` | the action property `HandlersEnd`: each step of a handler that has begun makes its `Work` smaller |

Those of `DisciplineProofs` are about `Disciplines!DisciplineSpec`, for every set of clients and every number of inserts, hence of turns and rounds
(moreover `TurnClient \subseteq Client`). `Convergence` is false without a discipline (`diverge`), so these are the limits within which the promise
of the README is true, and not only on the instance of the run.

| Theorem | States |
|---|---|
| `DisciplineInvariance` | `DisciplineSpec => [](Inv /\ IntentionInv /\ DisciplineInv)` |
| `DisciplineConvergence` | `Convergence` |
| `RightIsABoundary` | `RightBoundary`, so that no walk of `conflictZone` runs off the list |

Those of `GoClientProofs` are about `GoClient!Spec` and hold for every number of connections,
of operations and of messages of others (`GoClientAssumption`: natural numbers).

| Theorem | States |
|---|---|
| `ClientInvariance` | `Spec => []Inv`, the inductive invariant |
| `ClientTypeCorrect`, `NothingIsLost`, `ConnectionsAreKept`, `StatesHaveConnections`, `WakeUpsAreKept` | the conjuncts of `Inv` that the runs check |
| `ClientSendsInOrder` | `SentInOrder`, through the strengthening `OrderInv` |
| `CloseIsFinal` | the action property `ClosingIsFinal` |

Those of `RelayProofs` are about `Relay!Spec` and hold for every set of connections, rooms and clients and every
number of messages, whatever joins and leaves at the same time (`RelayAssumption`: no name is empty, the bound is a natural number).

| Theorem | States |
|---|---|
| `RelayInvariance` | `Spec => []Inv`, the inductive invariant |
| `RelayTypeCorrect`, `SessionsAreMatched`, `RoomsAreOccupied`, `MessagesStay`, `ForwardingKeepsOrder` | the conjuncts of `Inv` that the runs check |
| `OrderlyPresence` | `OrderlySpec => []PresenceTrue`, through `PresenceInv`: with one join or leave at a time |

Those of `CollabProofs` are about `Collab!Spec` and hold for every set of pages, every number of connections, operations and faults, and every
set of disciplines (`CollabAssumption`: the bounds are natural numbers, no page is called as the author of the stored operations).

| Theorem | States |
|---|---|
| `CollabInvariance` | `Spec => []Inv`, the inductive invariant |
| `CollabTypeCorrect`, `PagesSendInOrder` | the conjuncts of `Inv` that the runs check |
| `NothingWaitsOnline` | a page that is online has an empty queue |
| `LiveOperationsInOrder` | `LiveInOrder`, through the second invariant `WayInv` |
| `OrderlyPagesAgree` | `OrderlyAgree`, through the third, `CalmInv` |
| `TurnsAreSaved` | `TurnsSaved`, through the fourth, `TurnsInv` |

Those of `StorageProofs` are about `Storage!StorageSpec`, for every set of clients and every number of operations and restarts, under the hypothesis
`SaveFirst`, without which they are false (see `Storage` above).

| Theorem | States |
|---|---|
| `StorageInvariance` | `StorageSpec => []StorageInv`, the inductive invariant |
| `LogsPartitionAfterRestarts`, `IdentifiersStayUnique` | `LogsPartition`, `IdentifiersUnique` |
| `SavesAreFaithful` | the action property `SavedFaithfully` |
| `IntentionSurvivesRestarts` | `IntentionKept` on replicas that were rebuilt, through `RestartsInv` |
| `NothingIsStuckAfterRestarts` | `NothingStuck`, likewise |
| `DeltasCompleteAfterRestarts`, `LoopsAgreeAfterRestarts` | `DeltaComplete`, `LoopAgrees`, from `StorageInv` |
| `CrashesLoseOnlyUnsaved` | the action property `EditsSurvive`: an insert that its client has saved, or that somebody else has heard of, and a delete that anybody has saved stay in the log of some client |

Those of `CatalogProofs` are about `Catalog!Spec` and hold for every set of pages, every subset of patient ones and every number of requests
(`CatalogAssumption`).

| Theorem | States |
|---|---|
| `CatalogInvariance` | `Spec => []Inv`, the inductive invariant |
| `CreationsAreShown`, `RenamesAreShown` | the two properties of the run |

**The inductive invariant of the replicas.** `Inv` adds two parts to the four the runs state, because these are
not inductive:

* `IssuedInv`: an identifier belongs to one operation, the clock of a client is past every
  clock it issued, and what an operation refers to was issued before. Without it a local
  insert could reuse an identifier (breaking `WellFormedList`), and two different operations
  with one identifier would make "the log minus the list" meaningless (breaking `LogsPartition`).
* `Blocked`: outside `processPending` nothing that is pending could be integrated. The code
  integrates an operation that it just received without looking for it in the pending map,
  and it does not take it out of there; only because of `Blocked` is it never in there.
  `LogsPartition` and, for deletes, `CounterMatches` rest on this.

`NothingStuck` is not a matter of one step, because nothing in a state with a closed log says that its references do not go round in a circle.
`Grounded` says it: there is a rank for the identifiers in which every operation is above its origin and its right. An insert refers
to what its client has in its list, whose ranks are there already, and gets the rank above both. Of the operations pending at a replica with
a closed log, one with the least rank refers only to what the list has; by `Blocked` there is none.

`LoopAgrees` needs, besides `Inv`, that the origin of every element is in its list (`RootedInv`): otherwise `isOriginAfter` would go on to `End`
where the declarative `StopsAt` compares places. It is then a fact about lists: in a well-formed rooted list each of the three recursive
functions is what it computes place by place (`WalkedZone`, `WalkedOrigins`, `WalkedConflicts`), and exactly one place is an insertion point (`OneInsertionPoint`).

`HandlersEnd` is what can be proved of the termination of the handlers. `Work` counts what is left of a delta, what is pending, and whether `processPending` is
under way; an insert of the delta counts three times, since it may go to the pending map and start a `processPending`. It is a natural number because the logs are
finite (`FiniteInv`), however many clients there are. That a handler takes its next step at all is scheduling, which nothing here assumes.

**The inductive invariant of the disciplines.** Both rest on `Agree`: no two replicas have two characters in opposite orders. From it follow
`Convergence` (with `LogsPartition` two replicas with the same operations have the same characters) and `RightBoundary` (where
the operation was typed, its origin stood before its right). `Agree` is not inductive, since it does not say what happens to a character that
some replicas still lack:

* `TurnInv`: some replica has everything (`Full`), and in its list what was typed beside a character X lies on one side of X altogether (`Nested`),
  since whoever types has everything. So a replica that lacks X has nothing between the origin and the right of X
  (`NothingBetween`): X comes into an empty conflict zone, the same place everywhere.
* `RoundInv`: every replica knows what was typed before the round; each character of the round has two neighbours of
  that text as origin and right, and those with the same origin stand in the order of their identifiers, wherever and in whatever
  order they were integrated.
* `Somewhere` and `OriginsInv` tie the operations to the lists.

**The inductive invariants of the Go client.** `Inv` adds to the properties of the run what
the goroutines know while they are outside the locks:

* `FlushHandInv` and `FlushInv`: what a flush writes is the head of the queue, and what it then
  removes was sent. Between the two the lock is free and others append to the queue; that no one
  removes from it rests on `FlushMutex`, which is still held while
  `MarkDisconnected` runs inside the flush (`BackInv` says where that call returns).
  `NothingLost` rests on it.
* `UserHandInv`: `SendOrQueue` has an operation in hand exactly from the choice of
  the connection to the write or the queueing.
* `DialedInv`: the connection about to be installed is the latest and has no reader yet, so
  that `InstallConnection` starts one without disturbing a flush (`FlushInv`).
* `LifeInv`: `StopSignal` is closed only in `Closing`, so that the loop ends only when
  `WakeUpPending` and `NoConnectionLeaks` need it no more.

`OrderInv` is the order of the operations of `SentInOrder`, on top of `Inv`:

* `ReaderInv`: the connection in use has had its reader started, and a reader starts once; so nothing was sent on a connection before `Dial` installs it.
* `TurnInv`: on one connection the user's goroutine writes only after the flush has ended for good, though it chose the connection before it took the lock.
* `QueueInv`: the queue is in the order of typing, and what the user has in hand was typed after everything queued or sent.
* `FlushOrderInv`: while a connection is syncing, what was sent on it was typed before what is still queued, except that
  the head of the queue is both, between its write and its removal.

**The inductive invariants of the relay.** `SessionsMatch` and `NoEmptyRoom` are inductive with the types. What is
forwarded after the lock is released needs more:

* `ReceiversInv`: those a handler still has to write to joined the room of its sender. They need not be there
  any more; what counts is that a session never changes once it is made (`JoinOnce`).
* `GotInv`: who wrote on a connection has joined, and so has its owner. `StaysInRoom` rests on both.
* `NumberInv`: what was written was read before, and its number is below that of the message that is still to
  be written. `ForwardedInOrder` rests on it.

`PresenceInv` is what one join or leave at a time (`OneAtATime`) adds. `ShownInv`: whoever is in a room and has not been shown its users will be told,
by a handler that is still to list the users or that holds its list and has him among its receivers. `UsersInv`: that list is still true, because nobody
else changes the room before it has been told; here the two announcements of the counterexample in section 3 are excluded.
`TargetsInv`: the receivers are of that room.

**The inductive invariants of the room.** `SentInOrder` speaks of the own operations of a page by their number, so it needs:

* `AuthorsKnow`: an operation that anything in the room holds (a document, a message, a handler, the store) is
  in the document of its author. Otherwise a delta could bring a page an operation of its own that it never typed.
* `ClocksDense`: the clocks of a page's own operations are 0, 1, 2 up to their number, so that the next one is new.
* `OnlineSends`: nothing waits in the queue of a page that is online, so that what is sent at once overtakes nothing.
* `Opened`: what a page calls its websocket is a connection that was opened.

`LiveInOrder` is about everything on its way at once, and has an invariant of its own, `WayInv`, over the connections of all pages:

* `HubInv`: the hub holds the connections between their join and their leave, at most one of each page, and a handler outside its broadcast holds no message.
* `SocketInv`: only the websocket a page has now, its latest, can have messages that the relay has not read: a page connects again after
  `onclose`, when the old one is broken and has lost what was on it. So no old handler reads anything new once the page writes on a new connection.
* `Ordered`: of any two live operations of one page on its way to another, the one in front (in the receiver's direction, in the hands of
  a handler, in what the page has written) is the older. The receivers of an old handler are done before the new one can have joined, because
  `Join` refuses a second session of the page (`HubInv`).
* `SentInv`, `FromInv`: what is on its way has been sent, so the next operation is newer than all of it, and came in on a connection of its page.

`OrderlyAgree` says what the pages know at rest. That depends on all that was under way before, so its invariant, `CalmInv`, says of every
operation that a page lacks what under way will bring it. It holds when pages are opened and left one at a time on connections that hold:

* `LinkInv`: a page has one connection as long as it is open.
* `HandlersInv`: only the handler of the newest connection can still be joining, nobody is sent anything who has left, and a session that has
  outlived its page is there only while nothing is under way. So a broadcast reaches all the others, and none fails half-way.
* `AskingInv`: only the newest page asks, after its join, and claims no more than it has.
* `CarriedInv`: what a page is sent somebody has, except what the relay answers out of the store, which it does only to a page that is alone.
* `ComingInv`: if a page lacks an operation that another has, then a message with it has been written to the page, or somebody who has it has it in his queue, or has
  written it, or his handler is forwarding it and has not come to the page yet, or he has still to answer the page's state vector (`Unanswered`).
  Each step moves an operation from one of these places to the next (`Moves`); at rest all of them are empty.

`TurnsSaved` needs to know in addition that a snapshot never overwrites more than it has. A snapshot has what its writer has, so the invariant
`TurnsInv` goes through what the room does between two moments at rest: a page has been opened and has not asked (`Entering`), it is told everything by everybody
(`Synchronising`), or what somebody has typed is on its way to the others (`Spreading`). In each of them every snapshot under way has
everything ever typed, and if the store has not, one is under way (`SavingInv`). Without turns it is false: two users who type at the same time
write two snapshots, each without what the other has typed, and the later one stays.

**The inductive invariant of the storage.** `StorageInv` adds to `Inv`, which the steps of `Document` keep and a restart must make true again:

* `SnapshotInv`: what is stored is the document of some list and some set of deleted elements, well-formed, counted and in agreement with the stored logs.
  That reading it back along `Right` gives that list (`ReadBack`) is a lemma for every list.
* `BehindInv`: a replica is never behind its buckets, so that a save overwrites everything of an earlier one, although no key is ever taken out.
* `OwnInv` says what a restart leaves behind, for a restart takes away what its client typed since its last save. `HeardInv`: nobody else has any of that. `ClockInv`: the clock of a
  snapshot is past all that its client has typed in it, and so past all that is left of it. `RefsInv` and `DeletesInv`: what is saved, or was typed by others, refers to and deletes only what is saved.
  So after a restart `IssuedInv` holds again, although the clock went back. `SaveFirst` is needed for `HeardInv` alone (`HandleInv`).
* `RootedInv`: the origin of every element is in the list, so that `RebuildRelations` does not fail.

A restart takes away what `Document` never forgets, so `NothingStuck` and `IntentionKept` have to be shown again: `RestartsInv` adds `Grounded`, `IntentionInv` and
`SavedIntentionInv` to `StorageInv`. The last says that in the list of a snapshot, too, the inserts of its log stand between
their references: the rebuilt replica has this list and this log. `EditsSurvive` rests on `HeardInv`, by which what others have heard of is saved (`Saved`), and on `BehindInv`: a database
never loses anything, and its client has all of it.

**The inductive invariant of the catalog.** Neither property is inductive; what they rest on is spread over requests under way:

* `MountInv`: the list is asked for once, and a patient user has no other request under way until it is there, so that it never replaces
  a list with something of his in it.
* `AnswerInv`, `FreshInv`, `ShownInv`: what an answer says of the table, also while the table goes on; two creations never share a row.
* `CreatedInv`: the list of a patient page has no document twice, and none yet whose creation is still to be answered.
* `RenamedInv`: a patient user has one rename of a document under way, and all earlier ones of his are older names.

**Layout.** `DocumentProofs` begins with the facts about lists: what splicing does to places
(`SpliceStep`), that the insertion point lies after the origin and not after the right
reference, that it never passes the sentinels. It takes `IsInsertionPoint` as a relation and
does not need that a point exists; that there is one, and only one, is `OneInsertionPoint` of `ReplicaProofs`. After them it has one lemma per action; an action
changes one replica, so `OneReplica` reduces every conjunct to that replica
and `Untouched` settles those that read nothing the action changes. `ReplicaProofs` shows that each
step leaves every list alone or splices one element into it (`ListStep`), from which `OrderStable`
and the preservation of `IntentionKept` follow; the strengthening says that origin and right of an
element are in the list at all. It shows that a delta computed from a vector is complete
for every pair of logs that satisfy `Inv`, and maps each action to a step of `OpLog` or a stutter. Then come the loops, one lemma for each, and
the work of the handlers (`RemoteWorks`; `OthersUntouched` for the replicas a step is not about).
`DisciplineProofs` proves for each discipline that a splice at the insertion point keeps `Agree`, then one lemma per kind of step.
`GoClientProofs` first says what a write, a queueing and a removal do to the sets of messages sent and
queued (`SentGrows`, `QueueGrows`, `QueuePops`) and then has one lemma per conjunct of `Inv`, with one
step per action that touches it.
`RelayProofs` says what a join and a
leave do to the rooms (`JoinAdds`, `LeaveRemoves`), that no other action touches them (`HubKept`), and that each step
leaves what was written alone or adds one message for one receiver (`ForwardingStep`, `GotChanges`). For presence it has a lemma for the joins, the
leaves and the writes of an announcement each, and one for all the other steps (`QuietStep`).
`CatalogProofs` has one lemma per action, after one on requests that are sent (`SendStep`), on handlers that go on (`Proceeds`) and on answers that
are taken (`TakeKeeps`). `CollabProofs` has one lemma per conjunct of `Inv` with one step per action, after lemmas on what a page writes and what is held where; then
lemmas on sequences in the order of their clocks (`Sorted`, `Items`), and one on `Ordered` for each way a message can move. For `CalmInv` it says which steps are
left of `Next` (`CalmSteps`: no join is refused, nothing fails, nobody is disconnected) and what each does to the sets of messages on their way (`Hears`, `Types`,
`Reads`, `Gives`, `Passing`), and for `TurnsInv` what all steps of the relay have in common (`RelayMoves`).
`StorageProofs` has what a save stores (`Snapshot`), what a restart makes of it, and that saves after it find nothing stale; then the same three steps for
`RestartsInv`. What typing, deleting, hearing, saving and restarting do to `OwnInv` is in `TypeOwn`, `DeleteOwn`, `HandleInv`, `SaveOwn` and `RestartOwn`; `Survivors` says what a restart leaves in the logs.

Recursive functions (`Linked`, the rank of an operation, the loops) are reasoned about by the least counterexample among the natural numbers (`LeastNatural`), which
needs no induction theorem with an operator as a parameter. For the loops this is done once, for two functions that agree on their first argument and step
alike (`AgreeUpwards`, `AgreeDownwards`); each loop is then compared with the function that says what it computes.

**Only model-checked.** The liveness of the Go client, of the relay and of the room (`Reconnects`, `Ends`, `ReaderCompletes`, `Leaves`, `GetsOnline`): fairness
is out of the prover's reach. Every invariant and every other action property that a run expects to hold is also a theorem. Conversely
`HandlersEnd` and `EditsSurvive` are stated in the proof modules only.

## 5. Not modelled

* The content of characters, printing, JSON, and everything marked `not_modelled` in
  `PROJECT.json`.
* A page after a `TypeError` inside a handler.
* Why a dial fails. `DialAndJoin` sends a join without a name (`client.go:332`), which the
  relay of this commit refuses (`DecodeJoin`, `protocol/messages.go:220`); with that relay only
  `DialFails` is ever taken. `Dial` stands for a relay that acknowledges the join, which
  is what the rest of `client.go` is written for; everything said above of a client with a
  connection is said for such a relay.
* A write on a connection that is broken but not yet known to be: TCP may accept it and lose the
  message. `NothingLost` speaks of what was written, not of what arrived.
* Errors of the relay are written as any other reply.
* A stalled client that reads again: for the properties here it is one that never stalled.
* Deletes in `Collab`: they are queued, sent, forwarded and stored as inserts are, and claimed one by one and not by a clock; `Document` has them.
* Errors of the stores. If `LoadInternalSnapshot` fails for another reason than that there is none, the page that asked gets an error and stays syncing.
* A page that is loaded again keeps its `client_id` for the relay (`sessionStorage`), while its document has a new one, so it may be refused until the
  handler of the old page has left, and connects again after two seconds. In `Collab` it is another page, and the refusal occurs when a page comes back.
* That the Go client saves its document, as `backend/cmd/editor/README.md` describes: the code of this commit does not. `Storage` has the
  functions it would call.
* The wire protocol: stateless conversions between records and JSON, without a state or an interleaving to check.
* The web pages. `DocumentListPage.jsx:9` uses the promise of `onCreateDocument` as the document, so that whoever creates a document
  gets to the page `/editor/undefined`: visible without a model.
* The timestamps of the catalog and the order they give to the list.

## 6. Where this can go on

The plan of modules is complete: the document, the Go client, the relay, the room, the storage and the catalog
are specified and checked, each has its inductive invariant proved, and each safety property of the runs is a theorem. What is left is liveness, which
needs a prover that knows fairness, and the parts of section 5.
