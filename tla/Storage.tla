------------------------------- MODULE Storage -------------------------------
(***************************************************************************)
(* Replicas that are saved and come back (internal/storage/boltdb.go,      *)
(* internal/document/hydrate.go): SaveSnapshot puts a document into the    *)
(* buckets of its room, every client in a database of its own, and after a *)
(* crash ReconstructDocument builds the replica again from what is there.  *)
(*                                                                         *)
(* SaveSnapshot is one transaction, which happens as a whole or not at all.*)
(* It only ever puts keys, and never takes one out.                        *)
(***************************************************************************)
EXTENDS Document

CONSTANTS
  SaveFirst,    \* whether others hear of an edit only when a snapshot with it has been saved
  MaxRestarts   \* bound: restarts of all clients together

ASSUME StorageAssumption == SaveFirst \in BOOLEAN /\ MaxRestarts \in Nat

VARIABLES
  metadata,         \* the bucket "metadata": [the clients with a room -> the document's fields]
  elements,         \* the bucket "elements": [Client -> [keys -> PersistedElement]]
  insertOperations, \* the bucket "insert_log"
  deleteOperations, \* the bucket "delete_log"
  restarts

store == <<metadata, elements, insertOperations, deleteOperations>>
storageVars == <<vars, store, restarts>>

StorageInit ==
  /\ Init
  /\ metadata = <<>>
  /\ elements = [c \in Client |-> <<>>]
  /\ insertOperations = [c \in Client |-> {}]
  /\ deleteOperations = [c \in Client |-> {}]
  /\ restarts = 0

-----------------------------------------------------------------------------
\* What is written.

NoID == [client |-> -3, clock |-> 0]   \* the identifier that nil is stored as

IDAt(l, k) == IF k \in DOMAIN l THEN l[k].id ELSE NoID

\* ToPersistedElement
PersistedElement(l, k, deleted) ==
  [origin |-> l[k].origin, left |-> IDAt(l, k - 1), right |-> IDAt(l, k + 1),
   deleted |-> l[k].id \in deleted]

PersistedElements(c) ==
  [id \in Present(c) |-> PersistedElement(list[c], Position(list[c], id), tombstones[c])]

PersistedMetadata(c) == [clock |-> clock[c], characterCounter |-> characterCounter[c]]

\* Puts into a bucket: the value that is put replaces the one that is there.
Put(bucket, puts) ==
  [key \in DOMAIN bucket \cup DOMAIN puts |->
    IF key \in DOMAIN puts THEN puts[key] ELSE bucket[key]]

\* Puts into a bucket whose keys are identifiers.
PutInserts(bucket, ops) == {op \in bucket : op.id \notin IDs(ops)} \union ops

\* Mutant: an element that is there already is not put again.
SaveElementsNew(c) ==
  elements' = [elements EXCEPT ![c] = Put(PersistedElements(c)', @)]

SaveElements(c) ==
  elements' = [elements EXCEPT ![c] = Put(@, PersistedElements(c)')]

SaveMetadata(c) ==
  metadata' = Put(metadata, [d \in {c} |-> PersistedMetadata(c)'])

\* SaveSnapshot of the document as it is at the end of the step
SaveSnapshot(c) ==
  /\ SaveMetadata(c)
  /\ SaveElements(c)
  /\ insertOperations' = [insertOperations EXCEPT ![c] = PutInserts(@, insertLog'[c])]
  /\ deleteOperations' = [deleteOperations EXCEPT ![c] = @ \union deleteLog'[c]]

\* A save comes after every edit, unless it fails or the crash is sooner: then the edit is in
\* memory only, until a later save.
Save(c) ==
  /\ Running(c) /\ Idle(c)
  /\ UNCHANGED <<vars, restarts>>
  /\ SaveSnapshot(c)

Edit(c) == Local(c) /\ UNCHANGED <<store, restarts>>

\* What the step brings to c has been saved, an insert by the client that typed it.
HearsSaved(c) ==
  /\ \A op \in (insertLog'[c] \union todoInserts'[c]) \ insertLog[c] :
       op \in insertOperations[op.id.client]
  /\ (deleteLog'[c] \union todoDeletes'[c]) \ deleteLog[c] \subseteq
       UNION {deleteOperations[d] : d \in Client}

Handle(c) ==
  /\ Remote(c)
  /\ SaveFirst => HearsSaved(c)
  /\ UNCHANGED <<store, restarts>>

-----------------------------------------------------------------------------
\* What is read.

\* RebuildRelations fails when an element refers to one that is not there.
RelationsRebuild(e) ==
  \A id \in DOMAIN e \ {Start, End} : {e[id].origin, e[id].left, e[id].right} \subseteq DOMAIN e

\* the list that starts at Start: Right is followed until End
Linked(e) ==
  LET walk[k \in 1..Cardinality(DOMAIN e)] ==
        IF k = 1 THEN Start ELSE IF walk[k - 1] = NoID THEN NoID ELSE e[walk[k - 1]].right
      last == CHOOSE k \in DOMAIN walk : walk[k] = End
  IN  [k \in 1..last |-> [id |-> walk[k], origin |-> e[walk[k]].origin]]

Deleted(e) == {id \in DOMAIN e : e[id].deleted}

\* Mutant: the pending inserts are not rebuilt.
ReconstructPendingInsertsNone(c) ==
  pendingInserts' = [pendingInserts EXCEPT ![c] = {}]

ReconstructPendingInserts(c) ==
  pendingInserts' = [pendingInserts EXCEPT ![c] =
    {op \in insertOperations[c] : op.id \notin DOMAIN elements[c]}]

ReconstructPendingDeletes(c) ==
  pendingDeletes' = [pendingDeletes EXCEPT ![c] = deleteOperations[c] \ DOMAIN elements[c]]

\* Mutant: Clock is not restored.
ReconstructMetadataNoClock(c) ==
  /\ clock' = [clock EXCEPT ![c] = 0]
  /\ characterCounter' = [characterCounter EXCEPT ![c] = metadata[c].characterCounter]

ReconstructMetadata(c) ==
  /\ clock' = [clock EXCEPT ![c] = metadata[c].clock]
  /\ characterCounter' = [characterCounter EXCEPT ![c] = metadata[c].characterCounter]

\* A crash, at any moment, and ReconstructDocument up to its call of processPending.
\* Without a snapshot the document that starts has another identity.
Restart(c) ==
  /\ restarts < MaxRestarts /\ c \in DOMAIN metadata
  /\ restarts' = restarts + 1
  /\ RelationsRebuild(elements[c])
  /\ list' = [list EXCEPT ![c] = Linked(elements[c])]
  /\ tombstones' = [tombstones EXCEPT ![c] = Deleted(elements[c])]
  /\ ReconstructMetadata(c)
  /\ insertLog' = [insertLog EXCEPT ![c] = insertOperations[c]]
  /\ deleteLog' = [deleteLog EXCEPT ![c] = deleteOperations[c]]
  /\ ReconstructPendingInserts(c) /\ ReconstructPendingDeletes(c)
  /\ todoInserts' = [todoInserts EXCEPT ![c] = {}]
  /\ todoDeletes' = [todoDeletes EXCEPT ![c] = {}]
  /\ draining' = [draining EXCEPT ![c] = TRUE]
  /\ aborted' = aborted \ {c}
  /\ UNCHANGED store

StorageNext == \E c \in Client : Edit(c) \/ Handle(c) \/ Save(c) \/ Restart(c)

StorageSpec == StorageInit /\ [][StorageNext]_storageVars

-----------------------------------------------------------------------------
\* Properties.

\* Whoever reads the buckets of c finds the document that c is.
Recovers(c) ==
  /\ c \in DOMAIN metadata /\ metadata[c] = PersistedMetadata(c)
  /\ elements[c] = PersistedElements(c)
  /\ RelationsRebuild(elements[c])
  /\ Linked(elements[c]) = list[c] /\ Deleted(elements[c]) = tombstones[c]
  /\ insertOperations[c] = insertLog[c] /\ deleteOperations[c] = deleteLog[c]

\* Keys are put one by one over those of earlier saves, before and after restarts from
\* other snapshots: what a transaction leaves is still the document, and nothing of an
\* earlier one.
SavedFaithfully ==
  [][\A c \in Client :
       \/ UNCHANGED <<elements[c], insertOperations[c], deleteOperations[c]>>
       \/ Recovers(c)']_store

\* No two characters share an identifier, although a client that crashes before it has saved
\* what it typed takes up an older Clock, and types under the same identifiers again.
IdentifiersUnique ==
  \A a, b \in Issued \union UNION {insertOperations[c] : c \in Client} : a.id = b.id => a = b

=============================================================================
