---------------------------- MODULE StorageProofs ----------------------------
(***************************************************************************)
(* Saving and restarting, for any number of clients, operations, saves and *)
(* restarts: what is read back is what was saved, and when nobody hears of *)
(* an edit before it is saved the invariant of the replicas survives the   *)
(* restarts, also of a client that has lost what it typed last.            *)
(***************************************************************************)
EXTENDS Storage, ReplicaProofs

\* What SaveElements stores of a list l whose elements in t are deleted.
Persisted(l, t) == [id \in ElementIDs(l) |-> PersistedElement(l, Position(l, id), t)]

LEMMA StoredElement ==
  ASSUME NEW l \in Seq(Element), WellFormed(l), NEW t, NEW k \in 1..Len(l)
  PROVE  /\ l[k].id \in DOMAIN Persisted(l, t)
         /\ Persisted(l, t)[l[k].id].origin = l[k].origin
         /\ k < Len(l) => Persisted(l, t)[l[k].id].right = l[k + 1].id
         /\ k > 1 => Persisted(l, t)[l[k].id].left = l[k - 1].id
<1>1. Len(l) \in Nat /\ DOMAIN l = 1..Len(l)
  BY LenProperties
<1>2. l[k].id \in ElementIDs(l)
  BY DEF ElementIDs
<1>3. Position(l, l[k].id) = k
  BY PositionUnique
<1>4. Persisted(l, t)[l[k].id] = PersistedElement(l, k, t)
  BY <1>2, <1>3 DEF Persisted
<1>5. k < Len(l) => k + 1 \in DOMAIN l
  BY <1>1
<1>6. k > 1 => k - 1 \in DOMAIN l
  BY <1>1
<1> QED BY <1>2, <1>4, <1>5, <1>6 DEF Persisted, PersistedElement, IDAt

\* The walk along Right from Start meets the elements in the order of the list.
LEMMA ReadBack ==
  ASSUME NEW l \in Seq(Element), WellFormed(l), NEW t
  PROVE  Linked(Persisted(l, t)) = l
<1> DEFINE e == Persisted(l, t)
           n == Cardinality(DOMAIN e)
           Step(w, k) ==
             IF k = 1 THEN Start ELSE IF w[k - 1] = NoID THEN NoID ELSE e[w[k - 1]].right
           ids == [k \in 1..n |-> l[k].id]
           walk == CHOOSE w : w = [k \in 1..n |-> Step(w, k)]
           last == CHOOSE k \in DOMAIN walk : walk[k] = End
<1>1. Len(l) \in Nat /\ Len(l) >= 2 /\ DOMAIN l = 1..Len(l)
  BY LenProperties DEF WellFormed
<1>2. n = Len(l)
  <2>1. DOMAIN e = {l[k].id : k \in 1..Len(l)}
    BY DEF Persisted, ElementIDs
  <2>2. Cardinality(1..Len(l)) = Cardinality({l[k].id : k \in 1..Len(l)})
    BY PlacesCount
  <2>3. Cardinality(1..Len(l)) = Len(l)
    BY <1>1, FS_Interval
  <2> QED BY <2>1, <2>2, <2>3
<1>3. Linked(e) = [k \in 1..last |-> [id |-> walk[k], origin |-> e[walk[k]].origin]]
  BY DEF Linked
<1>0. /\ \A k \in 1..Len(l) : e[l[k].id].origin = l[k].origin
      /\ \A k \in 1..Len(l) : k < Len(l) => e[l[k].id].right = l[k + 1].id
  <2> SUFFICES ASSUME NEW k \in 1..Len(l)
               PROVE  /\ e[l[k].id].origin = l[k].origin
                      /\ k < Len(l) => e[l[k].id].right = l[k + 1].id
    OBVIOUS
  <2> QED BY StoredElement
<1>4. \A k \in 1..n : k > 1 => ids[k - 1] # NoID /\ e[ids[k - 1]].right = ids[k]
  <2> SUFFICES ASSUME NEW k \in 1..n, k > 1
               PROVE  ids[k - 1] # NoID /\ e[ids[k - 1]].right = ids[k]
    OBVIOUS
  <2>1. k - 1 \in 1..n /\ k - 1 \in 1..Len(l) /\ k - 1 < Len(l) /\ k - 1 + 1 = k
    BY <1>1, <1>2
  <2>2. e[l[k - 1].id].right = l[k].id
    BY <2>1, <1>0
  <2>3. l[k - 1].id \in ID \cup {Start, End}
    <3>1. l[k - 1] \in Element
      BY <2>1, ElementOfSeq
    <3> QED BY <3>1 DEF Element
  <2>4. NoID \notin ID \cup {Start, End}
    BY ClientAssumption DEF NoID, ID, Start, End
  <2> HIDE DEF e, n
  <2> QED BY <2>1, <2>2, <2>3, <2>4
<1>5. 1 \in 1..n /\ ids[1] = Start /\ n \in 1..n /\ ids[n] = End /\ n \in Nat
  <2> HIDE DEF n
  <2> QED BY <1>1, <1>2 DEF WellFormed
<1> HIDE DEF e, n
<1>6. ids = [k \in 1..n |-> Step(ids, k)]
  <2>1. \A k \in 1..n : ids[k] = Step(ids, k)
    <3> HIDE DEF ids
    <3> QED BY <1>4, <1>5
  <2> HIDE DEF Step
  <2> QED BY <2>1
<1>7. ASSUME NEW w, w = [k \in 1..n |-> Step(w, k)]
      PROVE  w = ids
  <2>1. \A k \in 1..n : w[k] = Step(w, k)
    <3> HIDE DEF Step
    <3> QED BY <1>7
  <2> DEFINE T == {k \in 1..n : w[k] # ids[k]}
  <2>2. T = {}
    <3> SUFFICES ASSUME T # {} PROVE FALSE
      OBVIOUS
    <3>1. T \subseteq Nat
      BY <1>5
    <3>2. PICK m \in T : \A j \in T : ~(j < m)
      BY <3>1, LeastNatural
    <3>3. m # 1
      BY <1>5, <2>1, <3>2
    <3>4. m - 1 \in 1..n /\ m - 1 \notin T /\ m > 1
      BY <1>5, <3>2, <3>3
    <3>5. w[m - 1] = ids[m - 1]
      BY <3>4
    <3>6. w[m] = IF w[m - 1] = NoID THEN NoID ELSE e[w[m - 1]].right
      BY <2>1, <3>2, <3>3
    <3>7. w[m] = ids[m]
      BY <1>4, <3>2, <3>4, <3>5, <3>6
    <3> QED BY <3>2, <3>7
  <2>3. \A k \in 1..n : w[k] = ids[k]
    BY <2>2
  <2>4. w = [k \in 1..n |-> w[k]]
    <3> HIDE DEF Step
    <3> QED BY <1>7
  <2> HIDE DEF ids
  <2>5. ids = [k \in 1..n |-> ids[k]]
    BY DEF ids
  <2> QED BY <2>3, <2>4, <2>5
<1>8. walk = ids
  <2> HIDE DEF ids, Step
  <2>1. walk = [k \in 1..n |-> Step(walk, k)]
    BY <1>6
  <2> QED BY <2>1, <1>7
<1> HIDE DEF walk
<1>9. last = n
  <2>1. DOMAIN walk = 1..n
    BY <1>8
  <2>2. \A k \in 1..n : walk[k] = End => k = n
    BY <1>2, <1>5, <1>8 DEF WellFormed
  <2>3. walk[n] = End
    BY <1>5, <1>8
  <2> QED BY <1>5, <2>1, <2>2, <2>3
<1>10. ASSUME NEW k \in 1..n
       PROVE  [id |-> walk[k], origin |-> e[walk[k]].origin] = l[k]
  <2>1. k \in 1..Len(l) /\ walk[k] = l[k].id
    BY <1>2, <1>8
  <2>2. e[l[k].id].origin = l[k].origin
    BY <2>1, <1>0
  <2>3. l[k] \in Element
    BY <2>1, ElementOfSeq
  <2> QED BY <2>1, <2>2, <2>3 DEF Element
<1>11. l = [k \in 1..n |-> l[k]]
  BY <1>1, <1>2
<1>12. Linked(e) = [k \in 1..n |-> [id |-> walk[k], origin |-> e[walk[k]].origin]]
  <2> HIDE DEF last
  <2> QED BY <1>3, <1>9
<1>13. Linked(e) = [k \in 1..n |-> l[k]]
  BY <1>10, <1>12
<1> QED BY <1>11, <1>13 DEF e

-----------------------------------------------------------------------------
\* The invariant.

StoreTypeOK ==
  /\ DOMAIN metadata \subseteq Client
  /\ metadata \in [DOMAIN metadata -> [clock : Nat, characterCounter : Int]]
  /\ DOMAIN elements = Client
  /\ insertOperations \in [Client -> SUBSET InsertOperation]
  /\ deleteOperations \in [Client -> SUBSET ID]

\* The buckets of c are those of a document with the list l and the deleted elements t.
SnapshotOf(c, l, t) ==
  /\ WellFormed(l) /\ t \subseteq ElementIDs(l)
  /\ elements[c] = Persisted(l, t)
  /\ metadata[c].characterCounter = Cardinality((ElementIDs(l) \ {Start, End}) \ t)
  /\ ElementIDs(l) \ {Start, End} = IDs({op \in insertOperations[c] : op.id \in ElementIDs(l)})
  /\ deleteOperations[c] \cap ElementIDs(l) = t

SnapshotInv ==
  \A c \in DOMAIN metadata : \E l \in Seq(Element) : \E t \in SUBSET ID : SnapshotOf(c, l, t)

\* A snapshot is never ahead of the replica, so saving overwrites all of an earlier one.
BehindInv ==
  \A c \in Client :
    /\ DOMAIN elements[c] \subseteq Present(c)
    /\ insertOperations[c] \subseteq insertLog[c]
    /\ deleteOperations[c] \subseteq deleteLog[c]

\* What its client has saved of what it typed, and what anybody has saved of what was deleted.
Saved == {op \in Issued : op \in insertOperations[op.id.client]}
SavedDeletes == UNION {deleteOperations[d] : d \in Client}

\* What a client has typed and not saved, nobody else has heard of.
HeardInv ==
  \A c \in Client : \A op \in insertLog[c] : op.id.client # c => op \in Saved

\* A snapshot has the clock of its client past whatever the client typed in it.
ClockInv ==
  \A c \in DOMAIN metadata : \A op \in insertOperations[c] :
    op.id.client = c => op.id.clock < metadata[c].clock

Refs(op) == {op.origin, op.right} \ {Start, End}

\* What an operation refers to is saved when the operation is, or of the same client.
RefsInv ==
  \A op \in Issued :
    /\ op \in Saved => Refs(op) \subseteq IDs(Saved)
    /\ \A id \in Refs(op) : id.client # op.id.client => id \in IDs(Saved)

\* So is what a delete marks.
DeletesInv ==
  \A c \in Client :
    /\ deleteOperations[c] \subseteq IDs(Saved)
    /\ \A id \in deleteLog[c] : id.client # c => id \in IDs(Saved)

OwnInv == HeardInv /\ ClockInv /\ RefsInv /\ DeletesInv

StorageInv ==
  Inv /\ StoreTypeOK /\ SnapshotInv /\ BehindInv /\ OwnInv /\ RootedInv

LEMMA InitStorage == StorageInit => StorageInv
<1> SUFFICES ASSUME StorageInit PROVE StorageInv
  OBVIOUS
<1>1. Init /\ Inv
  BY InitInv DEF StorageInit
<1>2. metadata = <<>> /\ DOMAIN metadata = {}
  BY DEF StorageInit
<1>3. StoreTypeOK
  BY <1>2 DEF StorageInit, StoreTypeOK
<1>4. SnapshotInv
  BY <1>2 DEF SnapshotInv
<1>5. BehindInv
  BY DEF StorageInit, BehindInv
<1>6. /\ Issued = {}
      /\ \A c \in Client : insertLog[c] = {} /\ deleteLog[c] = {} /\ deleteOperations[c] = {}
  BY <1>1 DEF StorageInit, Init, Issued
<1>7. OwnInv
  BY <1>2, <1>6 DEF OwnInv, HeardInv, ClockInv, RefsInv, DeletesInv
<1>8. RootedInv
  BY <1>1, InitRooted
<1> QED BY <1>1, <1>3, <1>4, <1>5, <1>7, <1>8 DEF StorageInv

-----------------------------------------------------------------------------
\* What the steps of Document do to what is saved.

LEMMA LogsGrow ==
  ASSUME Inv, Inv', [Next]_vars, NEW c \in Client
  PROVE  insertLog[c] \subseteq insertLog'[c] /\ deleteLog[c] \subseteq deleteLog'[c]
<1>1. Log!Next \/ UNCHANGED Log!vars
  BY NextRefines
<1>2. insertLog \in [Client -> SUBSET InsertOperation] /\ deleteLog \in [Client -> SUBSET ID]
  BY DEF Inv, TypeOK
<1>3. CASE UNCHANGED Log!vars
  BY <1>3 DEF Log!vars
<1>4. CASE Log!Next
  BY <1>2, <1>4 DEF Log!Next, Log!Insert, Log!Delete, Log!LearnInsert, Log!LearnDelete
<1> QED BY <1>1, <1>3, <1>4

\* The part of StorageInv that the steps of Document keep, whatever is saved with them.
LEMMA StillBehind ==
  ASSUME Inv, Inv', [Next]_vars, BehindInv, RootedInv, NEW c \in Client
  PROVE  /\ DOMAIN elements[c] \subseteq Present(c)'
         /\ insertOperations[c] \subseteq insertLog'[c]
         /\ deleteOperations[c] \subseteq deleteLog'[c]
         /\ Rooted(list[c])'
BY ListsGrow, LogsGrow DEF BehindInv, RootedInv

-----------------------------------------------------------------------------
\* A save.

LEMMA PutOver ==
  ASSUME NEW f, NEW g, DOMAIN g \subseteq DOMAIN f, f = [y \in DOMAIN f |-> f[y]]
  PROVE  Put(g, f) = f
<1>1. DOMAIN g \cup DOMAIN f = DOMAIN f
  OBVIOUS
<1> QED BY <1>1 DEF Put

LEMMA Snapshot ==
  ASSUME StoreTypeOK, TypeOK', LogsPartition', NEW c \in Client, SaveSnapshot(c),
         DOMAIN elements[c] \subseteq Present(c)',
         insertOperations[c] \subseteq insertLog'[c],
         deleteOperations[c] \subseteq deleteLog'[c]
  PROVE  /\ DOMAIN metadata' = DOMAIN metadata \cup {c}
         /\ metadata'[c] = PersistedMetadata(c)'
         /\ elements'[c] = PersistedElements(c)'
         /\ insertOperations'[c] = insertLog'[c]
         /\ deleteOperations'[c] = deleteLog'[c]
         /\ \A d \in DOMAIN metadata \ {c} : metadata'[d] = metadata[d]
         /\ \A d \in Client \ {c} : /\ elements'[d] = elements[d]
                                    /\ insertOperations'[d] = insertOperations[d]
                                    /\ deleteOperations'[d] = deleteOperations[d]
         /\ StoreTypeOK'
<1>1. /\ DOMAIN metadata' = DOMAIN metadata \cup {c}
      /\ metadata'[c] = PersistedMetadata(c)'
      /\ \A d \in DOMAIN metadata \ {c} : metadata'[d] = metadata[d]
      /\ metadata' = [d \in DOMAIN metadata' |-> metadata'[d]]
  <2>1. metadata' = Put(metadata, [d \in {c} |-> PersistedMetadata(c)'])
    BY DEF SaveSnapshot, SaveMetadata
  <2> HIDE DEF PersistedMetadata
  <2>2. metadata' = [d \in DOMAIN metadata \cup {c} |->
                       IF d \in {c} THEN PersistedMetadata(c)' ELSE metadata[d]]
    BY <2>1 DEF Put
  <2> QED BY <2>2
<1>2. elements'[c] = PersistedElements(c)'
  <2>1. elements'[c] = Put(elements[c], PersistedElements(c)')
    BY DEF StoreTypeOK, SaveSnapshot, SaveElements
  <2>2. PersistedElements(c)' = [id \in Present(c)' |-> PersistedElements(c)'[id]]
    BY DEF PersistedElements
  <2>3. DOMAIN PersistedElements(c)' = Present(c)'
    BY DEF PersistedElements
  <2>4. Put(elements[c], PersistedElements(c)') = PersistedElements(c)'
    BY <2>2, <2>3, PutOver
  <2> QED BY <2>1, <2>4
<1>3. /\ \A d \in Client \ {c} : elements'[d] = elements[d]
      /\ DOMAIN elements' = Client
  BY DEF StoreTypeOK, SaveSnapshot, SaveElements
<1>4. insertOperations'[c] = insertLog'[c]
  <2>1. insertOperations'[c] = PutInserts(insertOperations[c], insertLog'[c])
    BY DEF StoreTypeOK, SaveSnapshot
  <2>2. \A op \in insertOperations[c] : op.id \in IDs(insertLog'[c])
    BY DEF IDs
  <2> QED BY <2>1, <2>2 DEF PutInserts
<1>5. deleteOperations'[c] = deleteLog'[c]
  BY DEF StoreTypeOK, SaveSnapshot
<1>6. \A d \in Client \ {c} : /\ insertOperations'[d] = insertOperations[d]
                              /\ deleteOperations'[d] = deleteOperations[d]
  BY DEF StoreTypeOK, SaveSnapshot
<1>7. StoreTypeOK'
  <2>1. DOMAIN metadata' \subseteq Client
    BY <1>1 DEF StoreTypeOK
  <2>2. \A d \in DOMAIN metadata' : metadata'[d] \in [clock : Nat, characterCounter : Int]
    BY <1>1 DEF StoreTypeOK, TypeOK, PersistedMetadata
  <2>3. insertOperations' \in [Client -> SUBSET InsertOperation]
    <3>1. insertLog'[c] \in SUBSET InsertOperation
      BY DEF TypeOK
    <3>2. insertOperations' =
            [insertOperations EXCEPT ![c] = PutInserts(insertOperations[c], insertLog'[c])]
      BY DEF SaveSnapshot
    <3>3. PutInserts(insertOperations[c], insertLog'[c]) \in SUBSET InsertOperation
      BY <3>1 DEF StoreTypeOK, PutInserts
    <3> QED BY <3>2, <3>3 DEF StoreTypeOK
  <2>4. deleteOperations' \in [Client -> SUBSET ID]
    BY DEF StoreTypeOK, TypeOK, SaveSnapshot
  <2> QED BY <1>1, <1>3, <2>1, <2>2, <2>3, <2>4 DEF StoreTypeOK
<1> QED BY <1>1, <1>2, <1>3, <1>4, <1>5, <1>6, <1>7

LEMMA Readable ==
  ASSUME NEW l \in Seq(Element), WellFormed(l), NEW t, t \subseteq ElementIDs(l), Rooted(l)
  PROVE  RelationsRebuild(Persisted(l, t)) /\ Deleted(Persisted(l, t)) = t
<1> DEFINE e == Persisted(l, t)
<1>1. Len(l) \in Nat /\ l[1].id = Start /\ l[Len(l)].id = End
  BY LenProperties DEF WellFormed
<1>2. DOMAIN e = ElementIDs(l)
  BY DEF Persisted
<1>3. ASSUME NEW id \in DOMAIN e \ {Start, End}
      PROVE  {e[id].origin, e[id].left, e[id].right} \subseteq DOMAIN e
  <2>1. PICK k \in 1..Len(l) : id = l[k].id
    BY <1>2, <1>3 DEF ElementIDs
  <2>2. k # 1 /\ k # Len(l)
    BY <1>1, <1>3, <2>1
  <2>3. k > 1 /\ k < Len(l) /\ k - 1 \in 1..Len(l) /\ k + 1 \in 1..Len(l)
    BY <1>1, <2>2
  <2>4. /\ e[id].origin = l[k].origin
        /\ e[id].right = l[k + 1].id
        /\ e[id].left = l[k - 1].id
    <3>1. /\ e[l[k].id].origin = l[k].origin
          /\ k < Len(l) => e[l[k].id].right = l[k + 1].id
          /\ k > 1 => e[l[k].id].left = l[k - 1].id
      BY StoredElement
    <3> QED BY <2>1, <2>3, <3>1
  <2>5. l[k + 1].id \in ElementIDs(l) /\ l[k - 1].id \in ElementIDs(l)
    BY <2>3 DEF ElementIDs
  <2>6. l[k].origin \in ElementIDs(l)
    BY <1>3, <2>1 DEF Rooted
  <2> QED BY <1>2, <2>4, <2>5, <2>6
<1>4. RelationsRebuild(e)
  BY <1>3 DEF RelationsRebuild
<1>5. \A id \in ElementIDs(l) : e[id].deleted <=> id \in t
  <2> SUFFICES ASSUME NEW id \in ElementIDs(l) PROVE e[id].deleted <=> id \in t
    OBVIOUS
  <2>1. PICK k \in 1..Len(l) : id = l[k].id
    BY DEF ElementIDs
  <2>2. Position(l, id) = k
    BY <2>1, PositionUnique
  <2>3. e[id] = PersistedElement(l, k, t)
    BY <2>2 DEF Persisted
  <2>4. e[id].deleted = (l[k].id \in t)
    BY <2>3 DEF PersistedElement
  <2> QED BY <2>1, <2>4
<1> HIDE DEF e
<1>6. Deleted(e) = t
  BY <1>2, <1>5 DEF Deleted
<1> QED BY <1>4, <1>6 DEF e

-----------------------------------------------------------------------------
\* The steps.

\* An own operation is in the log of its client; so is all that a client has not saved.
LEMMA OwnLog ==
  ASSUME StorageInv
  PROVE  /\ \A op \in Issued : op \in insertLog[op.id.client] /\ op.id.client \in Client
         /\ Saved \subseteq Issued
         /\ \A id \in IDs(Issued) : \E op \in Issued : op.id = id
<1>1. \A op \in Issued : op.id.client \in Client
  BY DEF StorageInv, Inv, TypeOK, Issued, InsertOperation, ID
<1>2. ASSUME NEW op \in Issued PROVE op \in insertLog[op.id.client]
  <2>1. PICK d \in Client : op \in insertLog[d]
    BY DEF Issued
  <2>2. CASE d = op.id.client
    BY <2>1, <2>2
  <2>3. CASE d # op.id.client
    <3>1. op \in insertOperations[op.id.client]
      BY <2>1, <2>3 DEF StorageInv, OwnInv, HeardInv, Saved
    <3> QED BY <1>1, <3>1 DEF StorageInv, BehindInv
  <2> QED BY <2>2, <2>3
<1> QED BY <1>1, <1>2 DEF Saved, IDs

\* What a list shows is saved, or typed by its own client.
LEMMA PresentSaved ==
  ASSUME StorageInv, NEW c \in Client, NEW id \in Present(c) \ {Start, End}, id.client # c
  PROVE  id \in IDs(Saved)
<1>1. PICK op \in insertLog[c] : op.id = id
  BY DEF StorageInv, Inv, LogsPartition, IDs
<1> QED BY <1>1 DEF StorageInv, OwnInv, HeardInv, IDs

\* After a save of c all that c has typed is saved.
LEMMA SaveOwn ==
  ASSUME StorageInv, NEW c \in Client, UNCHANGED vars,
         DOMAIN metadata' = DOMAIN metadata \cup {c},
         metadata'[c] = PersistedMetadata(c)',
         insertOperations'[c] = insertLog[c], deleteOperations'[c] = deleteLog[c],
         \A d \in DOMAIN metadata \ {c} : metadata'[d] = metadata[d],
         \A d \in Client \ {c} : /\ insertOperations'[d] = insertOperations[d]
                                 /\ deleteOperations'[d] = deleteOperations[d]
  PROVE  OwnInv'
<1>1. /\ Issued' = Issued /\ insertLog' = insertLog /\ deleteLog' = deleteLog
      /\ clock' = clock
  BY DEF vars, logs, Issued
<1>2. HeardInv /\ ClockInv /\ RefsInv /\ DeletesInv /\ BehindInv /\ IssuedInv
  BY DEF StorageInv, OwnInv, Inv
<1>3. \A op \in Issued : op.id.client = c => op \in Saved'
  BY <1>1, OwnLog DEF Saved
<1>4. Saved \subseteq Saved'
  <2> SUFFICES ASSUME NEW op \in Saved PROVE op \in Saved'
    OBVIOUS
  <2>1. op \in Issued /\ op \in insertOperations[op.id.client] /\ op.id.client \in Client
    BY OwnLog DEF Saved
  <2> QED BY <1>1, <1>3, <2>1 DEF Saved
<1>5. \A id \in IDs(Issued) : id.client = c => id \in IDs(Saved')
  BY <1>3 DEF IDs
<1>6. IDs(Saved) \subseteq IDs(Saved')
  BY <1>4 DEF IDs
<1>7. HeardInv'
  BY <1>1, <1>2, <1>4 DEF HeardInv
<1>8. ClockInv'
  <2>1. metadata'[c].clock = clock[c]
    BY <1>1 DEF PersistedMetadata
  <2>2. \A op \in insertLog[c] : op.id.client = c => op.id.clock < clock[c]
    BY <1>2 DEF IssuedInv, Issued
  <2>3. DOMAIN metadata \subseteq Client
    BY DEF StorageInv, StoreTypeOK
  <2> QED BY <1>2, <2>1, <2>2, <2>3 DEF ClockInv
<1>9. RefsInv'
  <2> SUFFICES ASSUME NEW op \in Issued
               PROVE  /\ op \in Saved' => Refs(op) \subseteq IDs(Saved')
                      /\ \A id \in Refs(op) : id.client # op.id.client => id \in IDs(Saved')
    BY <1>1 DEF RefsInv, IDs, Refs
  <2>1. \A id \in Refs(op) : id.client # op.id.client => id \in IDs(Saved')
    BY <1>2, <1>6 DEF RefsInv
  <2>2. CASE op.id.client = c
    <3>1. Refs(op) \subseteq IDs(Issued)
      BY <1>2 DEF IssuedInv, Refs
    <3> QED BY <1>5, <2>1, <2>2, <3>1
  <2>3. CASE op.id.client # c /\ op \in Saved'
    <3>1. op \in Saved
      BY <1>1, <2>3, OwnLog DEF Saved
    <3> QED BY <1>2, <1>6, <2>1, <3>1 DEF RefsInv
  <2> QED BY <2>1, <2>2, <2>3
<1>10. DeletesInv'
  <2> SUFFICES ASSUME NEW d \in Client
               PROVE  /\ deleteOperations'[d] \subseteq IDs(Saved')
                      /\ \A id \in deleteLog[d] : id.client # d => id \in IDs(Saved')
    BY <1>1 DEF DeletesInv, IDs
  <2>1. \A id \in deleteLog[d] : id.client # d => id \in IDs(Saved')
    BY <1>2, <1>6 DEF DeletesInv
  <2>2. CASE d = c
    <3>1. deleteLog[c] \subseteq IDs(Issued)
      BY <1>2 DEF IssuedInv, IssuedDeletes
    <3> QED BY <1>5, <2>1, <2>2, <3>1
  <2>3. CASE d # c
    BY <1>2, <1>6, <2>1, <2>3 DEF DeletesInv
  <2> QED BY <2>2, <2>3
<1> QED BY <1>7, <1>8, <1>9, <1>10 DEF OwnInv

LEMMA SaveInv ==
  ASSUME StorageInv, NEW c \in Client, Save(c)
  PROVE  StorageInv' /\ Recovers(c)'
<1>0. /\ UNCHANGED vars /\ SaveSnapshot(c) /\ Inv' /\ [Next]_vars
      /\ Running(c)' /\ ~draining'[c] /\ insertLog' = insertLog /\ deleteLog' = deleteLog
  <2>1. UNCHANGED vars /\ SaveSnapshot(c) /\ Running(c) /\ ~draining[c]
    BY DEF Save, Idle
  <2>2. Inv'
    BY <2>1, NextInv DEF StorageInv
  <2> QED BY <2>1, <2>2 DEF vars, logs, handler, Running
<1>1. \A d \in Client : /\ DOMAIN elements[d] \subseteq Present(d)'
                        /\ insertOperations[d] \subseteq insertLog'[d]
                        /\ deleteOperations[d] \subseteq deleteLog'[d]
                        /\ Rooted(list[d])'
  BY <1>0, StillBehind DEF StorageInv
<1>2. /\ DOMAIN metadata' = DOMAIN metadata \cup {c}
      /\ metadata'[c] = PersistedMetadata(c)'
      /\ elements'[c] = PersistedElements(c)'
      /\ insertOperations'[c] = insertLog'[c]
      /\ deleteOperations'[c] = deleteLog'[c]
      /\ \A d \in DOMAIN metadata \ {c} : metadata'[d] = metadata[d]
      /\ \A d \in Client \ {c} : /\ elements'[d] = elements[d]
                                 /\ insertOperations'[d] = insertOperations[d]
                                 /\ deleteOperations'[d] = deleteOperations[d]
      /\ StoreTypeOK'
  BY <1>0, <1>1, Snapshot DEF StorageInv, Inv
<1>3. RootedInv'
  BY <1>1 DEF RootedInv
<1>4. DOMAIN elements'[c] = Present(c)'
  BY <1>2 DEF PersistedElements
<1>5. BehindInv'
  BY <1>1, <1>2, <1>4 DEF BehindInv
<1>6. PICK L : L = list'[c]
  OBVIOUS
<1>7. PICK T : T = tombstones'[c]
  OBVIOUS
<1>8. /\ L \in Seq(Element) /\ WellFormed(L) /\ T \in SUBSET ID /\ Rooted(L)
      /\ ElementIDs(L) = Present(c)'
  BY <1>0, <1>1, <1>6, <1>7 DEF Inv, TypeOK, WellFormedList, Rooted, Present
<1>9. PartitionAt(c)' /\ BlockedAt(c)'
  BY <1>0 DEF Inv, LogsPartition, Blocked, PartitionAt, BlockedAt
<1>10. T \subseteq ElementIDs(L)
  BY <1>7, <1>8, <1>9 DEF PartitionAt
<1>11. elements'[c] = Persisted(L, T)
  BY <1>2, <1>6, <1>7 DEF PersistedElements, Persisted, Present
<1>12. RelationsRebuild(elements'[c]) /\ Deleted(elements'[c]) = T /\ Linked(elements'[c]) = L
  BY <1>8, <1>10, <1>11, Readable, ReadBack
<1>13. Recovers(c)'
  BY <1>2, <1>6, <1>7, <1>12 DEF Recovers
<1>14. SnapshotOf(c, L, T)'
  <2>1. metadata'[c].characterCounter = Cardinality((ElementIDs(L) \ {Start, End}) \ T)
    BY <1>0, <1>2, <1>7, <1>8 DEF PersistedMetadata, Inv, CounterMatches
  <2>2. ElementIDs(L) \ {Start, End} =
          IDs({op \in insertOperations'[c] : op.id \in ElementIDs(L)})
    <3>1. insertLog'[c] \ pendingInserts'[c] = {op \in insertLog'[c] : op.id \in ElementIDs(L)}
      BY <1>8, <1>9 DEF PartitionAt
    <3> QED BY <1>2, <1>8, <1>9, <3>1 DEF PartitionAt
  <2>3. deleteOperations'[c] \cap ElementIDs(L) = T
    BY <1>0, <1>2, <1>7, <1>8, <1>9 DEF PartitionAt, BlockedAt
  <2> QED BY <1>8, <1>10, <1>11, <2>1, <2>2, <2>3 DEF SnapshotOf
<1>15. ASSUME NEW d \in DOMAIN metadata \ {c}
       PROVE  \E l \in Seq(Element) : \E t \in SUBSET ID : SnapshotOf(d, l, t)'
  <2>1. PICK l \in Seq(Element), t \in SUBSET ID : SnapshotOf(d, l, t)
    BY DEF StorageInv, SnapshotInv
  <2>2. d \in Client
    BY DEF StorageInv, StoreTypeOK
  <2>3. SnapshotOf(d, l, t)'
    BY <1>2, <2>1, <2>2 DEF SnapshotOf
  <2> QED BY <2>3
<1>16. SnapshotInv'
  BY <1>2, <1>8, <1>14, <1>15 DEF SnapshotInv
<1>17. OwnInv'
  BY <1>0, <1>2, SaveOwn
<1> QED BY <1>0, <1>2, <1>3, <1>5, <1>13, <1>16, <1>17 DEF StorageInv

\* A step of Document changes nothing that is saved.
LEMMA StoreKept ==
  ASSUME StorageInv, Inv', [Next]_vars, UNCHANGED store, OwnInv'
  PROVE  StorageInv'
<1>1. StoreTypeOK'
  BY DEF StorageInv, StoreTypeOK, store
<1>2. SnapshotInv'
  BY DEF StorageInv, SnapshotInv, SnapshotOf, store
<1>3. BehindInv' /\ RootedInv'
  BY StillBehind DEF StorageInv, BehindInv, RootedInv, store
<1> QED BY <1>1, <1>2, <1>3 DEF StorageInv

\* What is typed refers to what its client has in its list, and is not saved yet.
LEMMA TypeOwn ==
  ASSUME StorageInv, NEW c \in Client, NEW index, InsertElement(c, index), UNCHANGED store
  PROVE  OwnInv'
<1>1. PICK op \in InsertOperation, k \in 2..Len(list[c]) :
        /\ SplicesAt(c, op, k) /\ op.id \notin IDs(Issued) /\ op.id.client = c
        /\ insertLog' = [insertLog EXCEPT ![c] = @ \cup {op}]
  BY TypingSplices DEF StorageInv
<1>2. /\ insertLog'[c] = insertLog[c] \cup {op}
      /\ \A d \in Client \ {c} : insertLog'[d] = insertLog[d]
      /\ deleteLog' = deleteLog /\ metadata' = metadata
      /\ insertOperations' = insertOperations /\ deleteOperations' = deleteOperations
  BY <1>1 DEF StorageInv, Inv, TypeOK, InsertElement, store
<1>3. Issued' = Issued \cup {op}
  BY <1>2 DEF Issued
<1>4. op \notin insertOperations[c]
  BY <1>1 DEF StorageInv, BehindInv, Issued, IDs
<1>5. Saved' = Saved /\ op \notin Saved
  BY <1>1, <1>2, <1>3, <1>4 DEF Saved
<1>6. IDs(Saved)' = IDs(Saved)
  BY <1>5 DEF IDs
<1>7. HeardInv'
  BY <1>1, <1>2, <1>5 DEF StorageInv, OwnInv, HeardInv
<1>8. ClockInv'
  BY <1>2 DEF StorageInv, OwnInv, ClockInv
<1>9. \A id \in Refs(op) : id.client # c => id \in IDs(Saved)
  BY <1>1, PresentSaved DEF SplicesAt, Refs
<1>10. RefsInv'
  BY <1>1, <1>3, <1>5, <1>6, <1>9 DEF StorageInv, OwnInv, RefsInv, Refs
<1>11. DeletesInv'
  BY <1>2, <1>6 DEF StorageInv, OwnInv, DeletesInv
<1> QED BY <1>7, <1>8, <1>10, <1>11 DEF OwnInv

LEMMA DeleteOwn ==
  ASSUME StorageInv, NEW c \in Client, NEW index, DeleteElement(c, index), UNCHANGED store
  PROVE  OwnInv'
<1>1. PICK k \in 2..Len(list[c]) :
        /\ IsVisiblePosition(c, index, k)
        /\ deleteLog' = [deleteLog EXCEPT ![c] = @ \cup {list[c][k].id}]
  BY DEF DeleteElement
<1>2. /\ deleteLog'[c] = deleteLog[c] \cup {list[c][k].id}
      /\ \A d \in Client \ {c} : deleteLog'[d] = deleteLog[d]
      /\ insertLog' = insertLog /\ metadata' = metadata
      /\ insertOperations' = insertOperations /\ deleteOperations' = deleteOperations
  BY <1>1 DEF StorageInv, Inv, TypeOK, DeleteElement, store
<1>3. Issued' = Issued /\ Saved' = Saved /\ IDs(Saved)' = IDs(Saved)
  BY <1>2 DEF Issued, Saved, IDs
<1>4. list[c][k].id \in Present(c) \ {Start, End}
  <2>1. deleteLog'[c] \subseteq ID
    <3>1. TypeOK'
      BY DeleteElementInv DEF StorageInv, Inv
    <3> QED BY <3>1 DEF TypeOK
  <2>2. k \in 1..Len(list[c])
    BY LenProperties DEF StorageInv, Inv, TypeOK
  <2> QED BY <1>2, <2>1, <2>2, SentinelsAreNoIDs DEF Present, ElementIDs
<1>5. list[c][k].id.client # c => list[c][k].id \in IDs(Saved)
  BY <1>4, PresentSaved
<1>6. DeletesInv'
  BY <1>2, <1>3, <1>5 DEF StorageInv, OwnInv, DeletesInv
<1>7. HeardInv' /\ ClockInv' /\ RefsInv'
  BY <1>2, <1>3 DEF StorageInv, OwnInv, HeardInv, ClockInv, RefsInv, Refs
<1> QED BY <1>6, <1>7 DEF OwnInv

LEMMA EditInv ==
  ASSUME StorageInv, NEW c \in Client, Edit(c)
  PROVE  StorageInv'
<1>1. Local(c) /\ UNCHANGED store
  BY DEF Edit
<1>2. Inv' /\ [Next]_vars
  BY <1>1, NextInv DEF StorageInv, Next
<1>3. OwnInv'
  BY <1>1, TypeOwn, DeleteOwn DEF Local
<1> QED BY <1>1, <1>2, <1>3, StoreKept

LEMMA HandleInv ==
  ASSUME SaveFirst, StorageInv, NEW c \in Client, Handle(c)
  PROVE  StorageInv'
<1>1. Remote(c) /\ HearsSaved(c) /\ UNCHANGED store
  BY DEF Handle
<1>2. Inv' /\ [Next]_vars
  BY <1>1, NextInv DEF StorageInv, Next
<1>3. Issued' = Issued
  BY <1>1, RemoteIssuesNothing DEF StorageInv
<1>4. /\ metadata' = metadata /\ insertOperations' = insertOperations
      /\ deleteOperations' = deleteOperations
  BY <1>1 DEF store
<1>5. Saved' = Saved /\ IDs(Saved)' = IDs(Saved)
  BY <1>3, <1>4 DEF Saved, IDs
<1>6. \A d \in Client \ {c} : insertLog'[d] = insertLog[d] /\ deleteLog'[d] = deleteLog[d]
  BY <1>1, OthersUntouched DEF StorageInv, Inv, Replica
<1>7. HeardInv'
  <2> SUFFICES ASSUME NEW d \in Client, NEW op \in insertLog'[d], op.id.client # d
               PROVE  op \in Saved
    BY <1>5 DEF HeardInv
  <2>1. CASE op \in insertLog[d]
    BY <2>1 DEF StorageInv, OwnInv, HeardInv
  <2>2. CASE op \notin insertLog[d]
    <3>1. d = c /\ op \in Issued
      BY <1>3, <1>6, <2>2 DEF Issued
    <3> QED BY <1>1, <2>2, <3>1 DEF HearsSaved, Saved
  <2> QED BY <2>1, <2>2
<1>8. ClockInv' /\ RefsInv'
  BY <1>3, <1>4, <1>5 DEF StorageInv, OwnInv, ClockInv, RefsInv, Refs
<1>9. DeletesInv'
  <2> SUFFICES ASSUME NEW d \in Client, NEW id \in deleteLog'[d], id.client # d
               PROVE  id \in IDs(Saved)
    BY <1>4, <1>5 DEF StorageInv, OwnInv, DeletesInv
  <2>1. CASE id \in deleteLog[d]
    BY <2>1 DEF StorageInv, OwnInv, DeletesInv
  <2>2. CASE id \notin deleteLog[d]
    <3>1. d = c
      BY <1>6, <2>2
    <3>2. PICK e \in Client : id \in deleteOperations[e]
      BY <1>1, <2>2, <3>1 DEF HearsSaved
    <3> QED BY <3>2 DEF StorageInv, OwnInv, DeletesInv
  <2> QED BY <2>1, <2>2
<1>10. OwnInv'
  BY <1>7, <1>8, <1>9 DEF OwnInv
<1> QED BY <1>1, <1>2, <1>10, StoreKept

\* What a restart of c leaves in the logs: all that was saved, and all that others have typed.
LEMMA Survivors ==
  ASSUME StorageInv, NEW c \in Client, insertLog'[c] = insertOperations[c],
         \A d \in Client \ {c} : insertLog'[d] = insertLog[d]
  PROVE  /\ Issued' \subseteq Issued /\ Saved \subseteq Issued'
         /\ \A op \in Issued : op.id.client # c => op \in Issued'
         /\ \A op \in Issued' : op.id.client = c => op \in Saved
<1>1. insertOperations[c] \subseteq insertLog[c]
  BY DEF StorageInv, BehindInv
<1>2. Issued' \subseteq Issued
  BY <1>1 DEF Issued
<1>3. ASSUME NEW op \in Issued, op \in Saved \/ op.id.client # c PROVE op \in Issued'
  <2>1. op.id.client \in Client /\ op \in insertLog[op.id.client]
    BY OwnLog
  <2>2. CASE op.id.client # c
    BY <2>1, <2>2 DEF Issued
  <2>3. CASE op.id.client = c
    BY <1>3, <2>3 DEF Saved, Issued
  <2> QED BY <2>2, <2>3
<1>4. ASSUME NEW op \in Issued', op.id.client = c PROVE op \in Saved
  <2>1. PICK d \in Client : op \in insertLog'[d]
    BY DEF Issued
  <2>2. CASE d = c
    BY <1>2, <1>4, <2>1, <2>2 DEF Saved
  <2>3. CASE d # c
    BY <1>4, <2>1, <2>3 DEF StorageInv, OwnInv, HeardInv
  <2> QED BY <2>2, <2>3
<1>5. Saved \subseteq Issued'
  BY <1>3, OwnLog
<1> QED BY <1>2, <1>3, <1>4, <1>5

\* The clock of the snapshot is past all that is left of what c typed, and what is left refers
\* to what is left.
LEMMA RestartOwn ==
  ASSUME StorageInv, NEW c \in DOMAIN metadata, c \in Client, UNCHANGED store,
         insertLog'[c] = insertOperations[c], deleteLog'[c] = deleteOperations[c],
         \A d \in Client \ {c} : insertLog'[d] = insertLog[d] /\ deleteLog'[d] = deleteLog[d],
         clock'[c] = metadata[c].clock, \A d \in Client \ {c} : clock'[d] = clock[d]
  PROVE  IssuedInv' /\ OwnInv'
<1>1. /\ Issued' \subseteq Issued /\ Saved \subseteq Issued'
      /\ \A op \in Issued : op.id.client # c => op \in Issued'
      /\ \A op \in Issued' : op.id.client = c => op \in Saved
  BY Survivors
<1>2. /\ metadata' = metadata /\ insertOperations' = insertOperations
      /\ deleteOperations' = deleteOperations
  BY DEF store
<1>3. Saved' = Saved /\ IDs(Saved)' = IDs(Saved)
  BY <1>1, <1>2 DEF Saved, IDs
<1>4. HeardInv /\ ClockInv /\ RefsInv /\ DeletesInv /\ BehindInv /\ IssuedInv
  BY DEF StorageInv, OwnInv, Inv
<1>5. /\ IDs(Saved) \subseteq IDs(Issued')
      /\ \A id \in IDs(Issued) : id.client # c => id \in IDs(Issued')
  BY <1>1 DEF IDs
<1>6. \A op \in Issued' : op.id.clock < clock'[op.id.client]
  <2> SUFFICES ASSUME NEW op \in Issued' PROVE op.id.clock < clock'[op.id.client]
    OBVIOUS
  <2>1. CASE op.id.client = c
    BY <1>1, <1>4, <2>1 DEF ClockInv, Saved
  <2>2. CASE op.id.client # c
    BY <1>1, <1>4, <2>2, OwnLog DEF IssuedInv
  <2> QED BY <2>1, <2>2
<1>7. \A op \in Issued' : {op.origin, op.right} \subseteq IDs(Issued') \cup {Start, End}
  <2> SUFFICES ASSUME NEW op \in Issued', NEW id \in Refs(op) PROVE id \in IDs(Issued')
    BY DEF Refs
  <2>1. op \in Issued /\ id \in IDs(Issued)
    BY <1>1, <1>4 DEF IssuedInv, Refs
  <2>2. CASE op.id.client = c
    BY <1>1, <1>4, <1>5, <2>2 DEF RefsInv
  <2>3. CASE op.id.client # c
    <3>1. id.client # op.id.client => id \in IDs(Saved)
      BY <1>4, <2>1 DEF RefsInv
    <3> QED BY <1>5, <2>1, <2>3, <3>1
  <2> QED BY <2>2, <2>3
<1>8. IssuedDeletes' \subseteq IDs(Issued')
  <2> SUFFICES ASSUME NEW d \in Client, NEW id \in deleteLog'[d] PROVE id \in IDs(Issued')
    BY DEF IssuedDeletes
  <2>1. CASE d = c
    BY <1>4, <1>5, <2>1 DEF DeletesInv
  <2>2. CASE d # c
    <3>1. id \in deleteLog[d] /\ id \in IDs(Issued)
      BY <1>4, <2>2 DEF IssuedInv, IssuedDeletes
    <3>2. id.client # d => id \in IDs(Saved)
      BY <1>4, <3>1 DEF DeletesInv
    <3> QED BY <1>5, <2>2, <3>1, <3>2
  <2> QED BY <2>1, <2>2
<1>9. IssuedInv'
  <2>1. \A a, b \in Issued' : a.id = b.id => a = b
    BY <1>1, <1>4 DEF IssuedInv
  <2> QED BY <1>6, <1>7, <1>8, <2>1 DEF IssuedInv, IDs
<1>10. HeardInv'
  <2>1. \A d \in Client : insertLog'[d] \subseteq insertLog[d]
    BY <1>4 DEF BehindInv
  <2> QED BY <1>3, <1>4, <2>1 DEF HeardInv
<1>11. ClockInv'
  BY <1>2, <1>4 DEF ClockInv
<1>12. RefsInv'
  BY <1>1, <1>3, <1>4 DEF RefsInv, Refs
<1>13. DeletesInv'
  <2>1. \A d \in Client : deleteLog'[d] \subseteq deleteLog[d]
    BY <1>4 DEF BehindInv
  <2> QED BY <1>2, <1>3, <1>4, <2>1 DEF DeletesInv
<1> QED BY <1>9, <1>10, <1>11, <1>12, <1>13 DEF OwnInv

\* A restart: the replica is what its snapshot was, and what its client had typed since is gone.
LEMMA RestartInv ==
  ASSUME StorageInv, NEW c \in Client, Restart(c)
  PROVE  StorageInv' /\ Issued' \subseteq Issued
<1>1. PICK l \in Seq(Element), t \in SUBSET ID : SnapshotOf(c, l, t)
  BY DEF Restart, StorageInv, SnapshotInv
<1> DEFINE e == elements[c]
<1>2. /\ WellFormed(l) /\ t \subseteq ElementIDs(l) /\ e = Persisted(l, t)
      /\ metadata[c].characterCounter = Cardinality((ElementIDs(l) \ {Start, End}) \ t)
      /\ ElementIDs(l) \ {Start, End} =
           IDs({op \in insertOperations[c] : op.id \in ElementIDs(l)})
      /\ deleteOperations[c] \cap ElementIDs(l) = t
  BY <1>1 DEF SnapshotOf
<1>3. DOMAIN e = ElementIDs(l)
  BY <1>2 DEF Persisted
<1>4. ASSUME NEW k \in 1..Len(l), l[k].id \notin {Start, End}
      PROVE  l[k].origin \in ElementIDs(l)
  <2>1. l[k].id \in DOMAIN e \ {Start, End} /\ e[l[k].id].origin = l[k].origin
    BY <1>2, <1>4, StoredElement
  <2>2. RelationsRebuild(e)
    BY DEF Restart
  <2> QED BY <1>3, <2>1, <2>2 DEF RelationsRebuild
<1>5. Rooted(l)
  BY <1>4 DEF Rooted
<1>6. Linked(e) = l /\ Deleted(e) = t
  BY <1>2, <1>5, ReadBack, Readable
<1> HIDE DEF e
<1>7. /\ list' = [list EXCEPT ![c] = l] /\ tombstones' = [tombstones EXCEPT ![c] = t]
      /\ clock' = [clock EXCEPT ![c] = metadata[c].clock]
      /\ characterCounter' = [characterCounter EXCEPT ![c] = metadata[c].characterCounter]
      /\ insertLog' = [insertLog EXCEPT ![c] = insertOperations[c]]
      /\ deleteLog' = [deleteLog EXCEPT ![c] = deleteOperations[c]]
      /\ pendingInserts' = [pendingInserts EXCEPT ![c] =
                             {op \in insertOperations[c] : op.id \notin ElementIDs(l)}]
      /\ pendingDeletes' = [pendingDeletes EXCEPT ![c] =
                             deleteOperations[c] \ ElementIDs(l)]
      /\ todoInserts' = [todoInserts EXCEPT ![c] = {}]
      /\ todoDeletes' = [todoDeletes EXCEPT ![c] = {}]
      /\ draining' = [draining EXCEPT ![c] = TRUE]
      /\ aborted' = aborted \ {c}
      /\ UNCHANGED store
  BY <1>3, <1>6 DEF Restart, ReconstructMetadata, ReconstructPendingInserts,
       ReconstructPendingDeletes, e
<1>8. TypeOK /\ StoreTypeOK /\ Inv /\ BehindInv /\ OwnInv /\ c \in DOMAIN metadata
  BY DEF Restart, StorageInv, Inv
<1>9. clock'[c] = metadata[c].clock /\ \A d \in Client \ {c} : clock'[d] = clock[d]
  BY <1>7, <1>8 DEF TypeOK
<1>10. metadata[c].characterCounter \in Int /\ metadata[c].clock \in Nat
  BY <1>8 DEF StoreTypeOK
<1>11. TypeOK'
  BY <1>1, <1>7, <1>8, <1>10 DEF TypeOK, StoreTypeOK
<1>12. /\ list'[c] = l /\ tombstones'[c] = t /\ draining'[c] = TRUE
       /\ insertLog'[c] = insertOperations[c] /\ deleteLog'[c] = deleteOperations[c]
       /\ pendingInserts'[c] = {op \in insertOperations[c] : op.id \notin ElementIDs(l)}
       /\ pendingDeletes'[c] = deleteOperations[c] \ ElementIDs(l)
       /\ characterCounter'[c] = metadata[c].characterCounter
  BY <1>7, <1>8 DEF TypeOK
<1>13. \A d \in Client \ {c} : Untouched(d) /\ characterCounter'[d] = characterCounter[d]
  BY <1>7, <1>8 DEF TypeOK, Untouched
<1>14. Present(c)' = ElementIDs(l) /\ \A d \in Client \ {c} : Present(d)' = Present(d)
  BY <1>12, <1>13 DEF Present, Untouched
<1>15. WellFormedList'
  BY <1>2, <1>8, <1>12, <1>13 DEF Inv, WellFormedList, Untouched
<1>16. CounterMatches'
  <2>1. characterCounter'[c] = Cardinality((Present(c)' \ {Start, End}) \ tombstones'[c])
    BY <1>2, <1>12, <1>14
  <2>2. ASSUME NEW d \in Client \ {c}
        PROVE  characterCounter'[d] =
                 Cardinality((Present(d)' \ {Start, End}) \ tombstones'[d])
    <3>1. characterCounter[d] = Cardinality((Present(d) \ {Start, End}) \ tombstones[d])
      BY <1>8 DEF Inv, CounterMatches
    <3>2. /\ Present(d)' = Present(d) /\ tombstones'[d] = tombstones[d]
          /\ characterCounter'[d] = characterCounter[d]
      BY <1>13, <1>14 DEF Untouched
    <3> QED BY <3>1, <3>2
  <2> QED BY <2>1, <2>2 DEF CounterMatches
<1>17. PartitionAt(c)'
  <2>1. insertLog'[c] \ pendingInserts'[c] =
          {op \in insertOperations[c] : op.id \in ElementIDs(l)}
    BY <1>12
  <2> QED BY <1>2, <1>12, <1>14, <2>1 DEF PartitionAt
<1>18. BlockedAt(c)'
  BY <1>12 DEF BlockedAt
<1>19. LogsPartition' /\ Blocked'
  BY <1>8, <1>13, <1>17, <1>18, OneReplica
<1>20. Issued' \subseteq Issued
  BY <1>12, <1>13, Survivors DEF Untouched
<1>21. \A d \in Client \ {c} : insertLog'[d] = insertLog[d] /\ deleteLog'[d] = deleteLog[d]
  BY <1>13 DEF Untouched
<1>22. IssuedInv' /\ OwnInv'
  BY <1>7, <1>8, <1>9, <1>12, <1>21, RestartOwn
<1>23. Inv'
  BY <1>11, <1>15, <1>16, <1>19, <1>22 DEF Inv
<1>24. StoreTypeOK' /\ SnapshotInv'
  BY <1>7 DEF StorageInv, StoreTypeOK, SnapshotInv, SnapshotOf, store
<1>25. BehindInv'
  BY <1>3, <1>7, <1>8, <1>12, <1>13, <1>14 DEF BehindInv, Untouched, store, e
<1>26. RootedInv'
  BY <1>5, <1>12, <1>13 DEF StorageInv, RootedInv, Rooted, Untouched
<1> QED BY <1>20, <1>22, <1>23, <1>24, <1>25, <1>26 DEF StorageInv

LEMMA StorageNextInv ==
  ASSUME SaveFirst, StorageInv, [StorageNext]_storageVars
  PROVE  StorageInv'
<1>1. CASE StorageNext
  BY <1>1, EditInv, HandleInv, SaveInv, RestartInv DEF StorageNext
<1>2. CASE UNCHANGED storageVars
  <2>1. UNCHANGED vars /\ UNCHANGED store
    BY <1>2 DEF storageVars
  <2>2. Inv'
    BY <2>1, NextInv DEF StorageInv
  <2>3. /\ Issued' = Issued /\ insertLog' = insertLog /\ deleteLog' = deleteLog
        /\ metadata' = metadata /\ insertOperations' = insertOperations
        /\ deleteOperations' = deleteOperations
    BY <2>1 DEF vars, logs, store, Issued
  <2>4. OwnInv'
    BY <2>3 DEF StorageInv, OwnInv, HeardInv, ClockInv, RefsInv, DeletesInv, Saved, IDs, Refs
  <2> QED BY <2>1, <2>2, <2>4, StoreKept
<1> QED BY <1>1, <1>2

\* When nobody hears of an edit before it is saved (SaveFirst), the replicas keep their
\* invariant through crashes at any moment and restarts from any snapshot, however old: the
\* snapshot is that of a whole document, behind the replica, with all of what its client
\* typed that anybody else has or refers to.
THEOREM StorageInvariance ==
  ASSUME SaveFirst
  PROVE  StorageSpec => []StorageInv
<1>1. StorageInv /\ [StorageNext]_storageVars => StorageInv'
  BY StorageNextInv
<1> QED BY <1>1, InitStorage, PTL DEF StorageSpec

\* ReconstructPendingInserts and ReconstructPendingDeletes leave the logs and the list as
\* they were related before the crash.
THEOREM LogsPartitionAfterRestarts ==
  ASSUME SaveFirst
  PROVE  StorageSpec => []LogsPartition
<1>1. StorageInv => LogsPartition
  BY DEF StorageInv, Inv
<1> QED BY <1>1, StorageInvariance, PTL

\* No two characters share an identifier, whatever a crash takes away: a client that comes
\* back with an older Clock, and types under the identifiers of what it has lost, meets none
\* of its own in any log or database.
THEOREM IdentifiersStayUnique ==
  ASSUME SaveFirst
  PROVE  StorageSpec => []IdentifiersUnique
<1>1. StorageInv => IdentifiersUnique
  <2> SUFFICES ASSUME StorageInv PROVE IdentifiersUnique
    OBVIOUS
  <2>1. \A c \in Client : insertOperations[c] \subseteq Issued
    BY DEF StorageInv, BehindInv, Issued
  <2>2. \A a, b \in Issued : a.id = b.id => a = b
    BY DEF StorageInv, Inv, IssuedInv
  <2> QED BY <2>1, <2>2 DEF IdentifiersUnique
<1> QED BY <1>1, StorageInvariance, PTL

\* SaveSnapshot puts key after key over an earlier snapshot, and ReconstructDocument finds
\* in the buckets exactly the document that was saved last.
THEOREM SavesAreFaithful ==
  ASSUME SaveFirst
  PROVE  StorageSpec => SavedFaithfully
<1> DEFINE Faithful(c) ==
             \/ UNCHANGED <<elements[c], insertOperations[c], deleteOperations[c]>>
             \/ Recovers(c)'
<1>1. StorageInv /\ [StorageNext]_storageVars => [\A c \in Client : Faithful(c)]_store
  <2> SUFFICES ASSUME StorageInv, StorageNext, NEW c \in Client, ~UNCHANGED store
               PROVE  Faithful(c)
    BY DEF storageVars
  <2>1. PICK d \in Client : Save(d)
    BY DEF StorageNext, Edit, Handle, Restart
  <2>2. Recovers(d)'
    BY <2>1, SaveInv
  <2>3. c # d => UNCHANGED <<elements[c], insertOperations[c], deleteOperations[c]>>
    <3>1. SaveSnapshot(d)
      BY <2>1 DEF Save
    <3> QED BY <3>1 DEF SaveSnapshot, SaveElements, StorageInv, StoreTypeOK
  <2> QED BY <2>2, <2>3
<1> QED BY <1>1, StorageInvariance, PTL DEF StorageSpec, SavedFaithfully

-----------------------------------------------------------------------------
\* What restarts do not take away: the intention of the inserts, and that nothing stays
\* pending without a reason.

\* Of the inserts that a snapshot has in its log, those that are in its list stand between
\* their references there.
SavedIntention(c) ==
  LET l == Linked(elements[c])
  IN  \A op \in insertOperations[c] : op.id \in ElementIDs(l) =>
        /\ {op.origin, op.right} \subseteq ElementIDs(l)
        /\ Position(l, op.origin) < Position(l, op.id)
        /\ Position(l, op.id) < Position(l, op.right)

SavedIntentionInv == \A c \in DOMAIN metadata : SavedIntention(c)

RestartsInv == StorageInv /\ Grounded /\ IntentionInv /\ SavedIntentionInv

LEMMA InitRestarts == StorageInit => RestartsInv
<1> SUFFICES ASSUME StorageInit PROVE RestartsInv
  OBVIOUS
<1>1. Init /\ DOMAIN metadata = {}
  BY DEF StorageInit
<1> QED BY <1>1, InitStorage, InitGrounded, InitIntention
    DEF RestartsInv, SavedIntentionInv

\* A save of c leaves the other databases alone and writes what the invariant says of c.
LEMMA SavedAsKept ==
  ASSUME RestartsInv, NEW c \in Client, SaveSnapshot(c), Inv', IntentionInv', Recovers(c)'
  PROVE  SavedIntentionInv'
<1>1. ASSUME NEW d \in DOMAIN metadata', d # c PROVE SavedIntention(d)'
  <2>1. /\ d \in DOMAIN metadata /\ d \in Client
        /\ elements'[d] = elements[d] /\ insertOperations'[d] = insertOperations[d]
    BY <1>1 DEF SaveSnapshot, SaveMetadata, SaveElements, Put, RestartsInv, StorageInv,
         StoreTypeOK
  <2>2. SavedIntention(d)
    BY <2>1 DEF RestartsInv, SavedIntentionInv
  <2> QED BY <2>1, <2>2 DEF SavedIntention
<1>2. SavedIntention(c)'
  <2>1. Linked(elements'[c]) = list'[c] /\ insertOperations'[c] = insertLog'[c]
    BY DEF Recovers
  <2>2. ASSUME NEW op \in insertLog'[c], op.id \in ElementIDs(list'[c])
        PROVE  Between(c, op)'
    <3>1. op \notin pendingInserts'[c]
      BY <2>2 DEF Inv, LogsPartition, Present
    <3> QED BY <3>1 DEF IntentionInv
  <2> QED BY <2>1, <2>2 DEF SavedIntention, Between, Present
<1> QED BY <1>1, <1>2 DEF SavedIntentionInv

LEMMA SaveRestarts ==
  ASSUME RestartsInv, NEW c \in Client, Save(c)
  PROVE  RestartsInv'
<1>1. SaveSnapshot(c) /\ [Next]_vars
  BY DEF Save
<1>2. StorageInv' /\ Recovers(c)'
  BY SaveInv DEF RestartsInv
<1>3. Inv /\ Inv'
  BY <1>2 DEF RestartsInv, StorageInv
<1>4. Grounded' /\ IntentionInv'
  BY <1>1, <1>3, NextGrounded, NextIntention DEF RestartsInv
<1> QED BY <1>1, <1>2, <1>3, <1>4, SavedAsKept DEF RestartsInv

LEMMA QuietRestarts ==
  ASSUME RestartsInv, StorageInv', [Next]_vars, UNCHANGED store
  PROVE  RestartsInv'
<1>1. Inv /\ Inv'
  BY DEF RestartsInv, StorageInv
<1>2. Grounded' /\ IntentionInv'
  BY <1>1, NextGrounded, NextIntention DEF RestartsInv
<1>3. SavedIntentionInv'
  BY DEF RestartsInv, SavedIntentionInv, SavedIntention, store
<1> QED BY <1>2, <1>3 DEF RestartsInv

\* The replica that comes back has the list and the log of its snapshot.
LEMMA RestartRestarts ==
  ASSUME RestartsInv, NEW c \in Client, Restart(c)
  PROVE  RestartsInv'
<1>1. StorageInv' /\ Issued' \subseteq Issued
  BY RestartInv DEF RestartsInv
<1>2. Grounded'
  BY <1>1 DEF RestartsInv, Grounded, Ranked
<1>3. UNCHANGED store /\ c \in DOMAIN metadata
  BY DEF Restart
<1>4. SavedIntentionInv'
  BY <1>3 DEF RestartsInv, SavedIntentionInv, SavedIntention, store
<1>5. TypeOK /\ Inv'
  BY <1>1 DEF RestartsInv, StorageInv, Inv
<1>6. list'[c] = Linked(elements[c]) /\ insertLog'[c] = insertOperations[c]
  BY <1>5 DEF Restart, TypeOK
<1>7. ASSUME NEW op \in insertLog'[c] \ pendingInserts'[c]
      PROVE  Between(c, op)'
  <2>1. op.id \in ElementIDs(list'[c])
    BY <1>5 DEF Inv, LogsPartition, Present
  <2>2. SavedIntention(c)
    BY <1>3 DEF RestartsInv, SavedIntentionInv
  <2> QED BY <1>6, <2>1, <2>2 DEF SavedIntention, Between, Present
<1>8. ASSUME NEW d \in Client \ {c}, NEW op \in insertLog'[d] \ pendingInserts'[d]
      PROVE  Between(d, op)'
  <2>1. list'[d] = list[d] /\ insertLog'[d] = insertLog[d] /\
        pendingInserts'[d] = pendingInserts[d]
    BY <1>5 DEF Restart, ReconstructPendingInserts, TypeOK
  <2>2. Between(d, op)
    BY <1>8, <2>1 DEF RestartsInv, IntentionInv
  <2> QED BY <2>1, <2>2 DEF Between, Present
<1>9. IntentionInv'
  BY <1>7, <1>8 DEF IntentionInv
<1> QED BY <1>1, <1>2, <1>4, <1>9 DEF RestartsInv

LEMMA NextRestarts ==
  ASSUME SaveFirst, RestartsInv, [StorageNext]_storageVars
  PROVE  RestartsInv'
<1>1. StorageInv'
  BY StorageNextInv DEF RestartsInv
<1>2. ASSUME NEW c \in Client, Edit(c) \/ Handle(c) PROVE RestartsInv'
  <2>1. [Next]_vars /\ UNCHANGED store
    BY <1>2 DEF Edit, Handle, Next
  <2> QED BY <1>1, <2>1, QuietRestarts
<1>3. CASE UNCHANGED storageVars
  <2>1. [Next]_vars /\ UNCHANGED store
    BY <1>3 DEF storageVars
  <2> QED BY <1>1, <2>1, QuietRestarts
<1> QED BY <1>2, <1>3, SaveRestarts, RestartRestarts DEF StorageNext

LEMMA RestartsInvariance == SaveFirst => (StorageSpec => []RestartsInv)
<1> SUFFICES ASSUME SaveFirst PROVE StorageSpec => []RestartsInv
  OBVIOUS
<1>1. RestartsInv /\ [StorageNext]_storageVars => RestartsInv'
  BY NextRestarts
<1> QED BY <1>1, InitRestarts, PTL DEF StorageSpec

\* A character stands between the two it was typed between on rebuilt replicas too, and
\* what is integrated there afterwards keeps it so.
THEOREM IntentionSurvivesRestarts ==
  ASSUME SaveFirst
  PROVE  StorageSpec => []IntentionKept
<1>1. RestartsInv => IntentionKept
  BY DEF RestartsInv, IntentionInv, IntentionKept, Between
<1> QED BY <1>1, RestartsInvariance, PTL

\* The pending maps that ReconstructDocument rebuilds are drained: with all that its inserts
\* refer to in the log, a rebuilt replica has nothing pending once processPending returned.
THEOREM NothingIsStuckAfterRestarts ==
  ASSUME SaveFirst
  PROVE  StorageSpec => []NothingStuck
<1>1. RestartsInv => NothingStuck
  BY GroundedNotStuck DEF RestartsInv, StorageInv, NothingStuck
<1> QED BY <1>1, RestartsInvariance, PTL

\* A replica that has lost operations with its crash gets every one of them again from
\* whoever has it: the state vector of its rebuilt log claims none of them.
THEOREM DeltasCompleteAfterRestarts ==
  ASSUME SaveFirst
  PROVE  StorageSpec => []DeltaComplete
<1>1. StorageInv => DeltaComplete
  BY InvDeltaComplete DEF StorageInv
<1> QED BY <1>1, StorageInvariance, PTL

\* The loops of an integration find the one insertion point in a list that was rebuilt from
\* the stored references as well.
THEOREM LoopsAgreeAfterRestarts ==
  ASSUME SaveFirst
  PROVE  StorageSpec => []LoopAgrees
<1>1. StorageInv => LoopAgrees
  BY InvLoopAgrees DEF StorageInv
<1> QED BY <1>1, StorageInvariance, PTL

-----------------------------------------------------------------------------
\* What a crash may take away.

\* The inserts that their client has saved, or that somebody else has heard of.
Known ==
  {op \in Issued :
    op \in insertOperations[op.id.client] \/ \E d \in Client \ {op.id.client} : op \in insertLog[d]}

\* What is saved, or known to a second client, stays in the log of a client.
EditsSurvive ==
  [][Known \subseteq Known' /\ SavedDeletes \subseteq IssuedDeletes']_storageVars

\* No database loses anything, and a restart none of the operations that its own has.
LEMMA StorageStepSurvives ==
  ASSUME SaveFirst, StorageInv, StorageInv', [StorageNext]_storageVars
  PROVE  Saved \subseteq Saved' /\ SavedDeletes \subseteq SavedDeletes'
<1>1. \A c \in Client : insertOperations[c] \subseteq insertOperations'[c] /\
                        deleteOperations[c] \subseteq deleteOperations'[c]
  <2>1. CASE UNCHANGED store
    BY <2>1 DEF store
  <2>2. ASSUME NEW c \in Client, Save(c)
        PROVE  \A d \in Client : insertOperations[d] \subseteq insertOperations'[d] /\
                                 deleteOperations[d] \subseteq deleteOperations'[d]
    <3>1. /\ insertLog' = insertLog /\ SaveSnapshot(c)
          /\ insertOperations'[c] = insertLog'[c]
      BY <2>2, SaveInv DEF Save, vars, logs, Recovers
    <3>2. insertOperations[c] \subseteq insertOperations'[c]
      BY <3>1 DEF StorageInv, BehindInv
    <3> QED BY <3>1, <3>2 DEF SaveSnapshot, StorageInv, StoreTypeOK
  <2> QED BY <2>1, <2>2 DEF StorageNext, Edit, Handle, Restart, storageVars
<1>2. Saved \subseteq Issued'
  <2>1. ASSUME [Next]_vars PROVE Issued \subseteq Issued'
    <3>1. \A c \in Client : insertLog[c] \subseteq insertLog'[c]
      BY <2>1, LogsGrow DEF StorageInv
    <3> QED BY <3>1 DEF Issued
  <2>2. ASSUME NEW c \in Client, Restart(c) PROVE Saved \subseteq Issued'
    <3>1. /\ insertLog'[c] = insertOperations[c]
          /\ \A d \in Client \ {c} : insertLog'[d] = insertLog[d]
      BY <2>2 DEF Restart, StorageInv, Inv, TypeOK
    <3> QED BY <3>1, Survivors
  <2>3. CASE \E c \in Client : Restart(c)
    BY <2>2, <2>3
  <2>4. CASE [Next]_vars
    BY <2>1, <2>4, OwnLog
  <2> QED BY <2>3, <2>4 DEF StorageNext, Edit, Handle, Save, Next, storageVars
<1>3. Saved \subseteq Saved'
  BY <1>1, <1>2, OwnLog DEF Saved
<1>4. SavedDeletes \subseteq SavedDeletes'
  BY <1>1 DEF SavedDeletes
<1> QED BY <1>3, <1>4

\* A crash takes away only what its client had typed since its last save, and what nobody else
\* had heard of: every other character, and every deletion that anybody has saved, is in the
\* log of some client in every state that follows, however old the snapshots are that the
\* clients come back from.
THEOREM CrashesLoseOnlyUnsaved ==
  ASSUME SaveFirst
  PROVE  StorageSpec => EditsSurvive
<1>1. StorageInv /\ StorageInv' /\ [StorageNext]_storageVars =>
        Known \subseteq Known' /\ SavedDeletes \subseteq IssuedDeletes'
  <2> SUFFICES ASSUME StorageInv, StorageInv', [StorageNext]_storageVars
               PROVE  Known \subseteq Known' /\ SavedDeletes \subseteq IssuedDeletes'
    OBVIOUS
  <2>1. Saved \subseteq Saved' /\ SavedDeletes \subseteq SavedDeletes'
    BY StorageStepSurvives
  <2>2. Known = Saved /\ Known' = Saved'
    BY DEF StorageInv, OwnInv, HeardInv, Known, Saved
  <2>3. SavedDeletes' \subseteq IssuedDeletes'
    BY DEF StorageInv, BehindInv, SavedDeletes, IssuedDeletes
  <2> QED BY <2>1, <2>2, <2>3
<1> QED BY <1>1, StorageInvariance, PTL DEF StorageSpec, EditsSurvive

=============================================================================
