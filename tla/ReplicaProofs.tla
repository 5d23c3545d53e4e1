---------------------------- MODULE ReplicaProofs ----------------------------
(***************************************************************************)
(* What the steps of the replicas do to their lists and logs: the order of *)
(* what is in a list never changes, and every character stays between the  *)
(* two it was typed between; an answer to a state vector leaves nothing    *)
(* out; nothing that can be integrated stays pending; Document implements  *)
(* OpLog; the loops of traversal.go find the one place where an insert     *)
(* goes; and every handler comes nearer to its end with each of its steps. *)
(***************************************************************************)
EXTENDS Traversal, DocumentProofs

-----------------------------------------------------------------------------
\* Positions, before and after a splice.

\* In a well formed list an identifier is in one place.
LEMMA PositionUnique ==
  ASSUME NEW l, WellFormed(l), NEW j \in 1..Len(l)
  PROVE  Position(l, l[j].id) = j
<1>1. l[j].id \in ElementIDs(l)
  BY DEF ElementIDs
<1>2. Position(l, l[j].id) \in 1..Len(l) /\ l[Position(l, l[j].id)].id = l[j].id
  BY <1>1, PositionProperties
<1> QED BY <1>2 DEF WellFormed

\* A splice moves what stands at its place or behind it by one.
LEMMA PositionAfterSplice ==
  ASSUME NEW l \in Seq(Element), WellFormed(l), NEW e \in Element,
         e.id \notin ElementIDs(l), NEW k \in 2..Len(l)
  PROVE  LET new == InsertAt(l, k, e)
         IN  /\ Position(new, e.id) = k
             /\ \A id \in ElementIDs(l) :
                  Position(new, id) =
                    IF Position(l, id) < k THEN Position(l, id) ELSE Position(l, id) + 1
<1> DEFINE new == InsertAt(l, k, e)
<1>1. Len(l) \in Nat /\ k \in 1..Len(l)
  BY LenProperties
<1>2. /\ Len(new) = Len(l) + 1
      /\ \A j \in 1..Len(l) + 1 :
           new[j] = IF j < k THEN l[j] ELSE IF j = k THEN e ELSE l[j - 1]
  <2>1. /\ Len(InsertAt(l, k, e)) = Len(l) + 1
        /\ \A j \in 1..Len(l) + 1 :
             InsertAt(l, k, e)[j] = IF j < k THEN l[j] ELSE IF j = k THEN e ELSE l[j - 1]
    BY <1>1, InsertAtProperties
  <2> QED BY <2>1
<1>3. WellFormed(new)
  BY SpliceProperties
<1> HIDE DEF new
<1>4. k \in 1..Len(new) /\ new[k] = e
  BY <1>1, <1>2
<1>5. Position(new, e.id) = k
  BY <1>3, <1>4, PositionUnique
<1>6. ASSUME NEW id \in ElementIDs(l)
      PROVE  Position(new, id) =
               IF Position(l, id) < k THEN Position(l, id) ELSE Position(l, id) + 1
  <2> DEFINE p == Position(l, id)
             q == IF p < k THEN p ELSE p + 1
  <2>1. p \in 1..Len(l) /\ l[p].id = id
    BY PositionProperties
  <2> HIDE DEF p
  <2>2. q \in 1..Len(new) /\ new[q] = l[p]
    BY <2>1, <1>1, <1>2
  <2>3. Position(new, new[q].id) = q
    BY <2>2, <1>3, PositionUnique
  <2> QED BY <2>1, <2>2, <2>3 DEF p
<1> QED BY <1>5, <1>6 DEF new

-----------------------------------------------------------------------------
\* Every step that changes a list splices one new element into one list.

SplicesAt(c, op, k) ==
  /\ op \in InsertOperation
  /\ op.id \notin Present(c)
  /\ op.id \notin {Start, End}
  /\ {op.origin, op.right} \subseteq Present(c)
  /\ k \in 2..Len(list[c])
  /\ Position(list[c], op.origin) < k /\ k <= Position(list[c], op.right)
  /\ list'[c] = InsertAt(list[c], k, ElementOf(op))

\* A step either leaves a list alone or splices a single operation into it, with
\* a place between its origin and its right; that operation leaves the pending map.
ListStep(c) ==
  \/ /\ list'[c] = list[c]
     /\ insertLog'[c] \ pendingInserts'[c] \subseteq insertLog[c] \ pendingInserts[c]
  \/ \E op \in InsertOperation : \E k \in 2..Len(list[c]) :
       /\ SplicesAt(c, op, k)
       /\ insertLog'[c] \ pendingInserts'[c] \subseteq
            (insertLog[c] \ pendingInserts[c]) \cup {op}

LEMMA TypingSplices ==
  ASSUME Inv, NEW c \in Client, NEW index, InsertElement(c, index)
  PROVE  \E op \in InsertOperation : \E k \in 2..Len(list[c]) :
           /\ SplicesAt(c, op, k)
           /\ op.id \notin IDs(Issued) /\ op.id.client = c
           /\ op.origin = list[c][k - 1].id /\ op.right = list[c][k].id
           /\ \A d \in Client \ {c} : list'[d] = list[d]
           /\ insertLog' = [insertLog EXCEPT ![c] = @ \cup {op}]
           /\ UNCHANGED <<pendingInserts, aborted>>
<1>1. PICK k \in 2..Len(list[c]) :
        /\ list' = [list EXCEPT ![c] = InsertAt(@, k,
             ElementOf([id |-> [client |-> c, clock |-> clock[c]],
                        origin |-> list[c][k - 1].id, right |-> list[c][k].id]))]
        /\ insertLog' = [insertLog EXCEPT ![c] = @ \cup
             {[id |-> [client |-> c, clock |-> clock[c]],
               origin |-> list[c][k - 1].id, right |-> list[c][k].id]}]
  BY DEF InsertElement
<1> DEFINE op == [id |-> [client |-> c, clock |-> clock[c]],
                  origin |-> list[c][k - 1].id, right |-> list[c][k].id]
<1>2. /\ Len(list[c]) \in Nat /\ WellFormed(list[c])
      /\ \A j \in 1..Len(list[c]) : list[c][j] \in Element
  BY LenProperties, ElementOfSeq DEF Inv, TypeOK, WellFormedList
<1>3. /\ k - 1 \in 1..Len(list[c]) /\ k \in 1..Len(list[c])
      /\ 1 \in 1..Len(list[c]) /\ Len(list[c]) \in 1..Len(list[c])
      /\ k - 1 # Len(list[c]) /\ k # 1
  BY <1>2
<1>4. op.origin \in Present(c) \ {End} /\ op.right \in Present(c) \ {Start}
  <2>1. /\ list[c][1].id = Start
        /\ list[c][Len(list[c])].id = End
        /\ \A i, j \in 1..Len(list[c]) : list[c][i].id = list[c][j].id => i = j
    BY <1>2 DEF WellFormed
  <2>2. list[c][k - 1].id # End /\ list[c][k].id # Start
    BY <2>1, <1>3
  <2>3. list[c][k - 1].id \in Present(c) /\ list[c][k].id \in Present(c)
    BY <1>3 DEF Present, ElementIDs
  <2> QED BY <2>2, <2>3
<1>5. Present(c) \subseteq ID \cup {Start, End}
  BY <1>2 DEF Present, ElementIDs, Element
<1>6. op.id \in ID
  BY DEF Inv, TypeOK, ID
<1>7. op \in InsertOperation
  BY <1>4, <1>5, <1>6 DEF InsertOperation
<1>8. op.id \notin IDs(Issued)
  <2>1. \A a \in Issued : a.id.clock < clock[a.id.client]
    BY DEF Inv, IssuedInv
  <2>2. clock[c] \in Nat /\ op.id = [client |-> c, clock |-> clock[c]]
    BY DEF Inv, TypeOK
  <2>3. \A a \in Issued : a.id # op.id
    BY <2>1, <2>2
  <2> QED BY <2>3 DEF IDs
<1>9. op.id \notin Present(c) /\ op.id \notin {Start, End}
  BY <1>6, <1>8, InCirculation, SentinelsAreNoIDs
<1>10. Position(list[c], op.origin) = k - 1 /\ Position(list[c], op.right) = k
  BY <1>2, <1>3, PositionUnique
<1>11. list'[c] = InsertAt(list[c], k, ElementOf(op))
  BY <1>1 DEF Inv, TypeOK
<1>12. insertLog' = [insertLog EXCEPT ![c] = @ \cup {op}]
  BY <1>1
<1>13. \A d \in Client \ {c} : list'[d] = list[d]
  BY <1>1 DEF Inv, TypeOK
<1>14. UNCHANGED <<pendingInserts, aborted>>
  BY DEF InsertElement, pendings
<1>15. op.origin = list[c][k - 1].id /\ op.right = list[c][k].id /\ op.id.client = c
  OBVIOUS
<1> HIDE DEF op
<1>16. SplicesAt(c, op, k)
  BY <1>2, <1>4, <1>7, <1>9, <1>10, <1>11 DEF SplicesAt
<1> QED BY <1>7, <1>8, <1>12, <1>13, <1>14, <1>15, <1>16

LEMMA LocalSplice ==
  ASSUME Inv, NEW c \in Client, NEW index, InsertElement(c, index)
  PROVE  ListStep(c)
<1>1. PICK op \in InsertOperation, k \in 2..Len(list[c]) :
        /\ SplicesAt(c, op, k)
        /\ insertLog' = [insertLog EXCEPT ![c] = @ \cup {op}]
        /\ UNCHANGED pendingInserts
  BY TypingSplices
<1>2. insertLog'[c] = insertLog[c] \cup {op} /\ pendingInserts'[c] = pendingInserts[c]
  BY <1>1 DEF Inv, TypeOK
<1> QED BY <1>1, <1>2 DEF ListStep

LEMMA IntegrationSplices ==
  ASSUME Inv, NEW c \in Client, NEW op \in Issued, op.id \notin Present(c),
         Resolvable(c, op), ~WalksOff(list[c], op), IntegrateInsert(c, op)
  PROVE  /\ op \in InsertOperation
         /\ \E k \in 2..Len(list[c]) : SplicesAt(c, op, k) /\ IsInsertionPoint(list[c], op, k)
         /\ \A d \in Client \ {c} : list'[d] = list[d]
         /\ insertLog' = [insertLog EXCEPT ![c] = @ \cup {op}]
<1>1. op \in InsertOperation
  BY DEF Inv, TypeOK, Issued
<1>2. PICK k : /\ IsInsertionPoint(list[c], op, k)
               /\ list' = [list EXCEPT ![c] = InsertAt(@, k, ElementOf(op))]
  BY DEF IntegrateInsert
<1>3. k \in 2..Len(list[c])
  BY <1>1, <1>2, InsertionPointInside DEF Inv
<1>4. Position(list[c], op.origin) < k /\ k <= Position(list[c], op.right)
  <2> DEFINE o == Position(list[c], op.origin)
             r == Position(list[c], op.right)
  <2>1. Len(list[c]) \in Nat
    BY LenProperties DEF Inv, TypeOK
  <2>2. o \in 1..Len(list[c]) /\ r \in 1..Len(list[c])
    BY PositionProperties DEF Resolvable, Present
  <2>3. o < r
    BY <2>1, <2>2 DEF WalksOff
  <2>4. k \in (o + 1 .. r - 1) \cup {r}
    BY <1>2 DEF IsInsertionPoint, Stops, ConflictZone
  <2> HIDE DEF o, r
  <2>5. o < k /\ k <= r
    BY <2>1, <2>2, <2>3, <2>4
  <2> QED BY <2>5 DEF o, r
<1>5. list'[c] = InsertAt(list[c], k, ElementOf(op)) /\ \A d \in Client \ {c} : list'[d] = list[d]
  BY <1>2 DEF Inv, TypeOK
<1>6. op.id \notin {Start, End}
  BY <1>1, SentinelsAreNoIDs DEF InsertOperation
<1>7. SplicesAt(c, op, k)
  BY <1>1, <1>3, <1>4, <1>5, <1>6 DEF SplicesAt, Resolvable
<1> QED BY <1>1, <1>2, <1>3, <1>5, <1>7 DEF IntegrateInsert

LEMMA RemoteSplice ==
  ASSUME Inv, NEW c \in Client, NEW op \in Issued, op.id \notin Present(c),
         Resolvable(c, op), ~WalksOff(list[c], op), IntegrateInsert(c, op),
         pendingInserts[c] \ {op} \subseteq pendingInserts'[c]
  PROVE  ListStep(c)
<1>1. /\ op \in InsertOperation
      /\ \E k \in 2..Len(list[c]) : SplicesAt(c, op, k)
  BY IntegrationSplices
<1>2. insertLog'[c] = insertLog[c] \cup {op}
  BY IntegrationSplices DEF Inv, TypeOK
<1> QED BY <1>1, <1>2 DEF ListStep

LEMMA StepIsListStep ==
  ASSUME Inv, Inv', [Next]_vars, NEW d \in Client
  PROVE  ListStep(d)
<1>1. ASSUME list'[d] = list[d], insertLog'[d] = insertLog[d], pendingInserts'[d] = pendingInserts[d]
      PROVE  ListStep(d)
  BY <1>1 DEF ListStep
<1>2. CASE UNCHANGED vars
  BY <1>1, <1>2 DEF vars, logs, pendings
<1>3. ASSUME NEW c \in Client, Local(c) PROVE ListStep(d)
  <2>1. PICK index : InsertElement(c, index) \/ DeleteElement(c, index)
    BY <1>3 DEF Local
  <2>2. CASE InsertElement(c, index) /\ d = c
    BY <2>2, LocalSplice
  <2>3. CASE InsertElement(c, index) /\ d # c
    BY <2>3, <1>1 DEF InsertElement, Inv, TypeOK, pendings
  <2>4. CASE DeleteElement(c, index)
    BY <2>4, <1>1 DEF DeleteElement, pendings
  <2> QED BY <2>1, <2>2, <2>3, <2>4
<1>4. ASSUME NEW c \in Client, Remote(c) PROVE ListStep(d)
  <2>1. ASSUME NEW op \in Issued, RemoteInsert(c, op) PROVE ListStep(d)
    <3>1. CASE SkipInsert(c, op)
      BY <3>1, <1>1 DEF SkipInsert, logs, pendings
    <3>2. CASE ParkInsert(c, op)
      <4>1. /\ list'[d] = list[d]
            /\ insertLog'[d] \ pendingInserts'[d] \subseteq insertLog[d] \ pendingInserts[d]
        BY <3>2 DEF ParkInsert, Inv, TypeOK
      <4> QED BY <4>1 DEF ListStep
    <3>3. CASE ApplyInsert(c, op) /\ d = c
      <4>1. /\ op.id \notin Present(c) /\ Resolvable(c, op) /\ ~WalksOff(list[c], op)
            /\ IntegrateInsert(c, op) /\ UNCHANGED pendingInserts
        BY <3>3 DEF ApplyInsert, pendings
      <4> QED BY <4>1, <3>3, RemoteSplice
    <3>4. CASE ApplyInsert(c, op) /\ d # c
      BY <3>4, <1>1 DEF ApplyInsert, IntegrateInsert, Inv, TypeOK, pendings
    <3> QED BY <2>1, <3>1, <3>2, <3>3, <3>4 DEF RemoteInsert
  <2>2. ASSUME NEW op \in Issued, RemoteInsertAborts(c, op) \/ ProcessPendingAborts(c, op)
        PROVE  ListStep(d)
    BY <2>2, <1>1 DEF RemoteInsertAborts, ProcessPendingAborts, Abort, logs, pendings
  <2>3. ASSUME NEW op \in Issued, ProcessPending(c, op) PROVE ListStep(d)
    <3>1. /\ op \in pendingInserts[c] /\ Resolvable(c, op) /\ ~WalksOff(list[c], op)
          /\ IntegrateInsert(c, op)
          /\ pendingInserts' = [pendingInserts EXCEPT ![c] = @ \ {op}]
      BY <2>3 DEF ProcessPending
    <3>2. op.id \notin Present(c)
      BY <3>1 DEF Inv, LogsPartition
    <3>3. CASE d = c
      <4>1. pendingInserts[c] \ {op} \subseteq pendingInserts'[c]
        BY <3>1 DEF Inv, TypeOK
      <4> QED BY <4>1, <3>1, <3>2, <3>3, RemoteSplice
    <3>4. CASE d # c
      BY <3>1, <3>4, <1>1 DEF IntegrateInsert, Inv, TypeOK
    <3> QED BY <3>3, <3>4
  <2>4. ASSUME ProcessPendingDeletes(c) PROVE ListStep(d)
    BY <2>4, <1>1 DEF ProcessPendingDeletes
  <2>5. ASSUME NEW id \in IssuedDeletes, RemoteDelete(c, id) PROVE ListStep(d)
    BY <2>5, <1>1 DEF RemoteDelete
  <2>6. ASSUME NEW p \in Client, NEW r \in Client, IntegrateDelta(c, p, r) PROVE ListStep(d)
    BY <2>6, <1>1 DEF IntegrateDelta, logs, pendings
  <2> QED BY <1>4, <2>1, <2>2, <2>3, <2>4, <2>5, <2>6 DEF Remote
<1> QED BY <1>2, <1>3, <1>4 DEF Next

-----------------------------------------------------------------------------
\* Order.

LEMMA ListStepKeepsOrder ==
  ASSUME Inv, NEW c \in Client, ListStep(c)
  PROVE  KeepsOrder(c)
<1>1. CASE list'[c] = list[c]
  BY <1>1 DEF KeepsOrder
<1>2. ASSUME NEW op \in InsertOperation, NEW k \in 2..Len(list[c]), SplicesAt(c, op, k)
      PROVE  KeepsOrder(c)
  <2> DEFINE l == list[c]
             new == list'[c]
  <2>1. l \in Seq(Element) /\ Len(l) \in Nat /\ k \in 1..Len(l)
    BY LenProperties DEF Inv, TypeOK
  <2>2. ElementOf(op) \in Element
    BY DEF ElementOf, Element, InsertOperation
  <2>3. /\ Len(new) = Len(l) + 1
        /\ \A j \in 1..Len(l) + 1 :
             new[j] = IF j < k THEN l[j] ELSE IF j = k THEN ElementOf(op) ELSE l[j - 1]
    <3>1. list'[c] = InsertAt(list[c], k, ElementOf(op))
      BY <1>2 DEF SplicesAt
    <3>2. /\ Len(InsertAt(list[c], k, ElementOf(op))) = Len(list[c]) + 1
          /\ \A j \in 1..Len(list[c]) + 1 :
               InsertAt(list[c], k, ElementOf(op))[j] =
                 IF j < k THEN list[c][j]
                 ELSE IF j = k THEN ElementOf(op) ELSE list[c][j - 1]
      BY <2>1, <2>2, InsertAtProperties
    <3> QED BY <3>1, <3>2
  <2> SUFFICES ASSUME NEW i \in 1..Len(l), NEW j \in 1..Len(l), i < j
               PROVE  \E m, n \in 1..Len(new) : m < n /\ new[m] = l[i] /\ new[n] = l[j]
    BY DEF KeepsOrder
  <2> DEFINE m == IF i < k THEN i ELSE i + 1
             n == IF j < k THEN j ELSE j + 1
  <2> HIDE DEF l, new
  <2>4. m \in 1..Len(new) /\ n \in 1..Len(new) /\ m < n
    BY <2>1, <2>3
  <2>5. new[m] = l[i] /\ new[n] = l[j]
    BY <2>1, <2>3
  <2> QED BY <2>4, <2>5
<1> QED BY <1>1, <1>2 DEF ListStep

\* Elements never change places: what a user has seen before something stays before it.
THEOREM OrderIsStable == Spec => OrderStable
<1>1. Inv /\ Inv' /\ [Next]_vars => [\A c \in Client : list'[c] # list[c] => KeepsOrder(c)]_vars
  BY StepIsListStep, ListStepKeepsOrder
<1>2. Spec => [][Next]_vars
  BY PTL DEF Spec
<1> QED BY <1>1, <1>2, Invariance, PTL DEF OrderStable

-----------------------------------------------------------------------------
\* Intention.

\* IntentionKept, with the origin and the right in the list as well.
Between(c, op) ==
  /\ {op.origin, op.right} \subseteq Present(c)
  /\ Position(list[c], op.origin) < Position(list[c], op.id)
  /\ Position(list[c], op.id) < Position(list[c], op.right)

IntentionInv == \A c \in Client : \A op \in insertLog[c] \ pendingInserts[c] : Between(c, op)

LEMMA ListStepKeepsIntention ==
  ASSUME Inv, IntentionInv, NEW c \in Client, ListStep(c)
  PROVE  \A a \in insertLog'[c] \ pendingInserts'[c] : Between(c, a)'
<1>1. CASE /\ list'[c] = list[c]
           /\ insertLog'[c] \ pendingInserts'[c] \subseteq insertLog[c] \ pendingInserts[c]
  BY <1>1 DEF IntentionInv, Between, Present
<1>2. ASSUME NEW op \in InsertOperation, NEW k \in 2..Len(list[c]), SplicesAt(c, op, k),
             insertLog'[c] \ pendingInserts'[c] \subseteq
               (insertLog[c] \ pendingInserts[c]) \cup {op}
      PROVE  \A a \in insertLog'[c] \ pendingInserts'[c] : Between(c, a)'
  <2>1. /\ list[c] \in Seq(Element) /\ WellFormed(list[c]) /\ Len(list[c]) \in Nat
        /\ ElementOf(op) \in Element /\ ElementOf(op).id = op.id
        /\ op.id \notin ElementIDs(list[c])
        /\ list'[c] = InsertAt(list[c], k, ElementOf(op))
    BY <1>2, LenProperties
    DEF Inv, TypeOK, WellFormedList, ElementOf, Element, InsertOperation, SplicesAt, Present
  <2>2. Present(c)' = Present(c) \cup {op.id}
    BY <2>1, SpliceProperties DEF Present
  <2>3. /\ Position(list'[c], op.id) = k
        /\ \A id \in Present(c) :
             Position(list'[c], id) =
               IF Position(list[c], id) < k THEN Position(list[c], id)
               ELSE Position(list[c], id) + 1
    BY <2>1, PositionAfterSplice DEF Present
  <2>4. \A id \in Present(c) : Position(list[c], id) \in Nat
    BY <2>1, PositionProperties DEF Present
  <2>5. k \in Nat
    BY <2>1
  <2>6. Between(c, op)'
    <3>1. /\ {op.origin, op.right} \subseteq Present(c)
          /\ Position(list[c], op.origin) < k /\ k <= Position(list[c], op.right)
      BY <1>2 DEF SplicesAt
    <3>2. Position(list'[c], op.origin) < k /\ k < Position(list'[c], op.right)
      BY <3>1, <2>3, <2>4, <2>5
    <3> QED BY <3>1, <3>2, <2>2, <2>3 DEF Between
  <2>7. ASSUME NEW a \in insertLog[c] \ pendingInserts[c] PROVE Between(c, a)'
    <3>1. Between(c, a)
      BY DEF IntentionInv
    <3>2. a.id \in Present(c)
      BY DEF Inv, LogsPartition, IDs
    <3>3. /\ Position(list'[c], a.origin) < Position(list'[c], a.id)
          /\ Position(list'[c], a.id) < Position(list'[c], a.right)
      BY <3>1, <3>2, <2>3, <2>4, <2>5 DEF Between
    <3> QED BY <3>1, <3>3, <2>2 DEF Between
  <2> QED BY <1>2, <2>6, <2>7
<1> QED BY <1>1, <1>2 DEF ListStep

LEMMA InitIntention == Init => IntentionInv
BY DEF Init, IntentionInv

LEMMA NextIntention == Inv /\ Inv' /\ IntentionInv /\ [Next]_vars => IntentionInv'
<1> SUFFICES ASSUME Inv, Inv', IntentionInv, [Next]_vars PROVE IntentionInv'
  OBVIOUS
<1>1. \A c \in Client : \A a \in insertLog'[c] \ pendingInserts'[c] : Between(c, a)'
  BY StepIsListStep, ListStepKeepsIntention
<1> QED BY <1>1 DEF IntentionInv

\* Whatever else is integrated around it, on every replica a character stands behind
\* its origin and before its right.
THEOREM IntentionIsKept == Spec => []IntentionKept
<1>1. IntentionInv => IntentionKept
  BY DEF IntentionInv, IntentionKept, Between
<1>2. Spec => Init /\ [][Next]_vars
  BY PTL DEF Spec
<1>3. Spec => []IntentionInv
  BY <1>2, InitIntention, NextIntention, Invariance, PTL
<1> QED BY <1>1, <1>3, PTL

-----------------------------------------------------------------------------
\* The logs.

\* ComputeDelta: an insert that a replica has and does not send, the vector it answers
\* claims, and rightly so.
LEMMA InvDeltaComplete == Inv => DeltaComplete
<1> SUFFICES ASSUME Inv, NEW p \in Client, NEW r \in Client
             PROVE  insertLog[p] \subseteq insertLog[r] \cup
                      MissingInserts(insertLog[p], StateVector(insertLog[r]))
  BY DEF DeltaComplete
<1> DEFINE log == insertLog[r]
           vector == StateVector(log)
<1>1. ASSUME NEW op \in insertLog[p], op \notin MissingInserts(insertLog[p], vector)
      PROVE  op \in log
  <2>1. op \in InsertOperation /\ log \subseteq InsertOperation
    BY DEF Inv, TypeOK
  <2>2. op.id \in ID
    BY <2>1 DEF InsertOperation
  <2> DEFINE c == op.id.client
             t == op.id.clock
  <2>3. c \in Client /\ t \in Nat /\ op.id = [client |-> c, clock |-> t]
    BY <2>2 DEF ID
  <2>4. PICK n \in vector[c] : ~(n < t)
    BY <1>1 DEF MissingInserts
  <2>5. n \in Clocks(log, c) /\ 0..n \subseteq Clocks(log, c)
    BY <2>3, <2>4 DEF StateVector
  <2>6. n \in Nat
    BY <2>1, <2>5 DEF Clocks, InsertOperation, ID
  <2>7. t \in Clocks(log, c)
    BY <2>3, <2>4, <2>5, <2>6
  <2>8. PICK o \in log : o.id.client = c /\ o.id.clock = t
    BY <2>7 DEF Clocks
  <2>9. o.id \in ID
    BY <2>1, <2>8 DEF InsertOperation
  <2>10. o.id = op.id
    BY <2>3, <2>8, <2>9 DEF ID
  <2>11. op \in Issued /\ o \in Issued
    BY <2>8, InCirculation
  <2> QED BY <2>8, <2>10, <2>11 DEF Inv, IssuedInv
<1> QED BY <1>1

\* The delta a replica sends for the vector of another contains every insert that the
\* other lacks, in every reachable state, with gaps in the clocks on both sides.
THEOREM DeltasComplete == Spec => []DeltaComplete
BY InvDeltaComplete, Invariance, PTL

-----------------------------------------------------------------------------
\* The refinement: each action of Document is an action of OpLog or a stutter.

LEMMA InsertRefines ==
  ASSUME Inv, NEW c \in Client, NEW index, InsertElement(c, index)
  PROVE  Log!Next
<1>1. PICK k \in 2..Len(list[c]) :
        insertLog' = [insertLog EXCEPT ![c] = @ \cup
          {[id |-> [client |-> c, clock |-> clock[c]],
            origin |-> list[c][k - 1].id, right |-> list[c][k].id]}]
  BY DEF InsertElement
<1> DEFINE op == [id |-> [client |-> c, clock |-> clock[c]],
                  origin |-> list[c][k - 1].id, right |-> list[c][k].id]
<1>2. Len(list[c]) \in Nat
  BY LenProperties DEF Inv, TypeOK
<1>3. /\ k - 1 \in 1..Len(list[c]) /\ k \in 1..Len(list[c])
      /\ 1 \in 1..Len(list[c]) /\ Len(list[c]) \in 1..Len(list[c])
      /\ k - 1 # Len(list[c]) /\ k # 1
  BY <1>2
<1>4. op.origin \in Present(c) \ {End} /\ op.right \in Present(c) \ {Start}
  <2>1. /\ list[c][1].id = Start
        /\ list[c][Len(list[c])].id = End
        /\ \A i, j \in 1..Len(list[c]) : list[c][i].id = list[c][j].id => i = j
    BY DEF Inv, WellFormedList, WellFormed
  <2>2. list[c][k - 1].id # End /\ list[c][k].id # Start
    BY <2>1, <1>3
  <2>3. list[c][k - 1].id \in Present(c) /\ list[c][k].id \in Present(c)
    BY <1>3 DEF Present, ElementIDs
  <2> QED BY <2>2, <2>3
<1>5. Present(c) \ {Start, End} \subseteq IDs(insertLog[c])
  <2>1. Present(c) \ {Start, End} = IDs(insertLog[c] \ pendingInserts[c])
    BY DEF Inv, LogsPartition
  <2> QED BY <2>1 DEF IDs
<1>6. op.origin \in IDs(insertLog[c]) \cup {Start} /\ op.right \in IDs(insertLog[c]) \cup {End}
  BY <1>4, <1>5
<1>7. op.id = [client |-> c, clock |-> clock[c]]
  OBVIOUS
<1>8. \A d \in Client : op.id \notin IDs(insertLog[d])
  <2>1. \A a \in Issued : a.id.clock < clock[a.id.client]
    BY DEF Inv, IssuedInv
  <2>2. clock[c] \in Nat
    BY DEF Inv, TypeOK
  <2>3. \A a \in Issued : a.id # op.id
    BY <2>1, <2>2, <1>7
  <2> QED BY <2>3 DEF IDs, Issued
<1>9. insertLog' = [insertLog EXCEPT ![c] = @ \cup {op}]
  BY <1>1
<1>10. UNCHANGED deleteLog
  BY DEF InsertElement
<1>11. op.id.client = c
  BY <1>7
<1> HIDE DEF op
<1>12. op \in insertLog'[c]
  BY <1>9 DEF Inv, TypeOK
<1>13. Log!Insert(c, op)
  BY <1>6, <1>8, <1>9, <1>10, <1>11 DEF Log!Insert, IDs, Log!IDs, Start, End, Log!Start, Log!End
<1> QED BY <1>12, <1>13 DEF Log!Next

LEMMA DeleteRefines ==
  ASSUME Inv, NEW c \in Client, NEW index \in 0..characterCounter[c], DeleteElement(c, index), Inv'
  PROVE  Log!Next
<1>1. PICK k \in 2..Len(list[c]) :
        /\ deleteLog' = [deleteLog EXCEPT ![c] = @ \cup {list[c][k].id}]
        /\ tombstones' = [tombstones EXCEPT ![c] = @ \cup {list[c][k].id}]
  BY DEF DeleteElement
<1>2. UNCHANGED <<insertLog, list>>
  BY DEF DeleteElement
<1> DEFINE id == list[c][k].id
<1>3. id \in Present(c)
  <2>1. Len(list[c]) \in Nat
    BY LenProperties DEF Inv, TypeOK
  <2>2. k \in 1..Len(list[c])
    BY <2>1
  <2> QED BY <2>2 DEF Present, ElementIDs
<1>4. id \in ID
  <2>1. tombstones'[c] \subseteq ID
    BY DEF Inv, TypeOK
  <2>2. id \in tombstones'[c]
    BY <1>1 DEF Inv, TypeOK
  <2> QED BY <2>1, <2>2
<1>5. Present(c) \ {Start, End} \subseteq IDs(insertLog[c])
  <2>1. Present(c) \ {Start, End} = IDs(insertLog[c] \ pendingInserts[c])
    BY DEF Inv, LogsPartition
  <2> QED BY <2>1 DEF IDs
<1>6. id \in IDs(insertLog[c])
  BY <1>3, <1>4, <1>5, SentinelsAreNoIDs
<1>7. Log!Delete(c, id)
  BY <1>1, <1>2, <1>6 DEF Log!Delete, IDs, Log!IDs
<1> QED BY <1>6, <1>7 DEF Log!Next, IDs, Log!IDs

LEMMA LearnInsertRefines ==
  ASSUME NEW c \in Client, NEW op \in Issued,
         insertLog' = [insertLog EXCEPT ![c] = @ \cup {op}], UNCHANGED deleteLog
  PROVE  Log!Next
<1>1. PICK d \in Client : op \in insertLog[d]
  BY DEF Issued
<1>2. Log!LearnInsert(c, d, op)
  BY <1>1 DEF Log!LearnInsert
<1> QED BY <1>1, <1>2 DEF Log!Next

LEMMA LearnDeleteRefines ==
  ASSUME NEW c \in Client, NEW id \in IssuedDeletes,
         deleteLog' = [deleteLog EXCEPT ![c] = @ \cup {id}], UNCHANGED insertLog
  PROVE  Log!Next
<1>1. PICK d \in Client : id \in deleteLog[d]
  BY DEF IssuedDeletes
<1>2. Log!LearnDelete(c, d, id)
  BY <1>1 DEF Log!LearnDelete
<1> QED BY <1>1, <1>2 DEF Log!Next

LEMMA RemoteRefines ==
  ASSUME Inv, NEW c \in Client, Remote(c)
  PROVE  Log!Next \/ UNCHANGED logs
<1>1. ASSUME NEW op \in Issued, RemoteInsert(c, op) PROVE Log!Next \/ UNCHANGED logs
  <2>1. CASE SkipInsert(c, op)
    BY <2>1 DEF SkipInsert
  <2>2. CASE ParkInsert(c, op)
    BY <2>2, LearnInsertRefines DEF ParkInsert
  <2>3. CASE ApplyInsert(c, op)
    BY <2>3, LearnInsertRefines DEF ApplyInsert, IntegrateInsert
  <2> QED BY <1>1, <2>1, <2>2, <2>3 DEF RemoteInsert
<1>2. ASSUME NEW op \in Issued, RemoteInsertAborts(c, op) \/ ProcessPendingAborts(c, op)
      PROVE  UNCHANGED logs
  BY <1>2 DEF RemoteInsertAborts, ProcessPendingAborts, Abort
<1>3. ASSUME NEW op \in Issued, ProcessPending(c, op) PROVE Log!Next
  BY <1>3, LearnInsertRefines DEF ProcessPending, IntegrateInsert
<1>4. ASSUME ProcessPendingDeletes(c) PROVE UNCHANGED logs
  <2> DEFINE arrived == pendingDeletes[c] \cap Present(c)
  <2>1. /\ deleteLog' = [deleteLog EXCEPT ![c] = @ \cup arrived]
        /\ UNCHANGED insertLog
    BY <1>4 DEF ProcessPendingDeletes
  <2>2. arrived \subseteq deleteLog[c]
    BY DEF Inv, LogsPartition
  <2> HIDE DEF arrived
  <2>3. deleteLog' = deleteLog
    BY <2>1, <2>2 DEF Inv, TypeOK
  <2> QED BY <2>1, <2>3 DEF logs
<1>5. ASSUME NEW id \in IssuedDeletes, RemoteDelete(c, id) PROVE Log!Next \/ UNCHANGED logs
  <2>1. UNCHANGED insertLog
    BY <1>5 DEF RemoteDelete
  <2>2. CASE UNCHANGED deleteLog
    BY <2>1, <2>2 DEF logs
  <2>3. CASE deleteLog' = [deleteLog EXCEPT ![c] = @ \cup {id}]
    BY <2>1, <2>3, LearnDeleteRefines
  <2> QED BY <1>5, <2>2, <2>3 DEF RemoteDelete
<1>6. ASSUME NEW p \in Client, NEW r \in Client, IntegrateDelta(c, p, r) PROVE UNCHANGED logs
  BY <1>6 DEF IntegrateDelta
<1> QED BY <1>1, <1>2, <1>3, <1>4, <1>5, <1>6 DEF Remote

LEMMA InitRefines == Init => Log!Init
BY DEF Init, Log!Init

LEMMA NextRefines == Inv /\ Inv' /\ [Next]_vars => [Log!Next]_Log!vars
<1> SUFFICES ASSUME Inv, Inv', [Next]_vars PROVE Log!Next \/ UNCHANGED Log!vars
  OBVIOUS
<1>1. UNCHANGED logs => UNCHANGED Log!vars
  BY DEF logs, Log!vars
<1>2. CASE UNCHANGED vars
  BY <1>1, <1>2 DEF vars
<1>3. ASSUME NEW c \in Client, Local(c) PROVE Log!Next
  BY <1>3, InsertRefines, DeleteRefines DEF Local
<1>4. ASSUME NEW c \in Client, Remote(c) PROVE Log!Next \/ UNCHANGED Log!vars
  BY <1>1, <1>4, RemoteRefines
<1> QED BY <1>2, <1>3, <1>4 DEF Next

\* Whatever the replicas do to their lists, their logs are grow-only sets of
\* operations, each issued once and learned from somebody who had it.
THEOREM RefinesOpLog == Spec => ImplementsOpLog
<1>1. Spec => [][Next]_vars /\ Init
  BY PTL DEF Spec
<1> QED BY <1>1, InitRefines, NextRefines, Invariance, PTL DEF ImplementsOpLog, Log!Spec

-----------------------------------------------------------------------------
\* What is pending waits for something.

LEMMA SentinelsPresent ==
  ASSUME Inv, NEW c \in Client
  PROVE  {Start, End} \subseteq Present(c)
<1>1. Len(list[c]) \in Nat /\ WellFormed(list[c])
  BY LenProperties DEF Inv, TypeOK, WellFormedList
<1>2. 1 \in 1..Len(list[c]) /\ Len(list[c]) \in 1..Len(list[c])
  BY <1>1 DEF WellFormed
<1> QED BY <1>1, <1>2 DEF WellFormed, Present, ElementIDs

LEMMA LeastNatural ==
  ASSUME NEW T, T \subseteq Nat, T # {}
  PROVE  \E m \in T : \A n \in T : ~(n < m)
<1> DEFINE R == OpToRel(<, Nat)
<1>1. IsWellFoundedOn(R, Nat)
  BY NatLessThanWellFounded
<1>2. \A m, n \in Nat : n < m => <<n, m>> \in R
  BY DEF OpToRel
<1> HIDE DEF R
<1>3. PICK m \in T : \A n \in T : ~(<<n, m>> \in R)
  BY <1>1, WFMin
<1> QED BY <1>2, <1>3

\* No operations refer to one another in a circle, since each refers to what its client
\* had in its list: they can be ranked.
Ranked(rank) ==
  \A op \in Issued : rank[op.origin] < rank[op.id] /\ rank[op.right] < rank[op.id]

Grounded == \E rank \in [ID \cup {Start, End} -> Nat] : Ranked(rank)

LEMMA InitGrounded == Init => Grounded
<1> SUFFICES ASSUME Init PROVE Grounded
  OBVIOUS
<1>1. Issued = {}
  BY DEF Init, Issued
<1>2. [x \in ID \cup {Start, End} |-> 0] \in [ID \cup {Start, End} -> Nat]
  OBVIOUS
<1> QED BY <1>1, <1>2 DEF Grounded, Ranked

LEMMA TypingGrounds ==
  ASSUME Inv, Grounded, NEW c \in Client, NEW index, InsertElement(c, index)
  PROVE  Grounded'
<1>1. PICK op \in InsertOperation, k \in 2..Len(list[c]) :
        /\ SplicesAt(c, op, k)
        /\ op.id \notin IDs(Issued)
        /\ insertLog' = [insertLog EXCEPT ![c] = @ \cup {op}]
  BY TypingSplices
<1>2. PICK rank \in [ID \cup {Start, End} -> Nat] : Ranked(rank)
  BY DEF Grounded
<1>3. /\ insertLog'[c] = insertLog[c] \cup {op}
      /\ \A d \in Client \ {c} : insertLog'[d] = insertLog[d]
  BY <1>1 DEF Inv, TypeOK
<1>4. Issued' = Issued \cup {op}
  BY <1>3 DEF Issued
<1>5. \A a \in Issued \cup {op} :
        a.id \in ID /\ a.origin \in ID \cup {Start, End} /\ a.right \in ID \cup {Start, End}
  BY DEF Inv, TypeOK, Issued, InsertOperation
<1>6. \A a \in Issued : a.id # op.id /\ a.origin # op.id /\ a.right # op.id
  <2>1. \A a \in Issued : a.id # op.id
    BY <1>1 DEF IDs
  <2>2. \A a \in Issued : {a.origin, a.right} \subseteq IDs(Issued) \cup {Start, End}
    BY DEF Inv, IssuedInv
  <2>3. op.id \notin {Start, End}
    BY <1>1 DEF SplicesAt
  <2> QED BY <1>1, <2>1, <2>2, <2>3
<1>7. op.origin # op.id /\ op.right # op.id
  BY <1>1 DEF SplicesAt
<1> DEFINE new == [rank EXCEPT ![op.id] = rank[op.origin] + rank[op.right] + 1]
<1>8. new \in [ID \cup {Start, End} -> Nat]
  BY <1>5
<1>9. /\ new[op.id] = rank[op.origin] + rank[op.right] + 1
      /\ \A x \in ID \cup {Start, End} : x # op.id => new[x] = rank[x]
      /\ \A x \in ID \cup {Start, End} : rank[x] \in Nat
  BY <1>5
<1> HIDE DEF new
<1>10. \A a \in Issued : new[a.origin] < new[a.id] /\ new[a.right] < new[a.id]
  BY <1>2, <1>5, <1>6, <1>9 DEF Ranked
<1>11. new[op.origin] < new[op.id] /\ new[op.right] < new[op.id]
  BY <1>5, <1>7, <1>9
<1>12. Ranked(new)'
  BY <1>4, <1>10, <1>11 DEF Ranked
<1> QED BY <1>8, <1>12 DEF Grounded

\* Only typing issues an operation.
LEMMA RemoteIssuesNothing ==
  ASSUME Inv, NEW c \in Client, Remote(c)
  PROVE  Issued' = Issued
<1>1. UNCHANGED insertLog => Issued' = Issued
  BY DEF Issued
<1>2. ASSUME NEW op \in Issued, RemoteInsert(c, op) PROVE Issued' = Issued
  <2>1. CASE SkipInsert(c, op)
    BY <1>1, <2>1 DEF SkipInsert, logs
  <2>2. CASE insertLog' = [insertLog EXCEPT ![c] = @ \cup {op}]
    BY <2>2, NothingIssued DEF Inv
  <2> QED BY <1>2, <2>1, <2>2 DEF RemoteInsert, ParkInsert, ApplyInsert, IntegrateInsert
<1>3. ASSUME NEW op \in Issued, RemoteInsertAborts(c, op) \/ ProcessPendingAborts(c, op)
      PROVE  Issued' = Issued
  BY <1>1, <1>3 DEF RemoteInsertAborts, ProcessPendingAborts, Abort, logs
<1>4. ASSUME NEW op \in Issued, ProcessPending(c, op) PROVE Issued' = Issued
  <2>1. insertLog' = [insertLog EXCEPT ![c] = @ \cup {op}]
    BY <1>4 DEF ProcessPending, IntegrateInsert
  <2> QED BY <2>1, NothingIssued DEF Inv
<1>5. ASSUME ProcessPendingDeletes(c) PROVE Issued' = Issued
  BY <1>1, <1>5 DEF ProcessPendingDeletes
<1>6. ASSUME NEW id \in IssuedDeletes, RemoteDelete(c, id) PROVE Issued' = Issued
  BY <1>1, <1>6 DEF RemoteDelete
<1>7. ASSUME NEW p \in Client, NEW r \in Client, IntegrateDelta(c, p, r) PROVE Issued' = Issued
  BY <1>1, <1>7 DEF IntegrateDelta, logs
<1> QED BY <1>2, <1>3, <1>4, <1>5, <1>6, <1>7 DEF Remote

LEMMA NextGrounded == Inv /\ Grounded /\ [Next]_vars => Grounded'
<1> SUFFICES ASSUME Inv, Grounded, Next \/ UNCHANGED vars PROVE Grounded'
  OBVIOUS
<1>1. Issued' = Issued => Grounded'
  BY DEF Grounded, Ranked
<1>2. CASE UNCHANGED vars
  BY <1>1, <1>2 DEF vars, logs, Issued
<1>3. ASSUME NEW c \in Client, Local(c) PROVE Grounded'
  <2>1. PICK index : InsertElement(c, index) \/ DeleteElement(c, index)
    BY <1>3 DEF Local
  <2>2. DeleteElement(c, index) => Issued' = Issued
    BY DEF DeleteElement, Issued
  <2> QED BY <1>1, <2>1, <2>2, TypingGrounds
<1>4. ASSUME NEW c \in Client, Remote(c) PROVE Grounded'
  BY <1>1, <1>4, RemoteIssuesNothing
<1> QED BY <1>2, <1>3, <1>4 DEF Next

LEMMA GroundedNotStuck ==
  ASSUME Inv, Grounded, NEW c \in Client, Running(c), ~draining[c],
         \A op \in insertLog[c] :
           {op.origin, op.right} \subseteq IDs(insertLog[c]) \cup {Start, End}
  PROVE  /\ pendingInserts[c] = {}
         /\ pendingDeletes[c] \cap (IDs(insertLog[c]) \cup {Start, End}) = {}
<1>1. /\ pendingInserts[c] = {op \in insertLog[c] : op.id \notin Present(c)}
      /\ Present(c) \ {Start, End} = IDs(insertLog[c] \ pendingInserts[c])
  BY DEF Inv, LogsPartition
<1>2. /\ \A op \in pendingInserts[c] : ~Resolvable(c, op)
      /\ pendingDeletes[c] \cap Present(c) = {}
  BY DEF Inv, Blocked
<1>3. {Start, End} \subseteq Present(c)
  BY SentinelsPresent
<1>4. pendingInserts[c] = {}
  <2> SUFFICES ASSUME pendingInserts[c] # {} PROVE FALSE
    OBVIOUS
  <2>1. PICK rank \in [ID \cup {Start, End} -> Nat] : Ranked(rank)
    BY DEF Grounded
  <2> DEFINE T == {rank[op.id] : op \in pendingInserts[c]}
  <2>2. \A op \in pendingInserts[c] : op \in Issued /\ op.id \in ID
    BY InCirculation DEF Inv, TypeOK, InsertOperation
  <2>3. T \subseteq Nat /\ T # {}
    BY <2>2
  <2>4. PICK m \in T : \A n \in T : ~(n < m)
    BY <2>3, LeastNatural
  <2>5. PICK op \in pendingInserts[c] : rank[op.id] = m
    BY <2>4
  <2>6. PICK x \in {op.origin, op.right} : x \notin Present(c)
    BY <1>2 DEF Resolvable
  <2>7. PICK a \in insertLog[c] : a.id = x
    BY <1>1, <1>3, <2>6 DEF IDs
  <2>8. a \in pendingInserts[c]
    BY <1>1, <2>6, <2>7
  <2>9. rank[a.id] < rank[op.id]
    BY <2>1, <2>2, <2>6, <2>7 DEF Ranked
  <2> QED BY <2>4, <2>5, <2>8, <2>9
<1>5. IDs(insertLog[c]) \subseteq Present(c)
  <2>1. insertLog[c] \ pendingInserts[c] = insertLog[c]
    BY <1>4
  <2> QED BY <1>1, <2>1
<1> QED BY <1>2, <1>3, <1>4, <1>5

\* In whatever order the operations arrive, once the log holds what its inserts refer to
\* nothing is pending.
THEOREM NothingIsStuck == Spec => []NothingStuck
<1>1. Inv /\ Grounded => NothingStuck
  BY GroundedNotStuck DEF NothingStuck
<1>2. Spec => Init /\ [][Next]_vars
  BY PTL DEF Spec
<1>3. Spec => []Grounded
  BY <1>2, InitGrounded, NextGrounded, Invariance, PTL
<1> QED BY <1>1, <1>3, Invariance, PTL

-----------------------------------------------------------------------------
\* The loops of an integration.

\* Two loops that begin alike and take each iteration alike are the same loop.
AlikeUpwards(f, g, a, b) ==
  f[a] = g[a] /\ \A p \in a .. b : p # a /\ f[p - 1] = g[p - 1] => f[p] = g[p]

AlikeDownwards(f, g, a, b) ==
  f[b] = g[b] /\ \A p \in a .. b : p # b /\ f[p + 1] = g[p + 1] => f[p] = g[p]

LEMMA AgreeUpwards ==
  ASSUME NEW f, NEW g, NEW a \in Nat, NEW b \in Nat, AlikeUpwards(f, g, a, b)
  PROVE  \A p \in a .. b : f[p] = g[p]
<1> DEFINE T == {p \in a .. b : f[p] # g[p]}
<1>1. T = {}
  <2> SUFFICES ASSUME T # {} PROVE FALSE
    OBVIOUS
  <2>1. T \subseteq Nat
    OBVIOUS
  <2>2. PICK m \in T : \A n \in T : ~(n < m)
    BY <2>1, LeastNatural
  <2>3. m \in a .. b /\ m # a /\ m - 1 \in a .. b /\ m - 1 < m
    BY <2>2 DEF AlikeUpwards
  <2>4. m - 1 \notin T
    BY <2>2, <2>3
  <2>5. f[m] = g[m]
    BY <2>3, <2>4 DEF AlikeUpwards
  <2> QED BY <2>2, <2>5
<1> QED BY <1>1

LEMMA AgreeDownwards ==
  ASSUME NEW f, NEW g, NEW a \in Nat, NEW b \in Nat, AlikeDownwards(f, g, a, b)
  PROVE  \A p \in a .. b : f[p] = g[p]
<1> DEFINE T == {p \in a .. b : f[p] # g[p]}
           S == {b - p : p \in T}
<1>1. T = {}
  <2> SUFFICES ASSUME T # {} PROVE FALSE
    OBVIOUS
  <2>1. S \subseteq Nat /\ S # {}
    OBVIOUS
  <2>2. PICK d \in S : \A n \in S : ~(n < d)
    BY <2>1, LeastNatural
  <2>3. PICK m \in T : d = b - m
    BY <2>2
  <2>4. m # b
    BY <2>3 DEF AlikeDownwards
  <2>5. m + 1 \in a .. b /\ b - (m + 1) < b - m
    BY <2>3, <2>4
  <2>6. m + 1 \notin T
    BY <2>2, <2>3, <2>5
  <2>7. f[m] = g[m]
    BY <2>3, <2>4, <2>5, <2>6 DEF AlikeDownwards
  <2> QED BY <2>3, <2>7
<1> QED BY <1>1

\* conflictZone collects what stands between the origin and the right.
LEMMA WalkedZone ==
  ASSUME NEW l, NEW op, NEW o \in Nat, NEW r \in Nat, o < r,
         o = Position(l, op.origin), r = Position(l, op.right)
  PROVE  /\ Len(WalkZone(l, op)) = r - o - 1
         /\ \A n \in 1 .. r - o - 1 : WalkZone(l, op)[n] = o + n
<1> DEFINE Step(w, p) == IF p = o + 1 THEN <<>> ELSE Append(w[p - 1], p - 1)
           walk == CHOOSE w : w = [p \in o + 1 .. r |-> Step(w, p)]
           Part(p) == [n \in 1 .. p - o - 1 |-> o + n]
           parts == [p \in o + 1 .. r |-> Part(p)]
<1>1. WalkZone(l, op) = walk[r]
  BY DEF WalkZone
<1>2. \A p \in o + 1 .. r : Part(p) \in Seq(Nat) /\ Len(Part(p)) = p - o - 1
  <2> SUFFICES ASSUME NEW p \in o + 1 .. r
               PROVE  Part(p) \in Seq(Nat) /\ Len(Part(p)) = p - o - 1
    OBVIOUS
  <2> DEFINE m == p - o - 1
  <2>1. m \in Nat
    OBVIOUS
  <2> HIDE DEF m
  <2>2. [n \in 1 .. m |-> o + n] \in Seq(Nat) /\ Len([n \in 1 .. m |-> o + n]) = m
    BY <2>1
  <2> QED BY <2>2 DEF m
<1>3. ASSUME NEW p \in o + 1 .. r PROVE parts[p] = Step(parts, p)
  <2>1. CASE p = o + 1
    <3> HIDE DEF Part
    <3>1. Part(p) \in Seq(Nat) /\ Len(Part(p)) = 0
      BY <1>2, <2>1
    <3>2. Part(p) = <<>>
      BY <3>1, EmptySeq
    <3> QED BY <2>1, <3>2
  <2>2. CASE p # o + 1
    <3> DEFINE q == p - 1
    <3>1. q \in o + 1 .. r /\ q \in Nat
      BY <2>2
    <3>2. Part(q) \in Seq(Nat) /\ Len(Part(q)) = q - o - 1
      BY <1>2, <3>1
    <3>3. Part(p) \in Seq(Nat) /\ Len(Part(p)) = p - o - 1
      BY <1>2
    <3>4. \A n \in 1 .. p - o - 1 : Part(p)[n] = o + n
      OBVIOUS
    <3>5. \A n \in 1 .. q - o - 1 : Part(q)[n] = o + n
      OBVIOUS
    <3> HIDE DEF Part
    <3>6. /\ Append(Part(q), q) \in Seq(Nat) /\ Len(Append(Part(q), q)) = q - o
          /\ \A n \in 1 .. q - o - 1 : Append(Part(q), q)[n] = Part(q)[n]
          /\ Append(Part(q), q)[q - o] = q
      BY <3>1, <3>2, AppendProperties
    <3>7. \A n \in 1 .. p - o - 1 : Append(Part(q), q)[n] = Part(p)[n]
      <4> SUFFICES ASSUME NEW n \in 1 .. p - o - 1
                   PROVE  Append(Part(q), q)[n] = Part(p)[n]
        OBVIOUS
      <4>1. CASE n = q - o
        BY <3>4, <3>6, <4>1
      <4>2. CASE n # q - o
        BY <3>4, <3>5, <3>6, <4>2
      <4> QED BY <4>1, <4>2
    <3>8. Append(Part(q), q) = Part(p)
      <4> DEFINE s == Append(Part(q), q)
                 t == Part(p)
      <4>1. /\ s \in Seq(Nat) /\ t \in Seq(Nat) /\ Len(s) = Len(t)
            /\ \A n \in 1 .. Len(s) : s[n] = t[n]
        <5>1. q - o = p - o - 1
          OBVIOUS
        <5> HIDE DEF q
        <5> QED BY <3>3, <3>6, <3>7, <5>1
      <4> HIDE DEF s, t
      <4>2. s = t
        BY <4>1, SeqEqual
      <4> QED BY <4>2 DEF s, t
    <3> QED BY <2>2, <3>1, <3>8
  <2> QED BY <2>1, <2>2
<1>4. parts = [p \in o + 1 .. r |-> Step(parts, p)]
  BY <1>3
<1> HIDE DEF parts, Step
<1>5. walk = [p \in o + 1 .. r |-> Step(walk, p)]
  BY <1>4
<1>6. \A p \in o + 1 .. r : walk[p] = Step(walk, p)
  <2> HIDE DEF walk
  <2> QED BY <1>5
<1> HIDE DEF walk
<1>7. \A p \in o + 1 .. r : walk[p] = parts[p]
  <2>1. o + 1 \in Nat /\ o + 1 \in o + 1 .. r
    OBVIOUS
  <2>2. AlikeUpwards(walk, parts, o + 1, r)
    BY <1>3, <1>6, <2>1 DEF Step, AlikeUpwards
  <2> QED BY <2>1, <2>2, AgreeUpwards
<1>8. walk[r] = Part(r)
  BY <1>7 DEF parts
<1> QED BY <1>1, <1>2, <1>8

\* isOriginAfter meets the origin of the conflicting element before it meets the origin of
\* the insert.
LEMMA WalkedOrigins ==
  ASSUME NEW l \in Seq(Element), WellFormed(l), NEW origin \in ElementIDs(l),
         NEW k \in 1 .. Len(l), l[k].origin \in ElementIDs(l)
  PROVE  WalkOrigins(l, Position(l, origin), k) <=> IsOriginAfter(l, origin, l[k])
<1> DEFINE o == Position(l, origin)
           q == Position(l, l[k].origin)
           Step(w, p) ==
             IF l[p].id = End \/ p = o THEN FALSE
             ELSE IF l[p].id = l[k].origin THEN TRUE
             ELSE w[p + 1]
           walk == CHOOSE w : w = [p \in 2 .. Len(l) |-> Step(w, p)]
           Meets(p) == IF p <= q /\ (o < p \/ q < o) THEN TRUE ELSE FALSE
           meets == [p \in 2 .. Len(l) |-> Meets(p)]
<1>1. WalkOrigins(l, o, k) = walk[2]
  BY DEF WalkOrigins
<1>2. Len(l) \in Nat /\ Len(l) >= 2 /\ l[1].id = Start /\ l[Len(l)].id = End
  BY LenProperties DEF WellFormed
<1>3. /\ o \in 1 .. Len(l) /\ l[o].id = origin
      /\ q \in 1 .. Len(l) /\ l[q].id = l[k].origin
  BY PositionProperties
<1>4. l[k].origin # End
  <2>1. l[k] \in Element
    BY ElementOfSeq
  <2> QED BY <2>1, SentinelsAreNoIDs DEF Element
<1>5. \A j, m \in 1 .. Len(l) : l[j].id = l[m].id => j = m
  BY DEF WellFormed
<1>6. IsOriginAfter(l, origin, l[k]) <=> q # 1 /\ (o = 1 \/ q < o)
  BY <1>2, <1>3, <1>5 DEF IsOriginAfter
<1> HIDE DEF o, q
<1>7. ASSUME NEW p \in 2 .. Len(l)
      PROVE  /\ l[p].id = End <=> p = Len(l)
             /\ l[p].id = l[k].origin <=> p = q
  <2>1. p \in 1 .. Len(l) /\ Len(l) \in 1 .. Len(l)
    BY <1>2
  <2> QED BY <1>2, <1>3, <1>5, <2>1
<1>8. q # Len(l)
  BY <1>2, <1>3, <1>4
<1>9. ASSUME NEW p \in 2 .. Len(l) PROVE meets[p] = Step(meets, p)
  <2>1. CASE p = Len(l) \/ p = o
    <3>1. ~(p <= q /\ (o < p \/ q < o))
      BY <1>2, <1>3, <1>8, <2>1
    <3> QED BY <1>7, <2>1, <3>1
  <2>2. CASE p # Len(l) /\ p # o /\ p = q
    <3>1. p <= q /\ (o < p \/ q < o)
      BY <1>2, <1>3, <2>2
    <3> QED BY <1>7, <2>2, <3>1
  <2>3. CASE p # Len(l) /\ p # o /\ p # q
    <3>1. p + 1 \in 2 .. Len(l)
      BY <1>2, <2>3
    <3>2. p <= q /\ (o < p \/ q < o) <=> p + 1 <= q /\ (o < p + 1 \/ q < o)
      BY <1>2, <1>3, <2>3
    <3>3. Meets(p) = Meets(p + 1)
      BY <3>2
    <3> QED BY <1>7, <2>3, <3>1, <3>3
  <2> QED BY <2>1, <2>2, <2>3
<1>10. meets = [p \in 2 .. Len(l) |-> Step(meets, p)]
  <2> HIDE DEF Step, Meets
  <2> QED BY <1>9
<1> HIDE DEF meets, Step
<1>11. walk = [p \in 2 .. Len(l) |-> Step(walk, p)]
  BY <1>10
<1>12. \A p \in 2 .. Len(l) : walk[p] = Step(walk, p)
  <2> HIDE DEF walk
  <2> QED BY <1>11
<1> HIDE DEF walk
<1>13. \A p \in 2 .. Len(l) : walk[p] = meets[p]
  <2>1. Len(l) \in 2 .. Len(l)
    BY <1>2
  <2>2. walk[Len(l)] = meets[Len(l)]
    BY <1>2, <1>9, <1>12, <2>1 DEF Step
  <2>3. AlikeDownwards(walk, meets, 2, Len(l))
    BY <1>9, <1>12, <2>2 DEF Step, AlikeDownwards
  <2> QED BY <1>2, <2>3, AgreeDownwards
<1>14. walk[2] = Meets(2)
  <2> HIDE DEF Meets
  <2>1. 2 \in 2 .. Len(l)
    BY <1>2
  <2> QED BY <1>13, <2>1 DEF meets
<1>15. 2 <= q /\ (o < 2 \/ q < o) <=> q # 1 /\ (o = 1 \/ q < o)
  BY <1>2, <1>3
<1>16. walk[2] <=> IsOriginAfter(l, origin, l[k])
  BY <1>6, <1>14, <1>15
<1> QED BY <1>1, <1>16 DEF o

\* The place where integrateInsert splices exists, and there is one: the first at which
\* the loop stops.
LEMMA OneInsertionPoint ==
  ASSUME NEW l, NEW op, NEW o \in Nat, NEW r \in Nat, o < r,
         o = Position(l, op.origin), r = Position(l, op.right)
  PROVE  \E k \in o + 1 .. r : \A j \in Nat : IsInsertionPoint(l, op, j) <=> j = k
<1> DEFINE S == Stops(l, op)
<1>1. S \subseteq o + 1 .. r /\ r \in S
  BY DEF Stops, ConflictZone
<1> HIDE DEF S
<1>2. PICK k \in S : \A j \in S : ~(j < k)
  <2>1. S \subseteq Nat /\ S # {}
    BY <1>1
  <2> QED BY <2>1, LeastNatural
<1>3. \A j \in Nat : j \in S /\ (\A n \in S : j <= n) <=> j = k
  BY <1>1, <1>2
<1> QED BY <1>1, <1>3 DEF IsInsertionPoint, S

\* findInsetionPoint moves left and right through the zone until they have the insertion
\* point between them.
LEMMA WalkedConflicts ==
  ASSUME NEW l \in Seq(Element), WellFormed(l),
         \A k \in 2 .. Len(l) - 1 : l[k].id \in ID /\ l[k].origin \in ElementIDs(l),
         NEW op \in InsertOperation, {op.origin, op.right} \subseteq ElementIDs(l),
         ~WalksOff(l, op), NEW st \in Nat, IsInsertionPoint(l, op, st)
  PROVE  WalkConflicts(l, op).left = st - 1 /\ WalkConflicts(l, op).right = st
<1> DEFINE o == Position(l, op.origin)
           r == Position(l, op.right)
           zone == WalkZone(l, op)
           Larger(a, b) == a.clock > b.clock \/ (a.clock = b.clock /\ a.client >= b.client)
           Step(w, n) ==
             IF n = 0 THEN [left |-> o, right |-> o + 1, break |-> FALSE]
             ELSE IF w[n - 1].break THEN w[n - 1]
             ELSE IF WalkOrigins(l, o, zone[n]) THEN [w[n - 1] EXCEPT !.break = TRUE]
             ELSE IF Larger(l[zone[n]].id, op.id)
             THEN [w[n - 1] EXCEPT !.right = zone[n], !.break = TRUE]
             ELSE [left |-> zone[n], right |-> zone[n] + 1, break |-> FALSE]
           walk == CHOOSE w : w = [n \in 0 .. Len(zone) |-> Step(w, n)]
           Pair(n) ==
             IF o + n < st THEN [left |-> o + n, right |-> o + n + 1, break |-> FALSE]
             ELSE [left |-> st - 1, right |-> st, break |-> TRUE]
           pairs == [n \in 0 .. Len(zone) |-> Pair(n)]
<1>1. WalkConflicts(l, op) = walk[Len(zone)]
  BY DEF WalkConflicts
<1>2. Len(l) \in Nat
  BY LenProperties
<1>3. o \in 1 .. Len(l) /\ r \in 1 .. Len(l)
  BY PositionProperties
<1>4. o \in Nat /\ r \in Nat /\ o < r
  BY <1>2, <1>3 DEF WalksOff
<1>5. Len(zone) = r - o - 1 /\ \A n \in 1 .. r - o - 1 : zone[n] = o + n
  <2> HIDE DEF o, r, zone
  <2>1. o = Position(l, op.origin) /\ r = Position(l, op.right)
    BY DEF o, r
  <2> QED BY <1>4, <2>1, WalkedZone DEF zone
<1>6. /\ st \in o + 1 .. r
      /\ st # r => StopsAt(l, op, st)
      /\ \A k \in o + 1 .. r - 1 : k < st => ~StopsAt(l, op, k)
  <2>1. st \in Stops(l, op) /\ \A k \in Stops(l, op) : st <= k
    BY DEF IsInsertionPoint
  <2>2. Stops(l, op) = {k \in o + 1 .. r - 1 : StopsAt(l, op, k)} \cup {r}
    BY DEF Stops, ConflictZone
  <2> HIDE DEF o, r
  <2> QED BY <1>4, <2>1, <2>2
<1>7. ASSUME NEW k \in o + 1 .. r - 1
      PROVE  StopsAt(l, op, k) <=> WalkOrigins(l, o, k) \/ Larger(l[k].id, op.id)
  <2>1. k \in 2 .. Len(l) - 1 /\ k \in 1 .. Len(l)
    BY <1>2, <1>3
  <2>2. WalkOrigins(l, o, k) <=> IsOriginAfter(l, op.origin, l[k])
    BY <2>1, WalkedOrigins
  <2>3. Larger(l[k].id, op.id) <=> ~IDLess(l[k].id, op.id)
    <3>1. l[k].id \in ID /\ op.id \in ID
      BY <2>1 DEF InsertOperation
    <3>2. /\ l[k].id.clock \in Nat /\ op.id.clock \in Nat
          /\ l[k].id.client \in Nat /\ op.id.client \in Nat
      BY <3>1, ClientAssumption DEF ID
    <3> QED BY <3>2 DEF IDLess
  <2> QED BY <2>2, <2>3 DEF StopsAt
<1> HIDE DEF o, r, zone, Larger
<1>8. ASSUME NEW n \in 0 .. Len(zone) PROVE pairs[n] = Step(pairs, n)
  <2>1. CASE n = 0
    <3>1. o + 0 < st /\ o + 0 = o /\ o + 0 + 1 = o + 1
      BY <1>4, <1>6
    <3> QED BY <2>1, <3>1
  <2>2. CASE n # 0
    <3>1. /\ n - 1 \in 0 .. Len(zone) /\ n \in 1 .. r - o - 1
          /\ o + n \in o + 1 .. r - 1 /\ zone[n] = o + n
      BY <1>4, <1>5, <2>2
    <3>2. pairs[n] = Pair(n) /\ pairs[n - 1] = Pair(n - 1)
      BY <3>1
    <3>3. StopsAt(l, op, o + n) <=>
            WalkOrigins(l, o, zone[n]) \/ Larger(l[zone[n]].id, op.id)
      BY <1>7, <3>1
    <3> HIDE DEF pairs
    <3>4. CASE st < o + n
      <4>1. Pair(n - 1) = Pair(n) /\ Pair(n - 1).break
        BY <1>4, <1>6, <3>1, <3>4
      <4> HIDE DEF Pair
      <4> QED BY <2>2, <3>2, <4>1
    <3>5. CASE st = o + n
      <4>1. StopsAt(l, op, o + n)
        BY <1>6, <3>1, <3>5
      <4>2. /\ Pair(n - 1) = [left |-> st - 1, right |-> st, break |-> FALSE]
            /\ Pair(n) = [left |-> st - 1, right |-> st, break |-> TRUE]
        BY <1>4, <1>6, <3>1, <3>5
      <4> HIDE DEF Pair
      <4> DEFINE w == pairs[n - 1]
      <4>5. w = [left |-> st - 1, right |-> st, break |-> FALSE]
        BY <3>2, <4>2
      <4>6. Step(pairs, n) =
              IF WalkOrigins(l, o, zone[n]) THEN [w EXCEPT !.break = TRUE]
              ELSE IF Larger(l[zone[n]].id, op.id)
              THEN [w EXCEPT !.right = zone[n], !.break = TRUE]
              ELSE [left |-> zone[n], right |-> zone[n] + 1, break |-> FALSE]
        BY <2>2, <4>5
      <4> HIDE DEF w, Step
      <4>3. CASE WalkOrigins(l, o, zone[n])
        BY <3>2, <4>2, <4>3, <4>5, <4>6
      <4>4. CASE ~WalkOrigins(l, o, zone[n])
        <5>1. Larger(l[zone[n]].id, op.id) /\ zone[n] = st
          BY <3>1, <3>3, <3>5, <4>1, <4>4
        <5> QED BY <3>2, <4>2, <4>4, <4>5, <4>6, <5>1
      <4> QED BY <4>3, <4>4
    <3>6. CASE o + n < st
      <4>1. ~StopsAt(l, op, o + n)
        BY <1>6, <3>1, <3>6
      <4>2. /\ ~Pair(n - 1).break
            /\ Pair(n) = [left |-> o + n, right |-> o + n + 1, break |-> FALSE]
        BY <1>4, <1>6, <3>1, <3>6
      <4> HIDE DEF Pair
      <4> QED BY <2>2, <3>1, <3>2, <3>3, <4>1, <4>2
    <3> QED BY <1>4, <1>6, <3>1, <3>4, <3>5, <3>6
  <2> QED BY <2>1, <2>2
<1>9. pairs = [n \in 0 .. Len(zone) |-> Step(pairs, n)]
  <2> HIDE DEF Step, Pair
  <2> QED BY <1>8
<1> HIDE DEF pairs, Step
<1>10. walk = [n \in 0 .. Len(zone) |-> Step(walk, n)]
  BY <1>9
<1>11. \A n \in 0 .. Len(zone) : walk[n] = Step(walk, n)
  <2> HIDE DEF walk
  <2> QED BY <1>10
<1> HIDE DEF walk
<1>12. Len(zone) \in Nat /\ Len(zone) = r - o - 1
  BY <1>4, <1>5
<1>13. \A n \in 0 .. Len(zone) : walk[n] = pairs[n]
  <2>1. AlikeUpwards(walk, pairs, 0, Len(zone))
    <3>1. 0 \in 0 .. Len(zone) /\ Step(walk, 0) = Step(pairs, 0)
      BY <1>12 DEF Step
    <3>2. walk[0] = pairs[0]
      BY <1>8, <1>11, <3>1
    <3>3. ASSUME NEW n \in 0 .. Len(zone), n # 0, walk[n - 1] = pairs[n - 1]
          PROVE  walk[n] = pairs[n]
      <4>1. Step(walk, n) = Step(pairs, n)
        BY <3>3 DEF Step
      <4> QED BY <1>8, <1>11, <4>1
    <3> QED BY <3>2, <3>3 DEF AlikeUpwards
  <2> QED BY <1>12, <2>1, AgreeUpwards
<1>14. walk[Len(zone)] = Pair(Len(zone))
  <2> HIDE DEF Pair
  <2> QED BY <1>12, <1>13 DEF pairs
<1>15. Pair(Len(zone)).left = st - 1 /\ Pair(Len(zone)).right = st
  BY <1>4, <1>6, <1>12
<1> QED BY <1>1, <1>14, <1>15 DEF zone

\* The origin of every element is in the list as well.
Rooted(l) ==
  \A k \in 1..Len(l) : l[k].id \notin {Start, End} => l[k].origin \in ElementIDs(l)

RootedInv == \A c \in Client : Rooted(list[c])

LEMMA InitRooted == Init => RootedInv
<1>1. \A k \in 1..Len(NewList) : NewList[k].id \in {Start, End}
  BY DEF NewList
<1> QED BY <1>1 DEF Init, RootedInv, Rooted

LEMMA ListsGrow ==
  ASSUME Inv, Inv', [Next]_vars, NEW c \in Client
  PROVE  Present(c) \subseteq Present(c)' /\ (Rooted(list[c]) => Rooted(list[c])')
<1>1. CASE list'[c] = list[c]
  BY <1>1 DEF Present, Rooted
<1>2. ASSUME NEW op \in InsertOperation, NEW k \in 2..Len(list[c]), SplicesAt(c, op, k)
      PROVE  Present(c) \subseteq Present(c)' /\ (Rooted(list[c]) => Rooted(list[c])')
  <2> DEFINE l == list[c]
             new == list'[c]
  <2>1. /\ l \in Seq(Element) /\ WellFormed(l) /\ Len(l) \in Nat /\ k \in 1..Len(l)
        /\ new = InsertAt(l, k, ElementOf(op))
        /\ op.id \notin ElementIDs(l) /\ op.origin \in ElementIDs(l)
    BY <1>2, LenProperties DEF Inv, TypeOK, WellFormedList, SplicesAt, Present
  <2>2. /\ ElementOf(op) \in Element
        /\ ElementOf(op).id = op.id /\ ElementOf(op).origin = op.origin
    BY DEF ElementOf, Element, InsertOperation
  <2> HIDE DEF l, new
  <2>3. ElementIDs(new) = ElementIDs(l) \cup {op.id}
    BY <2>1, <2>2, SpliceProperties
  <2>4. /\ Len(new) = Len(l) + 1
        /\ \A j \in 1..Len(l) + 1 :
             new[j] = IF j < k THEN l[j] ELSE IF j = k THEN ElementOf(op) ELSE l[j - 1]
    <3>1. l \in Seq(Element) /\ ElementOf(op) \in Element /\ k \in 1..Len(l)
      BY <2>1, <2>2
    <3>2. /\ Len(InsertAt(l, k, ElementOf(op))) = Len(l) + 1
          /\ \A j \in 1..Len(l) + 1 :
               InsertAt(l, k, ElementOf(op))[j] =
                 IF j < k THEN l[j] ELSE IF j = k THEN ElementOf(op) ELSE l[j - 1]
      BY <3>1, InsertAtProperties
    <3> QED BY <2>1, <3>2
  <2>5. ASSUME Rooted(l), NEW j \in 1..Len(new), new[j].id \notin {Start, End}
        PROVE  new[j].origin \in ElementIDs(new)
    <3>1. CASE j < k
      <4>1. j \in 1..Len(l) /\ new[j] = l[j]
        BY <2>1, <2>4, <3>1
      <4> QED BY <2>3, <2>5, <4>1 DEF Rooted
    <3>2. CASE j = k
      BY <2>1, <2>2, <2>3, <2>4, <3>2
    <3>3. CASE j > k
      <4>1. j - 1 \in 1..Len(l) /\ new[j] = l[j - 1]
        BY <2>1, <2>4, <3>3
      <4> QED BY <2>3, <2>5, <4>1 DEF Rooted
    <3> QED BY <2>1, <2>4, <3>1, <3>2, <3>3
  <2> QED BY <2>3, <2>5 DEF Present, Rooted, l, new
<1>3. ListStep(c)
  BY StepIsListStep
<1> QED BY <1>1, <1>2, <1>3 DEF ListStep

LEMMA NextRooted == Inv /\ Inv' /\ RootedInv /\ [Next]_vars => RootedInv'
BY ListsGrow DEF RootedInv

LEMMA InvLoopAgrees == Inv /\ RootedInv => LoopAgrees
<1> SUFFICES ASSUME Inv, RootedInv, NEW c \in Client, NEW op \in Issued,
                    Resolvable(c, op), ~WalksOff(list[c], op)
             PROVE  LET point == WalkConflicts(list[c], op)
                    IN  /\ point.right = point.left + 1 /\ point.right \in 2 .. Len(list[c])
                        /\ \A k \in 1 .. Len(list[c]) :
                             IsInsertionPoint(list[c], op, k) <=> k = point.right
  BY DEF LoopAgrees
<1> DEFINE l == list[c]
           o == Position(l, op.origin)
           r == Position(l, op.right)
<1>1. l \in Seq(Element) /\ WellFormed(l) /\ Rooted(l) /\ Len(l) \in Nat
  BY LenProperties DEF Inv, TypeOK, WellFormedList, RootedInv
<1>2. op \in InsertOperation
  BY DEF Inv, TypeOK, Issued
<1>3. {op.origin, op.right} \subseteq ElementIDs(l)
  BY DEF Resolvable, Present
<1> HIDE DEF l
<1>4. \A k \in 2 .. Len(l) - 1 : l[k].id \in ID /\ l[k].origin \in ElementIDs(l)
  <2> SUFFICES ASSUME NEW k \in 2 .. Len(l) - 1
               PROVE  l[k].id \in ID /\ l[k].origin \in ElementIDs(l)
    OBVIOUS
  <2>1. /\ k \in 1 .. Len(l) /\ 1 \in 1 .. Len(l) /\ Len(l) \in 1 .. Len(l)
        /\ k # 1 /\ k # Len(l)
    BY <1>1
  <2>2. l[k].id \notin {Start, End}
    BY <1>1, <2>1 DEF WellFormed
  <2>3. l[k] \in Element
    BY <1>1, <2>1, ElementOfSeq
  <2> QED BY <1>1, <2>1, <2>2, <2>3 DEF Rooted, Element
<1>5. o \in 1 .. Len(l) /\ r \in 1 .. Len(l)
  BY <1>3, PositionProperties
<1>6. o \in Nat /\ r \in Nat /\ o < r
  BY <1>1, <1>5 DEF WalksOff, l
<1>7. PICK k \in o + 1 .. r : \A j \in Nat : IsInsertionPoint(l, op, j) <=> j = k
  <2>1. o = Position(l, op.origin) /\ r = Position(l, op.right)
    OBVIOUS
  <2> HIDE DEF o, r
  <2> QED BY <1>6, <2>1, OneInsertionPoint
<1>8. k \in Nat /\ k \in 2 .. Len(l)
  BY <1>1, <1>5, <1>6
<1>9. WalkConflicts(l, op).left = k - 1 /\ WalkConflicts(l, op).right = k
  <2>1. IsInsertionPoint(l, op, k) /\ ~WalksOff(l, op)
    BY <1>7, <1>8 DEF l
  <2> QED BY <1>1, <1>2, <1>3, <1>4, <1>8, <2>1, WalkedConflicts
<1>10. \A j \in 1 .. Len(l) : IsInsertionPoint(l, op, j) <=> j = k
  BY <1>1, <1>7
<1> QED BY <1>8, <1>9, <1>10 DEF l

\* For every list a replica can have and every insert it can be asked to integrate, the
\* loops of conflictZone, isOriginAfter and findInsetionPoint arrive at two neighbours, and
\* between the two is the one place that the declarative definition allows.
THEOREM LoopsAgree == Spec => []LoopAgrees
<1>1. Init /\ Inv => Inv /\ RootedInv
  BY InitRooted
<1>2. Inv /\ RootedInv /\ [Next]_vars => Inv' /\ RootedInv'
  BY NextInv, NextRooted
<1> QED BY <1>1, <1>2, InitInv, InvLoopAgrees, PTL DEF Spec

-----------------------------------------------------------------------------
\* The end of a handler.

Replica(c) ==
  <<clock[c], list[c], tombstones[c], characterCounter[c], insertLog[c], deleteLog[c],
    pendingInserts[c], pendingDeletes[c], todoInserts[c], todoDeletes[c], draining[c]>>

\* What the handler that runs in c has before it, at most: an insert of the delta may go to
\* the pending map and begin a processPending.
Work(c) ==
  3 * Cardinality(todoInserts[c]) + Cardinality(pendingInserts[c])
    + Cardinality(todoDeletes[c]) + (IF draining[c] THEN 1 ELSE 0)

\* IntegrateDelta and the loop of processPending cannot run forever: every step of a
\* handler that has begun brings its end nearer.
HandlersEnd ==
  [][\A c \in Client : Idle(c) \/ UNCHANGED Replica(c) \/ Work(c)' < Work(c)]_vars

FiniteAt(c) ==
  /\ IsFiniteSet(insertLog[c]) /\ IsFiniteSet(deleteLog[c])
  /\ IsFiniteSet(todoInserts[c]) /\ IsFiniteSet(todoDeletes[c])

FiniteInv == \A c \in Client : FiniteAt(c)

LEMMA InitFinite == Init => FiniteInv
<1>1. IsFiniteSet({})
  BY FS_EmptySet
<1> QED BY <1>1 DEF Init, FiniteInv, FiniteAt

LEMMA LogsStayFinite ==
  ASSUME Inv, Inv', FiniteInv, [Next]_vars, NEW c \in Client
  PROVE  IsFiniteSet(insertLog'[c]) /\ IsFiniteSet(deleteLog'[c])
<1>1. /\ insertLog \in [Client -> SUBSET InsertOperation] /\ deleteLog \in [Client -> SUBSET ID]
      /\ IsFiniteSet(insertLog[c]) /\ IsFiniteSet(deleteLog[c])
  BY DEF Inv, TypeOK, FiniteInv, FiniteAt
<1>2. CASE UNCHANGED Log!vars
  BY <1>1, <1>2 DEF Log!vars
<1>3. CASE Log!Next
  <2>1. \/ UNCHANGED <<insertLog[c], deleteLog[c]>>
        \/ \E x : insertLog'[c] = insertLog[c] \cup {x} /\ deleteLog'[c] = deleteLog[c]
        \/ \E x : deleteLog'[c] = deleteLog[c] \cup {x} /\ insertLog'[c] = insertLog[c]
    BY <1>1, <1>3 DEF Log!Next, Log!Insert, Log!Delete, Log!LearnInsert, Log!LearnDelete
  <2> QED BY <1>1, <2>1, FS_AddElement
<1>4. Log!Next \/ UNCHANGED Log!vars
  BY NextRefines
<1> QED BY <1>2, <1>3, <1>4

\* What a step leaves of a delta, or the delta it begins with.
LEMMA DeltaStep ==
  ASSUME Inv, [Next]_vars, NEW c \in Client
  PROVE  /\ \/ todoInserts'[c] \subseteq todoInserts[c]
            \/ \E p \in Client : todoInserts'[c] \subseteq insertLog[p]
         /\ \/ todoDeletes'[c] \subseteq todoDeletes[c]
            \/ \E p \in Client : todoDeletes'[c] \subseteq deleteLog[p]
<1> DEFINE Goal == /\ \/ todoInserts'[c] \subseteq todoInserts[c]
                      \/ \E p \in Client : todoInserts'[c] \subseteq insertLog[p]
                   /\ \/ todoDeletes'[c] \subseteq todoDeletes[c]
                      \/ \E p \in Client : todoDeletes'[c] \subseteq deleteLog[p]
<1>0. todoInserts \in [Client -> SUBSET InsertOperation] /\ todoDeletes \in [Client -> SUBSET ID]
  BY DEF Inv, TypeOK
<1>1. ASSUME UNCHANGED <<todoInserts, todoDeletes>> PROVE Goal
  BY <1>1
<1>2. ASSUME NEW d \in Client, Local(d) PROVE Goal
  BY <1>1, <1>2 DEF Local, InsertElement, DeleteElement, handler
<1>3. ASSUME NEW d \in Client, Remote(d) PROVE Goal
  <2>1. ASSUME NEW op, RemoteInsert(d, op) PROVE Goal
    BY <1>0, <2>1 DEF RemoteInsert
  <2>2. ASSUME Abort(d) PROVE Goal
    BY <1>0, <2>2 DEF Abort
  <2>3. ASSUME NEW op, ProcessPending(d, op) PROVE Goal
    BY <1>1, <2>3 DEF ProcessPending, handler
  <2>4. ASSUME ProcessPendingDeletes(d) PROVE Goal
    BY <1>1, <2>4 DEF ProcessPendingDeletes
  <2>5. ASSUME NEW id, RemoteDelete(d, id) PROVE Goal
    BY <1>0, <2>5 DEF RemoteDelete
  <2>6. ASSUME NEW p \in Client, NEW r, IntegrateDelta(d, p, r) PROVE Goal
    BY <1>0, <2>6 DEF IntegrateDelta, MissingInserts, MissingDeletes
  <2> HIDE DEF Goal
  <2> QED BY <1>3, <2>1, <2>2, <2>3, <2>4, <2>5, <2>6
      DEF Remote, RemoteInsertAborts, ProcessPendingAborts
<1>4. ASSUME UNCHANGED vars PROVE Goal
  BY <1>1, <1>4 DEF vars, handler
<1> HIDE DEF Goal
<1>5. Goal
  <2>1. CASE Next
    <3>1. PICK d \in Client : Local(d) \/ Remote(d)
      BY <2>1 DEF Next
    <3> QED BY <1>2, <1>3, <3>1
  <2> QED BY <1>4, <2>1
<1> QED BY <1>5 DEF Goal

LEMMA NextFinite == Inv /\ Inv' /\ FiniteInv /\ [Next]_vars => FiniteInv'
<1> SUFFICES ASSUME Inv, Inv', FiniteInv, [Next]_vars, NEW c \in Client PROVE FiniteAt(c)'
  BY DEF FiniteInv
<1>1. IsFiniteSet(insertLog'[c]) /\ IsFiniteSet(deleteLog'[c])
  BY LogsStayFinite
<1>2. IsFiniteSet(todoInserts'[c]) /\ IsFiniteSet(todoDeletes'[c])
  <2>1. \A p \in Client : FiniteAt(p)
    BY DEF FiniteInv
  <2> QED BY <2>1, DeltaStep, FS_Subset DEF FiniteAt
<1> QED BY <1>1, <1>2 DEF FiniteAt

LEMMA Shrinks ==
  ASSUME NEW S, IsFiniteSet(S), NEW T, T \subseteq S
  PROVE  /\ Cardinality(S) \in Nat /\ Cardinality(T) \in Nat
         /\ Cardinality(T) <= Cardinality(S)
         /\ T # S => Cardinality(T) < Cardinality(S)
<1>1. IsFiniteSet(T) /\ Cardinality(T) <= Cardinality(S)
      /\ (Cardinality(S) = Cardinality(T) => S = T)
  BY FS_Subset
<1>2. Cardinality(S) \in Nat /\ Cardinality(T) \in Nat
  BY <1>1, FS_CardinalityType
<1> QED BY <1>1, <1>2

\* The four ways in which a handler gets on.
LEMMA LessWork ==
  ASSUME Inv, FiniteInv, NEW c \in Client,
         todoInserts'[c] \subseteq todoInserts[c], todoDeletes'[c] \subseteq todoDeletes[c],
         draining'[c] \in BOOLEAN,
         \/ \E op \in todoInserts[c] \ todoInserts'[c] :
              pendingInserts'[c] \subseteq pendingInserts[c] \cup {op}
         \/ /\ pendingInserts'[c] \subseteq pendingInserts[c]
            /\ draining'[c] => draining[c]
            /\ \/ pendingInserts'[c] # pendingInserts[c]
               \/ todoDeletes'[c] # todoDeletes[c]
               \/ draining'[c] # draining[c]
  PROVE  Work(c)' < Work(c)
<1> DEFINE ti == Cardinality(todoInserts[c])
           tii == Cardinality(todoInserts'[c])
           pi == Cardinality(pendingInserts[c])
           pii == Cardinality(pendingInserts'[c])
           td == Cardinality(todoDeletes[c])
           tdd == Cardinality(todoDeletes'[c])
           d == IF draining[c] THEN 1 ELSE 0
           dd == IF draining'[c] THEN 1 ELSE 0
<1>1. /\ IsFiniteSet(todoInserts[c]) /\ IsFiniteSet(todoDeletes[c])
      /\ IsFiniteSet(pendingInserts[c])
  <2>1. pendingInserts[c] \in SUBSET insertLog[c]
    BY DEF Inv, LogsPartition
  <2> QED BY <2>1, FS_Subset DEF FiniteInv, FiniteAt
<1>2. /\ ti \in Nat /\ tii \in Nat /\ tii <= ti
      /\ td \in Nat /\ tdd \in Nat /\ tdd <= td
      /\ todoInserts'[c] # todoInserts[c] => tii < ti
      /\ todoDeletes'[c] # todoDeletes[c] => tdd < td
  BY <1>1, Shrinks
<1>3. d \in 0 .. 1 /\ dd \in 0 .. 1
  OBVIOUS
<1>4. draining[c] \in BOOLEAN /\ pi \in Nat
  BY <1>1, FS_CardinalityType DEF Inv, TypeOK
<1>5. Work(c) = 3 * ti + pi + td + d /\ Work(c)' = 3 * tii + pii + tdd + dd
  BY DEF Work
<1>6. ASSUME NEW op \in todoInserts[c] \ todoInserts'[c],
             pendingInserts'[c] \subseteq pendingInserts[c] \cup {op}
      PROVE  Work(c)' < Work(c)
  <2>1. /\ IsFiniteSet(pendingInserts[c] \cup {op})
        /\ Cardinality(pendingInserts[c] \cup {op}) <= pi + 1
    <3>1. /\ IsFiniteSet(pendingInserts[c] \cup {op})
          /\ Cardinality(pendingInserts[c] \cup {op}) =
               IF op \in pendingInserts[c] THEN pi ELSE pi + 1
      BY <1>1, FS_AddElement
    <3> HIDE DEF pi
    <3> QED BY <1>4, <3>1
  <2>2. pii \in Nat /\ pii <= pi + 1
    <3>1. /\ Cardinality(pendingInserts[c] \cup {op}) \in Nat /\ pii \in Nat
          /\ pii <= Cardinality(pendingInserts[c] \cup {op})
      BY <1>6, <2>1, Shrinks
    <3> HIDE DEF pii, pi
    <3> QED BY <1>4, <2>1, <3>1
  <2>3. tii < ti
    BY <1>2, <1>6
  <2> HIDE DEF ti, tii, pi, pii, td, tdd, d, dd
  <2> QED BY <1>2, <1>3, <1>4, <1>5, <2>2, <2>3
<1>7. ASSUME pendingInserts'[c] \subseteq pendingInserts[c], draining'[c] => draining[c],
             \/ pendingInserts'[c] # pendingInserts[c]
             \/ todoDeletes'[c] # todoDeletes[c]
             \/ draining'[c] # draining[c]
      PROVE  Work(c)' < Work(c)
  <2>1. /\ pii \in Nat /\ pii <= pi
        /\ pendingInserts'[c] # pendingInserts[c] => pii < pi
    BY <1>1, <1>7, Shrinks
  <2>2. dd <= d /\ (draining'[c] # draining[c] => dd < d)
    BY <1>4, <1>7
  <2>3. pii < pi \/ tdd < td \/ dd < d
    BY <1>2, <1>7, <2>1, <2>2
  <2> HIDE DEF ti, tii, pi, pii, td, tdd, d, dd
  <2> QED BY <1>2, <1>3, <1>4, <1>5, <2>1, <2>2, <2>3
<1> QED BY <1>6, <1>7

LEMMA RemoteWorks ==
  ASSUME Inv, Inv', FiniteInv, NEW c \in Client, Remote(c), ~Idle(c)
  PROVE  Work(c)' < Work(c)
<1>0. /\ todoInserts \in [Client -> SUBSET InsertOperation]
      /\ todoDeletes \in [Client -> SUBSET ID]
      /\ pendingInserts \in [Client -> SUBSET InsertOperation]
      /\ draining \in [Client -> BOOLEAN] /\ draining'[c] \in BOOLEAN
  BY DEF Inv, TypeOK
<1>1. ASSUME NEW op, RemoteInsert(c, op) PROVE Work(c)' < Work(c)
  <2>1. op \in todoInserts[c]
    BY <1>1 DEF RemoteInsert, Takes
  <2>2. /\ todoInserts'[c] = todoInserts[c] \ {op} /\ todoDeletes'[c] = todoDeletes[c]
    BY <1>0, <1>1 DEF RemoteInsert
  <2>3. pendingInserts'[c] \subseteq pendingInserts[c] \cup {op}
    BY <1>0, <1>1 DEF RemoteInsert, SkipInsert, ParkInsert, ApplyInsert, pendings
  <2> QED BY <1>0, <2>1, <2>2, <2>3, LessWork
<1>2. ASSUME NEW op, RemoteInsertAborts(c, op) PROVE Work(c)' < Work(c)
  <2>1. op \in todoInserts[c]
    BY <1>2 DEF RemoteInsertAborts, Takes
  <2>2. /\ todoInserts'[c] = {} /\ todoDeletes'[c] = {}
        /\ pendingInserts'[c] = pendingInserts[c]
    BY <1>0, <1>2 DEF RemoteInsertAborts, Abort, pendings
  <2> QED BY <1>0, <2>1, <2>2, LessWork
<1>3. ASSUME NEW op, ProcessPending(c, op) PROVE Work(c)' < Work(c)
  <2>1. /\ todoInserts'[c] = todoInserts[c] /\ todoDeletes'[c] = todoDeletes[c]
        /\ draining'[c] = draining[c] /\ op \in pendingInserts[c]
        /\ pendingInserts'[c] = pendingInserts[c] \ {op}
    BY <1>0, <1>3 DEF ProcessPending, handler
  <2> QED BY <1>0, <2>1, LessWork
<1>4. ASSUME NEW op, ProcessPendingAborts(c, op) PROVE Work(c)' < Work(c)
  <2>1. /\ todoInserts'[c] = {} /\ todoDeletes'[c] = {}
        /\ draining'[c] = FALSE /\ draining[c]
        /\ pendingInserts'[c] = pendingInserts[c]
    BY <1>0, <1>4 DEF ProcessPendingAborts, Abort, pendings
  <2> QED BY <1>0, <2>1, LessWork
<1>5. ASSUME ProcessPendingDeletes(c) PROVE Work(c)' < Work(c)
  <2>1. /\ todoInserts'[c] = todoInserts[c] /\ todoDeletes'[c] = todoDeletes[c]
        /\ draining'[c] = FALSE /\ draining[c]
        /\ pendingInserts'[c] = pendingInserts[c]
    BY <1>0, <1>5 DEF ProcessPendingDeletes
  <2> QED BY <1>0, <2>1, LessWork
<1>6. ASSUME NEW id, RemoteDelete(c, id) PROVE Work(c)' < Work(c)
  <2>1. /\ id \in todoDeletes[c] /\ todoInserts'[c] = todoInserts[c]
        /\ todoDeletes'[c] = todoDeletes[c] \ {id}
        /\ draining'[c] = draining[c] /\ pendingInserts'[c] = pendingInserts[c]
    BY <1>0, <1>6 DEF RemoteDelete
  <2> QED BY <1>0, <2>1, LessWork
<1>7. ASSUME NEW p, NEW r, IntegrateDelta(c, p, r) PROVE FALSE
  BY <1>7 DEF IntegrateDelta
<1> QED BY <1>1, <1>2, <1>3, <1>4, <1>5, <1>6, <1>7 DEF Remote

LEMMA OthersUntouched ==
  ASSUME TypeOK, NEW c \in Client, NEW d \in Client \ {c}, Local(c) \/ Remote(c)
  PROVE  UNCHANGED Replica(d)
<1>1. CASE Local(c)
  BY <1>1 DEF Local, InsertElement, DeleteElement, TypeOK, Replica, pendings, handler
<1>2. ASSUME NEW op, RemoteInsert(c, op) PROVE UNCHANGED Replica(d)
  BY <1>2 DEF RemoteInsert, SkipInsert, ParkInsert, ApplyInsert, IntegrateInsert, TypeOK,
              Replica, logs, pendings
<1>3. CASE Abort(c)
  BY <1>3 DEF Abort, TypeOK, Replica, logs, pendings
<1>4. ASSUME NEW op, ProcessPending(c, op) PROVE UNCHANGED Replica(d)
  BY <1>4 DEF ProcessPending, IntegrateInsert, TypeOK, Replica, handler
<1>5. CASE ProcessPendingDeletes(c)
  BY <1>5 DEF ProcessPendingDeletes, TypeOK, Replica
<1>6. ASSUME NEW id, RemoteDelete(c, id) PROVE UNCHANGED Replica(d)
  BY <1>6 DEF RemoteDelete, TypeOK, Replica
<1>7. ASSUME NEW p, NEW r, IntegrateDelta(c, p, r) PROVE UNCHANGED Replica(d)
  BY <1>7 DEF IntegrateDelta, TypeOK, Replica, logs, pendings
<1> QED BY <1>1, <1>2, <1>3, <1>4, <1>5, <1>6, <1>7
    DEF Remote, RemoteInsertAborts, ProcessPendingAborts

\* Whatever the delta and the pending maps hold, the loops of IntegrateDelta and of
\* processPending run a bounded number of times.
THEOREM HandlersGetOn == Spec => HandlersEnd
<1> DEFINE GetsOn(c) == Idle(c) \/ UNCHANGED Replica(c) \/ Work(c)' < Work(c)
<1>1. Inv /\ Inv' /\ FiniteInv /\ [Next]_vars => [\A c \in Client : GetsOn(c)]_vars
  <2> SUFFICES ASSUME Inv, Inv', FiniteInv, Next, NEW c \in Client, ~Idle(c)
               PROVE  UNCHANGED Replica(c) \/ Work(c)' < Work(c)
    OBVIOUS
  <2>1. PICK d \in Client : Local(d) \/ Remote(d)
    BY DEF Next
  <2>2. TypeOK
    BY DEF Inv
  <2>3. CASE d # c
    BY <2>1, <2>2, <2>3, OthersUntouched
  <2>4. CASE d = c
    <3>1. ~Local(c)
      BY DEF Local, InsertElement, DeleteElement
    <3> QED BY <2>1, <2>4, <3>1, RemoteWorks
  <2> QED BY <2>3, <2>4
<1>2. Init => FiniteInv
  BY InitFinite
<1>3. Inv /\ Inv' /\ FiniteInv /\ [Next]_vars => FiniteInv'
  BY NextFinite
<1> QED BY <1>1, <1>2, <1>3, Invariance, PTL DEF Spec, HandlersEnd

=============================================================================
