--------------------------- MODULE DocumentProofs ---------------------------
(***************************************************************************)
(* The safety of the replicas, for any number of clients and operations:   *)
(* lemmas about the list operators of Yata, the inductive invariant of     *)
(* Document and what follows from it.                                      *)
(***************************************************************************)
EXTENDS Document, TLAPS, SequenceTheorems, FiniteSetTheorems, FunctionTheorems

-----------------------------------------------------------------------------
\* The list operators: what InsertAt returns, where Position points, how the keys of a
\* list change when an element is spliced in, and how many keys there are.

\* Splicing into a sequence moves what follows by one place.
LEMMA InsertAtProperties ==
  ASSUME NEW S, NEW s \in Seq(S), NEW e \in S, NEW k \in 1..Len(s)
  PROVE  /\ InsertAt(s, k, e) \in Seq(S)
         /\ Len(InsertAt(s, k, e)) = Len(s) + 1
         /\ \A j \in 1..Len(s) + 1 :
              InsertAt(s, k, e)[j] = IF j < k THEN s[j] ELSE IF j = k THEN e ELSE s[j - 1]
<1> DEFINE left == SubSeq(s, 1, k - 1)
           right == SubSeq(s, k, Len(s))
<1>1. Len(s) \in Nat /\ \A j \in 1..Len(s) : s[j] \in S
  BY LenProperties, ElementOfSeq
<1>2. /\ left \in Seq(S) /\ Len(left) = k - 1
      /\ \A j \in 1..k - 1 : left[j] = s[j]
  BY <1>1, SubSeqProperties
<1>3. /\ right \in Seq(S) /\ Len(right) = Len(s) - k + 1
      /\ \A j \in 1..Len(s) - k + 1 : right[j] = s[k + j - 1]
  BY <1>1, SubSeqProperties
<1> DEFINE one == <<e>>
<1>4. one \in Seq(S) /\ Len(one) = 1 /\ one[1] = e
  OBVIOUS
<1> HIDE DEF left, right, one
<1>5. /\ left \o one \in Seq(S) /\ Len(left \o one) = k
      /\ \A j \in 1..k : (left \o one)[j] = IF j < k THEN s[j] ELSE e
  <2>1. /\ left \o one \in Seq(S)
        /\ Len(left \o one) = Len(left) + Len(one)
        /\ \A j \in 1..Len(left) + Len(one) :
             (left \o one)[j] = IF j <= Len(left) THEN left[j] ELSE one[j - Len(left)]
    BY ConcatProperties, <1>2, <1>4
  <2> QED BY <2>1, <1>1, <1>2, <1>4
<1> DEFINE front == left \o one
<1> HIDE DEF front
<1>6. /\ front \o right \in Seq(S)
      /\ Len(front \o right) = Len(front) + Len(right)
      /\ \A j \in 1..Len(front) + Len(right) :
           (front \o right)[j] = IF j <= Len(front) THEN front[j] ELSE right[j - Len(front)]
  <2>1. front \in Seq(S)
    BY <1>5 DEF front
  <2> QED BY <2>1, <1>3, ConcatProperties
<1>7. InsertAt(s, k, e) = front \o right
  BY DEF InsertAt, front, left, right, one
<1>8. Len(front) + Len(right) = Len(s) + 1 /\ Len(front) = k
  <2>1. Len(front) = k
    BY <1>5 DEF front
  <2>2. Len(right) = Len(s) - k + 1 /\ k \in Nat
    BY <1>1, <1>3
  <2> QED BY <2>1, <2>2, <1>1
<1>9. ASSUME NEW j \in 1..Len(s) + 1
      PROVE  (front \o right)[j] = IF j < k THEN s[j] ELSE IF j = k THEN e ELSE s[j - 1]
  <2>1. CASE j <= k
    BY <2>1, <1>1, <1>5, <1>6, <1>8 DEF front
  <2>2. CASE j > k
    <3>1. j - k \in 1..Len(s) - k + 1 /\ k + (j - k) - 1 = j - 1
      BY <2>2, <1>1
    <3>2. right[j - k] = s[j - 1]
      BY <3>1, <1>3
    <3> QED BY <2>2, <3>1, <3>2, <1>1, <1>6, <1>8
  <2>3. j <= k \/ j > k
    BY <1>1
  <2> QED BY <2>1, <2>2, <2>3
<1> QED BY <1>6, <1>7, <1>8, <1>9

\* The element Position finds is the one with the identifier.
LEMMA PositionProperties ==
  ASSUME NEW l, NEW id \in ElementIDs(l)
  PROVE  Position(l, id) \in 1..Len(l) /\ l[Position(l, id)].id = id
BY DEF Position, ElementIDs

\* A splice between Start and End keeps a list well formed and adds one key.
LEMMA SpliceProperties ==
  ASSUME NEW l \in Seq(Element), WellFormed(l),
         NEW e \in Element, e.id \notin ElementIDs(l), NEW k \in 2..Len(l)
  PROVE  /\ InsertAt(l, k, e) \in Seq(Element)
         /\ WellFormed(InsertAt(l, k, e))
         /\ ElementIDs(InsertAt(l, k, e)) = ElementIDs(l) \cup {e.id}
<1> DEFINE new == InsertAt(l, k, e)
<1>1. Len(l) \in Nat
  BY LenProperties
<1>2. /\ new \in Seq(Element)
      /\ Len(new) = Len(l) + 1
      /\ \A j \in 1..Len(l) + 1 :
           new[j] = IF j < k THEN l[j] ELSE IF j = k THEN e ELSE l[j - 1]
  <2>1. k \in 1..Len(l) /\ l \in Seq(Element) /\ e \in Element
    BY <1>1
  <2>2. PICK S : S = Element
    OBVIOUS
  <2>3. l \in Seq(S) /\ e \in S
    BY <2>1, <2>2
  <2>4. /\ InsertAt(l, k, e) \in Seq(S)
        /\ Len(InsertAt(l, k, e)) = Len(l) + 1
        /\ \A j \in 1..Len(l) + 1 :
             InsertAt(l, k, e)[j] = IF j < k THEN l[j] ELSE IF j = k THEN e ELSE l[j - 1]
    BY <2>1, <2>3, InsertAtProperties
  <2> QED BY <2>2, <2>4
<1> HIDE DEF new
<1>3. \A j \in 1..Len(new) : j # k =>
        /\ (IF j < k THEN j ELSE j - 1) \in 1..Len(l)
        /\ new[j] = l[IF j < k THEN j ELSE j - 1]
  BY <1>1, <1>2
<1>4. \A j \in 1..Len(l) :
        /\ (IF j < k THEN j ELSE j + 1) \in 1..Len(new)
        /\ new[IF j < k THEN j ELSE j + 1] = l[j]
  BY <1>1, <1>2
<1>5. k \in 1..Len(new) /\ new[k] = e
  BY <1>1, <1>2
<1>6. ElementIDs(new) = ElementIDs(l) \cup {e.id}
  <2>1. ASSUME NEW j \in 1..Len(new) PROVE new[j].id \in ElementIDs(l) \cup {e.id}
    BY <1>3, <1>5 DEF ElementIDs
  <2>2. ASSUME NEW j \in 1..Len(l) PROVE l[j].id \in ElementIDs(new)
    BY <1>4 DEF ElementIDs
  <2>3. e.id \in ElementIDs(new)
    BY <1>5 DEF ElementIDs
  <2> QED BY <2>1, <2>2, <2>3 DEF ElementIDs
<1>7. Len(new) >= 2 /\ new[1].id = Start /\ new[Len(new)].id = End
  BY <1>1, <1>2 DEF WellFormed
<1>8. ASSUME NEW j \in 1..Len(new), NEW m \in 1..Len(new), new[j].id = new[m].id
      PROVE  j = m
  <2>1. CASE j = k
    <3>1. ASSUME m # k PROVE FALSE
      BY <3>1, <2>1, <1>3, <1>5, <1>8 DEF ElementIDs
    <3> QED BY <3>1, <2>1
  <2>2. CASE m = k
    <3>1. ASSUME j # k PROVE FALSE
      BY <3>1, <2>2, <1>3, <1>5, <1>8 DEF ElementIDs
    <3> QED BY <3>1, <2>2
  <2>3. CASE j # k /\ m # k
    <3> DEFINE p == IF j < k THEN j ELSE j - 1
               q == IF m < k THEN m ELSE m - 1
    <3>1. p \in 1..Len(l) /\ q \in 1..Len(l) /\ l[p].id = l[q].id
      BY <2>3, <1>3, <1>8
    <3>2. p = q
      BY <3>1 DEF WellFormed
    <3> QED BY <3>2, <2>3, <1>1, <1>2
  <2> QED BY <2>1, <2>2, <2>3
<1> QED BY <1>2, <1>6, <1>7, <1>8 DEF WellFormed, new

\* The keys of a list are finitely many, and as many as the places where a
\* property of the key holds.
LEMMA KeysFinite ==
  ASSUME NEW l \in Seq(Element)
  PROVE  IsFiniteSet(ElementIDs(l))
<1> DEFINE f == [k \in 1..Len(l) |-> l[k].id]
<1>1. Len(l) \in Nat
  BY LenProperties
<1>2. IsFiniteSet(1..Len(l))
  BY <1>1, FS_Interval
<1>3. f \in Surjection(1..Len(l), ElementIDs(l))
  BY DEF Surjection, ElementIDs
<1> QED BY <1>2, <1>3, FS_Surjection

LEMMA PlacesCount ==
  ASSUME NEW l \in Seq(Element), WellFormed(l),
         NEW places \in SUBSET (1..Len(l))
  PROVE  Cardinality(places) = Cardinality({l[k].id : k \in places})
<1> DEFINE f == [k \in places |-> l[k].id]
           keys == {l[k].id : k \in places}
<1>1. Len(l) \in Nat
  BY LenProperties
<1>2. IsFiniteSet(places)
  <2>1. IsFiniteSet(1..Len(l))
    BY <1>1, FS_Interval
  <2> QED BY <2>1, FS_Subset
<1>3. f \in Bijection(places, keys)
  <2>1. \A j, k \in places : f[j] = f[k] => j = k
    BY DEF WellFormed
  <2>2. f \in [places -> keys]
    OBVIOUS
  <2>3. \A t \in keys : \E k \in places : f[k] = t
    OBVIOUS
  <2> QED BY <2>1, <2>2, <2>3 DEF Bijection, Injection, Surjection, IsInjective
<1> QED BY <1>2, <1>3, FS_Bijection DEF ExistsBijection

-----------------------------------------------------------------------------
\* The invariant of the replicas.

\* What the operations in circulation refer to has been issued, by a client that
\* has counted past it, and no two of them share an identifier.
IssuedInv ==
  /\ \A a, b \in Issued : a.id = b.id => a = b
  /\ \A op \in Issued : op.id.clock < clock[op.id.client]
  /\ \A op \in Issued : {op.origin, op.right} \subseteq IDs(Issued) \cup {Start, End}
  /\ IssuedDeletes \subseteq IDs(Issued)

\* Outside processPending, what is pending cannot be integrated.
Blocked ==
  \A c \in Client : Running(c) /\ ~draining[c] =>
    /\ \A op \in pendingInserts[c] : ~Resolvable(c, op)
    /\ pendingDeletes[c] \cap Present(c) = {}

Inv ==
  /\ TypeOK
  /\ WellFormedList
  /\ CounterMatches
  /\ LogsPartition
  /\ IssuedInv
  /\ Blocked

-----------------------------------------------------------------------------
\* Splicing an element into the list of a replica.

LEMMA SentinelsAreNoIDs == Start \notin ID /\ End \notin ID /\ Start # End
BY ClientAssumption DEF ID, Start, End

\* The characters the user sees, by identifier.
Shown(c) == (Present(c) \ {Start, End}) \ tombstones[c]

LEMMA ShownFinite ==
  ASSUME TypeOK, NEW c \in Client
  PROVE  IsFiniteSet(Shown(c)) /\ Cardinality(Shown(c)) \in Nat
<1>1. IsFiniteSet(Present(c))
  BY KeysFinite DEF TypeOK, Present
<1>2. Shown(c) \in SUBSET Present(c)
  BY DEF Shown
<1> QED BY <1>1, <1>2, FS_Subset, FS_CardinalityType

LEMMA SpliceStep ==
  ASSUME TypeOK, WellFormedList, CounterMatches, LogsPartition,
         NEW c \in Client, NEW op \in InsertOperation, op.id \notin Present(c),
         NEW k \in 2..Len(list[c]),
         list' = [list EXCEPT ![c] = InsertAt(@, k, ElementOf(op))],
         characterCounter' = [characterCounter EXCEPT ![c] = @ + 1],
         UNCHANGED tombstones
  PROVE  /\ list' \in [Client -> Seq(Element)]
         /\ characterCounter' \in [Client -> Int]
         /\ WellFormedList'
         /\ CounterMatches'
         /\ Present(c)' = Present(c) \cup {op.id}
         /\ \A d \in Client \ {c} : Present(d)' = Present(d)
<1> DEFINE e == ElementOf(op)
<1>1. e \in Element /\ e.id = op.id /\ op.id \in ID
  BY DEF ElementOf, Element, InsertOperation
<1>2. list[c] \in Seq(Element) /\ WellFormed(list[c]) /\ e.id \notin ElementIDs(list[c])
  BY <1>1 DEF TypeOK, WellFormedList, Present
<1>3. list'[c] = InsertAt(list[c], k, e) /\ \A d \in Client \ {c} : list'[d] = list[d]
  BY DEF TypeOK
<1> HIDE DEF e
<1>4. /\ list'[c] \in Seq(Element) /\ WellFormed(list'[c])
      /\ ElementIDs(list'[c]) = ElementIDs(list[c]) \cup {op.id}
  BY <1>1, <1>2, <1>3, SpliceProperties
<1>5. Present(c)' = Present(c) \cup {op.id}
  BY <1>4 DEF Present
<1>6. \A d \in Client \ {c} : Present(d)' = Present(d)
  BY <1>3 DEF Present
<1>7. list' \in [Client -> Seq(Element)]
  <2>1. list' = [d \in Client |-> list'[d]]
    BY DEF TypeOK
  <2>2. \A d \in Client : list'[d] \in Seq(Element)
    BY <1>3, <1>4 DEF TypeOK
  <2> QED BY <2>1, <2>2
<1>8. WellFormedList'
  BY <1>3, <1>4 DEF WellFormedList
<1>9. characterCounter' \in [Client -> Int]
  BY DEF TypeOK
<1>10. CounterMatches'
  <2>1. op.id \notin tombstones[c] /\ op.id \notin {Start, End}
    BY <1>1, SentinelsAreNoIDs DEF LogsPartition
  <2>2. Shown(c)' = Shown(c) \cup {op.id} /\ op.id \notin Shown(c)
    BY <1>5, <2>1 DEF Shown
  <2>3. Cardinality(Shown(c)') = Cardinality(Shown(c)) + 1
    BY <2>2, ShownFinite, FS_AddElement
  <2>4. \A d \in Client \ {c} : Shown(d)' = Shown(d)
    BY <1>6 DEF Shown
  <2>5. \A d \in Client : characterCounter[d] = Cardinality(Shown(d))
    BY DEF CounterMatches, Shown
  <2>6. \A d \in Client : characterCounter'[d] = Cardinality(Shown(d)')
    <3>1. characterCounter'[c] = characterCounter[c] + 1
      BY DEF TypeOK
    <3>2. \A d \in Client \ {c} : characterCounter'[d] = characterCounter[d]
      BY DEF TypeOK
    <3> QED BY <2>3, <2>4, <2>5, <3>1, <3>2
  <2> QED BY <2>6 DEF CounterMatches, Shown
<1> QED BY <1>5, <1>6, <1>7, <1>8, <1>9, <1>10

\* integrateInsert splices behind the origin and not behind the right.
LEMMA InsertionPointInside ==
  ASSUME TypeOK, WellFormedList, NEW c \in Client, NEW op \in InsertOperation,
         Resolvable(c, op), ~WalksOff(list[c], op), NEW k, IsInsertionPoint(list[c], op, k)
  PROVE  k \in 2..Len(list[c])
<1> DEFINE o == Position(list[c], op.origin)
           r == Position(list[c], op.right)
<1>1. Len(list[c]) \in Nat
  BY LenProperties DEF TypeOK
<1>2. o \in 1..Len(list[c]) /\ r \in 1..Len(list[c])
  BY PositionProperties DEF Resolvable, Present
<1>3. o < r
  BY <1>1, <1>2 DEF WalksOff
<1>4. k \in (o + 1 .. r - 1) \cup {r}
  BY DEF IsInsertionPoint, Stops, ConflictZone
<1> HIDE DEF o, r
<1> QED BY <1>1, <1>2, <1>3, <1>4

-----------------------------------------------------------------------------
\* The conjuncts of Inv that speak of one replica, and the replicas a step of
\* another one leaves alone.

PartitionAt(c) ==
  /\ pendingInserts[c] = {op \in insertLog[c] : op.id \notin Present(c)}
  /\ Present(c) \ {Start, End} = IDs(insertLog[c] \ pendingInserts[c])
  /\ pendingDeletes[c] = deleteLog[c] \ tombstones[c]
  /\ tombstones[c] \subseteq deleteLog[c] \cap Present(c)

BlockedAt(c) ==
  Running(c) /\ ~draining[c] =>
    /\ \A op \in pendingInserts[c] : ~Resolvable(c, op)
    /\ pendingDeletes[c] \cap Present(c) = {}

Untouched(d) ==
  /\ list'[d] = list[d]
  /\ insertLog'[d] = insertLog[d] /\ deleteLog'[d] = deleteLog[d]
  /\ pendingInserts'[d] = pendingInserts[d] /\ pendingDeletes'[d] = pendingDeletes[d]
  /\ tombstones'[d] = tombstones[d]
  /\ draining'[d] = draining[d]
  /\ d \in aborted => d \in aborted'

LEMMA UntouchedReplica ==
  ASSUME NEW d \in Client, Untouched(d), PartitionAt(d), BlockedAt(d)
  PROVE  PartitionAt(d)' /\ BlockedAt(d)'
<1>1. Present(d)' = Present(d)
  BY DEF Untouched, Present
<1>2. PartitionAt(d)'
  BY <1>1 DEF Untouched, PartitionAt
<1>3. \A op : Resolvable(d, op)' = Resolvable(d, op)
  BY <1>1 DEF Resolvable
<1>4. Running(d)' => Running(d)
  BY DEF Running, Untouched
<1>5. BlockedAt(d)'
  BY <1>1, <1>3, <1>4 DEF BlockedAt, Untouched
<1> QED BY <1>2, <1>5

\* It is enough to look at the replica that takes the step.
LEMMA OneReplica ==
  ASSUME Inv, NEW c \in Client, \A d \in Client \ {c} : Untouched(d),
         PartitionAt(c)', BlockedAt(c)'
  PROVE  LogsPartition' /\ Blocked'
<1>1. \A d \in Client : PartitionAt(d) /\ BlockedAt(d)
  BY DEF Inv, LogsPartition, Blocked, PartitionAt, BlockedAt
<1>2. \A d \in Client : PartitionAt(d)' /\ BlockedAt(d)'
  BY <1>1, UntouchedReplica
<1>3. LogsPartition'
  BY <1>2 DEF LogsPartition, PartitionAt
<1>4. Blocked'
  BY <1>2 DEF Blocked, BlockedAt
<1> QED BY <1>3, <1>4

\* Everything a replica holds is in circulation.
LEMMA InCirculation ==
  ASSUME Inv, NEW c \in Client
  PROVE  /\ insertLog[c] \subseteq Issued
         /\ pendingInserts[c] \subseteq Issued
         /\ deleteLog[c] \subseteq IDs(Issued)
         /\ pendingDeletes[c] \subseteq IDs(Issued)
         /\ Present(c) \ {Start, End} \subseteq IDs(Issued)
<1>1. insertLog[c] \subseteq Issued
  BY DEF Issued
<1>2. deleteLog[c] \subseteq IssuedDeletes
  BY DEF IssuedDeletes
<1>3. deleteLog[c] \subseteq IDs(Issued)
  BY <1>2 DEF Inv, IssuedInv
<1>4. \A op : op \in pendingInserts[c] => op \in insertLog[c]
  BY DEF Inv, LogsPartition
<1>5. pendingDeletes[c] \subseteq deleteLog[c]
  BY DEF Inv, LogsPartition
<1>6. Present(c) \ {Start, End} \subseteq IDs(insertLog[c])
  <2>1. Present(c) \ {Start, End} = IDs(insertLog[c] \ pendingInserts[c])
    BY DEF Inv, LogsPartition
  <2> QED BY <2>1 DEF IDs
<1>7. IDs(insertLog[c]) \subseteq IDs(Issued)
  BY <1>1 DEF IDs
<1> QED BY <1>1, <1>3, <1>4, <1>5, <1>6, <1>7

\* Learning an operation that is in circulation issues nothing.
LEMMA NothingIssued ==
  ASSUME TypeOK, NEW c \in Client, NEW op \in Issued,
         insertLog' = [insertLog EXCEPT ![c] = @ \cup {op}]
  PROVE  /\ Issued' = Issued
         /\ insertLog' \in [Client -> SUBSET InsertOperation]
         /\ insertLog'[c] = insertLog[c] \cup {op}
         /\ \A d \in Client \ {c} : insertLog'[d] = insertLog[d]
<1>1. op \in InsertOperation
  BY DEF TypeOK, Issued
<1>2. /\ insertLog'[c] = insertLog[c] \cup {op}
      /\ \A d \in Client \ {c} : insertLog'[d] = insertLog[d]
  BY DEF TypeOK
<1>3. insertLog' \in [Client -> SUBSET InsertOperation]
  BY <1>1 DEF TypeOK
<1>4. Issued' = Issued
  BY <1>2 DEF Issued
<1> QED BY <1>2, <1>3, <1>4

LEMMA IssuedInvKept ==
  ASSUME IssuedInv, Issued' = Issued, IssuedDeletes' \subseteq IssuedDeletes, UNCHANGED clock
  PROVE  IssuedInv'
BY DEF IssuedInv

LEMMA InitInv == Init => Inv
<1> SUFFICES ASSUME Init PROVE Inv
  OBVIOUS
<1>1. NewList \in Seq(Element) /\ WellFormed(NewList) /\ ElementIDs(NewList) = {Start, End}
  <2>1. /\ [id |-> Start, origin |-> Start] \in Element
        /\ [id |-> End, origin |-> Start] \in Element
    BY DEF Element
  <2>2. NewList \in Seq(Element) /\ Len(NewList) = 2
    BY <2>1 DEF NewList
  <2>3. NewList[1].id = Start /\ NewList[2].id = End
    BY DEF NewList
  <2>4. \A k \in 1..Len(NewList) : k = 1 \/ k = 2
    BY <2>2
  <2>5. 1 \in 1..Len(NewList) /\ 2 \in 1..Len(NewList)
    BY <2>2
  <2>6. WellFormed(NewList)
    BY <2>2, <2>3, <2>4, SentinelsAreNoIDs DEF WellFormed
  <2>7. ElementIDs(NewList) = {Start, End}
    BY <2>3, <2>4, <2>5 DEF ElementIDs
  <2> QED BY <2>2, <2>6, <2>7
<1>2. \A c \in Client : Present(c) = {Start, End}
  BY <1>1 DEF Init, Present
<1>3. TypeOK
  BY <1>1 DEF Init, TypeOK
<1>4. WellFormedList
  BY <1>1 DEF Init, WellFormedList
<1>5. CounterMatches
  BY <1>2, FS_EmptySet DEF Init, CounterMatches
<1>6. Issued = {} /\ IssuedDeletes = {}
  BY DEF Init, Issued, IssuedDeletes
<1>7. LogsPartition
  BY <1>2 DEF Init, LogsPartition, IDs
<1>8. IssuedInv
  BY <1>6 DEF IssuedInv
<1>9. Blocked
  BY DEF Init, Blocked
<1> QED BY <1>3, <1>4, <1>5, <1>7, <1>8, <1>9 DEF Inv

-----------------------------------------------------------------------------
\* One lemma per action.

LEMMA InsertElementInv ==
  ASSUME Inv, NEW c \in Client, NEW index, InsertElement(c, index)
  PROVE  Inv'
<1>1. PICK k \in 2..Len(list[c]) :
        /\ list' = [list EXCEPT ![c] = InsertAt(@, k,
             ElementOf([id |-> [client |-> c, clock |-> clock[c]],
                        origin |-> list[c][k - 1].id, right |-> list[c][k].id]))]
        /\ insertLog' = [insertLog EXCEPT ![c] = @ \cup
             {[id |-> [client |-> c, clock |-> clock[c]],
               origin |-> list[c][k - 1].id, right |-> list[c][k].id]}]
  BY DEF InsertElement
<1> DEFINE op == [id |-> [client |-> c, clock |-> clock[c]],
                  origin |-> list[c][k - 1].id, right |-> list[c][k].id]
<1>2. /\ clock' = [clock EXCEPT ![c] = @ + 1]
      /\ characterCounter' = [characterCounter EXCEPT ![c] = @ + 1]
      /\ UNCHANGED <<tombstones, deleteLog, pendings, handler, aborted>>
      /\ Running(c) /\ ~draining[c]
  BY DEF InsertElement, Idle
<1>3. Len(list[c]) \in Nat /\ \A j \in 1..Len(list[c]) : list[c][j] \in Element
  BY LenProperties, ElementOfSeq DEF Inv, TypeOK
<1>4. /\ k - 1 \in 1..Len(list[c]) /\ k \in 1..Len(list[c])
      /\ k - 1 # Len(list[c]) /\ k # 1
      /\ 1 \in 1..Len(list[c]) /\ Len(list[c]) \in 1..Len(list[c])
  BY <1>3
<1>5. op.origin \in Present(c) \ {End} /\ op.right \in Present(c) \ {Start}
  <2>1. /\ list[c][1].id = Start
        /\ list[c][Len(list[c])].id = End
        /\ \A i, j \in 1..Len(list[c]) : list[c][i].id = list[c][j].id => i = j
    BY DEF Inv, WellFormedList, WellFormed
  <2>2. list[c][k - 1].id # End /\ list[c][k].id # Start
    BY <2>1, <1>4
  <2>3. list[c][k - 1].id \in Present(c) /\ list[c][k].id \in Present(c)
    BY <1>4 DEF Present, ElementIDs
  <2> QED BY <2>2, <2>3
<1>6. Present(c) \subseteq ID \cup {Start, End}
  BY <1>3 DEF Present, ElementIDs, Element
<1>7. op \in InsertOperation /\ op.id = [client |-> c, clock |-> clock[c]]
  <2>1. op.id \in ID
    BY DEF Inv, TypeOK, ID
  <2> QED BY <2>1, <1>5, <1>6, SentinelsAreNoIDs DEF InsertOperation
<1>8. \A a \in Issued : a.id # op.id
  <2>1. \A a \in Issued : a.id.clock < clock[a.id.client]
    BY DEF Inv, IssuedInv
  <2>2. clock[c] \in Nat
    BY DEF Inv, TypeOK
  <2> QED BY <2>1, <2>2, <1>7
<1>9. Present(c) \ {Start, End} \subseteq IDs(Issued)
  BY InCirculation
<1>10. op.id \notin Present(c) /\ op.id \notin {Start, End}
  <2>1. op.id \notin IDs(Issued)
    BY <1>8 DEF IDs
  <2>2. op.id \in ID
    BY <1>7 DEF InsertOperation
  <2> QED BY <2>1, <2>2, <1>9, SentinelsAreNoIDs
<1>11. /\ insertLog'[c] = insertLog[c] \cup {op}
       /\ \A d \in Client \ {c} : insertLog'[d] = insertLog[d]
       /\ insertLog' \in [Client -> SUBSET InsertOperation]
  <2> HIDE DEF op
  <2>1. insertLog' = [insertLog EXCEPT ![c] = @ \cup {op}]
    BY <1>1 DEF op
  <2> QED BY <2>1, <1>7 DEF Inv, TypeOK
<1>12. Issued' = Issued \cup {op}
  BY <1>11 DEF Issued
<1>13. /\ list' \in [Client -> Seq(Element)]
       /\ characterCounter' \in [Client -> Int]
       /\ WellFormedList'
       /\ CounterMatches'
       /\ Present(c)' = Present(c) \cup {op.id}
       /\ \A d \in Client \ {c} : list'[d] = list[d]
  <2>1. list' = [list EXCEPT ![c] = InsertAt(@, k, ElementOf(op))]
    BY <1>1
  <2>2. UNCHANGED tombstones
    BY <1>2
  <2> HIDE DEF op
  <2>3. \A d \in Client \ {c} : list'[d] = list[d]
    BY <2>1 DEF Inv, TypeOK
  <2> QED BY <2>1, <2>2, <2>3, <1>2, <1>7, <1>10, SpliceStep DEF Inv
<1> HIDE DEF op
<1>14. TypeOK'
  BY <1>2, <1>11, <1>13 DEF Inv, TypeOK, pendings, handler
<1>15. IssuedInv'
  <2>1. \A a, b \in Issued' : a.id = b.id => a = b
    BY <1>8, <1>12 DEF Inv, IssuedInv
  <2>2. \A a \in Issued' : a.id.clock < clock'[a.id.client]
    <3>1. clock'[c] = clock[c] + 1 /\ \A d \in Client \ {c} : clock'[d] = clock[d]
      BY <1>2 DEF Inv, TypeOK
    <3>2. op.id.clock = clock[c] /\ op.id.client = c /\ clock[c] \in Nat
      BY <1>7 DEF Inv, TypeOK
    <3>3. \A a \in Issued : a.id.client \in Client /\ a.id.clock \in Nat
      BY DEF Inv, TypeOK, Issued, InsertOperation, ID
    <3>4. \A a \in Issued : a.id.clock < clock[a.id.client]
      BY DEF Inv, IssuedInv
    <3>5. \A d \in Client : clock[d] \in Nat
      BY DEF Inv, TypeOK
    <3>6. \A a \in Issued : a.id.clock < clock'[a.id.client]
      BY <3>1, <3>3, <3>4, <3>5
    <3> QED BY <3>1, <3>2, <3>6, <1>12
  <2>3. \A a \in Issued' : {a.origin, a.right} \subseteq IDs(Issued') \cup {Start, End}
    <3>1. IDs(Issued) \subseteq IDs(Issued')
      BY <1>12 DEF IDs
    <3>2. {op.origin, op.right} \subseteq IDs(Issued) \cup {Start, End}
      BY <1>5, <1>9
    <3> QED BY <3>1, <3>2, <1>12 DEF Inv, IssuedInv
  <2>4. IssuedDeletes' \subseteq IDs(Issued')
    BY <1>2, <1>12 DEF Inv, IssuedInv, IssuedDeletes, IDs
  <2> QED BY <2>1, <2>2, <2>3, <2>4 DEF IssuedInv, IDs
<1>16. op \notin pendingInserts[c] /\ op.id \notin deleteLog[c]
  <2>1. pendingInserts[c] \subseteq Issued /\ deleteLog[c] \subseteq IDs(Issued)
    BY InCirculation
  <2> QED BY <2>1, <1>8 DEF IDs
<1>17. PartitionAt(c)'
  <2>1. PartitionAt(c)
    BY DEF Inv, LogsPartition, PartitionAt
  <2>2. pendingInserts'[c] = {a \in insertLog'[c] : a.id \notin Present(c)'}
    <3>1. pendingInserts[c] \subseteq Issued
      BY InCirculation
    <3> QED BY <2>1, <3>1, <1>2, <1>8, <1>11, <1>13 DEF PartitionAt, pendings
  <2>3. Present(c)' \ {Start, End} = IDs(insertLog'[c] \ pendingInserts'[c])
    <3>1. insertLog'[c] \ pendingInserts'[c] = (insertLog[c] \ pendingInserts[c]) \cup {op}
      BY <1>2, <1>11, <1>16 DEF pendings
    <3>2. IDs(insertLog'[c] \ pendingInserts'[c])
            = IDs(insertLog[c] \ pendingInserts[c]) \cup {op.id}
      BY <3>1 DEF IDs
    <3> QED BY <3>2, <2>1, <1>10, <1>13 DEF PartitionAt
  <2> QED BY <2>1, <2>2, <2>3, <1>2, <1>13 DEF PartitionAt, pendings
<1>18. BlockedAt(c)'
  <2>1. /\ \A a \in pendingInserts[c] : ~Resolvable(c, a)
        /\ pendingDeletes[c] \cap Present(c) = {}
    BY <1>2 DEF Inv, Blocked
  <2>2. \A a \in pendingInserts[c] : op.id \notin {a.origin, a.right}
    <3>1. pendingInserts[c] \subseteq Issued
      BY InCirculation
    <3>2. \A a \in Issued : {a.origin, a.right} \subseteq IDs(Issued) \cup {Start, End}
      BY DEF Inv, IssuedInv
    <3> QED BY <3>1, <3>2, <1>8, <1>10 DEF IDs
  <2>3. \A a \in pendingInserts'[c] : ~Resolvable(c, a)'
    BY <2>1, <2>2, <1>2, <1>13 DEF Resolvable, pendings
  <2>4. op.id \notin pendingDeletes[c]
    BY <1>16 DEF Inv, LogsPartition
  <2>5. pendingDeletes'[c] \cap Present(c)' = {}
    BY <2>1, <2>4, <1>2, <1>13 DEF pendings
  <2> QED BY <2>3, <2>5 DEF BlockedAt
<1>19. \A d \in Client \ {c} : Untouched(d)
  BY <1>2, <1>11, <1>13 DEF Untouched, pendings, handler
<1> QED BY <1>13, <1>14, <1>15, <1>17, <1>18, <1>19, OneReplica DEF Inv

LEMMA DeleteElementInv ==
  ASSUME Inv, NEW c \in Client, NEW index, DeleteElement(c, index)
  PROVE  Inv'
<1>1. PICK k \in 2..Len(list[c]) :
        /\ IsVisiblePosition(c, index, k)
        /\ tombstones' = [tombstones EXCEPT ![c] = @ \cup {list[c][k].id}]
        /\ deleteLog' = [deleteLog EXCEPT ![c] = @ \cup {list[c][k].id}]
  BY DEF DeleteElement
<1> DEFINE id == list[c][k].id
<1>2. /\ characterCounter' = [characterCounter EXCEPT ![c] = @ - 1]
      /\ UNCHANGED <<clock, list, insertLog, pendings, handler, aborted>>
      /\ index < characterCounter[c]
      /\ Running(c) /\ ~draining[c]
  BY DEF DeleteElement, Idle
<1>3. /\ Len(list[c]) \in Nat
      /\ \A j \in 1..Len(list[c]) : list[c][j] \in Element
      /\ list[c] \in Seq(Element)
  BY LenProperties, ElementOfSeq DEF Inv, TypeOK
<1>4. /\ list[c][1].id = Start
      /\ list[c][Len(list[c])].id = End
      /\ \A i, j \in 1..Len(list[c]) : list[c][i].id = list[c][j].id => i = j
      /\ WellFormed(list[c])
  BY DEF Inv, WellFormedList, WellFormed
<1>5. k \in 1..Len(list[c]) /\ 1 \in 1..Len(list[c]) /\ Len(list[c]) \in 1..Len(list[c])
  BY <1>3
<1>6. k # Len(list[c])
  <2> SUFFICES ASSUME k = Len(list[c]) PROVE FALSE
    OBVIOUS
  <2> DEFINE places == {j \in 2..(k - 1) : Visible(c, j)}
  <2>1. index = Cardinality(places)
    BY <1>1 DEF IsVisiblePosition
  <2>2. places \in SUBSET (1..Len(list[c]))
    BY <1>3
  <2>3. {list[c][j].id : j \in places} = Shown(c)
    <3>1. ASSUME NEW j \in places PROVE list[c][j].id \in Shown(c)
      <4>0. j \in 2..(k - 1) /\ Visible(c, j)
        OBVIOUS
      <4>1. j \in 1..Len(list[c]) /\ j # 1 /\ j # Len(list[c])
        BY <4>0, <1>3
      <4>2. list[c][j].id \in Present(c) \ {Start, End}
        BY <4>1, <1>4, <1>5 DEF Present, ElementIDs
      <4> QED BY <4>0, <4>2 DEF Shown, Visible
    <3>2. ASSUME NEW x \in Shown(c) PROVE \E j \in places : list[c][j].id = x
      <4>1. PICK j \in 1..Len(list[c]) : list[c][j].id = x
        BY DEF Shown, Present, ElementIDs
      <4>2. j # 1 /\ j # Len(list[c]) /\ Visible(c, j)
        BY <4>1, <1>4 DEF Shown, Visible
      <4>3. j \in 2..(k - 1)
        BY <4>2, <1>3
      <4> QED BY <4>1, <4>2, <4>3
    <3> QED BY <3>1, <3>2
  <2>4. Cardinality(places) = Cardinality({list[c][j].id : j \in places})
    <3> HIDE DEF places
    <3> QED BY <2>2, <1>3, <1>4, PlacesCount
  <2>5. characterCounter[c] = Cardinality(Shown(c))
    BY DEF Inv, CounterMatches, Shown
  <2>6. Cardinality(Shown(c)) \in Nat
    BY ShownFinite DEF Inv
  <2> HIDE DEF places
  <2>7. index = characterCounter[c]
    BY <2>1, <2>3, <2>4, <2>5
  <2>8. index \in Nat
    BY <2>5, <2>6, <2>7
  <2> QED BY <2>7, <2>8, <1>2
<1>7. id \in Present(c) /\ id \in ID /\ id \notin {Start, End}
  <2>1. id \notin {Start, End}
    BY <1>4, <1>5, <1>6
  <2>2. id \in Present(c)
    BY <1>5 DEF Present, ElementIDs
  <2>3. id \in ID \cup {Start, End}
    BY <1>3, <1>5 DEF Element
  <2> QED BY <2>1, <2>2, <2>3
<1>8. id \notin tombstones[c]
  BY <1>1 DEF IsVisiblePosition, Visible
<1> HIDE DEF id
<1>9. /\ tombstones' = [tombstones EXCEPT ![c] = @ \cup {id}]
      /\ deleteLog' = [deleteLog EXCEPT ![c] = @ \cup {id}]
  BY <1>1 DEF id
<1>10. TypeOK'
  BY <1>2, <1>7, <1>9 DEF Inv, TypeOK, pendings, handler
<1>11. /\ tombstones'[c] = tombstones[c] \cup {id} /\ deleteLog'[c] = deleteLog[c] \cup {id}
       /\ \A d \in Client \ {c} : tombstones'[d] = tombstones[d] /\ deleteLog'[d] = deleteLog[d]
  BY <1>9 DEF Inv, TypeOK
<1>12. \A d \in Client : Present(d)' = Present(d)
  BY <1>2 DEF Present
<1>13. WellFormedList'
  BY <1>2 DEF Inv, WellFormedList
<1>14. CounterMatches'
  <2>1. Shown(c)' = Shown(c) \ {id} /\ id \in Shown(c)
    BY <1>7, <1>8, <1>11, <1>12 DEF Shown
  <2>2. Cardinality(Shown(c)') = Cardinality(Shown(c)) - 1
    BY <2>1, ShownFinite, FS_RemoveElement DEF Inv
  <2>3. \A d \in Client \ {c} : Shown(d)' = Shown(d)
    BY <1>11, <1>12 DEF Shown
  <2>4. \A d \in Client : characterCounter[d] = Cardinality(Shown(d))
    BY DEF Inv, CounterMatches, Shown
  <2>5. /\ characterCounter'[c] = characterCounter[c] - 1
        /\ \A d \in Client \ {c} : characterCounter'[d] = characterCounter[d]
    BY <1>2 DEF Inv, TypeOK
  <2>6. \A d \in Client : characterCounter'[d] = Cardinality(Shown(d)')
    BY <2>2, <2>3, <2>4, <2>5
  <2> QED BY <2>6 DEF CounterMatches, Shown
<1>15. IssuedInv'
  <2>1. id \in IDs(Issued)
    BY <1>7, InCirculation
  <2>2. Issued' = Issued
    BY <1>2 DEF Issued
  <2>3. IssuedDeletes' \subseteq IssuedDeletes \cup {id}
    BY <1>11 DEF IssuedDeletes
  <2> QED BY <2>1, <2>2, <2>3, <1>2 DEF Inv, IssuedInv, IDs
<1>16. /\ \A a \in pendingInserts[c] : ~Resolvable(c, a)
       /\ pendingDeletes[c] \cap Present(c) = {}
  BY <1>2 DEF Inv, Blocked
<1>17. PartitionAt(c)'
  <2>1. PartitionAt(c)
    BY DEF Inv, LogsPartition, PartitionAt
  <2>2. id \notin pendingDeletes[c]
    BY <1>7, <1>16
  <2>3. UNCHANGED <<insertLog, pendingInserts, pendingDeletes>>
    BY <1>2 DEF pendings
  <2>4. pendingDeletes'[c] = deleteLog'[c] \ tombstones'[c]
    BY <2>1, <2>2, <2>3, <1>11 DEF PartitionAt
  <2>5. tombstones'[c] \subseteq deleteLog'[c] \cap Present(c)'
    BY <2>1, <1>7, <1>11, <1>12 DEF PartitionAt
  <2> QED BY <2>1, <2>3, <2>4, <2>5, <1>12 DEF PartitionAt
<1>18. BlockedAt(c)'
  BY <1>2, <1>12, <1>16 DEF BlockedAt, Resolvable, pendings
<1>19. \A d \in Client \ {c} : Untouched(d)
  BY <1>2, <1>11 DEF Untouched, pendings, handler
<1> QED BY <1>10, <1>13, <1>14, <1>15, <1>17, <1>18, <1>19, OneReplica DEF Inv

\* The steps that leave every document alone: a repeated insert, the reading of a
\* delta, the end of a handler that aborts.
LEMMA DocumentUnchanged ==
  ASSUME Inv, UNCHANGED <<clock, list, tombstones, characterCounter, logs, pendings>>,
         TypeOK', NEW c \in Client, aborted \subseteq aborted',
         \A d \in Client \ {c} : draining'[d] = draining[d],
         draining'[c] = draining[c] \/ c \in aborted'
  PROVE  Inv'
<1>1. \A d \in Client : Present(d)' = Present(d)
  BY DEF Present
<1>2. WellFormedList' /\ CounterMatches'
  BY <1>1 DEF Inv, WellFormedList, CounterMatches
<1>3. Issued' = Issued /\ IssuedDeletes' = IssuedDeletes
  BY DEF Issued, IssuedDeletes, logs
<1>4. IssuedInv'
  BY <1>3 DEF Inv, IssuedInv
<1>5. PartitionAt(c)'
  BY <1>1 DEF Inv, LogsPartition, PartitionAt, logs, pendings
<1>6. BlockedAt(c)'
  BY <1>1 DEF Inv, Blocked, BlockedAt, Resolvable, Running, pendings
<1>7. \A d \in Client \ {c} : Untouched(d)
  BY DEF Untouched, logs, pendings
<1> QED BY <1>2, <1>4, <1>5, <1>6, <1>7, OneReplica DEF Inv

LEMMA SkipInsertInv ==
  ASSUME Inv, NEW c \in Client, NEW op \in Issued, SkipInsert(c, op),
         todoInserts' = [todoInserts EXCEPT ![c] = @ \ {op}], UNCHANGED todoDeletes
  PROVE  Inv'
<1>1. TypeOK'
  BY DEF Inv, TypeOK, SkipInsert, logs, pendings
<1> QED BY <1>1, DocumentUnchanged DEF SkipInsert

LEMMA AbortInv ==
  ASSUME Inv, NEW c \in Client, Abort(c)
  PROVE  Inv'
<1>1. TypeOK'
  BY DEF Inv, TypeOK, Abort, logs, pendings
<1>2. /\ \A d \in Client \ {c} : draining'[d] = draining[d]
      /\ c \in aborted' /\ aborted \subseteq aborted'
  BY DEF Inv, TypeOK, Abort
<1> QED BY <1>1, <1>2, DocumentUnchanged DEF Abort

LEMMA IntegrateDeltaInv ==
  ASSUME Inv, NEW c \in Client, NEW p \in Client, NEW r \in Client, IntegrateDelta(c, p, r)
  PROVE  Inv'
<1>1. MissingInserts(insertLog[p], StateVector(insertLog[r])) \in SUBSET InsertOperation
  BY DEF Inv, TypeOK, MissingInserts
<1>2. MissingDeletes(deleteLog[p], deleteLog[r]) \in SUBSET ID
  BY DEF Inv, TypeOK, MissingDeletes
<1>3. TypeOK'
  BY <1>1, <1>2 DEF Inv, TypeOK, IntegrateDelta, logs, pendings
<1> QED BY <1>3, DocumentUnchanged DEF IntegrateDelta

LEMMA ParkInsertInv ==
  ASSUME Inv, NEW c \in Client, NEW op \in Issued, Takes(c, op), ParkInsert(c, op),
         todoInserts' = [todoInserts EXCEPT ![c] = @ \ {op}], UNCHANGED todoDeletes
  PROVE  Inv'
<1>1. /\ op.id \notin Present(c) /\ ~Resolvable(c, op) /\ ~draining[c] /\ Running(c)
      /\ pendingInserts' = [pendingInserts EXCEPT ![c] = @ \cup {op}]
      /\ insertLog' = [insertLog EXCEPT ![c] = @ \cup {op}]
      /\ UNCHANGED <<clock, list, tombstones, characterCounter, deleteLog, pendingDeletes,
                     draining, aborted>>
  BY DEF ParkInsert, Takes
<1>2. op \in InsertOperation
  BY DEF Inv, TypeOK, Issued
<1>3. /\ Issued' = Issued
      /\ insertLog' \in [Client -> SUBSET InsertOperation]
      /\ insertLog'[c] = insertLog[c] \cup {op}
      /\ \A d \in Client \ {c} : insertLog'[d] = insertLog[d]
  BY <1>1, NothingIssued DEF Inv
<1>4. /\ pendingInserts' \in [Client -> SUBSET InsertOperation]
      /\ pendingInserts'[c] = pendingInserts[c] \cup {op}
      /\ \A d \in Client \ {c} : pendingInserts'[d] = pendingInserts[d]
  BY <1>1, <1>2 DEF Inv, TypeOK
<1>5. TypeOK'
  BY <1>1, <1>3, <1>4 DEF Inv, TypeOK
<1>6. \A d \in Client : Present(d)' = Present(d)
  BY <1>1 DEF Present
<1>7. WellFormedList' /\ CounterMatches'
  BY <1>1, <1>6 DEF Inv, WellFormedList, CounterMatches
<1>8. IssuedInv'
  BY <1>1, <1>3 DEF Inv, IssuedInv, IssuedDeletes
<1>9. PartitionAt(c)'
  <2>1. PartitionAt(c)
    BY DEF Inv, LogsPartition, PartitionAt
  <2>2. pendingInserts'[c] = {a \in insertLog'[c] : a.id \notin Present(c)'}
    BY <2>1, <1>1, <1>3, <1>4, <1>6 DEF PartitionAt
  <2>3. insertLog'[c] \ pendingInserts'[c] = insertLog[c] \ pendingInserts[c]
    BY <2>1, <1>1, <1>3, <1>4 DEF PartitionAt
  <2> QED BY <2>1, <2>2, <2>3, <1>1, <1>6 DEF PartitionAt
<1>10. BlockedAt(c)'
  BY <1>1, <1>4, <1>6 DEF Inv, Blocked, BlockedAt, Resolvable
<1>11. \A d \in Client \ {c} : Untouched(d)
  BY <1>1, <1>3, <1>4 DEF Untouched
<1> QED BY <1>5, <1>7, <1>8, <1>9, <1>10, <1>11, OneReplica DEF Inv

\* What IntegrateInsert does, for RemoteInsert and for processPending.
LEMMA IntegrateInsertStep ==
  ASSUME Inv, NEW c \in Client, NEW op \in Issued, op.id \notin Present(c),
         Resolvable(c, op), ~WalksOff(list[c], op), IntegrateInsert(c, op),
         UNCHANGED <<clock, tombstones, deleteLog>>
  PROVE  /\ list' \in [Client -> Seq(Element)]
         /\ characterCounter' \in [Client -> Int]
         /\ WellFormedList' /\ CounterMatches' /\ IssuedInv'
         /\ Present(c)' = Present(c) \cup {op.id}
         /\ op.id \notin {Start, End}
         /\ insertLog' \in [Client -> SUBSET InsertOperation]
         /\ insertLog'[c] = insertLog[c] \cup {op}
         /\ \A d \in Client \ {c} : list'[d] = list[d] /\ insertLog'[d] = insertLog[d]
<1>1. op \in InsertOperation
  BY DEF Inv, TypeOK, Issued
<1>2. PICK k : /\ IsInsertionPoint(list[c], op, k)
               /\ list' = [list EXCEPT ![c] = InsertAt(@, k, ElementOf(op))]
  BY DEF IntegrateInsert
<1>3. k \in 2..Len(list[c])
  BY <1>1, <1>2, InsertionPointInside DEF Inv
<1>4. /\ insertLog' = [insertLog EXCEPT ![c] = @ \cup {op}]
      /\ characterCounter' = [characterCounter EXCEPT ![c] = @ + 1]
  BY DEF IntegrateInsert
<1>5. /\ list' \in [Client -> Seq(Element)]
      /\ characterCounter' \in [Client -> Int]
      /\ WellFormedList' /\ CounterMatches'
      /\ Present(c)' = Present(c) \cup {op.id}
  BY <1>1, <1>2, <1>3, <1>4, SpliceStep DEF Inv
<1>6. \A d \in Client \ {c} : list'[d] = list[d]
  BY <1>2 DEF Inv, TypeOK
<1>7. /\ Issued' = Issued
      /\ insertLog' \in [Client -> SUBSET InsertOperation]
      /\ insertLog'[c] = insertLog[c] \cup {op}
      /\ \A d \in Client \ {c} : insertLog'[d] = insertLog[d]
  BY <1>4, NothingIssued DEF Inv
<1>8. IssuedInv'
  BY <1>7 DEF Inv, IssuedInv, IssuedDeletes
<1>9. op.id \notin {Start, End}
  BY <1>1, SentinelsAreNoIDs DEF InsertOperation
<1> QED BY <1>5, <1>6, <1>7, <1>8, <1>9

\* An insert that is in circulation and not in the list leaves the pending map
\* when it is integrated, and is not in it when it is not blocked.
LEMMA IntegratedPartition ==
  ASSUME Inv, NEW c \in Client, NEW op \in Issued, op.id \notin Present(c),
         op.id \notin {Start, End},
         Present(c)' = Present(c) \cup {op.id},
         insertLog'[c] = insertLog[c] \cup {op},
         pendingInserts'[c] = pendingInserts[c] \ {op},
         pendingDeletes'[c] = pendingDeletes[c],
         UNCHANGED <<tombstones, deleteLog>>
  PROVE  PartitionAt(c)'
<1>1. PartitionAt(c)
  BY DEF Inv, LogsPartition, PartitionAt
<1>2. insertLog[c] \subseteq Issued
  BY InCirculation
<1>3. \A a \in insertLog'[c] : a.id = op.id => a = op
  BY <1>2 DEF Inv, IssuedInv
<1>4. pendingInserts'[c] = {a \in insertLog'[c] : a.id \notin Present(c)'}
  BY <1>1, <1>3 DEF PartitionAt
<1>5. insertLog'[c] \ pendingInserts'[c] = (insertLog[c] \ pendingInserts[c]) \cup {op}
  BY <1>1
<1>6. IDs(insertLog'[c] \ pendingInserts'[c]) = IDs(insertLog[c] \ pendingInserts[c]) \cup {op.id}
  BY <1>5 DEF IDs
<1>7. Present(c)' \ {Start, End} = IDs(insertLog'[c] \ pendingInserts'[c])
  BY <1>1, <1>6 DEF PartitionAt
<1> QED BY <1>1, <1>4, <1>7 DEF PartitionAt

LEMMA ApplyInsertInv ==
  ASSUME Inv, NEW c \in Client, NEW op \in Issued, Takes(c, op), ApplyInsert(c, op),
         todoInserts' = [todoInserts EXCEPT ![c] = @ \ {op}], UNCHANGED todoDeletes
  PROVE  Inv'
<1>1. /\ op.id \notin Present(c) /\ Resolvable(c, op) /\ ~WalksOff(list[c], op)
      /\ IntegrateInsert(c, op)
      /\ draining' = [draining EXCEPT ![c] = TRUE]
      /\ UNCHANGED <<clock, tombstones, deleteLog, pendings, aborted>>
      /\ Running(c) /\ ~draining[c]
  BY DEF ApplyInsert, Takes
<1>2. /\ list' \in [Client -> Seq(Element)]
      /\ characterCounter' \in [Client -> Int]
      /\ WellFormedList' /\ CounterMatches' /\ IssuedInv'
      /\ Present(c)' = Present(c) \cup {op.id}
      /\ op.id \notin {Start, End}
      /\ insertLog' \in [Client -> SUBSET InsertOperation]
      /\ insertLog'[c] = insertLog[c] \cup {op}
      /\ \A d \in Client \ {c} : list'[d] = list[d] /\ insertLog'[d] = insertLog[d]
  BY <1>1, IntegrateInsertStep
<1>3. TypeOK'
  BY <1>1, <1>2 DEF Inv, TypeOK, pendings
<1>4. op \notin pendingInserts[c]
  BY <1>1 DEF Inv, Blocked
<1>5. PartitionAt(c)'
  <2>1. pendingInserts'[c] = pendingInserts[c] \ {op} /\ pendingDeletes'[c] = pendingDeletes[c]
    BY <1>1, <1>4 DEF pendings
  <2> QED BY <2>1, <1>1, <1>2, IntegratedPartition
<1>6. BlockedAt(c)'
  <2>1. draining'[c]
    BY <1>1 DEF Inv, TypeOK
  <2> QED BY <2>1 DEF BlockedAt
<1>7. \A d \in Client \ {c} : Untouched(d)
  BY <1>1, <1>2 DEF Untouched, Inv, TypeOK, pendings
<1> QED BY <1>2, <1>3, <1>5, <1>6, <1>7, OneReplica DEF Inv

LEMMA ProcessPendingInv ==
  ASSUME Inv, NEW c \in Client, NEW op \in Issued, ProcessPending(c, op)
  PROVE  Inv'
<1>1. /\ draining[c] /\ op \in pendingInserts[c]
      /\ Resolvable(c, op) /\ ~WalksOff(list[c], op)
      /\ IntegrateInsert(c, op)
      /\ pendingInserts' = [pendingInserts EXCEPT ![c] = @ \ {op}]
      /\ UNCHANGED <<clock, tombstones, deleteLog, pendingDeletes, handler, aborted>>
  BY DEF ProcessPending
<1>2. op.id \notin Present(c)
  BY <1>1 DEF Inv, LogsPartition
<1>3. /\ list' \in [Client -> Seq(Element)]
      /\ characterCounter' \in [Client -> Int]
      /\ WellFormedList' /\ CounterMatches' /\ IssuedInv'
      /\ Present(c)' = Present(c) \cup {op.id}
      /\ op.id \notin {Start, End}
      /\ insertLog' \in [Client -> SUBSET InsertOperation]
      /\ insertLog'[c] = insertLog[c] \cup {op}
      /\ \A d \in Client \ {c} : list'[d] = list[d] /\ insertLog'[d] = insertLog[d]
  BY <1>1, <1>2, IntegrateInsertStep
<1>4. /\ pendingInserts' \in [Client -> SUBSET InsertOperation]
      /\ pendingInserts'[c] = pendingInserts[c] \ {op}
      /\ \A d \in Client \ {c} : pendingInserts'[d] = pendingInserts[d]
  BY <1>1 DEF Inv, TypeOK
<1>5. TypeOK'
  BY <1>1, <1>3, <1>4 DEF Inv, TypeOK, handler
<1>6. PartitionAt(c)'
  BY <1>1, <1>2, <1>3, <1>4, IntegratedPartition
<1>7. BlockedAt(c)'
  BY <1>1 DEF BlockedAt, handler
<1>8. \A d \in Client \ {c} : Untouched(d)
  BY <1>1, <1>3, <1>4 DEF Untouched, handler
<1> QED BY <1>3, <1>5, <1>6, <1>7, <1>8, OneReplica DEF Inv

LEMMA ProcessPendingDeletesInv ==
  ASSUME Inv, NEW c \in Client, ProcessPendingDeletes(c)
  PROVE  Inv'
<1> DEFINE arrived == pendingDeletes[c] \cap Present(c)
<1>1. /\ \A op \in pendingInserts[c] : ~Resolvable(c, op)
      /\ tombstones' = [tombstones EXCEPT ![c] = @ \cup arrived]
      /\ characterCounter' = [characterCounter EXCEPT ![c] = @ - Cardinality(arrived)]
      /\ deleteLog' = [deleteLog EXCEPT ![c] = @ \cup arrived]
      /\ pendingDeletes' = [pendingDeletes EXCEPT ![c] = @ \ arrived]
      /\ draining' = [draining EXCEPT ![c] = FALSE]
      /\ UNCHANGED <<clock, list, insertLog, pendingInserts, todoInserts, todoDeletes, aborted>>
  BY DEF ProcessPendingDeletes
<1>2. PartitionAt(c)
  BY DEF Inv, LogsPartition, PartitionAt
<1>3. arrived \subseteq ID /\ arrived \subseteq deleteLog[c] /\ arrived \subseteq Shown(c)
  <2>1. pendingDeletes[c] \subseteq ID
    BY DEF Inv, TypeOK
  <2> QED BY <2>1, <1>2, SentinelsAreNoIDs DEF PartitionAt, Shown
<1>4. arrived \cap Present(c) = arrived /\ (pendingDeletes[c] \ arrived) \cap Present(c) = {}
  OBVIOUS
<1> HIDE DEF arrived
<1>5. IsFiniteSet(arrived) /\ Cardinality(arrived) \in Nat
  BY <1>3, ShownFinite, FS_Subset, FS_CardinalityType DEF Inv
<1>6. /\ tombstones'[c] = tombstones[c] \cup arrived
      /\ deleteLog'[c] = deleteLog[c]
      /\ pendingDeletes'[c] = pendingDeletes[c] \ arrived
      /\ characterCounter'[c] = characterCounter[c] - Cardinality(arrived)
      /\ \A d \in Client \ {c} :
           /\ tombstones'[d] = tombstones[d] /\ deleteLog'[d] = deleteLog[d]
           /\ pendingDeletes'[d] = pendingDeletes[d] /\ draining'[d] = draining[d]
           /\ characterCounter'[d] = characterCounter[d]
  BY <1>1, <1>3 DEF Inv, TypeOK
<1>7. TypeOK'
  BY <1>1, <1>3, <1>5 DEF Inv, TypeOK
<1>8. \A d \in Client : Present(d)' = Present(d)
  BY <1>1 DEF Present
<1>9. WellFormedList'
  BY <1>1 DEF Inv, WellFormedList
<1>10. CounterMatches'
  <2>1. Shown(c)' = Shown(c) \ arrived /\ Shown(c) \cap arrived = arrived
    BY <1>3, <1>6, <1>8 DEF Shown
  <2>2. Cardinality(Shown(c)') = Cardinality(Shown(c)) - Cardinality(arrived)
    BY <2>1, ShownFinite, FS_Difference DEF Inv
  <2>3. \A d \in Client \ {c} : Shown(d)' = Shown(d)
    BY <1>6, <1>8 DEF Shown
  <2>4. \A d \in Client : characterCounter[d] = Cardinality(Shown(d))
    BY DEF Inv, CounterMatches, Shown
  <2>5. \A d \in Client : characterCounter'[d] = Cardinality(Shown(d)')
    BY <2>2, <2>3, <2>4, <1>6
  <2> QED BY <2>5 DEF CounterMatches, Shown
<1>11. IssuedInv'
  <2>1. Issued' = Issued /\ IssuedDeletes' = IssuedDeletes
    BY <1>1, <1>6 DEF Issued, IssuedDeletes
  <2> QED BY <2>1, <1>1 DEF Inv, IssuedInv
<1>12. PartitionAt(c)'
  BY <1>1, <1>2, <1>3, <1>6, <1>8 DEF PartitionAt, Shown
<1>13. BlockedAt(c)'
  BY <1>1, <1>4, <1>6, <1>8 DEF BlockedAt, Resolvable
<1>14. \A d \in Client \ {c} : Untouched(d)
  BY <1>1, <1>6 DEF Untouched
<1> QED BY <1>7, <1>9, <1>10, <1>11, <1>12, <1>13, <1>14, OneReplica DEF Inv

\* A delete that marks the element.
LEMMA MarkInv ==
  ASSUME Inv, NEW c \in Client, NEW id \in ID, Running(c), ~draining[c],
         id \in Present(c), id \notin tombstones[c], id \in IssuedDeletes,
         tombstones' = [tombstones EXCEPT ![c] = @ \cup {id}],
         characterCounter' = [characterCounter EXCEPT ![c] = @ - 1],
         deleteLog' = [deleteLog EXCEPT ![c] = @ \cup {id}],
         todoDeletes' = [todoDeletes EXCEPT ![c] = @ \ {id}],
         UNCHANGED <<clock, list, insertLog, pendings, todoInserts, draining, aborted>>
  PROVE  Inv'
<1>1. /\ tombstones'[c] = tombstones[c] \cup {id} /\ deleteLog'[c] = deleteLog[c] \cup {id}
      /\ characterCounter'[c] = characterCounter[c] - 1
      /\ \A d \in Client \ {c} :
           /\ tombstones'[d] = tombstones[d] /\ deleteLog'[d] = deleteLog[d]
           /\ characterCounter'[d] = characterCounter[d]
  BY DEF Inv, TypeOK
<1>2. TypeOK'
  BY DEF Inv, TypeOK, pendings
<1>3. \A d \in Client : Present(d)' = Present(d)
  BY DEF Present
<1>4. WellFormedList'
  BY DEF Inv, WellFormedList
<1>5. CounterMatches'
  <2>1. Shown(c)' = Shown(c) \ {id} /\ id \in Shown(c)
    BY <1>1, <1>3, SentinelsAreNoIDs DEF Shown
  <2>2. Cardinality(Shown(c)') = Cardinality(Shown(c)) - 1
    BY <2>1, ShownFinite, FS_RemoveElement DEF Inv
  <2>3. \A d \in Client \ {c} : Shown(d)' = Shown(d)
    BY <1>1, <1>3 DEF Shown
  <2>4. \A d \in Client : characterCounter[d] = Cardinality(Shown(d))
    BY DEF Inv, CounterMatches, Shown
  <2>5. \A d \in Client : characterCounter'[d] = Cardinality(Shown(d)')
    BY <2>2, <2>3, <2>4, <1>1
  <2> QED BY <2>5 DEF CounterMatches, Shown
<1>6. IssuedInv'
  <2>1. Issued' = Issued
    BY DEF Issued
  <2>2. IssuedDeletes' \subseteq IssuedDeletes
    BY <1>1 DEF IssuedDeletes
  <2> QED BY <2>1, <2>2, IssuedInvKept DEF Inv
<1>7. /\ \A a \in pendingInserts[c] : ~Resolvable(c, a)
      /\ pendingDeletes[c] \cap Present(c) = {}
  BY DEF Inv, Blocked
<1>8. PartitionAt(c)'
  <2>1. PartitionAt(c)
    BY DEF Inv, LogsPartition, PartitionAt
  <2>2. id \notin pendingDeletes[c]
    BY <1>7
  <2>3. pendingDeletes'[c] = deleteLog'[c] \ tombstones'[c]
    BY <2>1, <2>2, <1>1 DEF PartitionAt, pendings
  <2>4. tombstones'[c] \subseteq deleteLog'[c] \cap Present(c)'
    BY <2>1, <1>1, <1>3 DEF PartitionAt
  <2> QED BY <2>1, <2>3, <2>4, <1>3 DEF PartitionAt, pendings
<1>9. BlockedAt(c)'
  BY <1>3, <1>7 DEF BlockedAt, Resolvable, pendings
<1>10. \A d \in Client \ {c} : Untouched(d)
  BY <1>1 DEF Untouched, pendings
<1> QED BY <1>2, <1>4, <1>5, <1>6, <1>8, <1>9, <1>10, OneReplica DEF Inv

\* A delete that waits for its target.
LEMMA ParkDeleteInv ==
  ASSUME Inv, NEW c \in Client, NEW id \in ID, id \notin Present(c), id \in IssuedDeletes,
         pendingDeletes' = [pendingDeletes EXCEPT ![c] = @ \cup {id}],
         deleteLog' = [deleteLog EXCEPT ![c] = @ \cup {id}],
         todoDeletes' = [todoDeletes EXCEPT ![c] = @ \ {id}],
         UNCHANGED <<clock, list, tombstones, characterCounter, insertLog, pendingInserts,
                     todoInserts, draining, aborted>>
  PROVE  Inv'
<1>1. /\ pendingDeletes'[c] = pendingDeletes[c] \cup {id}
      /\ deleteLog'[c] = deleteLog[c] \cup {id}
      /\ \A d \in Client \ {c} :
           pendingDeletes'[d] = pendingDeletes[d] /\ deleteLog'[d] = deleteLog[d]
  BY DEF Inv, TypeOK
<1>2. TypeOK'
  BY DEF Inv, TypeOK
<1>3. \A d \in Client : Present(d)' = Present(d)
  BY DEF Present
<1>4. WellFormedList' /\ CounterMatches'
  BY <1>3 DEF Inv, WellFormedList, CounterMatches
<1>5. IssuedInv'
  <2>1. Issued' = Issued
    BY DEF Issued
  <2>2. IssuedDeletes' \subseteq IssuedDeletes
    BY <1>1 DEF IssuedDeletes
  <2> QED BY <2>1, <2>2, IssuedInvKept DEF Inv
<1>6. PartitionAt(c)'
  <2>1. PartitionAt(c)
    BY DEF Inv, LogsPartition, PartitionAt
  <2>2. id \notin tombstones[c]
    BY <2>1 DEF PartitionAt
  <2> QED BY <2>1, <2>2, <1>1, <1>3 DEF PartitionAt
<1>7. BlockedAt(c)'
  BY <1>1, <1>3 DEF Inv, Blocked, BlockedAt, Resolvable, Running
<1>8. \A d \in Client \ {c} : Untouched(d)
  BY <1>1 DEF Untouched
<1> QED BY <1>2, <1>4, <1>5, <1>6, <1>7, <1>8, OneReplica DEF Inv

LEMMA RemoteDeleteInv ==
  ASSUME Inv, NEW c \in Client, NEW id \in IssuedDeletes, RemoteDelete(c, id)
  PROVE  Inv'
<1>1. /\ Running(c) /\ ~draining[c]
      /\ todoDeletes' = [todoDeletes EXCEPT ![c] = @ \ {id}]
      /\ UNCHANGED <<clock, list, insertLog, pendingInserts, todoInserts, draining, aborted>>
  BY DEF RemoteDelete
<1>2. id \in ID
  BY DEF Inv, TypeOK, IssuedDeletes
<1>3. CASE id \notin Present(c)
  <2>1. /\ pendingDeletes' = [pendingDeletes EXCEPT ![c] = @ \cup {id}]
        /\ deleteLog' = [deleteLog EXCEPT ![c] = @ \cup {id}]
        /\ UNCHANGED <<tombstones, characterCounter>>
    BY <1>3 DEF RemoteDelete
  <2> QED BY <2>1, <1>1, <1>2, <1>3, ParkDeleteInv
<1>4. CASE id \in Present(c) /\ id \in tombstones[c]
  <2>1. UNCHANGED <<tombstones, characterCounter, deleteLog, pendingDeletes>>
    BY <1>4 DEF RemoteDelete
  <2>2. TypeOK'
    BY <1>1, <2>1 DEF Inv, TypeOK
  <2> QED BY <1>1, <2>1, <2>2, DocumentUnchanged DEF logs, pendings
<1>5. CASE id \in Present(c) /\ id \notin tombstones[c]
  <2>1. /\ tombstones' = [tombstones EXCEPT ![c] = @ \cup {id}]
        /\ characterCounter' = [characterCounter EXCEPT ![c] = @ - 1]
        /\ deleteLog' = [deleteLog EXCEPT ![c] = @ \cup {id}]
        /\ UNCHANGED pendingDeletes
    BY <1>5 DEF RemoteDelete
  <2> QED BY <2>1, <1>1, <1>2, <1>5, MarkInv DEF pendings
<1> QED BY <1>3, <1>4, <1>5

-----------------------------------------------------------------------------
\* The invariant of the specification.

LEMMA NextInv == Inv /\ [Next]_vars => Inv'
<1> SUFFICES ASSUME Inv, [Next]_vars PROVE Inv'
  OBVIOUS
<1>1. CASE UNCHANGED vars
  <2>1. UNCHANGED <<clock, list, tombstones, characterCounter, logs, pendings, handler, aborted>>
    BY <1>1 DEF vars
  <2>2. TypeOK'
    BY <2>1 DEF Inv, TypeOK, logs, pendings, handler
  <2>3. WellFormedList' /\ CounterMatches' /\ LogsPartition'
    BY <2>1 DEF Inv, WellFormedList, CounterMatches, LogsPartition, Present, logs, pendings
  <2>4. IssuedInv' /\ Blocked'
    BY <2>1 DEF Inv, IssuedInv, Blocked, Issued, IssuedDeletes, Running, Resolvable, Present,
                logs, pendings, handler
  <2> QED BY <2>2, <2>3, <2>4 DEF Inv
<1>2. ASSUME NEW c \in Client, Local(c) PROVE Inv'
  <2>1. PICK index \in 0..characterCounter[c] : InsertElement(c, index) \/ DeleteElement(c, index)
    BY <1>2 DEF Local
  <2> QED BY <2>1, InsertElementInv, DeleteElementInv
<1>3. ASSUME NEW c \in Client, Remote(c) PROVE Inv'
  <2>1. ASSUME NEW op \in Issued, RemoteInsert(c, op) PROVE Inv'
    BY <2>1, SkipInsertInv, ParkInsertInv, ApplyInsertInv DEF RemoteInsert
  <2>2. ASSUME NEW op \in Issued, RemoteInsertAborts(c, op) PROVE Inv'
    BY <2>2, AbortInv DEF RemoteInsertAborts
  <2>3. ASSUME NEW op \in Issued, ProcessPending(c, op) PROVE Inv'
    BY <2>3, ProcessPendingInv
  <2>4. ASSUME NEW op \in Issued, ProcessPendingAborts(c, op) PROVE Inv'
    BY <2>4, AbortInv DEF ProcessPendingAborts
  <2>5. ASSUME ProcessPendingDeletes(c) PROVE Inv'
    BY <2>5, ProcessPendingDeletesInv
  <2>6. ASSUME NEW id \in IssuedDeletes, RemoteDelete(c, id) PROVE Inv'
    BY <2>6, RemoteDeleteInv
  <2>7. ASSUME NEW p \in Client, NEW r \in Client, IntegrateDelta(c, p, r) PROVE Inv'
    BY <2>7, IntegrateDeltaInv
  <2> QED BY <1>3, <2>1, <2>2, <2>3, <2>4, <2>5, <2>6, <2>7 DEF Remote
<1> QED BY <1>1, <1>2, <1>3 DEF Next

THEOREM Invariance == Spec => []Inv
BY InitInv, NextInv, PTL DEF Spec

THEOREM TypeCorrect == Spec => []TypeOK
<1>1. Inv => TypeOK
  BY DEF Inv
<1> QED BY <1>1, Invariance, PTL

THEOREM ListsWellFormed == Spec => []WellFormedList
<1>1. Inv => WellFormedList
  BY DEF Inv
<1> QED BY <1>1, Invariance, PTL

THEOREM CountersMatch == Spec => []CounterMatches
<1>1. Inv => CounterMatches
  BY DEF Inv
<1> QED BY <1>1, Invariance, PTL

THEOREM LogsArePartitioned == Spec => []LogsPartition
<1>1. Inv => LogsPartition
  BY DEF Inv
<1> QED BY <1>1, Invariance, PTL

=============================================================================
