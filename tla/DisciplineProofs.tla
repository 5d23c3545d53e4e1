-------------------------- MODULE DisciplineProofs --------------------------
(***************************************************************************)
(* Under either discipline the replicas converge, for any number of        *)
(* clients and operations and however the operations are delivered: no two *)
(* replicas ever order two characters differently.                         *)
(***************************************************************************)
EXTENDS Disciplines, ReplicaProofs

At(c, x) == Position(list[c], x)
Before(c, x, y) == At(c, x) < At(c, y)

\* Two replicas never disagree on the order of two characters both have.
Agree ==
  \A c, d \in Client : \A x, y \in Present(c) \cap Present(d) : Before(c, x, y) => Before(d, x, y)

\* Whatever was typed is in some list: that of the client who typed it.
Somewhere == \A op \in Issued : \E d \in Client : op.id \in Present(d)

\* An element of a list carries the origin of its operation, a sentinel that of NewList.
OriginsAt(c) ==
  \A k \in 1..Len(list[c]) :
    /\ list[c][k].id \in {Start, End} => list[c][k].origin = Start
    /\ \A op \in Issued : list[c][k].id = op.id => list[c][k].origin = op.origin

OriginsInv == \A c \in Client : OriginsAt(c)

-----------------------------------------------------------------------------
\* Turns.

\* The list of a replica that has everything: the text as it would be without delays.
Full(g) == IDs(Issued) \subseteq Present(g)

\* What was typed next to a character X, on the side of its origin or of its right,
\* lies between X and that side entirely: typing in turn nests.
Nested(g) ==
  \A X, W \in Issued :
    /\ Before(g, X.origin, W.id) /\ Before(g, W.id, X.id) => ~Before(g, X.id, W.right)
    /\ Before(g, X.id, W.id) /\ Before(g, W.id, X.right) => ~Before(g, W.origin, X.id)

\* A replica that lacks X has nothing of what was typed between the origin and the right
\* of X: all of it refers to X, directly or not.  So the conflict zone of X is empty.
NothingBetween(g) ==
  \A c \in Client : \A X \in Issued : X.id \notin Present(c) =>
    \A w \in Present(c) : ~(Before(g, X.origin, w) /\ Before(g, w, X.right))

TurnInv == Client # {} => \E g \in Client : Full(g) /\ Nested(g) /\ NothingBetween(g)

-----------------------------------------------------------------------------
\* Rounds.

\* What everyone knew when the round began, B being the inserts typed before it.
Known(B) == IDs(B) \cup {Start, End}

\* The characters typed in the round go between neighbours of what was known then, and
\* those with the same origin stand in the order of their identifiers.
RoundInv(B) ==
  /\ B \subseteq Issued
  /\ \A c \in Client : Known(B) \subseteq Present(c)
  /\ \A X \in Issued \ B :
       /\ {X.origin, X.right} \subseteq Known(B)
       /\ \A c \in Client : \A w \in Known(B) :
            ~(Before(c, X.origin, w) /\ Before(c, w, X.right))
  /\ \A c \in Client : \A X, W \in Issued \ B :
       X.id \in Present(c) /\ W.id \in Present(c) /\ X.origin = W.origin /\ Before(c, X.id, W.id) =>
         IDLess(X.id, W.id)

DisciplineInv ==
  /\ Agree /\ Somewhere /\ OriginsInv
  /\ aborted = {}
  /\ inTurn => TurnInv
  /\ ~inTurn => RoundInv(base)

-----------------------------------------------------------------------------
\* The order of a list.

\* The places in a list order what is in it.
LEMMA Ordered ==
  ASSUME Inv, NEW c \in Client
  PROVE  /\ \A x \in Present(c) : At(c, x) \in Nat
         /\ \A x, y \in Present(c) : At(c, x) = At(c, y) => x = y
         /\ {Start, End} \subseteq Present(c)
         /\ \A x \in Present(c) : ~Before(c, x, Start) /\ ~Before(c, End, x)
<1>1. /\ Len(list[c]) \in Nat /\ WellFormed(list[c])
  BY LenProperties DEF Inv, TypeOK, WellFormedList
<1>2. 1 \in 1..Len(list[c]) /\ Len(list[c]) \in 1..Len(list[c])
  BY <1>1 DEF WellFormed
<1>3. {Start, End} \subseteq Present(c)
  BY <1>1, <1>2 DEF WellFormed, Present, ElementIDs
<1>4. \A x \in Present(c) : At(c, x) \in 1..Len(list[c]) /\ list[c][At(c, x)].id = x
  BY PositionProperties DEF Present, At
<1>5. At(c, Start) = 1 /\ At(c, End) = Len(list[c])
  BY <1>1, <1>2, <1>3, <1>4 DEF WellFormed
<1>6. \A x \in Present(c) : At(c, x) \in Nat /\ 1 <= At(c, x) /\ At(c, x) <= Len(list[c])
  BY <1>1, <1>4
<1> QED BY <1>1, <1>3, <1>4, <1>5, <1>6 DEF Before

\* Everything in a list is a sentinel or was typed, and what was typed is typed once.
LEMMA PresentIssued ==
  ASSUME Inv, NEW c \in Client
  PROVE  /\ Present(c) \subseteq IDs(Issued) \cup {Start, End}
         /\ \A x \in Present(c) \ {Start, End} : \E op \in Issued : op.id = x
         /\ \A op \in Issued : op.id \in ID /\ op.id \notin {Start, End}
<1>1. Present(c) \ {Start, End} \subseteq IDs(Issued)
  BY InCirculation
<1>2. \A op \in Issued : op.id \in ID
  BY DEF Inv, TypeOK, Issued, InsertOperation
<1> QED BY <1>1, <1>2, SentinelsAreNoIDs DEF IDs

\* A character in a list stands between its origin and its right.
LEMMA PlacedBetween ==
  ASSUME Inv, IntentionInv, NEW c \in Client, NEW op \in Issued, op.id \in Present(c)
  PROVE  /\ {op.origin, op.right} \subseteq Present(c)
         /\ Before(c, op.origin, op.id) /\ Before(c, op.id, op.right)
<1>1. op.id \in IDs(insertLog[c] \ pendingInserts[c])
  BY PresentIssued DEF Inv, LogsPartition
<1>2. PICK a \in insertLog[c] \ pendingInserts[c] : a.id = op.id
  BY <1>1 DEF IDs
<1>3. a = op
  BY <1>2, InCirculation DEF Inv, IssuedInv
<1> QED BY <1>2, <1>3 DEF IntentionInv, Between, Before, At

\* The walk of conflictZone never misses the right.
LEMMA NeverWalksOff ==
  ASSUME Inv, IntentionInv, Agree, Somewhere, NEW c \in Client, NEW op \in Issued,
         Resolvable(c, op)
  PROVE  ~WalksOff(list[c], op)
<1>1. PICK d \in Client : op.id \in Present(d)
  BY DEF Somewhere
<1>2. /\ {op.origin, op.right, op.id} \subseteq Present(d)
      /\ Before(d, op.origin, op.id) /\ Before(d, op.id, op.right)
  BY <1>1, PlacedBetween
<1>3. Before(d, op.origin, op.right)
  BY <1>2, Ordered DEF Before
<1>4. Before(c, op.origin, op.right)
  BY <1>2, <1>3 DEF Agree, Resolvable
<1>5. At(c, op.origin) \in Nat /\ At(c, op.right) \in Nat
  BY Ordered DEF Resolvable
<1> QED BY <1>4, <1>5 DEF Before, WalksOff, At

\* What a splice does to the order.
LEMMA SpliceOrder ==
  ASSUME Inv, NEW c \in Client, NEW op, NEW k, SplicesAt(c, op, k)
  PROVE  /\ k \in Nat
         /\ Present(c)' = Present(c) \cup {op.id}
         /\ \A x, y \in Present(c) : Before(c, x, y)' <=> Before(c, x, y)
         /\ \A x \in Present(c) : Before(c, x, op.id)' <=> At(c, x) < k
         /\ \A x \in Present(c) : Before(c, op.id, x)' <=> ~(At(c, x) < k)
         /\ ~Before(c, op.id, op.id)'
<1>1. /\ list[c] \in Seq(Element) /\ WellFormed(list[c]) /\ Len(list[c]) \in Nat
      /\ ElementOf(op) \in Element /\ ElementOf(op).id = op.id
      /\ op.id \notin ElementIDs(list[c])
      /\ list'[c] = InsertAt(list[c], k, ElementOf(op))
      /\ k \in 2..Len(list[c])
  BY LenProperties
  DEF Inv, TypeOK, WellFormedList, ElementOf, Element, InsertOperation, SplicesAt, Present
<1>2. Present(c)' = Present(c) \cup {op.id}
  BY <1>1, SpliceProperties DEF Present
<1>3. /\ Position(list'[c], op.id) = k
      /\ \A x \in Present(c) :
           Position(list'[c], x) =
             IF Position(list[c], x) < k THEN Position(list[c], x) ELSE Position(list[c], x) + 1
  BY <1>1, PositionAfterSplice DEF Present
<1>4. k \in Nat /\ \A x \in Present(c) : At(c, x) \in Nat
  BY <1>1, Ordered
<1>5. /\ At(c, op.id)' = k
      /\ \A x \in Present(c) : At(c, x)' = IF At(c, x) < k THEN At(c, x) ELSE At(c, x) + 1
  BY <1>3 DEF At
<1> QED BY <1>2, <1>4, <1>5 DEF Before

\* A replica whose list does not change keeps its order.
LEMMA SameList ==
  ASSUME NEW d \in Client, list'[d] = list[d]
  PROVE  /\ Present(d)' = Present(d)
         /\ \A x, y : Before(d, x, y)' <=> Before(d, x, y)
BY DEF Present, Before, At

-----------------------------------------------------------------------------
\* The steps, as far as they change a list.

ElsewhereSame(c) == \A d \in Client \ {c} : list'[d] = list[d]

\* A client types op at k.
Types(c, op, k) ==
  /\ SplicesAt(c, op, k) /\ ElsewhereSame(c)
  /\ op.id \notin IDs(Issued)
  /\ At(c, op.origin) = k - 1 /\ At(c, op.right) = k
  /\ Issued' = Issued \cup {op}

\* A client integrates op at k.
Integrates(c, op, k) ==
  /\ SplicesAt(c, op, k) /\ ElsewhereSame(c)
  /\ op \in Issued
  /\ IsInsertionPoint(list[c], op, k)
  /\ Issued' = Issued

LEMMA TypingStep ==
  ASSUME Inv, NEW c \in Client, InsertSome(c)
  PROVE  aborted' = aborted /\ \E op, k : Types(c, op, k)
<1>1. PICK index \in 0..characterCounter[c] : InsertElement(c, index)
  BY DEF InsertSome
<1>2. PICK op \in InsertOperation, k \in 2..Len(list[c]) :
        /\ SplicesAt(c, op, k)
        /\ op.id \notin IDs(Issued)
        /\ op.origin = list[c][k - 1].id /\ op.right = list[c][k].id
        /\ \A d \in Client \ {c} : list'[d] = list[d]
        /\ insertLog' = [insertLog EXCEPT ![c] = @ \cup {op}]
        /\ UNCHANGED <<pendingInserts, aborted>>
  BY <1>1, TypingSplices
<1>3. /\ insertLog'[c] = insertLog[c] \cup {op}
      /\ \A d \in Client \ {c} : insertLog'[d] = insertLog[d]
  BY <1>2 DEF Inv, TypeOK
<1>4. Issued' = Issued \cup {op}
  BY <1>3 DEF Issued
<1>5. Len(list[c]) \in Nat /\ WellFormed(list[c])
  BY LenProperties DEF Inv, TypeOK, WellFormedList
<1>6. k - 1 \in 1..Len(list[c]) /\ k \in 1..Len(list[c])
  BY <1>5
<1>7. At(c, op.origin) = k - 1 /\ At(c, op.right) = k
  BY <1>2, <1>5, <1>6, PositionUnique DEF At
<1> QED BY <1>2, <1>4, <1>7 DEF Types, ElsewhereSame

LEMMA IntegrationStep ==
  ASSUME Inv, IntentionInv, Agree, Somewhere, NEW c \in Client, NEW op \in Issued,
         op.id \notin Present(c), Resolvable(c, op), IntegrateInsert(c, op)
  PROVE  \E k : Integrates(c, op, k)
<1>1. ~WalksOff(list[c], op)
  BY NeverWalksOff
<1>2. /\ \E k \in 2..Len(list[c]) : SplicesAt(c, op, k) /\ IsInsertionPoint(list[c], op, k)
      /\ \A d \in Client \ {c} : list'[d] = list[d]
      /\ insertLog' = [insertLog EXCEPT ![c] = @ \cup {op}]
  BY <1>1, IntegrationSplices
<1>3. Issued' = Issued
  BY <1>2, NothingIssued DEF Inv
<1> QED BY <1>2, <1>3 DEF Integrates, ElsewhereSame

LEMMA RemoteStep ==
  ASSUME Inv, IntentionInv, Agree, Somewhere, NEW c \in Client, Remote(c)
  PROVE  /\ aborted' = aborted
         /\ \/ list' = list /\ Issued' = Issued
            \/ \E op, k : Integrates(c, op, k)
<1> DEFINE Quiet == aborted' = aborted /\ list' = list /\ Issued' = Issued
<1>1. UNCHANGED <<list, insertLog, aborted>> => Quiet
  BY DEF Issued
<1>2. ASSUME NEW op \in Issued, RemoteInsert(c, op)
      PROVE  Quiet \/ (aborted' = aborted /\ \E k : Integrates(c, op, k))
  <2>1. CASE SkipInsert(c, op)
    <3>1. UNCHANGED <<list, insertLog, aborted>>
      BY <2>1 DEF SkipInsert, logs
    <3> QED BY <3>1, <1>1
  <2>2. CASE ParkInsert(c, op)
    <3>1. UNCHANGED <<list, aborted>> /\ insertLog' = [insertLog EXCEPT ![c] = @ \cup {op}]
      BY <2>2 DEF ParkInsert
    <3>2. Issued' = Issued
      BY <3>1, NothingIssued DEF Inv
    <3> QED BY <3>1, <3>2
  <2>3. CASE ApplyInsert(c, op)
    BY <2>3, IntegrationStep DEF ApplyInsert
  <2> QED BY <1>2, <2>1, <2>2, <2>3 DEF RemoteInsert
<1>3. ASSUME NEW op \in Issued PROVE ~RemoteInsertAborts(c, op) /\ ~ProcessPendingAborts(c, op)
  BY NeverWalksOff DEF RemoteInsertAborts, ProcessPendingAborts
<1>4. ASSUME NEW op \in Issued, ProcessPending(c, op)
      PROVE  aborted' = aborted /\ \E k : Integrates(c, op, k)
  <2>1. /\ op \in pendingInserts[c] /\ Resolvable(c, op)
        /\ IntegrateInsert(c, op) /\ aborted' = aborted
    BY <1>4 DEF ProcessPending
  <2>2. op.id \notin Present(c)
    BY <2>1 DEF Inv, LogsPartition
  <2> QED BY <2>1, <2>2, IntegrationStep
<1>5. ASSUME ProcessPendingDeletes(c) PROVE Quiet
  BY <1>1, <1>5 DEF ProcessPendingDeletes
<1>6. ASSUME NEW id \in IssuedDeletes, RemoteDelete(c, id) PROVE Quiet
  BY <1>1, <1>6 DEF RemoteDelete
<1>7. ASSUME NEW p \in Client, NEW r \in Client, IntegrateDelta(c, p, r) PROVE Quiet
  BY <1>1, <1>7 DEF IntegrateDelta, logs
<1> QED BY <1>2, <1>3, <1>4, <1>5, <1>6, <1>7 DEF Remote

-----------------------------------------------------------------------------
\* What holds under either discipline.

\* Op is put where the other replicas that have it have it.
Fits(c, op, k) ==
  \A d \in Client \ {c} : op.id \in Present(d) =>
    \A x \in Present(c) \cap Present(d) : At(c, x) < k <=> Before(d, x, op.id)

LEMMA SpliceAgrees ==
  ASSUME Inv, Agree, NEW c \in Client, NEW op, NEW k, SplicesAt(c, op, k), ElsewhereSame(c),
         Fits(c, op, k)
  PROVE  Agree'
<1> DEFINE Y == op.id
<1>1. /\ Present(c)' = Present(c) \cup {Y}
      /\ \A x, y \in Present(c) : Before(c, x, y)' <=> Before(c, x, y)
      /\ \A x \in Present(c) : Before(c, x, Y)' <=> At(c, x) < k
      /\ \A x \in Present(c) : Before(c, Y, x)' <=> ~(At(c, x) < k)
      /\ ~Before(c, Y, Y)'
  BY SpliceOrder
<1>2. \A d \in Client \ {c} :
        Present(d)' = Present(d) /\ \A x, y : Before(d, x, y)' <=> Before(d, x, y)
  BY SameList DEF ElsewhereSame
<1>3. ASSUME NEW d \in Client \ {c}, NEW x \in Present(c)' \cap Present(d)',
             NEW y \in Present(c)' \cap Present(d)'
      PROVE  Before(c, x, y)' <=> Before(d, x, y)'
  <2>1. x \in Present(d) /\ y \in Present(d) /\ (Before(d, x, y)' <=> Before(d, x, y))
    BY <1>2
  <2>2. ~Before(d, Y, Y) \/ Y \notin Present(d)
    BY Ordered DEF Before
  <2>3. \A z \in Present(d) : z # Y /\ Y \in Present(d) => (~Before(d, z, Y) <=> Before(d, Y, z))
    BY Ordered DEF Before
  <2>4. CASE x \in Present(c) /\ y \in Present(c)
    BY <1>1, <2>1, <2>4 DEF Agree
  <2>5. CASE x \in Present(c) /\ y = Y
    BY <1>1, <2>1, <2>5 DEF Fits
  <2>6. CASE x = Y /\ y \in Present(c)
    BY <1>1, <2>1, <2>3, <2>6 DEF Fits, SplicesAt
  <2>7. CASE x = Y /\ y = Y
    BY <1>1, <2>1, <2>2, <2>7
  <2> QED BY <1>1, <2>4, <2>5, <2>6, <2>7
<1>4. ASSUME NEW a \in Client, NEW b \in Client, NEW x \in Present(a)' \cap Present(b)',
             NEW y \in Present(a)' \cap Present(b)', Before(a, x, y)'
      PROVE  Before(b, x, y)'
  <2>1. CASE a # c /\ b # c
    BY <1>2, <1>4, <2>1 DEF Agree
  <2>2. CASE a = b
    BY <1>4, <2>2
  <2>3. CASE a = c /\ b # c
    BY <1>3, <1>4, <2>3
  <2>4. CASE a # c /\ b = c
    BY <1>3, <1>4, <2>4
  <2> QED BY <2>1, <2>2, <2>3, <2>4
<1> QED BY <1>4 DEF Agree

LEMMA SpliceOrigins ==
  ASSUME Inv, Inv', OriginsInv, NEW c \in Client, NEW op, NEW k, SplicesAt(c, op, k),
         ElsewhereSame(c), op \in Issued', Issued' \subseteq Issued \cup {op},
         op \in Issued \/ op.id \notin IDs(Issued)
  PROVE  OriginsInv'
<1>1. /\ list[c] \in Seq(Element) /\ Len(list[c]) \in Nat
      /\ ElementOf(op) \in Element
      /\ ElementOf(op).id = op.id /\ ElementOf(op).origin = op.origin
      /\ list'[c] = InsertAt(list[c], k, ElementOf(op))
      /\ k \in 1..Len(list[c])
      /\ op.id \notin {Start, End}
  <2>1. list[c] \in Seq(Element) /\ Len(list[c]) \in Nat
    BY LenProperties DEF Inv, TypeOK
  <2>2. /\ op \in InsertOperation /\ op.id \notin {Start, End}
        /\ list'[c] = InsertAt(list[c], k, ElementOf(op))
        /\ k \in 2..Len(list[c])
    BY DEF SplicesAt
  <2>3. k \in 1..Len(list[c])
    BY <2>1, <2>2
  <2>4. /\ ElementOf(op) \in Element
        /\ ElementOf(op).id = op.id /\ ElementOf(op).origin = op.origin
    BY <2>2 DEF ElementOf, Element, InsertOperation
  <2> QED BY <2>1, <2>2, <2>3, <2>4
<1>2. /\ Len(list'[c]) = Len(list[c]) + 1
      /\ \A j \in 1..Len(list[c]) + 1 :
           list'[c][j] =
             IF j < k THEN list[c][j] ELSE IF j = k THEN ElementOf(op) ELSE list[c][j - 1]
  <2>1. /\ Len(InsertAt(list[c], k, ElementOf(op))) = Len(list[c]) + 1
        /\ \A j \in 1..Len(list[c]) + 1 :
             InsertAt(list[c], k, ElementOf(op))[j] =
               IF j < k THEN list[c][j] ELSE IF j = k THEN ElementOf(op) ELSE list[c][j - 1]
    <3>1. list[c] \in Seq(Element) /\ ElementOf(op) \in Element /\ k \in 1..Len(list[c])
      BY <1>1
    <3> QED BY <3>1, InsertAtProperties
  <2> QED BY <1>1, <2>1
<1>3. \A a \in Issued' : a.id = op.id => a = op
  BY DEF Inv, IssuedInv
<1>4. ASSUME NEW d \in Client, NEW j \in 1..Len(list[d])
      PROVE  /\ list[d][j].id \in {Start, End} => list[d][j].origin = Start
             /\ \A a \in Issued' : list[d][j].id = a.id => list[d][j].origin = a.origin
  <2>1. /\ list[d][j].id \in {Start, End} => list[d][j].origin = Start
        /\ \A a \in Issued : list[d][j].id = a.id => list[d][j].origin = a.origin
    BY DEF OriginsInv, OriginsAt
  <2>2. CASE op \in Issued
    BY <2>1, <2>2
  <2>3. CASE op.id \notin IDs(Issued)
    <3>1. list[d][j].id \in Present(d)
      BY DEF Present, ElementIDs
    <3>2. list[d][j].id # op.id
      BY <1>1, <2>3, <3>1, PresentIssued
    <3> QED BY <2>1, <3>2
  <2> QED BY <2>2, <2>3
<1>5. OriginsAt(c)'
  <2> SUFFICES ASSUME NEW j \in 1..Len(list'[c])
               PROVE  /\ list'[c][j].id \in {Start, End} => list'[c][j].origin = Start
                      /\ \A a \in Issued' : list'[c][j].id = a.id => list'[c][j].origin = a.origin
    BY DEF OriginsAt
  <2>1. CASE j < k
    <3>1. j \in 1..Len(list[c]) /\ list'[c][j] = list[c][j]
      BY <1>1, <1>2, <2>1
    <3> QED BY <3>1, <1>4
  <2>2. CASE j = k
    <3>1. list'[c][j] = ElementOf(op)
      BY <1>1, <1>2, <2>2
    <3> QED BY <3>1, <1>1, <1>3
  <2>3. CASE j > k
    <3>1. j - 1 \in 1..Len(list[c]) /\ list'[c][j] = list[c][j - 1]
      BY <1>1, <1>2, <2>3
    <3> QED BY <3>1, <1>4
  <2>4. j \in Nat /\ k \in Nat
    BY <1>1
  <2> QED BY <2>1, <2>2, <2>3, <2>4
<1>6. \A d \in Client \ {c} : OriginsAt(d)'
  BY <1>4 DEF OriginsAt, ElsewhereSame
<1> QED BY <1>5, <1>6 DEF OriginsInv

\* A step keeps what both disciplines share, whatever it splices in, as long as it fits.
LEMMA SpliceKeeps ==
  ASSUME Inv, Inv', Agree, Somewhere, OriginsInv, NEW c \in Client, NEW op, NEW k,
         Types(c, op, k) \/ Integrates(c, op, k), Fits(c, op, k)
  PROVE  Agree' /\ Somewhere' /\ OriginsInv'
<1>1. /\ SplicesAt(c, op, k) /\ ElsewhereSame(c)
      /\ op \in Issued' /\ Issued' = Issued \cup {op}
      /\ op \in Issued \/ op.id \notin IDs(Issued)
  BY DEF Types, Integrates
<1>2. Agree' /\ OriginsInv'
  BY <1>1, SpliceAgrees, SpliceOrigins
<1>3. Present(c)' = Present(c) \cup {op.id} /\ \A d \in Client \ {c} : Present(d)' = Present(d)
  BY <1>1, SpliceOrder, SameList DEF ElsewhereSame
<1>4. Somewhere'
  BY <1>1, <1>3 DEF Somewhere
<1> QED BY <1>2, <1>4

\* What is typed is nowhere else.
LEMMA TypingFits ==
  ASSUME Inv, NEW c \in Client, NEW op, NEW k, Types(c, op, k)
  PROVE  Fits(c, op, k) /\ \A d \in Client : op.id \notin Present(d)
BY PresentIssued DEF Types, SplicesAt, Fits

-----------------------------------------------------------------------------
\* Turns.

\* A full list holds every identifier an operation has or refers to.
LEMMA FullList ==
  ASSUME Inv, NEW g \in Client, Full(g)
  PROVE  /\ \A c \in Client : Present(c) \subseteq Present(g)
         /\ \A op \in Issued : {op.id, op.origin, op.right} \subseteq Present(g)
<1>1. IDs(Issued) \cup {Start, End} \subseteq Present(g)
  BY Ordered DEF Full
<1>2. \A c \in Client : Present(c) \subseteq Present(g)
  BY <1>1, PresentIssued
<1>3. \A op \in Issued : op.id \in IDs(Issued)
  BY DEF IDs
<1>4. \A op \in Issued : {op.origin, op.right} \subseteq IDs(Issued) \cup {Start, End}
  BY DEF Inv, IssuedInv
<1> QED BY <1>1, <1>2, <1>3, <1>4

\* All full lists are the same text, so what is said of one holds of the others.
LEMMA FullListsAlike ==
  ASSUME Inv, Agree, NEW g \in Client, NEW h \in Client, Full(g), Full(h),
         Nested(g), NothingBetween(g)
  PROVE  Nested(h) /\ NothingBetween(h)
<1>1. \A x, y \in Present(g) \cap Present(h) : Before(g, x, y) <=> Before(h, x, y)
  BY DEF Agree
<1>2. \A op \in Issued : {op.id, op.origin, op.right} \subseteq Present(g) \cap Present(h)
  BY FullList
<1>3. \A c \in Client : Present(c) \subseteq Present(g) \cap Present(h)
  BY FullList
<1>4. Nested(h)
  <2> SUFFICES ASSUME NEW X \in Issued, NEW W \in Issued
               PROVE  /\ Before(h, X.origin, W.id) /\ Before(h, W.id, X.id) =>
                           ~Before(h, X.id, W.right)
                      /\ Before(h, X.id, W.id) /\ Before(h, W.id, X.right) =>
                           ~Before(h, W.origin, X.id)
    BY DEF Nested
  <2>1. {X.id, X.origin, X.right, W.id, W.origin, W.right} \subseteq Present(g) \cap Present(h)
    BY <1>2
  <2> QED BY <1>1, <2>1 DEF Nested
<1>5. NothingBetween(h)
  BY <1>1, <1>2, <1>3 DEF NothingBetween
<1> QED BY <1>4, <1>5

\* Whoever types in turn has the full text, and types between two neighbours of it.
LEMMA TypingInTurn ==
  ASSUME Inv, Inv', NEW c \in Client, Full(c), Nested(c), NothingBetween(c),
         NEW Y, NEW k, Types(c, Y, k)
  PROVE  Full(c)' /\ Nested(c)' /\ NothingBetween(c)'
<1>1. /\ k \in Nat
      /\ Present(c)' = Present(c) \cup {Y.id}
      /\ \A x, y \in Present(c) : Before(c, x, y)' <=> Before(c, x, y)
      /\ \A x \in Present(c) : Before(c, x, Y.id)' <=> At(c, x) < k
      /\ \A x \in Present(c) : Before(c, Y.id, x)' <=> ~(At(c, x) < k)
      /\ ~Before(c, Y.id, Y.id)'
  BY SpliceOrder DEF Types
<1>2. /\ Issued' = Issued \cup {Y}
      /\ {Y.origin, Y.right} \subseteq Present(c)
      /\ At(c, Y.origin) = k - 1 /\ At(c, Y.right) = k
      /\ \A d \in Client \ {c} : Present(d)' = Present(d)
  BY SameList DEF Types, SplicesAt, ElsewhereSame
<1>3. \A x \in Present(c) : At(c, x) \in Nat
  BY Ordered
<1>4. \A op \in Issued : {op.id, op.origin, op.right} \subseteq Present(c)
  BY FullList
<1>5. Full(c)'
  BY <1>1, <1>2 DEF Full, IDs
<1>6. \A x \in Present(c) : ~(Before(c, Y.origin, x) /\ Before(c, x, Y.right))
  BY <1>1, <1>2, <1>3 DEF Before
<1>7. Nested(c)'
  <2> SUFFICES ASSUME NEW X \in Issued', NEW W \in Issued'
               PROVE  /\ Before(c, X.origin, W.id)' /\ Before(c, W.id, X.id)' =>
                           ~Before(c, X.id, W.right)'
                      /\ Before(c, X.id, W.id)' /\ Before(c, W.id, X.right)' =>
                           ~Before(c, W.origin, X.id)'
    BY DEF Nested
  <2>1. CASE X \in Issued /\ W \in Issued
    <3>1. {X.id, X.origin, X.right, W.id, W.origin, W.right} \subseteq Present(c)
      BY <1>4, <2>1
    <3> QED BY <1>1, <2>1, <3>1 DEF Nested
  <2>2. CASE X = Y /\ W \in Issued
    <3>1. W.id \in Present(c)
      BY <1>4, <2>2
    <3>2. /\ Before(c, Y.origin, W.id)' <=> k - 1 < At(c, W.id)
          /\ Before(c, W.id, Y.right)' <=> At(c, W.id) < k
          /\ Before(c, W.id, Y.id)' <=> At(c, W.id) < k
          /\ Before(c, Y.id, W.id)' <=> ~(At(c, W.id) < k)
      BY <1>1, <1>2, <3>1 DEF Before
    <3>3. At(c, W.id) \in Nat
      BY <1>3, <3>1
    <3> QED BY <1>1, <2>2, <3>2, <3>3
  <2>3. CASE X \in Issued /\ W = Y
    <3>1. X.id \in Present(c)
      BY <1>4, <2>3
    <3>2. /\ Before(c, Y.origin, X.id)' <=> k - 1 < At(c, X.id)
          /\ Before(c, X.id, Y.right)' <=> At(c, X.id) < k
          /\ Before(c, X.id, Y.id)' <=> At(c, X.id) < k
          /\ Before(c, Y.id, X.id)' <=> ~(At(c, X.id) < k)
      BY <1>1, <1>2, <3>1 DEF Before
    <3>3. At(c, X.id) \in Nat
      BY <1>3, <3>1
    <3> QED BY <1>1, <2>3, <3>2, <3>3
  <2>4. CASE X = Y /\ W = Y
    BY <1>1, <2>4
  <2> QED BY <1>2, <2>1, <2>2, <2>3, <2>4
<1>8. NothingBetween(c)'
  <2> SUFFICES ASSUME NEW d \in Client, NEW X \in Issued', X.id \notin Present(d)',
                      NEW w \in Present(d)'
               PROVE  ~(Before(c, X.origin, w)' /\ Before(c, w, X.right)')
    BY DEF NothingBetween
  <2>1. d # c
    BY <1>5 DEF Full, IDs
  <2>2. w \in Present(d) /\ w \in Present(c) /\ X.id \notin Present(d)
    BY <1>2, <2>1, FullList
  <2>3. CASE X = Y
    BY <1>1, <1>2, <1>6, <2>2, <2>3
  <2>4. CASE X \in Issued
    BY <1>1, <1>4, <2>2, <2>4 DEF NothingBetween
  <2> QED BY <1>2, <2>3, <2>4
<1> QED BY <1>5, <1>7, <1>8

\* In turn, nothing stands where a character is integrated, so it is put right between
\* its origin and its right; and the character next to it has nothing in between either.
LEMMA IntegrationInTurn ==
  ASSUME Inv, Inv', IntentionInv, Agree, NEW g \in Client, Full(g), Nested(g), NothingBetween(g),
         NEW c \in Client, NEW Y, NEW k, Integrates(c, Y, k)
  PROVE  Fits(c, Y, k) /\ Full(g)' /\ Nested(g)' /\ NothingBetween(g)'
<1>1. /\ Y \in Issued /\ Issued' = Issued
      /\ Y.id \notin Present(c)
      /\ {Y.origin, Y.right} \subseteq Present(c)
      /\ At(c, Y.origin) < k /\ k <= At(c, Y.right)
      /\ k \in Nat
      /\ Present(c)' = Present(c) \cup {Y.id}
      /\ \A d \in Client \ {c} : Present(d)' = Present(d)
  BY SpliceOrder, SameList DEF Integrates, SplicesAt, ElsewhereSame, At
<1>2. /\ Present(c) \subseteq Present(g)
      /\ \A op \in Issued : {op.id, op.origin, op.right} \subseteq Present(g)
  BY FullList
<1>3. g # c
  BY <1>1, <1>2
<1>4. \A x, y \in Present(c) : Before(c, x, y) <=> Before(g, x, y)
  BY <1>2 DEF Agree
<1>5. \A x \in Present(c) : ~(Before(c, Y.origin, x) /\ Before(c, x, Y.right))
  BY <1>1, <1>4 DEF NothingBetween
<1>6. Fits(c, Y, k)
  <2> SUFFICES ASSUME NEW d \in Client \ {c}, Y.id \in Present(d),
                      NEW x \in Present(c) \cap Present(d)
               PROVE  At(c, x) < k <=> Before(d, x, Y.id)
    BY DEF Fits
  <2>1. /\ {Y.origin, Y.right} \subseteq Present(d)
        /\ Before(d, Y.origin, Y.id) /\ Before(d, Y.id, Y.right)
    BY <1>1, PlacedBetween
  <2>2. /\ \A z \in Present(c) : At(c, z) \in Nat
        /\ \A y, z \in Present(c) : At(c, y) = At(c, z) => y = z
        /\ \A z \in Present(d) : At(d, z) \in Nat
    BY Ordered
  <2>3. CASE At(c, x) < k
    <3>1. x = Y.origin \/ Before(c, x, Y.origin)
      BY <1>1, <1>5, <2>2, <2>3 DEF Before
    <3>2. x = Y.origin \/ Before(d, x, Y.origin)
      BY <1>1, <2>1, <3>1 DEF Agree
    <3>3. Before(d, x, Y.id)
      BY <2>1, <2>2, <3>2 DEF Before
    <3> QED BY <2>3, <3>3
  <2>4. CASE ~(At(c, x) < k)
    <3>1. x = Y.right \/ Before(c, Y.right, x)
      BY <1>1, <1>5, <2>2, <2>4 DEF Before
    <3>2. x = Y.right \/ Before(d, Y.right, x)
      BY <1>1, <2>1, <3>1 DEF Agree
    <3>3. ~Before(d, x, Y.id)
      BY <2>1, <2>2, <3>2 DEF Before
    <3> QED BY <2>4, <3>3
  <2> QED BY <2>3, <2>4
<1>7. /\ list'[g] = list[g]
      /\ Present(g)' = Present(g)
      /\ \A x, y : Before(g, x, y)' <=> Before(g, x, y)
  BY <1>3, SameList DEF Integrates, ElsewhereSame
<1>8. Full(g)' /\ Nested(g)'
  BY <1>1, <1>7 DEF Full, Nested
<1>9. ASSUME NEW X \in Issued, X.id \notin Present(c), X # Y
      PROVE  ~(Before(g, X.origin, Y.id) /\ Before(g, Y.id, X.right))
  <2>1. {X.id, X.origin, X.right, Y.id, Y.origin, Y.right} \subseteq Present(g)
    BY <1>1, <1>2
  <2>2. /\ Before(g, X.origin, X.id) /\ Before(g, X.id, X.right)
        /\ Before(g, Y.origin, Y.id) /\ Before(g, Y.id, Y.right)
    BY <1>1, <2>1, PlacedBetween
  <2>3. /\ ~(Before(g, X.origin, Y.origin) /\ Before(g, Y.origin, X.right))
        /\ ~(Before(g, X.origin, Y.right) /\ Before(g, Y.right, X.right))
    BY <1>1, <1>9 DEF NothingBetween
  <2>4. X.id # Y.id /\ X.id # Y.origin /\ X.id # Y.right
    BY <1>1, <1>9 DEF Inv, IssuedInv
  <2>5. /\ Before(g, X.origin, Y.id) /\ Before(g, Y.id, X.id) => ~Before(g, X.id, Y.right)
        /\ Before(g, X.id, Y.id) /\ Before(g, Y.id, X.right) => ~Before(g, Y.origin, X.id)
    BY <1>1 DEF Nested
  <2>6. /\ \A z \in Present(g) : At(g, z) \in Nat
        /\ \A y, z \in Present(g) : At(g, y) = At(g, z) => y = z
    BY Ordered
  <2> QED BY <2>1, <2>2, <2>3, <2>4, <2>5, <2>6 DEF Before
<1>10. NothingBetween(g)'
  <2> SUFFICES ASSUME NEW d \in Client, NEW X \in Issued', X.id \notin Present(d)',
                      NEW w \in Present(d)'
               PROVE  ~(Before(g, X.origin, w)' /\ Before(g, w, X.right)')
    BY DEF NothingBetween
  <2>1. CASE w \in Present(d)
    BY <1>1, <1>7, <2>1 DEF NothingBetween
  <2>2. CASE d = c /\ w = Y.id
    BY <1>1, <1>7, <1>9, <2>2
  <2> QED BY <1>1, <2>1, <2>2
<1> QED BY <1>6, <1>8, <1>10

-----------------------------------------------------------------------------
\* Rounds.

\* IDLess is a strict order of the identifiers, and a total one.
LEMMA IDLessOrders ==
  ASSUME NEW a \in ID, NEW b \in ID
  PROVE  /\ ~(IDLess(a, b) /\ IDLess(b, a))
         /\ a # b => IDLess(a, b) \/ IDLess(b, a)
         /\ \A e \in ID : IDLess(a, b) /\ IDLess(b, e) => IDLess(a, e)
<1>1. \A e \in ID : e.client \in Nat /\ e.clock \in Nat
  BY ClientAssumption DEF ID
<1>2. a # b => a.client # b.client \/ a.clock # b.clock
  BY DEF ID
<1> QED BY <1>1, <1>2 DEF IDLess

\* What was typed in the round was not known before it.
LEMMA RoundMembers ==
  ASSUME Inv, NEW B, RoundInv(B), NEW X \in Issued \ B
  PROVE  X.id \notin Known(B)
<1>1. \A b \in B : b.id # X.id
  BY DEF RoundInv, Inv, IssuedInv
<1>2. X.id \notin {Start, End}
  BY SentinelsAreNoIDs DEF Inv, TypeOK, Issued, InsertOperation
<1> QED BY <1>1, <1>2 DEF Known, IDs

\* When everyone has everything, a round may begin.
LEMMA RoundBegins ==
  ASSUME Inv, \A d \in Client : CaughtUp(d)
  PROVE  RoundInv(Issued) /\ \A d \in Client : Present(d) = Known(Issued)
<1>1. ASSUME NEW d \in Client PROVE Present(d) = Known(Issued)
  <2>1. pendingInserts[d] = {} /\ insertLog[d] = Issued
    BY DEF CaughtUp, Settled
  <2>2. Present(d) \ {Start, End} = IDs(insertLog[d] \ pendingInserts[d])
    BY DEF Inv, LogsPartition
  <2>3. insertLog[d] \ pendingInserts[d] = Issued
    BY <2>1
  <2>4. {Start, End} \subseteq Present(d)
    BY Ordered
  <2> QED BY <2>2, <2>3, <2>4 DEF Known
<1> QED BY <1>1 DEF RoundInv

\* Whoever has nothing of the round types between two neighbours everyone knows.
LEMMA TypingInRound ==
  ASSUME Inv, Inv', Agree, NEW B, RoundInv(B), NEW c \in Client, Present(c) = Known(B),
         NEW Y, NEW k, Types(c, Y, k)
  PROVE  RoundInv(B)'
<1>1. /\ k \in Nat
      /\ Present(c)' = Present(c) \cup {Y.id}
      /\ \A x, y \in Present(c) : Before(c, x, y)' <=> Before(c, x, y)
      /\ ~Before(c, Y.id, Y.id)'
  BY SpliceOrder DEF Types
<1>2. /\ Issued' = Issued \cup {Y}
      /\ {Y.origin, Y.right} \subseteq Present(c)
      /\ At(c, Y.origin) = k - 1 /\ At(c, Y.right) = k
      /\ \A d \in Client \ {c} :
           /\ Present(d)' = Present(d)
           /\ \A x, y : Before(d, x, y)' <=> Before(d, x, y)
  BY SameList DEF Types, SplicesAt, ElsewhereSame
<1>3. \A d \in Client : Known(B) \subseteq Present(d)
  BY DEF RoundInv
<1>4. \A d \in Client : \A w \in Known(B) : ~(Before(d, Y.origin, w) /\ Before(d, w, Y.right))
  <2>1. \A w \in Known(B) : ~(Before(c, Y.origin, w) /\ Before(c, w, Y.right))
    BY <1>1, <1>2, Ordered DEF Before
  <2> QED BY <1>2, <1>3, <2>1 DEF Agree
<1>5. ASSUME NEW X \in Issued' \ B
      PROVE  /\ {X.origin, X.right} \subseteq Known(B)
             /\ \A d \in Client : \A w \in Known(B) :
                  ~(Before(d, X.origin, w)' /\ Before(d, w, X.right)')
  <2>1. /\ {X.origin, X.right} \subseteq Known(B)
        /\ \A d \in Client : \A w \in Known(B) : ~(Before(d, X.origin, w) /\ Before(d, w, X.right))
    BY <1>2, <1>4 DEF RoundInv
  <2> QED BY <1>1, <1>2, <1>3, <2>1
<1>6. \A X \in Issued : X.id # Y.id
  BY DEF Types, IDs
<1>7. ASSUME NEW d \in Client, NEW X \in Issued' \ B, NEW W \in Issued' \ B,
             X.id \in Present(d)', W.id \in Present(d)', X.origin = W.origin,
             Before(d, X.id, W.id)'
      PROVE  IDLess(X.id, W.id)
  <2>1. CASE d # c
    <3>1. X.id \in Present(d) /\ W.id \in Present(d) /\ Before(d, X.id, W.id)
      BY <1>2, <1>7, <2>1
    <3>2. X \in Issued /\ W \in Issued
      BY <1>2, <3>1, TypingFits
    <3> QED BY <1>7, <3>1, <3>2 DEF RoundInv
  <2>2. CASE d = c
    <3>1. X = Y /\ W = Y
      BY <1>1, <1>2, <1>6, <1>7, <2>2, RoundMembers
    <3> QED BY <1>1, <1>7, <2>2, <3>1
  <2> QED BY <2>1, <2>2
<1>8. B \subseteq Issued' /\ \A d \in Client : Known(B) \subseteq Present(d)'
  BY <1>1, <1>2, <1>3 DEF RoundInv
<1> QED BY <1>5, <1>7, <1>8 DEF RoundInv

\* What stands in the conflict zone in a round was typed in the round at the same place.
LEMMA Siblings ==
  ASSUME Inv, IntentionInv, NEW B, RoundInv(B), NEW c \in Client, NEW Y \in Issued \ B,
         NEW x \in Present(c), Before(c, Y.origin, x), Before(c, x, Y.right)
  PROVE  \E X \in Issued \ B : X.id = x /\ X.origin = Y.origin
<1>1. x \notin Known(B)
  BY DEF RoundInv
<1>2. PICK X \in Issued : X.id = x
  BY <1>1, PresentIssued DEF Known
<1>3. X \in Issued \ B
  BY <1>1, <1>2 DEF Known, IDs
<1>4. /\ {X.origin, X.right, Y.origin, Y.right} \subseteq Known(B)
      /\ Known(B) \subseteq Present(c)
      /\ \A w \in Known(B) : /\ ~(Before(c, X.origin, w) /\ Before(c, w, X.right))
                             /\ ~(Before(c, Y.origin, w) /\ Before(c, w, Y.right))
  BY <1>3 DEF RoundInv
<1>5. Before(c, X.origin, X.id) /\ Before(c, X.id, X.right)
  BY <1>2, PlacedBetween
<1>6. /\ ~(Before(c, X.origin, Y.origin) /\ Before(c, Y.origin, X.right))
      /\ ~(Before(c, Y.origin, X.origin) /\ Before(c, X.origin, Y.right))
  BY <1>4
<1>7. {x, X.origin, X.right, Y.origin, Y.right} \subseteq Present(c)
  BY <1>4
<1>8. X.origin = Y.origin
  BY <1>2, <1>5, <1>6, <1>7, Ordered DEF Before
<1> QED BY <1>2, <1>3, <1>8

\* So the loop of findInsetionPoint looks at their identifiers only.
LEMMA StopsAtSibling ==
  ASSUME Inv, IntentionInv, OriginsInv, NEW B, RoundInv(B), NEW c \in Client,
         NEW Y \in Issued \ B, NEW j \in 1..Len(list[c]),
         Before(c, Y.origin, list[c][j].id), Before(c, list[c][j].id, Y.right)
  PROVE  StopsAt(list[c], Y, j) <=> ~IDLess(list[c][j].id, Y.id)
<1>1. list[c][j].id \in Present(c)
  BY DEF Present, ElementIDs
<1>2. PICK X \in Issued \ B : X.id = list[c][j].id /\ X.origin = Y.origin
  BY <1>1, Siblings
<1>3. list[c][j].origin = Y.origin
  BY <1>2 DEF OriginsInv, OriginsAt
<1>4. Y.origin \in Present(c)
  BY DEF RoundInv
<1>5. ~(Position(list[c], Y.origin) < Position(list[c], Y.origin))
  BY <1>4, Ordered DEF At
<1>6. ~IsOriginAfter(list[c], Y.origin, list[c][j])
  BY <1>3, <1>5 DEF IsOriginAfter
<1> QED BY <1>6 DEF StopsAt

LEMMA SiblingsInOrder ==
  ASSUME Inv, IntentionInv, OriginsInv, NEW B, RoundInv(B), NEW c \in Client,
         NEW Y, NEW k, Integrates(c, Y, k), Y \notin B,
         NEW x \in Present(c), Before(c, Y.origin, x), Before(c, x, Y.right)
  PROVE  At(c, x) < k <=> IDLess(x, Y.id)
<1> DEFINE l == list[c]
           j == At(c, x)
<1>1. /\ Y \in Issued \ B /\ Y.id \notin Present(c)
      /\ {Y.origin, Y.right} \subseteq Present(c)
      /\ IsInsertionPoint(l, Y, k)
      /\ At(c, Y.origin) < k /\ k <= At(c, Y.right)
      /\ k \in 2..Len(l)
  BY DEF Integrates, SplicesAt, At
<1>2. Len(l) \in Nat /\ WellFormed(l)
  BY LenProperties DEF Inv, TypeOK, WellFormedList
<1>3. j \in 1..Len(l) /\ l[j].id = x
  BY PositionProperties DEF Present, At
<1>4. At(c, Y.origin) \in Nat /\ At(c, Y.right) \in Nat
  BY <1>1, Ordered
<1>5. At(c, Y.origin) < j /\ j < At(c, Y.right)
  BY DEF Before
<1>6. ConflictZone(l, Y) = At(c, Y.origin) + 1 .. At(c, Y.right) - 1
  BY DEF ConflictZone, At
<1>7. j \in ConflictZone(l, Y)
  BY <1>2, <1>3, <1>4, <1>5, <1>6
<1>8. StopsAt(l, Y, j) <=> ~IDLess(x, Y.id)
  BY <1>1, <1>3, StopsAtSibling
<1>9. x \in ID /\ Y.id \in ID /\ x # Y.id
  BY <1>1, Siblings, PresentIssued
<1>10. CASE j < k
  <2>1. j \notin Stops(l, Y)
    BY <1>1, <1>2, <1>3, <1>10 DEF IsInsertionPoint
  <2>2. ~StopsAt(l, Y, j)
    BY <1>7, <2>1 DEF Stops
  <2> QED BY <1>8, <1>10, <2>2
<1>11. CASE ~(j < k)
  <2>1. k \in ConflictZone(l, Y)
    BY <1>1, <1>2, <1>3, <1>4, <1>5, <1>6, <1>11
  <2>2. k # At(c, Y.right)
    BY <1>1, <1>2, <1>3, <1>4, <1>5, <1>11
  <2>3. StopsAt(l, Y, k)
    BY <1>1, <2>2 DEF IsInsertionPoint, Stops, At
  <2> DEFINE y == l[k].id
  <2>4. k \in 1..Len(l) /\ k \in Nat
    BY <1>1, <1>2
  <2>5. y \in Present(c) /\ At(c, y) = k
    BY <1>2, <2>4, PositionUnique DEF Present, ElementIDs, At
  <2>6. Before(c, Y.origin, y) /\ Before(c, y, Y.right)
    BY <1>1, <1>4, <2>2, <2>4, <2>5 DEF Before
  <2>7. ~IDLess(y, Y.id)
    BY <1>1, <2>3, <2>4, <2>6, StopsAtSibling
  <2>8. CASE j = k
    BY <1>3, <1>11, <2>7, <2>8
  <2>9. CASE j # k
    <3>1. Before(c, y, x)
      BY <1>2, <1>3, <1>11, <2>4, <2>5, <2>9 DEF Before
    <3>2. PICK X \in Issued \ B : X.id = x /\ X.origin = Y.origin
      BY <1>1, Siblings
    <3>3. PICK Z \in Issued \ B : Z.id = y /\ Z.origin = Y.origin
      BY <1>1, <2>5, <2>6, Siblings
    <3>4. IDLess(y, x) /\ y \in ID
      BY <2>5, <3>1, <3>2, <3>3, PresentIssued DEF RoundInv
    <3>5. ~IDLess(x, Y.id)
      BY <1>9, <2>7, <3>4, IDLessOrders
    <3> QED BY <1>11, <3>5
  <2> QED BY <2>8, <2>9
<1> QED BY <1>10, <1>11

\* In a round, what is integrated takes its place among what was typed with the same
\* origin, on every replica the same.
LEMMA IntegrationInRound ==
  ASSUME Inv, Inv', IntentionInv, Agree, OriginsInv, NEW B, RoundInv(B), NEW c \in Client,
         NEW Y, NEW k, Integrates(c, Y, k)
  PROVE  Fits(c, Y, k) /\ RoundInv(B)'
<1>1. /\ Y \in Issued /\ Issued' = Issued
      /\ Y.id \notin Present(c)
      /\ {Y.origin, Y.right} \subseteq Present(c)
      /\ At(c, Y.origin) < k /\ k <= At(c, Y.right)
      /\ k \in Nat
      /\ Present(c)' = Present(c) \cup {Y.id}
      /\ \A x, y \in Present(c) : Before(c, x, y)' <=> Before(c, x, y)
      /\ \A x \in Present(c) : Before(c, x, Y.id)' <=> At(c, x) < k
      /\ \A x \in Present(c) : Before(c, Y.id, x)' <=> ~(At(c, x) < k)
      /\ ~Before(c, Y.id, Y.id)'
  BY SpliceOrder DEF Integrates, SplicesAt, At
<1>2. \A d \in Client \ {c} :
        Present(d)' = Present(d) /\ \A x, y : Before(d, x, y)' <=> Before(d, x, y)
  BY SameList DEF Integrates, ElsewhereSame
<1>3. Y \notin B
  BY <1>1 DEF RoundInv, Known, IDs
<1>4. \A x \in Present(c) : Before(c, Y.origin, x) /\ Before(c, x, Y.right) =>
        (At(c, x) < k <=> IDLess(x, Y.id))
  BY <1>3, SiblingsInOrder
<1>5. /\ \A z \in Present(c) : At(c, z) \in Nat
      /\ \A y, z \in Present(c) : At(c, y) = At(c, z) => y = z
  BY Ordered
<1>6. ASSUME NEW d \in Client \ {c}, Y.id \in Present(d), NEW x \in Present(c) \cap Present(d)
      PROVE  At(c, x) < k <=> Before(d, x, Y.id)
  <2>1. /\ {Y.origin, Y.right} \subseteq Present(d)
        /\ Before(d, Y.origin, Y.id) /\ Before(d, Y.id, Y.right)
    BY <1>1, <1>6, PlacedBetween
  <2>2. /\ \A z \in Present(d) : At(d, z) \in Nat
        /\ \A y, z \in Present(d) : At(d, y) = At(d, z) => y = z
    BY Ordered
  <2>3. CASE x = Y.origin \/ Before(c, x, Y.origin)
    <3>1. At(c, x) < k
      BY <1>1, <1>5, <2>3 DEF Before
    <3>2. x = Y.origin \/ Before(d, x, Y.origin)
      BY <1>1, <2>1, <2>3 DEF Agree
    <3>3. Before(d, x, Y.id)
      BY <1>6, <2>1, <2>2, <3>2 DEF Before
    <3> QED BY <3>1, <3>3
  <2>4. CASE x = Y.right \/ Before(c, Y.right, x)
    <3>1. ~(At(c, x) < k)
      BY <1>1, <1>5, <2>4 DEF Before
    <3>2. x = Y.right \/ Before(d, Y.right, x)
      BY <1>1, <2>1, <2>4 DEF Agree
    <3>3. ~Before(d, x, Y.id)
      BY <1>6, <2>1, <2>2, <3>2 DEF Before
    <3> QED BY <3>1, <3>3
  <2>5. CASE Before(c, Y.origin, x) /\ Before(c, x, Y.right)
    <3>1. PICK X \in Issued \ B : X.id = x /\ X.origin = Y.origin
      BY <1>1, <1>3, <2>5, Siblings
    <3>2. x \in ID /\ Y.id \in ID /\ x # Y.id
      BY <1>1, <3>1, PresentIssued
    <3>3. Before(d, x, Y.id) => IDLess(x, Y.id)
      BY <1>1, <1>3, <1>6, <3>1 DEF RoundInv
    <3>4. Before(d, Y.id, x) => IDLess(Y.id, x)
      BY <1>1, <1>3, <1>6, <3>1 DEF RoundInv
    <3>5. Before(d, x, Y.id) \/ Before(d, Y.id, x)
      BY <1>6, <2>2, <3>2 DEF Before
    <3>6. Before(d, x, Y.id) <=> IDLess(x, Y.id)
      BY <3>2, <3>3, <3>4, <3>5, IDLessOrders
    <3> QED BY <1>4, <2>5, <3>6
  <2>6. \/ x = Y.origin \/ Before(c, x, Y.origin)
        \/ x = Y.right \/ Before(c, Y.right, x)
        \/ Before(c, Y.origin, x) /\ Before(c, x, Y.right)
    BY <1>1, <1>5 DEF Before
  <2> QED BY <2>3, <2>4, <2>5, <2>6
<1>7. \A d \in Client : Known(B) \subseteq Present(d)
  BY DEF RoundInv
<1>8. ASSUME NEW X \in Issued \ B
      PROVE  /\ {X.origin, X.right} \subseteq Known(B)
             /\ \A d \in Client : \A w \in Known(B) :
                  ~(Before(d, X.origin, w)' /\ Before(d, w, X.right)')
  <2>1. /\ {X.origin, X.right} \subseteq Known(B)
        /\ \A d \in Client : \A w \in Known(B) : ~(Before(d, X.origin, w) /\ Before(d, w, X.right))
    BY DEF RoundInv
  <2> QED BY <1>1, <1>2, <1>7, <2>1
\* W was typed at the same place as Y and is in the zone of Y.
<1>9. ASSUME NEW W \in Issued \ B, W.id \in Present(c), W.origin = Y.origin
      PROVE  Before(c, Y.origin, W.id) /\ Before(c, W.id, Y.right)
  <2>1. Before(c, W.origin, W.id) /\ Before(c, W.id, W.right)
    BY <1>9, PlacedBetween
  <2>2. /\ {W.right, Y.right, Y.origin} \subseteq Known(B)
        /\ ~(Before(c, W.origin, Y.right) /\ Before(c, Y.right, W.right))
    BY <1>1, <1>3 DEF RoundInv
  <2>3. W.id # Y.right
    BY <2>2, RoundMembers
  <2>4. W.right \in Present(c)
    BY <1>7, <2>2
  <2> QED BY <1>1, <1>5, <1>9, <2>1, <2>2, <2>3, <2>4 DEF Before
<1>10. ASSUME NEW X \in Issued \ B, NEW W \in Issued \ B,
              X.id \in Present(c)', W.id \in Present(c)', X.origin = W.origin,
              Before(c, X.id, W.id)'
       PROVE  IDLess(X.id, W.id)
  <2>1. \A A \in Issued : A.id = Y.id => A = Y
    BY <1>1 DEF Inv, IssuedInv
  <2>2. CASE X.id \in Present(c) /\ W.id \in Present(c)
    BY <1>1, <1>10, <2>2 DEF RoundInv
  <2>3. CASE X = Y /\ W.id \in Present(c)
    <3>1. ~(At(c, W.id) < k)
      BY <1>1, <1>10, <2>3
    <3>2. ~IDLess(W.id, Y.id)
      BY <1>4, <1>9, <1>10, <2>3, <3>1
    <3>3. W.id \in ID /\ Y.id \in ID /\ W.id # Y.id
      BY <1>1, <2>3, PresentIssued
    <3> QED BY <2>3, <3>2, <3>3, IDLessOrders
  <2>4. CASE X.id \in Present(c) /\ W = Y
    <3>1. At(c, X.id) < k
      BY <1>1, <1>10, <2>4
    <3> QED BY <1>4, <1>9, <1>10, <2>4, <3>1
  <2>5. CASE X = Y /\ W = Y
    BY <1>1, <1>10, <2>5
  <2> QED BY <1>1, <1>10, <2>1, <2>2, <2>3, <2>4, <2>5
<1>11. ASSUME NEW d \in Client \ {c}, NEW X \in Issued \ B, NEW W \in Issued \ B,
              X.id \in Present(d)', W.id \in Present(d)', X.origin = W.origin,
              Before(d, X.id, W.id)'
       PROVE  IDLess(X.id, W.id)
  BY <1>2, <1>11 DEF RoundInv
<1>12. \A d \in Client : \A X, W \in Issued \ B :
         X.id \in Present(d)' /\ W.id \in Present(d)' /\ X.origin = W.origin
             /\ Before(d, X.id, W.id)' => IDLess(X.id, W.id)
  BY <1>10, <1>11
<1>13. B \subseteq Issued /\ \A d \in Client : Known(B) \subseteq Present(d)'
  BY <1>1, <1>2, <1>7 DEF RoundInv
<1>14. RoundInv(B)'
  BY <1>1, <1>8, <1>12, <1>13 DEF RoundInv
<1> QED BY <1>6, <1>14 DEF Fits

-----------------------------------------------------------------------------
\* The invariant of the disciplines.

LEMMA QuietKeeps ==
  ASSUME DisciplineInv, list' = list, Issued' = Issued, aborted' = aborted,
         UNCHANGED <<inTurn, base>>
  PROVE  DisciplineInv'
<1>1. \A d \in Client :
        Present(d)' = Present(d) /\ \A x, y : Before(d, x, y)' <=> Before(d, x, y)
  BY SameList
<1>2. Agree' /\ Somewhere' /\ aborted' = {}
  BY <1>1 DEF DisciplineInv, Agree, Somewhere
<1>3. OriginsInv'
  BY DEF DisciplineInv, OriginsInv, OriginsAt
<1>4. inTurn' => TurnInv'
  <2>1. \A g \in Client : Full(g)' = Full(g)
    BY <1>1 DEF Full
  <2>2. \A g \in Client : Nested(g) => Nested(g)'
    BY <1>1 DEF Nested
  <2>3. \A g \in Client : NothingBetween(g) => NothingBetween(g)'
    BY <1>1 DEF NothingBetween
  <2> QED BY <2>1, <2>2, <2>3 DEF DisciplineInv, TurnInv
<1>5. ~inTurn' => RoundInv(base)'
  BY <1>1 DEF DisciplineInv, RoundInv, Known
<1> QED BY <1>2, <1>3, <1>4, <1>5 DEF DisciplineInv

LEMMA RemoteKeeps ==
  ASSUME Inv, Inv', IntentionInv, DisciplineInv, NEW c \in Client, Remote(c),
         UNCHANGED <<inTurn, base>>
  PROVE  DisciplineInv'
<1>1. Agree /\ Somewhere /\ OriginsInv /\ aborted = {}
  BY DEF DisciplineInv
<1>2. aborted' = aborted
  BY <1>1, RemoteStep
<1>3. CASE list' = list /\ Issued' = Issued
  BY <1>2, <1>3, QuietKeeps
<1>4. ASSUME NEW Y, NEW k, Integrates(c, Y, k) PROVE DisciplineInv'
  <2>1. CASE inTurn
    <3>1. PICK g \in Client : Full(g) /\ Nested(g) /\ NothingBetween(g)
      BY <2>1 DEF DisciplineInv, TurnInv
    <3>2. Fits(c, Y, k) /\ Full(g)' /\ Nested(g)' /\ NothingBetween(g)'
      BY <1>1, <1>4, <3>1, IntegrationInTurn
    <3>3. Agree' /\ Somewhere' /\ OriginsInv'
      BY <1>1, <1>4, <3>2, SpliceKeeps
    <3>4. TurnInv'
      BY <3>2 DEF TurnInv
    <3> QED BY <1>1, <1>2, <2>1, <3>3, <3>4 DEF DisciplineInv
  <2>2. CASE ~inTurn
    <3>1. PICK B : B = base
      OBVIOUS
    <3>2. RoundInv(B)
      BY <2>2, <3>1 DEF DisciplineInv
    <3>3. Fits(c, Y, k) /\ RoundInv(B)'
      BY <1>1, <1>4, <3>2, IntegrationInRound
    <3>4. Agree' /\ Somewhere' /\ OriginsInv'
      BY <1>1, <1>4, <3>3, SpliceKeeps
    <3>5. RoundInv(base)'
      BY <3>1, <3>3 DEF RoundInv, Known
    <3> QED BY <1>1, <1>2, <2>2, <3>4, <3>5 DEF DisciplineInv
  <2> QED BY <2>1, <2>2
<1> QED BY <1>1, <1>3, <1>4, RemoteStep

LEMMA TurnInsertKeeps ==
  ASSUME Inv, Inv', DisciplineInv, NEW c \in Client, TurnInsert(c), UNCHANGED inTurn
  PROVE  DisciplineInv'
<1>1. Agree /\ Somewhere /\ OriginsInv /\ aborted = {} /\ inTurn
  BY DEF DisciplineInv, TurnInsert
<1>2. PICK Y, k : Types(c, Y, k)
  BY TypingStep DEF TurnInsert
<1>3. aborted' = {}
  BY <1>1, TypingStep DEF TurnInsert
<1>4. Full(c)
  <2>1. pendingInserts[c] = {} /\ insertLog[c] = Issued
    BY DEF TurnInsert, CaughtUp, Settled
  <2>2. Present(c) \ {Start, End} = IDs(insertLog[c] \ pendingInserts[c])
    BY DEF Inv, LogsPartition
  <2>3. insertLog[c] \ pendingInserts[c] = Issued
    BY <2>1
  <2> QED BY <2>2, <2>3 DEF Full
<1>5. Nested(c) /\ NothingBetween(c)
  BY <1>1, <1>4, FullListsAlike DEF DisciplineInv, TurnInv
<1>6. Full(c)' /\ Nested(c)' /\ NothingBetween(c)'
  BY <1>2, <1>4, <1>5, TypingInTurn
<1>7. Agree' /\ Somewhere' /\ OriginsInv'
  BY <1>1, <1>2, SpliceKeeps, TypingFits
<1>8. TurnInv'
  BY <1>6 DEF TurnInv
<1> QED BY <1>1, <1>3, <1>7, <1>8 DEF DisciplineInv

LEMMA RoundInsertKeeps ==
  ASSUME Inv, Inv', DisciplineInv, NEW c \in Client, RoundInsert(c), UNCHANGED inTurn
  PROVE  DisciplineInv'
<1>1. Agree /\ Somewhere /\ OriginsInv /\ aborted = {} /\ ~inTurn
  BY DEF DisciplineInv, RoundInsert
<1>2. PICK Y, k : Types(c, Y, k)
  BY TypingStep DEF RoundInsert
<1>3. aborted' = {}
  BY <1>1, TypingStep DEF RoundInsert
<1>4. PICK B : B = base'
  OBVIOUS
<1>5. RoundInv(B) /\ Present(c) = Known(B)
  <2>1. CASE insertLog[c] = base /\ Settled(c) /\ UNCHANGED base
    <3>1. RoundInv(B) /\ insertLog[c] \ pendingInserts[c] = B
      BY <1>1, <1>4, <2>1 DEF DisciplineInv, Settled
    <3>2. Present(c) \ {Start, End} = IDs(insertLog[c] \ pendingInserts[c])
      BY DEF Inv, LogsPartition
    <3>3. {Start, End} \subseteq Present(c)
      BY Ordered
    <3> QED BY <3>1, <3>2, <3>3 DEF Known
  <2>2. CASE (\A d \in Client : CaughtUp(d)) /\ base' = Issued
    BY <1>4, <2>2, RoundBegins
  <2> QED BY <2>1, <2>2 DEF RoundInsert
<1>6. RoundInv(B)'
  BY <1>1, <1>2, <1>5, TypingInRound
<1>7. Agree' /\ Somewhere' /\ OriginsInv'
  BY <1>1, <1>2, SpliceKeeps, TypingFits
<1>8. RoundInv(base)'
  BY <1>4, <1>6 DEF RoundInv, Known
<1> QED BY <1>1, <1>3, <1>7, <1>8 DEF DisciplineInv

LEMMA InitDisciplines == Init /\ inTurn \in BOOLEAN /\ base = {} => DisciplineInv
<1> SUFFICES ASSUME Init, base = {} PROVE DisciplineInv
  OBVIOUS
<1>1. Inv
  BY InitInv
<1>2. Issued = {}
  BY DEF Init, Issued
<1>3. \A c \in Client : list[c] = NewList
  BY DEF Init
<1>4. Agree
  BY <1>3 DEF Agree, Before, At, Present
<1>5. Somewhere
  BY <1>2 DEF Somewhere
<1>6. OriginsInv
  <2>1. \A k \in 1..Len(NewList) : NewList[k].origin = Start
    BY DEF NewList
  <2> QED BY <1>2, <1>3, <2>1 DEF OriginsInv, OriginsAt
<1>7. TurnInv
  BY <1>2 DEF TurnInv, Full, Nested, NothingBetween, IDs
<1>8. RoundInv(base)
  BY <1>1, <1>2, Ordered DEF RoundInv, Known, IDs
<1> QED BY <1>4, <1>5, <1>6, <1>7, <1>8 DEF DisciplineInv, Init

\* Following a discipline is behaving as Document does.
LEMMA DisciplineSteps ==
  [DisciplineNext]_<<vars, inTurn, base>> => [Next]_vars
<1>1. ASSUME NEW c \in Client, InsertSome(c) PROVE Next
  BY <1>1 DEF InsertSome, Next, Local
<1>2. ASSUME DisciplineNext PROVE Next
  <2>1. PICK c \in Client : InsertSome(c) \/ Remote(c)
    BY <1>2, TurnAssumption DEF DisciplineNext, TurnInsert, RoundInsert
  <2> QED BY <1>1, <2>1 DEF Next
<1> QED BY <1>2

LEMMA NextDisciplines ==
  Inv /\ Inv' /\ IntentionInv /\ DisciplineInv /\ [DisciplineNext]_<<vars, inTurn, base>>
    => DisciplineInv'
<1> SUFFICES ASSUME Inv, Inv', IntentionInv, DisciplineInv,
                    DisciplineNext \/ UNCHANGED <<vars, inTurn, base>>
             PROVE  DisciplineInv'
  OBVIOUS
<1>1. CASE UNCHANGED <<vars, inTurn, base>>
  <2>1. list' = list /\ Issued' = Issued /\ aborted' = aborted
    BY <1>1 DEF vars, logs, Issued
  <2> QED BY <1>1, <2>1, QuietKeeps
<1>2. CASE DisciplineNext
  <2>1. PICK c \in Client : TurnInsert(c) \/ RoundInsert(c) \/ (Remote(c) /\ UNCHANGED base)
    BY <1>2, TurnAssumption DEF DisciplineNext
  <2>2. UNCHANGED inTurn
    BY <1>2 DEF DisciplineNext
  <2> QED BY <2>1, <2>2, TurnInsertKeeps, RoundInsertKeeps, RemoteKeeps
<1> QED BY <1>1, <1>2

\* In turn or in rounds, no two replicas ever order two characters differently, and
\* everything the argument needs of the conflict zones holds.
THEOREM DisciplineInvariance == DisciplineSpec => [](Inv /\ IntentionInv /\ DisciplineInv)
<1>1. DisciplineSpec => [](Inv /\ IntentionInv)
  BY InitInv, NextInv, InitIntention, NextIntention, DisciplineSteps, PTL DEF DisciplineSpec
<1> QED BY <1>1, InitDisciplines, NextDisciplines, PTL DEF DisciplineSpec

\* README, design decision 1: under either discipline the right bounds the walk of
\* conflictZone on every replica.
THEOREM RightIsABoundary == DisciplineSpec => []RightBoundary
<1>1. DisciplineInv => RightBoundary
  BY DEF DisciplineInv, RightBoundary
<1> QED BY <1>1, DisciplineInvariance, PTL

-----------------------------------------------------------------------------
\* Convergence.

\* A place in a list is the number of what stands before it.
LEMMA PlaceIsCount ==
  ASSUME Inv, NEW c \in Client, NEW x \in Present(c)
  PROVE  At(c, x) = Cardinality({y \in Present(c) : Before(c, y, x)}) + 1
<1> DEFINE l == list[c]
           p == At(c, x)
           places == 1..p - 1
<1>1. /\ l \in Seq(Element) /\ Len(l) \in Nat /\ WellFormed(l)
  BY LenProperties DEF Inv, TypeOK, WellFormedList
<1>2. p \in 1..Len(l)
  BY PositionProperties DEF Present, At
<1>3. \A j \in 1..Len(l) : l[j].id \in Present(c) /\ At(c, l[j].id) = j
  BY <1>1, PositionUnique DEF Present, ElementIDs, At
<1>4. \A y \in Present(c) : At(c, y) \in 1..Len(l) /\ l[At(c, y)].id = y
  BY PositionProperties DEF Present, At
<1> HIDE DEF p, l
<1>5. places \in SUBSET (1..Len(l)) /\ \A j \in Nat : j \in places <=> 1 <= j /\ j < p
  BY <1>1, <1>2
<1>6. {l[j].id : j \in places} = {y \in Present(c) : Before(c, y, x)}
  <2>1. ASSUME NEW j \in places PROVE l[j].id \in Present(c) /\ Before(c, l[j].id, x)
    BY <1>2, <1>3, <1>5, <2>1 DEF Before, p
  <2>2. ASSUME NEW y \in Present(c), Before(c, y, x) PROVE \E j \in places : l[j].id = y
    BY <1>2, <1>4, <1>5, <2>2 DEF Before, p
  <2> HIDE DEF places
  <2> QED BY <2>1, <2>2
<1>7. Cardinality(places) = Cardinality({y \in Present(c) : Before(c, y, x)})
  BY <1>1, <1>5, <1>6, PlacesCount
<1>8. Cardinality(places) = p - 1
  <2>1. 1 \in Int /\ p - 1 \in Int /\ p \in Nat /\ 1 <= p
    BY <1>1, <1>2
  <2> QED BY <2>1, FS_Interval
<1>9. p \in Nat
  BY <1>1, <1>2
<1> QED BY <1>7, <1>8, <1>9 DEF p

\* The number of the elements of a list.
LEMMA LengthIsCount ==
  ASSUME Inv, NEW c \in Client
  PROVE  Len(list[c]) = Cardinality(Present(c))
<1> DEFINE l == list[c]
<1>1. /\ l \in Seq(Element) /\ Len(l) \in Nat /\ WellFormed(l)
  BY LenProperties DEF Inv, TypeOK, WellFormedList
<1>2. Cardinality(1..Len(l)) = Cardinality({l[k].id : k \in 1..Len(l)})
  BY <1>1, PlacesCount
<1>3. Cardinality(1..Len(l)) = Len(l)
  BY <1>1, FS_Interval
<1> QED BY <1>2, <1>3 DEF Present, ElementIDs

\* Replicas that have the same characters have the same list.
LEMMA SameCharactersSameList ==
  ASSUME Inv, DisciplineInv, NEW c \in Client, NEW d \in Client, Present(c) = Present(d)
  PROVE  list[c] = list[d]
<1>1. \A x, y \in Present(c) : Before(c, x, y) <=> Before(d, x, y)
  BY DEF DisciplineInv, Agree
<1>2. \A x \in Present(c) : At(c, x) = At(d, x)
  <2> TAKE x \in Present(c)
  <2>1. {y \in Present(c) : Before(c, y, x)} = {y \in Present(d) : Before(d, y, x)}
    BY <1>1
  <2>2. /\ At(c, x) = Cardinality({y \in Present(c) : Before(c, y, x)}) + 1
        /\ At(d, x) = Cardinality({y \in Present(d) : Before(d, y, x)}) + 1
    BY PlaceIsCount
  <2> QED BY <2>1, <2>2
<1>3. Len(list[c]) = Len(list[d])
  BY LengthIsCount
<1>4. /\ list[c] \in Seq(Element) /\ list[d] \in Seq(Element)
      /\ WellFormed(list[c]) /\ Len(list[c]) \in Nat
  BY LenProperties DEF Inv, TypeOK, WellFormedList
<1>5. ASSUME NEW k \in 1..Len(list[c]) PROVE list[c][k] = list[d][k]
  <2>1. list[c][k] \in Element /\ list[d][k] \in Element
    BY <1>3, <1>4, ElementOfSeq
  <2> DEFINE x == list[c][k].id
  <2>2. x \in Present(c) /\ At(c, x) = k
    BY <1>4, PositionUnique DEF Present, ElementIDs, At
  <2>3. list[d][k].id = x
    BY <1>2, <2>2, PositionProperties DEF Present, At
  <2>4. list[c][k].origin = list[d][k].origin
    <3>1. /\ list[c][k].id \in {Start, End} => list[c][k].origin = Start
          /\ \A op \in Issued : list[c][k].id = op.id => list[c][k].origin = op.origin
      BY DEF DisciplineInv, OriginsInv, OriginsAt
    <3>2. /\ list[d][k].id \in {Start, End} => list[d][k].origin = Start
          /\ \A op \in Issued : list[d][k].id = op.id => list[d][k].origin = op.origin
      BY <1>3 DEF DisciplineInv, OriginsInv, OriginsAt
    <3>3. x \in {Start, End} \/ \E op \in Issued : op.id = x
      BY <2>2, PresentIssued
    <3> QED BY <2>3, <3>1, <3>2, <3>3
  <2> QED BY <2>1, <2>3, <2>4 DEF Element
<1> QED BY <1>3, <1>4, <1>5, SeqEqual

LEMMA DisciplinesConverge == Inv /\ DisciplineInv => Convergence
<1> SUFFICES ASSUME Inv, DisciplineInv, NEW c \in Client, NEW d \in Client, Settled(c), Settled(d),
                    insertLog[c] = insertLog[d], deleteLog[c] = deleteLog[d]
             PROVE  list[c] = list[d] /\ tombstones[c] = tombstones[d]
  BY DEF Convergence
<1>1. ASSUME NEW e \in Client, Settled(e)
      PROVE  Present(e) = IDs(insertLog[e]) \cup {Start, End} /\ tombstones[e] = deleteLog[e]
  <2>1. pendingInserts[e] = {} /\ pendingDeletes[e] = {}
    BY <1>1 DEF Settled
  <2>2. /\ Present(e) \ {Start, End} = IDs(insertLog[e] \ pendingInserts[e])
        /\ pendingDeletes[e] = deleteLog[e] \ tombstones[e]
        /\ tombstones[e] \subseteq deleteLog[e]
    BY DEF Inv, LogsPartition
  <2>3. insertLog[e] \ pendingInserts[e] = insertLog[e]
    BY <2>1
  <2>4. {Start, End} \subseteq Present(e)
    BY Ordered
  <2> QED BY <2>1, <2>2, <2>3, <2>4
<1>2. Present(c) = Present(d) /\ tombstones[c] = tombstones[d]
  BY <1>1
<1> QED BY <1>2, SameCharactersSameList

\* README line 8: replicas that have integrated the same operations show the same text,
\* when the clients type in turn or in rounds.
THEOREM DisciplineConvergence == DisciplineSpec => []Convergence
BY DisciplinesConverge, DisciplineInvariance, PTL

=============================================================================
