----------------------------- MODULE CollabProofs -----------------------------
(***************************************************************************)
(* What the pages of a room send and know: for every number of pages and   *)
(* connections, operations, breaks and restarts.                           *)
(***************************************************************************)
EXTENDS Collab, SequenceTheorems, FiniteSetTheorems, TLAPS

\* Operations that their author, if it is a page, knows.
Authored == {o \in Operation : o[1] \in Page => o \in log[o[1]]}

Good == [type : {"join", "ack", "sync1", "sync2", "operation", "snapshot"},
         ops : SUBSET Authored]

\* Nobody hears of an operation that its author does not know.
AuthorsKnow ==
  /\ log \in [Page -> SUBSET Authored] /\ pending \in [Page -> Seq(Authored)]
  /\ up \in [Connection -> Seq(Good)] /\ down \in [Connection -> Seq(Good)]
  /\ message \in [Connection -> Good]
  /\ snapshot \subseteq Authored

\* The clocks of a page leave no gap.
ClocksDense ==
  \A p \in Page :
    /\ IsFiniteSet(Own(p))
    /\ Own(p) = {<<p, k>> : k \in 0..Cardinality(Own(p)) - 1}

\* Messages come from connections that were opened, and events from those of the page.
Opened ==
  /\ \A c \in Connection : up[c] # <<>> => c \in DOMAIN owner
  /\ \A p \in open : websocket[p] \in DOMAIN owner

Inv ==
  /\ TypeOK /\ AuthorsKnow /\ ClocksDense /\ Opened
  /\ OnlineSends /\ SentInOrder

-----------------------------------------------------------------------------

\* The actions, one by one.
LEMMA Steps ==
  ASSUME [Next]_vars
  PROVE  \/ UNCHANGED vars
         \/ \E p \in Page :
              \/ Connect(p) \/ OnMessage(p) \/ CloseBegins(p) \/ OnClose(p)
              \/ HandleInput(p) \/ Unmount(p)
         \/ \E c \in Connection :
              \/ Join(c) \/ JoinFails(c) \/ SendAck(c) \/ SaveSnapshot(c) \/ Receive(c)
              \/ Answer(c) \/ Leave(c) \/ Break(c)
         \/ \E c, d \in Connection : Forward(c, d) \/ ForwardFails(c, d)
         \/ Restart
BY DEF Next, PageStep, RelayStep

\* The pages change in steps of their own only.
LEMMA PageSteps ==
  ASSUME [Next]_vars
  PROVE  \/ UNCHANGED page
         \/ \E p \in Page :
              \/ Connect(p) \/ OnMessage(p) \/ CloseBegins(p) \/ OnClose(p)
              \/ HandleInput(p) \/ Unmount(p)
<1>1. CASE UNCHANGED vars
  BY <1>1 DEF vars
<1>2. ASSUME NEW c \in Connection,
             \/ Join(c) \/ JoinFails(c) \/ SendAck(c) \/ SaveSnapshot(c) \/ Receive(c)
             \/ Answer(c) \/ Leave(c) \/ Break(c)
      PROVE  UNCHANGED page
  BY <1>2 DEF Join, JoinFails, SendAck, SaveSnapshot, Receive, Answer, Leave, Break
<1>3. ASSUME NEW c \in Connection, NEW d \in Connection, Forward(c, d) \/ ForwardFails(c, d)
      PROVE  UNCHANGED page
  BY <1>3 DEF Forward, ForwardFails
<1>4. CASE Restart
  BY <1>4 DEF Restart
<1> QED BY <1>1, <1>2, <1>3, <1>4, Steps

\* Connections are numbered in the order in which they are opened.
LEMMA OwnersConnected ==
  ASSUME TypeOK
  PROVE  /\ Len(owner) \in Nat /\ DOMAIN owner = 1..Len(owner)
         /\ DOMAIN owner \subseteq Connection
<1>1. owner \in Seq(Page) /\ Len(owner) <= MaxConnections
  BY DEF TypeOK
<1>2. Len(owner) \in Nat /\ DOMAIN owner = 1..Len(owner)
  BY <1>1, LenProperties
<1>3. MaxConnections \in Nat
  BY CollabAssumption
<1>4. 1..Len(owner) \subseteq 1..MaxConnections
  BY <1>1, <1>2, <1>3
<1> QED BY <1>2, <1>4 DEF Connection

\* What a page is told, it is told by a message on its way.
LEMMA Received ==
  ASSUME TypeOK, AuthorsKnow, Opened, NEW p \in Page, OnMessage(p)
  PROVE  \E c \in Connection, m \in Good :
           /\ c = websocket[p] /\ p \in open /\ down[c] # <<>>
           /\ down' = [down EXCEPT ![c] = Tail(@)]
           /\ \/ m.type = "ack" /\ OnJoinAck(p, m.ops)
              \/ m.type = "sync1" /\ OnSync1(p, m.ops)
              \/ m.type = "sync2" /\ OnSync2(p, m.ops)
              \/ m.type = "operation" /\ OnOperation(p, m.ops)
<1>1. websocket[p] \in Connection /\ p \in open
  <2>1. p \in open
    BY DEF OnMessage
  <2>2. websocket[p] \in DOMAIN owner
    BY <2>1 DEF Opened
  <2> QED BY <2>1, <2>2, OwnersConnected
<1>2. down[websocket[p]] \in Seq(Good) /\ down[websocket[p]] # <<>>
  BY <1>1 DEF AuthorsKnow, OnMessage
<1>3. Head(down[websocket[p]]) \in Good
  BY <1>2, HeadTailProperties
<1> QED BY <1>1, <1>2, <1>3 DEF OnMessage

-----------------------------------------------------------------------------
\* The operations of a page.

\* What a page hears of leaves its own operations as they are.
LEMMA HearingKeepsOwn ==
  ASSUME TypeOK, NEW p \in Page, NEW ops \in SUBSET Authored,
         log' = [log EXCEPT ![p] = @ \union ops]
  PROVE  \A q \in Page : Own(q)' = Own(q) /\ log[q] \subseteq log'[q]
<1> SUFFICES ASSUME NEW q \in Page
             PROVE  Own(q)' = Own(q) /\ log[q] \subseteq log'[q]
  OBVIOUS
<1>1. log \in [Page -> SUBSET Operation]
  BY DEF TypeOK
<1>2. CASE q = p
  <2>1. log'[q] = log[q] \union ops
    BY <1>1, <1>2
  <2>2. \A o \in ops : o[1] = q => o \in log[q]
    BY DEF Authored
  <2> QED BY <2>1, <2>2 DEF Own
<1>3. CASE q # p
  <2>1. log'[q] = log[q]
    BY <1>1, <1>3
  <2> QED BY <2>1 DEF Own
<1> QED BY <1>2, <1>3

\* What a page types is new, and has the next clock.
LEMMA TypingAdds ==
  ASSUME TypeOK, ClocksDense, NEW p \in Page, HandleInput(p)
  PROVE  \E n \in Nat :
           /\ n = Cardinality(Own(p)) /\ <<p, n>> \in Operation
           /\ Own(p)' = Own(p) \union {<<p, n>>}
           /\ IsFiniteSet(Own(p)') /\ Cardinality(Own(p)') = n + 1
           /\ \A q \in Page \ {p} : log'[q] = log[q] /\ Own(q)' = Own(q)
           /\ log' = [log EXCEPT ![p] = @ \union {<<p, n>>}]
           /\ IF status[p] = "online" /\ p \in open
              THEN /\ up' = Write(websocket[p], Operations(<<<<p, n>>>>) \o Snapshot(log'[p]))
                   /\ sent' = [sent EXCEPT ![p] = Append(@, <<p, n>>)]
                   /\ UNCHANGED pending
              ELSE /\ pending' = [pending EXCEPT ![p] = Append(@, <<p, n>>)]
                   /\ UNCHANGED <<up, sent>>
<1> DEFINE n == Cardinality(Own(p))
<1>1. n \in Nat /\ IsFiniteSet(Own(p))
  BY FS_CardinalityType DEF ClocksDense
<1>2. /\ log' = [log EXCEPT ![p] = @ \union {<<p, n>>}]
      /\ IF status[p] = "online" /\ p \in open
         THEN /\ up' = Write(websocket[p], Operations(<<<<p, n>>>>) \o Snapshot(log'[p]))
              /\ sent' = [sent EXCEPT ![p] = Append(@, <<p, n>>)]
              /\ UNCHANGED pending
         ELSE /\ pending' = [pending EXCEPT ![p] = Append(@, <<p, n>>)]
              /\ UNCHANGED <<up, sent>>
  <2>1. \A o : o = <<p, n>> <=> o = <<p, Cardinality({x \in log[p] : x[1] = p})>>
    BY DEF Own
  <2> QED BY <2>1 DEF HandleInput
<1>3. log \in [Page -> SUBSET Operation]
  BY DEF TypeOK
<1>4. log'[p] = log[p] \union {<<p, n>>} /\ \A q \in Page \ {p} : log'[q] = log[q]
  BY <1>2, <1>3
<1>5. Own(p)' = Own(p) \union {<<p, n>>}
  BY <1>4 DEF Own
<1>6. <<p, n>> \notin Own(p)
  <2>1. Own(p) = {<<p, k>> : k \in 0..n - 1}
    BY DEF ClocksDense
  <2>2. n \notin 0..n - 1
    BY <1>1
  <2> HIDE DEF n
  <2> QED BY <2>1, <2>2
<1>7. IsFiniteSet(Own(p)') /\ Cardinality(Own(p)') = n + 1
  BY <1>1, <1>5, <1>6, FS_AddElement
<1>8. <<p, n>> \in Operation
  BY <1>1 DEF Operation
<1>9. \A q \in Page \ {p} : Own(q)' = Own(q)
  BY <1>4 DEF Own
<1> HIDE DEF n
<1>10. n = Cardinality(Own(p))
  BY DEF n
<1> QED BY <1>1, <1>2, <1>4, <1>5, <1>7, <1>8, <1>9, <1>10

\* No page forgets an operation.
LEMMA LogsGrow ==
  ASSUME TypeOK, AuthorsKnow, ClocksDense, Opened, [Next]_vars
  PROVE  /\ log' \in [Page -> SUBSET Operation]
         /\ \A q \in Page : log[q] \subseteq log'[q]
<1>1. log \in [Page -> SUBSET Operation]
  BY DEF TypeOK
<1>2. CASE UNCHANGED log
  BY <1>1, <1>2
<1>3. ASSUME NEW p \in Page, NEW ops \in SUBSET Operation, log' = [log EXCEPT ![p] = @ \union ops]
      PROVE  /\ log' \in [Page -> SUBSET Operation]
             /\ \A q \in Page : log[q] \subseteq log'[q]
  BY <1>1, <1>3
<1>4. ASSUME NEW p \in Page, OnMessage(p)
      PROVE  UNCHANGED log \/ \E ops \in SUBSET Operation : log' = [log EXCEPT ![p] = @ \union ops]
  <2>1. PICK m \in Good :
          OnJoinAck(p, m.ops) \/ OnSync1(p, m.ops) \/ OnSync2(p, m.ops) \/ OnOperation(p, m.ops)
    BY <1>4, Received
  <2>2. m.ops \in SUBSET Operation
    BY DEF Good, Authored
  <2> QED BY <2>1, <2>2 DEF OnJoinAck, OnSync1, OnSync2, OnOperation
<1>5. ASSUME NEW p \in Page, HandleInput(p)
      PROVE  \E ops \in SUBSET Operation : log' = [log EXCEPT ![p] = @ \union ops]
  <2>1. PICK n \in Nat : <<p, n>> \in Operation /\ log' = [log EXCEPT ![p] = @ \union {<<p, n>>}]
    BY <1>5, TypingAdds
  <2>2. {<<p, n>>} \in SUBSET Operation
    BY <2>1
  <2> QED BY <2>1, <2>2
<1>6. ASSUME NEW p \in Page, Connect(p) \/ CloseBegins(p) \/ OnClose(p) \/ Unmount(p)
      PROVE  UNCHANGED log
  BY <1>6 DEF Connect, CloseBegins, OnClose, Unmount
<1>7. CASE UNCHANGED page
  BY <1>2, <1>7 DEF page
<1> QED BY <1>2, <1>3, <1>4, <1>5, <1>6, <1>7, PageSteps

\* What the author of an operation knows, it goes on to know.
LEMMA AuthoredGrows ==
  ASSUME TypeOK, AuthorsKnow, ClocksDense, Opened, [Next]_vars
  PROVE  Authored \subseteq Authored' /\ Good \subseteq Good'
<1>1. Authored \subseteq Authored'
  BY LogsGrow DEF Authored
<1> QED BY <1>1 DEF Good

-----------------------------------------------------------------------------
\* SentInOrder and what it rests on.

LEMMA ClocksStep ==
  ASSUME Inv, [Next]_vars
  PROVE  ClocksDense'
<1> USE DEF Inv
<1>1. ASSUME \A q \in Page : Own(q)' = Own(q)
      PROVE  ClocksDense'
  BY <1>1 DEF ClocksDense
<1>2. ASSUME UNCHANGED log
      PROVE  ClocksDense'
  BY <1>1, <1>2 DEF Own
<1>3. CASE UNCHANGED page
  BY <1>2, <1>3 DEF page
<1>4. ASSUME NEW p \in Page, OnMessage(p)
      PROVE  ClocksDense'
  <2>1. PICK m \in Good :
          OnJoinAck(p, m.ops) \/ OnSync1(p, m.ops) \/ OnSync2(p, m.ops) \/ OnOperation(p, m.ops)
    BY <1>4, Received
  <2>2. m.ops \in SUBSET Authored
    BY DEF Good
  <2>3. UNCHANGED log \/ log' = [log EXCEPT ![p] = @ \union m.ops]
    BY <2>1 DEF OnJoinAck, OnSync1, OnSync2, OnOperation
  <2> QED BY <2>2, <2>3, <1>1, <1>2, HearingKeepsOwn
<1>5. ASSUME NEW p \in Page, HandleInput(p)
      PROVE  ClocksDense'
  <2>1. PICK n \in Nat :
          /\ n = Cardinality(Own(p))
          /\ Own(p)' = Own(p) \union {<<p, n>>}
          /\ IsFiniteSet(Own(p)') /\ Cardinality(Own(p)') = n + 1
          /\ \A q \in Page \ {p} : Own(q)' = Own(q)
    BY <1>5, TypingAdds
  <2>2. Own(p) = {<<p, k>> : k \in 0..n - 1}
    BY <2>1 DEF ClocksDense
  <2>3. 0..(n + 1) - 1 = (0..n - 1) \union {n}
    OBVIOUS
  <2>4. Own(p)' = {<<p, k>> : k \in 0..(n + 1) - 1}
    BY <2>1, <2>2, <2>3
  <2>5. \A q \in Page \ {p} :
          /\ IsFiniteSet(Own(q)')
          /\ Own(q)' = {<<q, k>> : k \in 0..Cardinality(Own(q)') - 1}
    BY <2>1 DEF ClocksDense
  <2>6. Own(p)' = {<<p, k>> : k \in 0..Cardinality(Own(p)') - 1}
    BY <2>1, <2>4
  <2> QED BY <2>1, <2>5, <2>6 DEF ClocksDense
<1>6. ASSUME NEW p \in Page, Connect(p) \/ CloseBegins(p) \/ OnClose(p) \/ Unmount(p)
      PROVE  ClocksDense'
  BY <1>2, <1>6 DEF Connect, CloseBegins, OnClose, Unmount
<1> QED BY <1>3, <1>4, <1>5, <1>6, PageSteps

LEMMA OnlineStep ==
  ASSUME Inv, [Next]_vars
  PROVE  OnlineSends'
<1> USE DEF Inv
<1>1. /\ status \in [Page -> {"disconnected", "connecting", "syncing", "online"}]
      /\ pending \in [Page -> Seq(Operation)]
  BY DEF TypeOK
<1>2. CASE UNCHANGED page
  BY <1>2 DEF page, OnlineSends
<1>3. ASSUME NEW p \in Page, OnMessage(p)
      PROVE  OnlineSends'
  <2>1. PICK ops : OnJoinAck(p, ops) \/ OnSync1(p, ops) \/ OnSync2(p, ops) \/ OnOperation(p, ops)
    BY <1>3, Received
  <2>2. UNCHANGED open
    BY <1>3 DEF OnMessage
  <2>3. CASE OnJoinAck(p, ops)
    BY <2>2, <2>3, <1>1 DEF OnJoinAck, OnlineSends
  <2>4. CASE OnSync2(p, ops)
    BY <2>2, <2>4, <1>1 DEF OnSync2, OnlineSends
  <2>5. CASE OnSync1(p, ops) \/ OnOperation(p, ops)
    BY <2>2, <2>5 DEF OnSync1, OnOperation, OnlineSends
  <2> QED BY <2>1, <2>3, <2>4, <2>5
<1>4. ASSUME NEW p \in Page, HandleInput(p)
      PROVE  OnlineSends'
  <2>1. PICK n \in Nat :
          IF status[p] = "online" /\ p \in open
          THEN UNCHANGED pending
          ELSE pending' = [pending EXCEPT ![p] = Append(@, <<p, n>>)]
    BY <1>4, TypingAdds
  <2>2. UNCHANGED <<status, open>>
    BY <1>4 DEF HandleInput
  <2> QED BY <2>1, <2>2, <1>1 DEF OnlineSends
<1>5. ASSUME NEW p \in Page, Connect(p) \/ CloseBegins(p) \/ OnClose(p) \/ Unmount(p)
      PROVE  OnlineSends'
  BY <1>1, <1>5 DEF Connect, CloseBegins, OnClose, Unmount, OnlineSends
<1> QED BY <1>2, <1>3, <1>4, <1>5, PageSteps

\* One more operation at the end.
LEMMA OneMore ==
  ASSUME NEW p, NEW n \in Nat, NEW s, s = [i \in 1..n |-> <<p, i - 1>>]
  PROVE  Append(s, <<p, n>>) = [i \in 1..n + 1 |-> <<p, i - 1>>]
<1>1. s \in Seq({<<p, k>> : k \in Nat})
  OBVIOUS
<1> QED BY <1>1

LEMMA SentStep ==
  ASSUME Inv, [Next]_vars
  PROVE  SentInOrder'
<1> USE DEF Inv
<1>1. pending \in [Page -> Seq(Operation)] /\ sent \in [Page -> Seq(Operation)]
  BY DEF TypeOK
<1>2. ASSUME \A q \in Page : Own(q)' = Own(q),
             \A q \in Page : sent'[q] \o pending'[q] = sent[q] \o pending[q]
      PROVE  SentInOrder'
  BY <1>2 DEF SentInOrder
<1>3. ASSUME UNCHANGED <<log, sent, pending>>
      PROVE  SentInOrder'
  BY <1>2, <1>3 DEF Own
<1>4. CASE UNCHANGED page
  BY <1>3, <1>4 DEF page
<1>5. ASSUME NEW p \in Page, OnMessage(p)
      PROVE  SentInOrder'
  <2>1. PICK m \in Good :
          OnJoinAck(p, m.ops) \/ OnSync1(p, m.ops) \/ OnSync2(p, m.ops) \/ OnOperation(p, m.ops)
    BY <1>5, Received
  <2>2. m.ops \in SUBSET Authored
    BY DEF Good
  <2>3. CASE OnJoinAck(p, m.ops) \/ OnSync1(p, m.ops)
    BY <2>3, <1>3 DEF OnJoinAck, OnSync1
  <2>4. CASE OnOperation(p, m.ops)
    BY <2>2, <2>4, <1>2, HearingKeepsOwn DEF OnOperation
  <2>5. CASE OnSync2(p, m.ops)
    <3>1. \A q \in Page : Own(q)' = Own(q)
      BY <2>2, <2>5, HearingKeepsOwn DEF OnSync2
    <3>2. sent'[p] = sent[p] \o pending[p] /\ pending'[p] = <<>>
      BY <2>5, <1>1 DEF OnSync2
    <3>3. sent'[p] \o pending'[p] = sent[p] \o pending[p]
      BY <3>2, <1>1
    <3>4. \A q \in Page \ {p} : sent'[q] = sent[q] /\ pending'[q] = pending[q]
      BY <2>5, <1>1 DEF OnSync2
    <3> QED BY <3>1, <3>3, <3>4, <1>2
  <2> QED BY <2>1, <2>3, <2>4, <2>5
<1>6. ASSUME NEW p \in Page, HandleInput(p)
      PROVE  SentInOrder'
  <2>1. PICK n \in Nat :
          /\ n = Cardinality(Own(p)) /\ <<p, n>> \in Operation
          /\ Cardinality(Own(p)') = n + 1
          /\ \A q \in Page \ {p} : Own(q)' = Own(q)
          /\ IF status[p] = "online" /\ p \in open
             THEN /\ sent' = [sent EXCEPT ![p] = Append(@, <<p, n>>)]
                  /\ UNCHANGED pending
             ELSE /\ pending' = [pending EXCEPT ![p] = Append(@, <<p, n>>)]
                  /\ UNCHANGED sent
    BY <1>6, TypingAdds
  <2>2. sent'[p] \o pending'[p] = Append(sent[p] \o pending[p], <<p, n>>)
    <3>1. CASE status[p] = "online" /\ p \in open
      <4>1. pending[p] = <<>>
        BY <3>1 DEF OnlineSends
      <4>2. sent'[p] = Append(sent[p], <<p, n>>) /\ pending'[p] = <<>>
        BY <2>1, <3>1, <4>1, <1>1
      <4> QED BY <2>1, <4>1, <4>2, <1>1
    <3>2. CASE ~(status[p] = "online" /\ p \in open)
      <4>1. sent'[p] = sent[p] /\ pending'[p] = Append(pending[p], <<p, n>>)
        BY <2>1, <3>2, <1>1
      <4> QED BY <2>1, <4>1, <1>1
    <3> QED BY <3>1, <3>2
  <2>3. sent[p] \o pending[p] = [i \in 1..n |-> <<p, i - 1>>]
    BY <2>1 DEF SentInOrder
  <2>4. sent'[p] \o pending'[p] = [i \in 1..n + 1 |-> <<p, i - 1>>]
    BY <2>2, <2>3, OneMore
  <2>5. \A q \in Page \ {p} : sent'[q] = sent[q] /\ pending'[q] = pending[q]
    BY <2>1, <1>1
  <2>6. \A q \in Page \ {p} :
          sent'[q] \o pending'[q] = [i \in 1..Cardinality(Own(q)') |-> <<q, i - 1>>]
    BY <2>1, <2>5 DEF SentInOrder
  <2>7. sent'[p] \o pending'[p] = [i \in 1..Cardinality(Own(p)') |-> <<p, i - 1>>]
    BY <2>1, <2>4
  <2> QED BY <2>6, <2>7 DEF SentInOrder
<1>7. ASSUME NEW p \in Page, Connect(p) \/ CloseBegins(p) \/ OnClose(p) \/ Unmount(p)
      PROVE  SentInOrder'
  BY <1>3, <1>7 DEF Connect, CloseBegins, OnClose, Unmount
<1> QED BY <1>4, <1>5, <1>6, <1>7, PageSteps

-----------------------------------------------------------------------------
\* The connections.

\* What is written and what is read, for messages of any kind.
LEMMA Writes ==
  ASSUME NEW G, up \in [Connection -> Seq(G)], NEW c, NEW ms \in Seq(G)
  PROVE  Write(c, ms) \in [Connection -> Seq(G)]
<1>1. ASSUME NEW d \in Connection
      PROVE  up[d] \o ms \in Seq(G)
  BY ConcatProperties
<1>2. c \in Connection => [up EXCEPT ![c] = @ \o ms] \in [Connection -> Seq(G)]
  BY <1>1
<1>3. c \notin Connection => [up EXCEPT ![c] = @ \o ms] = up
  OBVIOUS
<1> QED BY <1>2, <1>3 DEF Write

LEMMA Takes ==
  ASSUME NEW G, NEW f \in [Connection -> Seq(G)], NEW c \in Connection, f[c] # <<>>
  PROVE  [f EXCEPT ![c] = Tail(@)] \in [Connection -> Seq(G)] /\ Head(f[c]) \in G
BY HeadTailProperties

LEMMA Deliveries ==
  ASSUME NEW G, down \in [Connection -> Seq(G)], NEW d \in Connection, NEW m \in G,
         Delivered(d, m) \/ Fails(d)
  PROVE  down' \in [Connection -> Seq(G)]
<1>1. Append(down[d], m) \in Seq(G)
  BY AppendProperties
<1>2. [down EXCEPT ![d] = Append(@, m)] \in [Connection -> Seq(G)]
  BY <1>1
<1> QED BY <1>2 DEF Delivered, Fails

LEMMA Monotone ==
  ASSUME NEW G, NEW H, G \subseteq H, NEW D, NEW f \in [D -> Seq(G)]
  PROVE  f \in [D -> Seq(H)]
<1>1. \A c \in D : f[c] \in Seq(H)
  BY SeqMonotonic
<1> QED BY <1>1

LEMMA OpenedStep ==
  ASSUME Inv, [Next]_vars
  PROVE  Opened'
<1> USE DEF Inv
<1>1. /\ up \in [Connection -> Seq(Message)] /\ live \subseteq DOMAIN owner
      /\ websocket \in [Page -> 0..MaxConnections] /\ open \subseteq Page
  BY DEF TypeOK
<1>2. ASSUME UNCHANGED <<owner, websocket>>, open' \subseteq open,
             \A c \in Connection : up'[c] = up[c] \/ c \in DOMAIN owner \/ up'[c] = <<>>
      PROVE  Opened'
  BY <1>2 DEF Opened
<1>3. ASSUME NEW c, NEW ms
      PROVE  \A d \in Connection : Write(c, ms)[d] = up[d] \/ d \in DOMAIN owner
  BY <1>1 DEF Write
<1>4. CASE UNCHANGED vars
  BY <1>2, <1>4 DEF vars, page, network
<1>5. ASSUME NEW p \in Page, Connect(p)
      PROVE  Opened'
  <2> DEFINE c == Len(owner) + 1
  <2>1. /\ c \in Connection /\ owner' = Append(owner, p)
        /\ websocket' = [websocket EXCEPT ![p] = c]
        /\ up' = [up EXCEPT ![c] = <<JoinMessage>>]
        /\ open' = open \union {p}
    BY <1>5 DEF Connect
  <2>2. DOMAIN owner' = DOMAIN owner \union {c}
    <3>1. owner \in Seq(Page)
      BY DEF TypeOK
    <3>2. Len(owner') = Len(owner) + 1 /\ owner' \in Seq(Page)
      BY <2>1, <3>1, AppendProperties
    <3>3. DOMAIN owner' = 1..Len(owner')
      BY <3>2, LenProperties
    <3> QED BY <3>2, <3>3, OwnersConnected
  <2> HIDE DEF c
  <2>3. \A d \in Connection : d # c => up'[d] = up[d]
    BY <2>1, <1>1
  <2>4. \A q \in open' : q = p \/ (q \in open /\ websocket'[q] = websocket[q])
    BY <2>1, <1>1
  <2>5. websocket'[p] = c
    BY <2>1, <1>1
  <2> QED BY <2>2, <2>3, <2>4, <2>5 DEF Opened
<1>6. ASSUME NEW p \in Page, OnMessage(p)
      PROVE  Opened'
  <2>1. PICK ops : OnJoinAck(p, ops) \/ OnSync1(p, ops) \/ OnSync2(p, ops) \/ OnOperation(p, ops)
    BY <1>6, Received
  <2>2. UNCHANGED up \/ \E ms : up' = Write(websocket[p], ms)
    BY <2>1 DEF OnJoinAck, OnSync1, OnSync2, OnOperation
  <2>3. UNCHANGED <<owner, websocket, open>>
    BY <1>6 DEF OnMessage
  <2> QED BY <2>2, <2>3, <1>2, <1>3
<1>7. ASSUME NEW p \in Page, HandleInput(p)
      PROVE  Opened'
  <2>1. UNCHANGED up \/ \E ms : up' = Write(websocket[p], ms)
    BY <1>7, TypingAdds
  <2>2. UNCHANGED <<owner, websocket, open>>
    BY <1>7 DEF HandleInput
  <2> QED BY <2>1, <2>2, <1>2, <1>3
<1>8. ASSUME NEW p \in Page, CloseBegins(p) \/ OnClose(p) \/ Unmount(p)
      PROVE  Opened'
  BY <1>2, <1>8 DEF CloseBegins, OnClose, Unmount, network
<1>9. ASSUME NEW c \in Connection,
             \/ Join(c) \/ JoinFails(c) \/ SendAck(c) \/ SaveSnapshot(c) \/ Receive(c)
             \/ Answer(c) \/ Leave(c) \/ Break(c)
      PROVE  Opened'
  <2>1. UNCHANGED <<owner, websocket, open>>
    BY <1>9 DEF Join, JoinFails, SendAck, SaveSnapshot, Receive, Answer, Leave, Break, page
  <2>2. \/ UNCHANGED up
        \/ up' = [up EXCEPT ![c] = <<>>]
        \/ up[c] # <<>> /\ up' = [up EXCEPT ![c] = Tail(@)]
    BY <1>9 DEF Join, JoinFails, SendAck, SaveSnapshot, Receive, Answer, Leave, Break, network
  <2>3. \A d \in Connection : up'[d] = up[d] \/ d \in DOMAIN owner \/ up'[d] = <<>>
    BY <2>2, <1>1 DEF Opened
  <2> QED BY <2>1, <2>3, <1>2
<1>10. ASSUME NEW c \in Connection, NEW d \in Connection, Forward(c, d) \/ ForwardFails(c, d)
       PROVE  Opened'
  BY <1>10, <1>2 DEF Forward, ForwardFails, page
<1>11. CASE Restart
  BY <1>11, <1>2 DEF Restart, page
<1> QED BY <1>4, <1>5, <1>6, <1>7, <1>8, <1>9, <1>10, <1>11, Steps

-----------------------------------------------------------------------------
\* AuthorsKnow.

\* What was known is still known, and any of it may be sent.
LEMMA StillKnown ==
  ASSUME Inv, [Next]_vars
  PROVE  /\ log \in [Page -> SUBSET Authored'] /\ pending \in [Page -> Seq(Authored')]
         /\ up \in [Connection -> Seq(Good')] /\ down \in [Connection -> Seq(Good')]
         /\ message \in [Connection -> Good']
         /\ snapshot \subseteq Authored'
         /\ \A t \in {"join", "ack", "sync1", "sync2", "operation", "snapshot"} :
              \A ops \in SUBSET Authored' : [type |-> t, ops |-> ops] \in Good'
<1> USE DEF Inv
<1>1. Authored \subseteq Authored' /\ Good \subseteq Good'
  BY AuthoredGrows
<1>2. pending \in [Page -> Seq(Authored')]
  BY <1>1, Monotone DEF AuthorsKnow
<1>3. up \in [Connection -> Seq(Good')] /\ down \in [Connection -> Seq(Good')]
  BY <1>1, Monotone DEF AuthorsKnow
<1>4. /\ log \in [Page -> SUBSET Authored']
      /\ message \in [Connection -> Good'] /\ snapshot \subseteq Authored'
  BY <1>1 DEF AuthorsKnow
<1>5. \A t \in {"join", "ack", "sync1", "sync2", "operation", "snapshot"} :
        \A ops \in SUBSET Authored' : [type |-> t, ops |-> ops] \in Good'
  BY DEF Good
<1> QED BY <1>2, <1>3, <1>4, <1>5

\* The messages a page writes.
LEMMA Outgoing ==
  ASSUME NEW A, NEW G,
         \A t \in {"operation", "snapshot"} :
           \A ops \in SUBSET A : [type |-> t, ops |-> ops] \in G
  PROVE  /\ \A s \in Seq(A) : Operations(s) \in Seq(G)
         /\ \A ops \in SUBSET A : Snapshot(ops) \in Seq(G)
         /\ \A s \in Seq(A), ops \in SUBSET A : Operations(s) \o Snapshot(ops) \in Seq(G)
<1>1. ASSUME NEW s \in Seq(A)
      PROVE  Operations(s) \in Seq(G)
  <2>1. Len(s) \in Nat /\ DOMAIN s = 1..Len(s) /\ \A i \in 1..Len(s) : s[i] \in A
    BY LenProperties, ElementOfSeq
  <2>2. \A i \in 1..Len(s) : [type |-> "operation", ops |-> {s[i]}] \in G
    BY <2>1
  <2>3. [i \in 1..Len(s) |-> [type |-> "operation", ops |-> {s[i]}]] \in Seq(G)
    BY <2>1, <2>2
  <2> QED BY <2>1, <2>3 DEF Operations
<1>2. ASSUME NEW ops \in SUBSET A
      PROVE  Snapshot(ops) \in Seq(G)
  <2>1. [type |-> "snapshot", ops |-> ops] \in G
    OBVIOUS
  <2> QED BY <2>1 DEF Snapshot
<1>3. ASSUME NEW s \in Seq(A), NEW ops \in SUBSET A
      PROVE  Operations(s) \o Snapshot(ops) \in Seq(G)
  BY <1>1, <1>2, ConcatProperties
<1> QED BY <1>1, <1>2, <1>3

\* A page hears only what is known, and hands on only what it has heard or typed.
LEMMA KnownOnMessage ==
  ASSUME Inv, [Next]_vars, NEW p \in Page, OnMessage(p)
  PROVE  /\ log' \in [Page -> SUBSET Authored'] /\ pending' \in [Page -> Seq(Authored')]
         /\ up' \in [Connection -> Seq(Good')] /\ down' \in [Connection -> Seq(Good')]
<1> USE DEF Inv
<1> DEFINE A == Authored'
           G == Good'
<1>1. PICK c \in Connection, m \in Good :
        /\ c = websocket[p] /\ down[c] # <<>>
        /\ down' = [down EXCEPT ![c] = Tail(@)]
        /\ \/ m.type = "ack" /\ OnJoinAck(p, m.ops)
           \/ m.type = "sync1" /\ OnSync1(p, m.ops)
           \/ m.type = "sync2" /\ OnSync2(p, m.ops)
           \/ m.type = "operation" /\ OnOperation(p, m.ops)
  BY Received
<1>2. m.ops \in SUBSET A
  BY AuthoredGrows DEF Good
<1>3. /\ log \in [Page -> SUBSET A] /\ pending \in [Page -> Seq(A)]
      /\ up \in [Connection -> Seq(G)] /\ down \in [Connection -> Seq(G)]
      /\ \A t \in {"join", "ack", "sync1", "sync2", "operation", "snapshot"} :
           \A ops \in SUBSET A : [type |-> t, ops |-> ops] \in G
  BY StillKnown
<1> HIDE DEF A, G
<1>4. down' \in [Connection -> Seq(G)]
  BY <1>1, <1>3, Takes
<1>5. \A ms \in Seq(G) : Write(c, ms) \in [Connection -> Seq(G)]
  BY <1>3, Writes
<1>6. /\ \A s \in Seq(A), ops \in SUBSET A : Operations(s) \o Snapshot(ops) \in Seq(G)
  BY <1>3, Outgoing
<1>7. /\ log' \in [Page -> SUBSET A] /\ pending' \in [Page -> Seq(A)]
      /\ up' \in [Connection -> Seq(G)]
  <2>1. CASE OnJoinAck(p, m.ops)
    <3>1. [type |-> "sync1", ops |-> Claimed(log[p])] \in G
      <4>1. Claimed(log[p]) \in SUBSET A
        BY <1>3 DEF Claimed
      <4> QED BY <4>1, <1>3
    <3>2. <<[type |-> "sync1", ops |-> Claimed(log[p])]>> \in Seq(G)
      BY <3>1
    <3> QED BY <2>1, <3>2, <1>1, <1>3, <1>5 DEF OnJoinAck
  <2>2. CASE OnSync1(p, m.ops)
    <3>1. [type |-> "sync2", ops |-> Missing(log[p], m.ops)] \in G
      <4>1. Missing(log[p], m.ops) \in SUBSET A
        BY <1>3 DEF Missing
      <4> QED BY <4>1, <1>3
    <3>2. <<[type |-> "sync2", ops |-> Missing(log[p], m.ops)]>> \in Seq(G)
      BY <3>1
    <3> QED BY <2>2, <3>2, <1>1, <1>3, <1>5 DEF OnSync1
  <2>3. CASE OnSync2(p, m.ops)
    <3>1. log' \in [Page -> SUBSET A]
      BY <2>3, <1>2, <1>3 DEF OnSync2
    <3>2. pending' \in [Page -> Seq(A)] /\ pending[p] \in Seq(A)
      BY <2>3, <1>3, EmptySeq DEF OnSync2
    <3>3. Operations(pending[p]) \o Snapshot(log'[p]) \in Seq(G)
      BY <3>1, <3>2, <1>6
    <3> QED BY <2>3, <3>1, <3>2, <3>3, <1>1, <1>5 DEF OnSync2
  <2>4. CASE OnOperation(p, m.ops)
    BY <2>4, <1>2, <1>3 DEF OnOperation
  <2> QED BY <2>1, <2>2, <2>3, <2>4, <1>1
<1> QED BY <1>4, <1>7 DEF A, G

LEMMA KnownHandleInput ==
  ASSUME Inv, [Next]_vars, NEW p \in Page, HandleInput(p)
  PROVE  /\ log' \in [Page -> SUBSET Authored'] /\ pending' \in [Page -> Seq(Authored')]
         /\ up' \in [Connection -> Seq(Good')]
<1> USE DEF Inv
<1> DEFINE A == Authored'
           G == Good'
<1>1. PICK n \in Nat :
        /\ <<p, n>> \in Operation
        /\ log' = [log EXCEPT ![p] = @ \union {<<p, n>>}]
        /\ IF status[p] = "online" /\ p \in open
           THEN /\ up' = Write(websocket[p], Operations(<<<<p, n>>>>) \o Snapshot(log'[p]))
                /\ UNCHANGED pending
           ELSE /\ pending' = [pending EXCEPT ![p] = Append(@, <<p, n>>)]
                /\ UNCHANGED up
  BY TypingAdds
<1>2. <<p, n>> \in A
  <2>1. log \in [Page -> SUBSET Operation]
    BY DEF TypeOK
  <2>2. <<p, n>> \in log'[p]
    BY <1>1, <2>1
  <2>3. <<p, n>>[1] = p
    OBVIOUS
  <2> QED BY <1>1, <2>2, <2>3 DEF Authored
<1>3. /\ log \in [Page -> SUBSET A] /\ pending \in [Page -> Seq(A)]
      /\ up \in [Connection -> Seq(G)]
      /\ \A t \in {"operation", "snapshot"} :
           \A ops \in SUBSET A : [type |-> t, ops |-> ops] \in G
  BY StillKnown
<1> HIDE DEF A, G
<1>4. log' \in [Page -> SUBSET A]
  BY <1>1, <1>2, <1>3
<1>5. pending' \in [Page -> Seq(A)]
  <2>1. Append(pending[p], <<p, n>>) \in Seq(A)
    BY <1>2, <1>3, AppendProperties
  <2> QED BY <2>1, <1>1, <1>3
<1>6. up' \in [Connection -> Seq(G)]
  <2>1. <<<<p, n>>>> \in Seq(A)
    BY <1>2
  <2>2. Operations(<<<<p, n>>>>) \o Snapshot(log'[p]) \in Seq(G)
    BY <2>1, <1>3, <1>4, Outgoing
  <2>3. Write(websocket[p], Operations(<<<<p, n>>>>) \o Snapshot(log'[p])) \in [Connection -> Seq(G)]
    BY <2>2, <1>3, Writes
  <2> QED BY <2>3, <1>1, <1>3
<1> QED BY <1>4, <1>5, <1>6 DEF A, G

\* The relay hands on what it has read or stored.
LEMMA KnownRelay ==
  ASSUME Inv, [Next]_vars, NEW c \in Connection,
         \/ Join(c) \/ JoinFails(c) \/ SendAck(c) \/ SaveSnapshot(c) \/ Receive(c)
         \/ Answer(c) \/ Leave(c) \/ Break(c)
  PROVE  /\ up' \in [Connection -> Seq(Good')] /\ down' \in [Connection -> Seq(Good')]
         /\ message' \in [Connection -> Good'] /\ snapshot' \subseteq Authored'
<1> USE DEF Inv
<1> DEFINE A == Authored'
           G == Good'
<1>1. /\ up \in [Connection -> Seq(G)] /\ down \in [Connection -> Seq(G)]
      /\ message \in [Connection -> G] /\ snapshot \subseteq A
      /\ \A t \in {"join", "ack", "sync1", "sync2", "operation", "snapshot"} :
           \A ops \in SUBSET A : [type |-> t, ops |-> ops] \in G
      /\ \A m \in G : m.ops \in SUBSET A
  BY StillKnown DEF Good
<1> HIDE DEF A, G
<1>2. <<>> \in Seq(G)
  BY EmptySeq
<1>3. \/ UNCHANGED up
      \/ up' = [up EXCEPT ![c] = <<>>]
      \/ up[c] # <<>> /\ up' = [up EXCEPT ![c] = Tail(@)]
  BY DEF Join, JoinFails, SendAck, SaveSnapshot, Receive, Answer, Leave, Break, network
<1>4. up' \in [Connection -> Seq(G)]
  <2>1. up[c] # <<>> => [up EXCEPT ![c] = Tail(@)] \in [Connection -> Seq(G)]
    BY <1>1, Takes
  <2>2. [up EXCEPT ![c] = <<>>] \in [Connection -> Seq(G)]
    BY <1>1, <1>2
  <2> QED BY <2>1, <2>2, <1>1, <1>3
<1>5. NoMessage \in G /\ Ack \in G /\ [type |-> "sync2", ops |-> snapshot] \in G
  BY <1>1 DEF NoMessage, Ack
<1>6. down' \in [Connection -> Seq(G)]
  <2>1. ASSUME NEW m \in G, Delivered(c, m) \/ Fails(c)
        PROVE  down' \in [Connection -> Seq(G)]
    BY <2>1, <1>1, Deliveries
  <2>2. CASE SendAck(c)
    BY <2>1, <2>2, <1>5 DEF SendAck
  <2>3. CASE Answer(c)
    BY <2>1, <2>3, <1>5 DEF Answer
  <2>4. CASE Break(c)
    BY <2>4, <1>1, <1>2 DEF Break
  <2>5. CASE Join(c) \/ JoinFails(c) \/ SaveSnapshot(c) \/ Receive(c) \/ Leave(c)
    BY <2>5, <1>1 DEF Join, JoinFails, SaveSnapshot, Receive, Leave, network
  <2> QED BY <2>2, <2>3, <2>4, <2>5
<1>7. up[c] # <<>> => Head(up[c]) \in G
  BY <1>1, Takes
<1>8. message' \in [Connection -> G]
  <2>1. CASE Receive(c)
    <3>1. PICK m \in {Head(up[c]), NoMessage} : message' = [message EXCEPT ![c] = m]
      BY <2>1 DEF Receive
    <3>2. m \in G
      BY <2>1, <3>1, <1>5, <1>7 DEF Receive
    <3> QED BY <3>1, <3>2, <1>1
  <2>2. CASE ~Receive(c)
    BY <2>2, <1>1 DEF Join, JoinFails, SendAck, SaveSnapshot, Answer, Leave, Break, relay
  <2> QED BY <2>1, <2>2
<1>9. snapshot' \subseteq A
  <2>1. CASE SaveSnapshot(c)
    BY <2>1, <1>1, <1>7 DEF SaveSnapshot
  <2>2. CASE ~SaveSnapshot(c)
    BY <2>2, <1>1 DEF Join, JoinFails, SendAck, Receive, Answer, Leave, Break
  <2> QED BY <2>1, <2>2
<1> QED BY <1>4, <1>6, <1>8, <1>9 DEF A, G

LEMMA KnownStep ==
  ASSUME Inv, [Next]_vars
  PROVE  AuthorsKnow'
<1>1. /\ log \in [Page -> SUBSET Authored'] /\ pending \in [Page -> Seq(Authored')]
      /\ up \in [Connection -> Seq(Good')] /\ down \in [Connection -> Seq(Good')]
      /\ message \in [Connection -> Good']
      /\ snapshot \subseteq Authored'
      /\ \A t \in {"join", "ack", "sync1", "sync2", "operation", "snapshot"} :
           \A ops \in SUBSET Authored' : [type |-> t, ops |-> ops] \in Good'
  BY StillKnown
<1>2. CASE UNCHANGED vars
  BY <1>1, <1>2 DEF vars, page, network, relay, AuthorsKnow
<1>3. ASSUME NEW p \in Page, OnMessage(p)
      PROVE  AuthorsKnow'
  <2>1. UNCHANGED <<message, snapshot>>
    BY <1>3 DEF OnMessage, relay
  <2> QED BY <2>1, <1>1, <1>3, KnownOnMessage DEF AuthorsKnow
<1>4. ASSUME NEW p \in Page, HandleInput(p)
      PROVE  AuthorsKnow'
  <2>1. UNCHANGED <<down, message, snapshot>>
    BY <1>4 DEF HandleInput, relay
  <2> QED BY <2>1, <1>1, <1>4, KnownHandleInput DEF AuthorsKnow
<1>5. ASSUME NEW p \in Page, Connect(p)
      PROVE  AuthorsKnow'
  <2>1. JoinMessage \in Good'
    BY <1>1 DEF JoinMessage
  <2>2. <<JoinMessage>> \in Seq(Good')
    BY <2>1
  <2>3. up' \in [Connection -> Seq(Good')]
    <3>1. up' = [up EXCEPT ![Len(owner) + 1] = <<JoinMessage>>]
      BY <1>5 DEF Connect
    <3> QED BY <3>1, <2>2, <1>1
  <2>4. UNCHANGED <<log, pending, down, message, snapshot>>
    BY <1>5 DEF Connect, relay
  <2> QED BY <2>3, <2>4, <1>1 DEF AuthorsKnow
<1>6. ASSUME NEW p \in Page, CloseBegins(p) \/ OnClose(p)
      PROVE  AuthorsKnow'
  BY <1>1, <1>6 DEF CloseBegins, OnClose, network, relay, AuthorsKnow
<1>7. ASSUME NEW p \in Page, Unmount(p)
      PROVE  AuthorsKnow'
  <2>1. down' \in [Connection -> Seq(Good')]
    <3>1. <<>> \in Seq(Good')
      BY EmptySeq
    <3> QED BY <3>1, <1>1, <1>7 DEF Unmount
  <2>2. UNCHANGED <<log, pending, up, message, snapshot>>
    BY <1>7 DEF Unmount, relay
  <2> QED BY <2>1, <2>2, <1>1 DEF AuthorsKnow
<1>8. ASSUME NEW c \in Connection,
             \/ Join(c) \/ JoinFails(c) \/ SendAck(c) \/ SaveSnapshot(c) \/ Receive(c)
             \/ Answer(c) \/ Leave(c) \/ Break(c)
      PROVE  AuthorsKnow'
  <2>1. UNCHANGED <<log, pending>>
    BY <1>8 DEF Join, JoinFails, SendAck, SaveSnapshot, Receive, Answer, Leave, Break, page
  <2>2. /\ up' \in [Connection -> Seq(Good')] /\ down' \in [Connection -> Seq(Good')]
        /\ message' \in [Connection -> Good'] /\ snapshot' \subseteq Authored'
    BY <1>8, KnownRelay
  <2> QED BY <2>1, <2>2, <1>1 DEF AuthorsKnow
<1>9. ASSUME NEW c \in Connection, NEW d \in Connection, Forward(c, d) \/ ForwardFails(c, d)
      PROVE  AuthorsKnow'
  <2>1. down' \in [Connection -> Seq(Good')]
    <3>1. Delivered(d, message[c]) \/ Fails(d)
      BY <1>9 DEF Forward, ForwardFails
    <3> QED BY <3>1, <1>1, Deliveries
  <2>2. message' \in [Connection -> Good']
    <3>1. NoMessage \in Good'
      BY <1>1 DEF NoMessage
    <3>2. UNCHANGED message \/ message' = [message EXCEPT ![c] = NoMessage]
      BY <1>9 DEF Forward, ForwardFails
    <3> QED BY <3>1, <3>2, <1>1
  <2>3. UNCHANGED <<log, pending, up, snapshot>>
    BY <1>9 DEF Forward, ForwardFails, page
  <2> QED BY <2>1, <2>2, <2>3, <1>1 DEF AuthorsKnow
<1>10. CASE Restart
  <2>1. NoMessage \in Good' /\ <<>> \in Seq(Good')
    BY <1>1, EmptySeq DEF NoMessage
  <2>2. UNCHANGED <<log, pending, snapshot>>
    BY <1>10 DEF Restart, page
  <2> QED BY <2>1, <2>2, <1>1, <1>10 DEF Restart, AuthorsKnow
<1> QED BY <1>2, <1>3, <1>4, <1>5, <1>6, <1>7, <1>8, <1>9, <1>10, Steps

-----------------------------------------------------------------------------
\* The type invariant, beyond AuthorsKnow.

PagesOK ==
  /\ sent \in [Page -> Seq(Operation)]
  /\ status \in [Page -> {"disconnected", "connecting", "syncing", "online"}]
  /\ websocket \in [Page -> 0..MaxConnections] /\ shut \subseteq Page /\ open \subseteq Page
  /\ owner \in Seq(Page) /\ Len(owner) <= MaxConnections

RelayOK ==
  /\ live \subseteq DOMAIN owner /\ joined \subseteq DOMAIN owner
  /\ handler \in [Connection -> {"join", "ack", "read", "forward", "answer", "leave", "done"}]
  /\ receivers \in [Connection -> SUBSET Connection]
  /\ accepted \subseteq Operation
  /\ faults \in 0..MaxFaults /\ discipline \in Disciplines

LEMMA PagesStep ==
  ASSUME Inv, [Next]_vars
  PROVE  PagesOK'
<1> USE DEF Inv
<1>1. PagesOK /\ pending \in [Page -> Seq(Operation)]
  BY DEF TypeOK, PagesOK
<1>2. ASSUME UNCHANGED <<sent, status, websocket, open, shut, owner>>
      PROVE  PagesOK'
  BY <1>1, <1>2 DEF PagesOK
<1>3. CASE UNCHANGED vars
  BY <1>2, <1>3 DEF vars, page
<1>4. ASSUME NEW p \in Page, Connect(p)
      PROVE  PagesOK'
  <2>1. Len(owner) + 1 \in 1..MaxConnections /\ owner' = Append(owner, p)
    BY <1>4 DEF Connect, Connection
  <2>2. owner' \in Seq(Page) /\ Len(owner') <= MaxConnections
    BY <2>1, <1>1, AppendProperties DEF PagesOK
  <2>3. Len(owner) + 1 \in 0..MaxConnections
    BY <2>1
  <2>4. websocket' \in [Page -> 0..MaxConnections]
    BY <2>3, <1>1, <1>4 DEF Connect, PagesOK
  <2>5. /\ status' = [status EXCEPT ![p] = "connecting"] /\ open' = open \union {p}
        /\ UNCHANGED <<sent, shut>>
    BY <1>4 DEF Connect
  <2> QED BY <2>2, <2>4, <2>5, <1>1 DEF PagesOK
<1>5. ASSUME NEW p \in Page, OnMessage(p)
      PROVE  PagesOK'
  <2>1. PICK ops : OnJoinAck(p, ops) \/ OnSync1(p, ops) \/ OnSync2(p, ops) \/ OnOperation(p, ops)
    BY <1>5, Received
  <2>2. UNCHANGED <<websocket, open, shut, owner>>
    BY <1>5 DEF OnMessage
  <2>3. sent[p] \o pending[p] \in Seq(Operation)
    BY <1>1, ConcatProperties DEF PagesOK
  <2>4. sent' \in [Page -> Seq(Operation)]
    BY <2>1, <2>3, <1>1 DEF OnJoinAck, OnSync1, OnSync2, OnOperation, PagesOK
  <2>5. status' \in [Page -> {"disconnected", "connecting", "syncing", "online"}]
    BY <2>1, <1>1 DEF OnJoinAck, OnSync1, OnSync2, OnOperation, PagesOK
  <2> QED BY <2>2, <2>4, <2>5, <1>1 DEF PagesOK
<1>6. ASSUME NEW p \in Page, HandleInput(p)
      PROVE  PagesOK'
  <2>1. PICK n \in Nat :
          /\ <<p, n>> \in Operation
          /\ UNCHANGED sent \/ sent' = [sent EXCEPT ![p] = Append(@, <<p, n>>)]
    BY <1>6, TypingAdds
  <2>2. Append(sent[p], <<p, n>>) \in Seq(Operation)
    BY <2>1, <1>1, AppendProperties DEF PagesOK
  <2>3. sent' \in [Page -> Seq(Operation)]
    BY <2>1, <2>2, <1>1 DEF PagesOK
  <2>4. UNCHANGED <<status, websocket, open, shut, owner>>
    BY <1>6 DEF HandleInput
  <2> QED BY <2>3, <2>4, <1>1 DEF PagesOK
<1>7. ASSUME NEW p \in Page, CloseBegins(p) \/ OnClose(p) \/ Unmount(p)
      PROVE  PagesOK'
  BY <1>1, <1>7 DEF CloseBegins, OnClose, Unmount, PagesOK
<1>8. ASSUME NEW c \in Connection,
             \/ Join(c) \/ JoinFails(c) \/ SendAck(c) \/ SaveSnapshot(c) \/ Receive(c)
             \/ Answer(c) \/ Leave(c) \/ Break(c)
      PROVE  PagesOK'
  BY <1>2, <1>8 DEF Join, JoinFails, SendAck, SaveSnapshot, Receive, Answer, Leave, Break, page
<1>9. ASSUME NEW c \in Connection, NEW d \in Connection, Forward(c, d) \/ ForwardFails(c, d)
      PROVE  PagesOK'
  BY <1>2, <1>9 DEF Forward, ForwardFails, page
<1>10. CASE Restart
  BY <1>2, <1>10 DEF Restart, page
<1> QED BY <1>3, <1>4, <1>5, <1>6, <1>7, <1>8, <1>9, <1>10, Steps

LEMMA RelayStepOK ==
  ASSUME Inv, [Next]_vars
  PROVE  RelayOK'
<1> USE DEF Inv
<1>1. RelayOK
  BY DEF TypeOK, RelayOK
<1>2. ASSUME UNCHANGED <<owner, handler, joined, receivers, accepted, faults, discipline>>,
             live' \subseteq live
      PROVE  RelayOK'
  BY <1>1, <1>2 DEF RelayOK
<1>3. CASE UNCHANGED vars
  BY <1>2, <1>3 DEF vars, network, relay, past
<1>4. ASSUME NEW p \in Page, Connect(p)
      PROVE  RelayOK'
  <2>1. owner' = Append(owner, p) /\ live' = live \union {Len(owner) + 1}
    BY <1>4 DEF Connect
  <2>2. DOMAIN owner' = DOMAIN owner \union {Len(owner) + 1}
    <3>1. owner \in Seq(Page)
      BY DEF TypeOK
    <3>2. Len(owner') = Len(owner) + 1 /\ owner' \in Seq(Page)
      BY <2>1, <3>1, AppendProperties
    <3>3. DOMAIN owner' = 1..Len(owner')
      BY <3>2, LenProperties
    <3> QED BY <3>2, <3>3, OwnersConnected
  <2>3. UNCHANGED <<handler, joined, receivers, accepted, faults, discipline>>
    BY <1>4 DEF Connect, relay, past
  <2> QED BY <2>1, <2>2, <2>3, <1>1 DEF RelayOK
<1>5. ASSUME NEW p \in Page, OnMessage(p) \/ CloseBegins(p) \/ OnClose(p) \/ HandleInput(p) \/ Unmount(p)
      PROVE  RelayOK'
  <2>1. UNCHANGED <<owner, handler, joined, receivers, accepted, faults, discipline>>
    BY <1>5 DEF OnMessage, CloseBegins, OnClose, HandleInput, Unmount, relay, past
  <2>2. live' \subseteq live
    BY <1>5 DEF OnMessage, CloseBegins, OnClose, HandleInput, Unmount, network
  <2> QED BY <2>1, <2>2, <1>2
<1>6. ASSUME NEW c \in Connection, Receive(c)
      PROVE  RelayOK'
  <2>1. up[c] # <<>> /\ up \in [Connection -> Seq(Message)]
    BY <1>6 DEF Receive, TypeOK
  <2>2. Head(up[c]) \in Message
    BY <2>1, Takes
  <2>3. Head(up[c]).ops \subseteq Operation
    BY <2>2 DEF Message
  <2>4. accepted' \subseteq Operation
    BY <2>3, <1>1, <1>6 DEF Receive, RelayOK
  <2>5. receivers' \in [Connection -> SUBSET Connection]
    <3>1. joined \ {c} \in SUBSET Connection
      BY OwnersConnected, <1>1 DEF RelayOK
    <3>2. receivers' = [receivers EXCEPT ![c] = joined \ {c}]
      BY <1>6 DEF Receive
    <3> QED BY <3>1, <3>2, <1>1 DEF RelayOK
  <2>6. PICK l \in {"forward", "answer", "read"} : handler' = [handler EXCEPT ![c] = l]
    BY <1>6 DEF Receive, Goto
  <2>7. UNCHANGED <<owner, live, joined, faults, discipline>>
    BY <1>6 DEF Receive
  <2> QED BY <2>4, <2>5, <2>6, <2>7, <1>1 DEF RelayOK
<1>7. ASSUME NEW c \in Connection,
             Join(c) \/ JoinFails(c) \/ SendAck(c) \/ SaveSnapshot(c) \/ Answer(c) \/ Leave(c)
      PROVE  RelayOK'
  <2>1. /\ \/ UNCHANGED handler
           \/ \E l \in {"done", "ack", "read", "leave"} : handler' = [handler EXCEPT ![c] = l]
        /\ live' \subseteq live
        /\ UNCHANGED <<owner, receivers, accepted, faults, discipline>>
    BY <1>7 DEF Join, JoinFails, SendAck, SaveSnapshot, Answer, Leave, Goto, network, relay, past
  <2>2. joined' \subseteq DOMAIN owner
    BY <1>1, <1>7 DEF Join, JoinFails, SendAck, SaveSnapshot, Answer, Leave, relay, RelayOK, Opened
  <2> QED BY <2>1, <2>2, <1>1 DEF RelayOK
<1>8. ASSUME NEW c \in Connection, Break(c)
      PROVE  RelayOK'
  <2>1. faults' \in 0..MaxFaults
    BY <1>1, <1>8, CollabAssumption DEF Break, RelayOK
  <2>2. live' \subseteq live /\ UNCHANGED <<owner, handler, joined, receivers, accepted, discipline>>
    BY <1>8 DEF Break, relay
  <2> QED BY <2>1, <2>2, <1>1 DEF RelayOK
<1>9. ASSUME NEW c \in Connection, NEW d \in Connection, Forward(c, d) \/ ForwardFails(c, d)
      PROVE  RelayOK'
  <2>1. \/ UNCHANGED handler
        \/ \E l \in {"read", "leave"} : handler' = [handler EXCEPT ![c] = l]
    BY <1>9 DEF Forward, ForwardFails, Goto
  <2>2. PICK R \in SUBSET receivers[c] : receivers' = [receivers EXCEPT ![c] = R]
    BY <1>9 DEF Forward, ForwardFails
  <2>3. receivers' \in [Connection -> SUBSET Connection]
    BY <2>2, <1>1 DEF RelayOK
  <2>4. UNCHANGED <<owner, live, joined, accepted, faults, discipline>>
    BY <1>9 DEF Forward, ForwardFails, past
  <2> QED BY <2>1, <2>3, <2>4, <1>1 DEF RelayOK
<1>10. CASE Restart
  <2>1. faults' \in 0..MaxFaults
    BY <1>1, <1>10, CollabAssumption DEF Restart, RelayOK
  <2>2. /\ live' = {} /\ joined' = {} /\ receivers' = [c \in Connection |-> {}]
        /\ handler' = [c \in Connection |-> IF c \in DOMAIN owner THEN "done" ELSE "join"]
        /\ UNCHANGED <<owner, accepted, discipline>>
    BY <1>10 DEF Restart
  <2> QED BY <2>1, <2>2, <1>1 DEF RelayOK
<1> QED BY <1>3, <1>4, <1>5, <1>6, <1>7, <1>8, <1>9, <1>10, Steps

\* The parts make up the whole.
LEMMA TypeParts ==
  ASSUME AuthorsKnow, PagesOK, RelayOK
  PROVE  TypeOK
<1>1. Authored \subseteq Operation /\ Good \subseteq Message
  BY DEF Authored, Good, Message
<1>2. pending \in [Page -> Seq(Operation)]
  BY <1>1, Monotone DEF AuthorsKnow
<1>3. up \in [Connection -> Seq(Message)] /\ down \in [Connection -> Seq(Message)]
  BY <1>1, Monotone DEF AuthorsKnow
<1>4. /\ log \in [Page -> SUBSET Operation] /\ message \in [Connection -> Message]
      /\ snapshot \subseteq Operation
  BY <1>1 DEF AuthorsKnow
<1> QED BY <1>2, <1>3, <1>4 DEF TypeOK, PagesOK, RelayOK

LEMMA TypeStep ==
  ASSUME Inv, [Next]_vars
  PROVE  TypeOK'
<1>1. AuthorsKnow' /\ PagesOK' /\ RelayOK'
  BY KnownStep, PagesStep, RelayStepOK
<1>2. (AuthorsKnow /\ PagesOK /\ RelayOK => TypeOK)'
  BY TypeParts, PTL
<1> QED BY <1>1, <1>2

-----------------------------------------------------------------------------

LEMMA Initially == Init => Inv
<1> SUFFICES ASSUME Init
             PROVE  Inv
  OBVIOUS
<1>1. \A p \in Page : Own(p) = {}
  BY DEF Init, Own
<1>2. Earlier \subseteq Authored
  BY CollabAssumption DEF Earlier, Authored, Operation
<1>3. NoMessage \in Good
  BY DEF NoMessage, Good
<1>4. AuthorsKnow
  BY <1>2, <1>3, EmptySeq DEF Init, AuthorsKnow
<1>5. PagesOK
  <2>1. 0 \in 0..MaxConnections /\ Len(<<>>) <= MaxConnections
    BY CollabAssumption
  <2>2. owner = <<>> /\ <<>> \in Seq(Page)
    BY EmptySeq DEF Init
  <2> QED BY <2>1, <2>2, EmptySeq DEF Init, PagesOK
<1>6. RelayOK
  <2>1. 0 \in 0..MaxFaults
    BY CollabAssumption
  <2> QED BY <2>1 DEF Init, RelayOK
<1>7. TypeOK
  BY <1>4, <1>5, <1>6, TypeParts
<1>8. ClocksDense
  <2>1. IsFiniteSet({}) /\ Cardinality({}) = 0
    BY FS_EmptySet
  <2>2. 0..0 - 1 = {}
    OBVIOUS
  <2> QED BY <1>1, <2>1, <2>2 DEF ClocksDense
<1>9. Opened
  BY DEF Init, Opened
<1>10. OnlineSends
  BY DEF Init, OnlineSends
<1>11. SentInOrder
  <2>1. Cardinality({}) = 0
    BY FS_EmptySet
  <2>2. <<>> \o <<>> = <<>>
    OBVIOUS
  <2>3. \A p : [i \in 1..0 |-> <<p, i - 1>>] = <<>>
    OBVIOUS
  <2>4. \A p \in Page : sent[p] = <<>> /\ pending[p] = <<>>
    BY DEF Init
  <2> QED BY <1>1, <2>1, <2>2, <2>3, <2>4 DEF SentInOrder
<1> QED BY <1>4, <1>7, <1>8, <1>9, <1>10, <1>11 DEF Inv

\* Everything above holds in every reachable state.
THEOREM CollabInvariance == Spec => []Inv
<1>1. Inv /\ [Next]_vars => Inv'
  <2> SUFFICES ASSUME Inv, [Next]_vars
               PROVE  Inv'
    OBVIOUS
  <2>1. TypeOK' /\ AuthorsKnow'
    BY TypeStep, KnownStep
  <2>2. ClocksDense' /\ Opened'
    BY ClocksStep, OpenedStep
  <2>3. OnlineSends' /\ SentInOrder'
    BY OnlineStep, SentStep
  <2> QED BY <2>1, <2>2, <2>3 DEF Inv
<1> QED BY <1>1, Initially, PTL DEF Spec

\* What the pages, the connections, the handlers and the store hold has its type.
THEOREM CollabTypeCorrect == Spec => []TypeOK
BY CollabInvariance, PTL DEF Inv

\* sendOrQueue and flushPendingOperations: across any number of breaks, restarts and early
\* answers a page sends each of its operations once, and in the order of its clock.
THEOREM PagesSendInOrder == Spec => []SentInOrder
BY CollabInvariance, PTL DEF Inv

\* flushPendingOperations leaves nothing in the queue of a page that is online.
THEOREM NothingWaitsOnline == Spec => []OnlineSends
BY CollabInvariance, PTL DEF Inv

-----------------------------------------------------------------------------
\* The order of what is on its way.

Items(s) == {s[k] : k \in 1..Len(s)}

\* What m carries live of any page is older than what n carries of that page.
Before(m, n) ==
  \A p \in Page : \A x \in LiveClocks(p, m), y \in LiveClocks(p, n) : x < y

Sorted(s) == \A i, j \in 1..Len(s) : i < j => Before(s[i], s[j])

LEMMA TailItems ==
  ASSUME NEW s \in Seq(Message), s # <<>>
  PROVE  /\ Items(Tail(s)) \subseteq Items(s) /\ Head(s) \in Items(s)
         /\ Sorted(s) => Sorted(Tail(s)) /\ \A m \in Items(Tail(s)) : Before(Head(s), m)
<1>1. /\ Len(s) \in Nat /\ Len(s) >= 1 /\ Head(s) = s[1]
      /\ Tail(s) \in Seq(Message) /\ Len(Tail(s)) = Len(s) - 1
      /\ \A k \in 1..Len(Tail(s)) : Tail(s)[k] = s[k + 1]
  BY LenProperties, EmptySeq, HeadTailProperties
<1> DEFINE t == Tail(s)
           h == Head(s)
<1> HIDE DEF t, h
<1>2. /\ Len(s) \in Nat /\ Len(s) >= 1 /\ h = s[1] /\ Len(t) = Len(s) - 1
      /\ \A k \in 1..Len(t) : t[k] = s[k + 1] /\ k + 1 \in 1..Len(s)
  BY <1>1 DEF t, h
<1>3. Items(t) \subseteq Items(s) /\ h \in Items(s)
  BY <1>2 DEF Items
<1>4. ASSUME Sorted(s)
      PROVE  Sorted(t) /\ \A m \in Items(t) : Before(h, m)
  <2>1. ASSUME NEW i \in 1..Len(t), NEW j \in 1..Len(t), i < j
        PROVE  Before(t[i], t[j])
    <3>1. /\ i + 1 \in 1..Len(s) /\ j + 1 \in 1..Len(s) /\ i + 1 < j + 1
          /\ t[i] = s[i + 1] /\ t[j] = s[j + 1]
      BY <1>2, <2>1
    <3> QED BY <1>4, <3>1 DEF Sorted
  <2>2. ASSUME NEW k \in 1..Len(t)
        PROVE  Before(h, t[k])
    <3>1. 1 \in 1..Len(s) /\ 1 < k + 1
      BY <1>2
    <3> QED BY <1>2, <1>4, <3>1 DEF Sorted
  <2>3. Sorted(t)
    BY <2>1 DEF Sorted
  <2> QED BY <2>2, <2>3 DEF Items
<1> QED BY <1>3, <1>4 DEF t, h

LEMMA NoItems == Items(<<>>) = {} /\ Sorted(<<>>)
BY DEF Items, Sorted

LEMMA ConcatItems ==
  ASSUME NEW s \in Seq(Message), NEW t \in Seq(Message)
  PROVE  /\ Items(s \o t) = Items(s) \union Items(t)
         /\ Sorted(s) /\ Sorted(t) /\ (\A m \in Items(s), n \in Items(t) : Before(m, n))
              => Sorted(s \o t)
<1>1. /\ Len(s) \in Nat /\ Len(t) \in Nat
      /\ Len(s \o t) = Len(s) + Len(t)
      /\ \A k \in 1..Len(s) + Len(t) :
           (s \o t)[k] = IF k <= Len(s) THEN s[k] ELSE t[k - Len(s)]
  BY LenProperties, ConcatProperties
<1> DEFINE st == s \o t
<1> HIDE DEF st
<1>2. /\ Len(s) \in Nat /\ Len(t) \in Nat /\ Len(st) = Len(s) + Len(t)
      /\ \A k \in 1..Len(st) : k <= Len(s) => k \in 1..Len(s) /\ st[k] = s[k]
      /\ \A k \in 1..Len(st) : ~(k <= Len(s)) =>
           k - Len(s) \in 1..Len(t) /\ st[k] = t[k - Len(s)]
  BY <1>1 DEF st
<1>3. Items(st) \subseteq Items(s) \union Items(t)
  BY <1>2 DEF Items
<1>4. Items(s) \subseteq Items(st)
  <2>1. \A k \in 1..Len(s) : k \in 1..Len(st) /\ k <= Len(s)
    BY <1>2
  <2> QED BY <1>2, <2>1 DEF Items
<1>5. Items(t) \subseteq Items(st)
  <2>1. \A k \in 1..Len(t) :
          k + Len(s) \in 1..Len(st) /\ ~(k + Len(s) <= Len(s)) /\ k + Len(s) - Len(s) = k
    BY <1>2
  <2>2. \A k \in 1..Len(t) : st[k + Len(s)] = t[k]
    BY <1>2, <2>1
  <2> QED BY <2>1, <2>2 DEF Items
<1>6. ASSUME Sorted(s), Sorted(t), \A m \in Items(s), n \in Items(t) : Before(m, n)
      PROVE  Sorted(st)
  <2>1. ASSUME NEW i \in 1..Len(st), NEW j \in 1..Len(st), i < j
        PROVE  Before(st[i], st[j])
    <3>1. CASE j <= Len(s)
      <4>1. i <= Len(s)
        BY <1>2, <2>1, <3>1
      <4> QED BY <1>2, <1>6, <2>1, <3>1, <4>1 DEF Sorted
    <3>2. CASE i <= Len(s) /\ ~(j <= Len(s))
      <4>1. st[i] \in Items(s) /\ st[j] \in Items(t)
        BY <1>2, <3>2 DEF Items
      <4> QED BY <1>6, <4>1
    <3>3. CASE ~(i <= Len(s)) /\ ~(j <= Len(s))
      <4>1. i - Len(s) < j - Len(s)
        BY <1>2, <2>1
      <4> QED BY <1>2, <1>6, <3>3, <4>1 DEF Sorted
    <3> QED BY <1>2, <2>1, <3>1, <3>2, <3>3
  <2> QED BY <2>1 DEF Sorted
<1> QED BY <1>3, <1>4, <1>5, <1>6 DEF st

LEMMA AppendItems ==
  ASSUME NEW s \in Seq(Message), NEW m \in Message
  PROVE  /\ Items(Append(s, m)) = Items(s) \union {m}
         /\ Sorted(s) /\ (\A n \in Items(s) : Before(n, m)) => Sorted(Append(s, m))
<1>1. Append(s, m) = s \o <<m>> /\ <<m>> \in Seq(Message)
  BY AppendProperties, AppendIsConcat
<1>2. Items(<<m>>) = {m} /\ Sorted(<<m>>)
  BY DEF Items, Sorted
<1> QED BY <1>1, <1>2, ConcatItems

\* What is on its way is in order: u is written by pages, g in the hands of the handlers,
\* which still forward it to r, and d is written by handlers.
Ordered(u, g, d, r) ==
  /\ \A c \in Connection : Sorted(u[c])
  /\ \A c, e \in Connection : \A n \in Items(u[e]) : Before(g[c], n)
  /\ \A c \in Connection : Sorted(d[c])
  /\ \A c, e \in Connection : e \in r[c] => \A m \in Items(d[e]) : Before(m, g[c])
  /\ \A c, e \in Connection : \A m \in Items(d[e]), n \in Items(u[c]) : Before(m, n)

\* t is what is left of s.
Rest(t, s) == t = s \/ t = <<>> \/ (s # <<>> /\ t = Tail(s))

LEMMA RestItems ==
  ASSUME NEW s \in Seq(Message), NEW t, Rest(t, s)
  PROVE  t \in Seq(Message) /\ Items(t) \subseteq Items(s) /\ (Sorted(s) => Sorted(t))
<1>1. s # <<>> => Tail(s) \in Seq(Message)
  BY HeadTailProperties
<1>2. <<>> \in Seq(Message)
  BY EmptySeq
<1> QED BY <1>1, <1>2, TailItems, NoItems DEF Rest

LEMMA NothingBefore == \A m : Before(NoMessage, m) /\ Before(m, NoMessage)
BY DEF Before, LiveClocks, NoMessage

\* Nothing gets out of order when something is taken away.
LEMMA OrderShrinks ==
  ASSUME NEW u \in [Connection -> Seq(Message)], NEW d \in [Connection -> Seq(Message)],
         NEW g, NEW r, NEW u2, NEW g2, NEW d2, NEW r2, Ordered(u, g, d, r),
         \A c \in Connection : Rest(u2[c], u[c]) /\ Rest(d2[c], d[c]),
         \A c \in Connection : g2[c] = g[c] \/ g2[c] = NoMessage,
         \A c \in Connection : r2[c] \subseteq r[c]
  PROVE  Ordered(u2, g2, d2, r2)
<1>1. \A c \in Connection :
        /\ Items(u2[c]) \subseteq Items(u[c]) /\ Items(d2[c]) \subseteq Items(d[c])
        /\ (Sorted(u[c]) => Sorted(u2[c])) /\ (Sorted(d[c]) => Sorted(d2[c]))
  BY RestItems
<1>2. \A c, e \in Connection : \A n \in Items(u2[e]) : Before(g2[c], n)
  BY <1>1, NothingBefore DEF Ordered
<1>3. \A c, e \in Connection : e \in r2[c] => \A m \in Items(d2[e]) : Before(m, g2[c])
  BY <1>1, NothingBefore DEF Ordered
<1> QED BY <1>1, <1>2, <1>3 DEF Ordered

\* A page writes ms, in order, and everything on its way is older.
LEMMA OrderWrites ==
  ASSUME NEW u \in [Connection -> Seq(Message)], NEW d \in [Connection -> Seq(Message)],
         NEW g, NEW r, Ordered(u, g, d, r),
         NEW p \in Connection, NEW ms \in Seq(Message), Sorted(ms),
         \A c \in Connection, n \in Items(ms) :
           /\ \A m \in Items(u[c]) \union Items(d[c]) : Before(m, n)
           /\ Before(g[c], n)
  PROVE  Ordered([u EXCEPT ![p] = @ \o ms], g, d, r)
<1> DEFINE u2 == [u EXCEPT ![p] = @ \o ms]
<1>1. u2[p] = u[p] \o ms /\ \A c \in Connection \ {p} : u2[c] = u[c]
  OBVIOUS
<1> HIDE DEF u2
<1>2. Items(u2[p]) = Items(u[p]) \union Items(ms) /\ Sorted(u2[p])
  BY <1>1, ConcatItems DEF Ordered
<1>3. \A c \in Connection : Sorted(u2[c]) /\ Items(u2[c]) \subseteq Items(u[c]) \union Items(ms)
  BY <1>1, <1>2 DEF Ordered
<1> QED BY <1>3 DEF Ordered, u2

\* A handler writes m to e, and what is on its way to e is older or, behind, newer.
LEMMA OrderDelivers ==
  ASSUME NEW u \in [Connection -> Seq(Message)], NEW d \in [Connection -> Seq(Message)],
         NEW g, NEW r, Ordered(u, g, d, r),
         NEW e \in Connection, NEW m \in Message,
         \A n \in Items(d[e]) : Before(n, m),
         \A c \in Connection : e \in r[c] => Before(m, g[c]),
         \A c \in Connection : \A n \in Items(u[c]) : Before(m, n)
  PROVE  Ordered(u, g, [d EXCEPT ![e] = Append(@, m)], r)
<1> DEFINE d2 == [d EXCEPT ![e] = Append(@, m)]
<1>1. d2[e] = Append(d[e], m) /\ \A c \in Connection \ {e} : d2[c] = d[c]
  OBVIOUS
<1> HIDE DEF d2
<1>2. Items(d2[e]) = Items(d[e]) \union {m} /\ Sorted(d2[e])
  BY <1>1, AppendItems DEF Ordered
<1>3. \A c \in Connection : Sorted(d2[c])
  BY <1>1, <1>2 DEF Ordered
<1>4. \A c, f \in Connection : f \in r[c] => \A n \in Items(d2[f]) : Before(n, g[c])
  BY <1>1, <1>2 DEF Ordered
<1>5. \A c, f \in Connection : \A n \in Items(d2[f]), k \in Items(u[c]) : Before(n, k)
  BY <1>1, <1>2 DEF Ordered
<1> QED BY <1>3, <1>4, <1>5 DEF Ordered, d2

\* A handler takes the message at the head of u[c] in hand, and what other connections hold
\* is newer.
LEMMA OrderReceives ==
  ASSUME up \in [Connection -> Seq(Message)], down \in [Connection -> Seq(Message)],
         Ordered(up, message, down, receivers), NEW c \in Connection, up[c] # <<>>,
         \A e \in Connection \ {c} : \A n \in Items(up[e]) : Before(Head(up[c]), n),
         up' = [up EXCEPT ![c] = Tail(@)], UNCHANGED down,
         message'[c] = Head(up[c]) \/ message'[c] = NoMessage,
         \A e \in Connection \ {c} :
           message'[e] = message[e] /\ receivers'[e] = receivers[e]
  PROVE  Ordered(up', message', down', receivers')
<1> DEFINE h == Head(up[c])
<1>1. up'[c] = Tail(up[c]) /\ \A e \in Connection \ {c} : up'[e] = up[e]
  OBVIOUS
<1>2. /\ h \in Items(up[c]) /\ Items(up'[c]) \subseteq Items(up[c]) /\ Sorted(up'[c])
      /\ \A m \in Items(up'[c]) : Before(h, m)
  BY <1>1, TailItems DEF Ordered
<1> HIDE DEF h
<1>3. \A e \in Connection : Items(up'[e]) \subseteq Items(up[e]) /\ Sorted(up'[e])
  BY <1>1, <1>2 DEF Ordered
<1>4. \A e \in Connection : \A n \in Items(up'[e]) : Before(h, n)
  BY <1>1, <1>2 DEF h
<1>5. message'[c] = h \/ message'[c] = NoMessage
  BY DEF h
<1>6. ASSUME NEW f \in Connection, NEW e \in Connection, NEW n \in Items(up'[e])
      PROVE  Before(message'[f], n)
  <2>1. CASE f = c
    BY <1>4, <1>5, <2>1, NothingBefore
  <2>2. CASE f # c
    <3>1. message'[f] = message[f] /\ n \in Items(up[e])
      BY <1>3, <2>2
    <3> QED BY <3>1 DEF Ordered
  <2> QED BY <2>1, <2>2
<1>7. \A f, e \in Connection : e \in receivers'[f] => \A m \in Items(down[e]) : Before(m, message'[f])
  BY <1>2, <1>5, NothingBefore DEF Ordered
<1> QED BY <1>3, <1>6, <1>7 DEF Ordered

-----------------------------------------------------------------------------
\* Who is in the hub, and which websocket a page writes on.

\* A session is made by a join and lasts until its handler leaves; a page has one at a time.
HubInv ==
  /\ \A c \in Connection :
       c \in joined <=> handler[c] \in {"ack", "read", "forward", "answer", "leave"}
  /\ \A c \in Connection : handler[c] # "forward" => receivers[c] = {} /\ message[c] = NoMessage
  /\ \A c, d \in joined : owner[c] = owner[d] => c = d

\* A page opens a websocket only when the one before is gone, with what it had written on it.
SocketInv ==
  /\ \A p \in Page : websocket[p] # 0 => websocket[p] \in DOMAIN owner /\ owner[websocket[p]] = p
  /\ \A p \in open : websocket[p] # 0 /\ status[p] # "disconnected"
  /\ \A p \in Page \ (open \union shut) : websocket[p] \notin live
  /\ \A c \in DOMAIN owner : up[c] # <<>> =>
       c = websocket[owner[c]] /\ (c \in live \/ owner[c] \in shut)
  /\ \A c \in DOMAIN owner : c <= websocket[owner[c]]

\* The connection that Connect opens.
LEMMA Opening ==
  ASSUME Inv, NEW p \in Page, Connect(p)
  PROVE  \E c \in Connection :
           /\ c \notin DOMAIN owner /\ c # 0 /\ up[c] = <<>>
           /\ \A e \in DOMAIN owner : e < c
           /\ DOMAIN owner' = DOMAIN owner \union {c} /\ owner'[c] = p
           /\ \A e \in DOMAIN owner : owner'[e] = owner[e]
           /\ websocket' = [websocket EXCEPT ![p] = c]
           /\ up' = [up EXCEPT ![c] = <<JoinMessage>>]
           /\ live' = live \union {c}
<1> DEFINE c == Len(owner) + 1
<1>1. /\ c \in Connection /\ owner' = Append(owner, p)
      /\ websocket' = [websocket EXCEPT ![p] = c]
      /\ up' = [up EXCEPT ![c] = <<JoinMessage>>]
      /\ live' = live \union {c}
  BY DEF Connect
<1>2. owner \in Seq(Page) /\ Len(owner) \in Nat /\ DOMAIN owner = 1..Len(owner)
  BY OwnersConnected DEF Inv, TypeOK
<1>3. /\ owner' \in Seq(Page) /\ Len(owner') = Len(owner) + 1
      /\ \A i \in 1..Len(owner) : owner'[i] = owner[i]
      /\ owner'[Len(owner) + 1] = p
  BY <1>1, <1>2, AppendProperties
<1>4. DOMAIN owner' = 1..Len(owner) + 1
  BY <1>3, LenProperties
<1>5. /\ c \notin DOMAIN owner /\ c # 0 /\ DOMAIN owner' = DOMAIN owner \union {c}
      /\ \A e \in DOMAIN owner : e < c
  BY <1>2, <1>4
<1>6. up[c] = <<>>
  BY <1>1, <1>5 DEF Inv, Opened
<1> HIDE DEF c
<1>7. owner'[c] = p /\ \A e \in DOMAIN owner : owner'[e] = owner[e]
  BY <1>2, <1>3 DEF c
<1> QED BY <1>1, <1>5, <1>6, <1>7

LEMMA OwnersStay ==
  ASSUME Inv, [Next]_vars
  PROVE  \A c \in DOMAIN owner : c \in DOMAIN owner' /\ owner'[c] = owner[c]
<1>1. CASE UNCHANGED owner
  BY <1>1
<1>2. ASSUME NEW p \in Page, Connect(p)
      PROVE  \A c \in DOMAIN owner : c \in DOMAIN owner' /\ owner'[c] = owner[c]
  BY <1>2, Opening
<1>3. CASE UNCHANGED vars
  BY <1>1, <1>3 DEF vars
<1>4. ASSUME NEW p \in Page,
             OnMessage(p) \/ CloseBegins(p) \/ OnClose(p) \/ HandleInput(p) \/ Unmount(p)
      PROVE  UNCHANGED owner
  BY <1>4 DEF OnMessage, CloseBegins, OnClose, HandleInput, Unmount
<1>5. ASSUME NEW c \in Connection,
             \/ Join(c) \/ JoinFails(c) \/ SendAck(c) \/ SaveSnapshot(c) \/ Receive(c)
             \/ Answer(c) \/ Leave(c) \/ Break(c)
      PROVE  UNCHANGED owner
  BY <1>5 DEF Join, JoinFails, SendAck, SaveSnapshot, Receive, Answer, Leave, Break
<1>6. ASSUME NEW c \in Connection, NEW d \in Connection, Forward(c, d) \/ ForwardFails(c, d)
      PROVE  UNCHANGED owner
  BY <1>6 DEF Forward, ForwardFails
<1>7. CASE Restart
  BY <1>7 DEF Restart
<1> QED BY <1>1, <1>2, <1>3, <1>4, <1>5, <1>6, <1>7, Steps

LEMMA HubStep ==
  ASSUME Inv, HubInv, [Next]_vars
  PROVE  HubInv'
<1>1. /\ handler \in [Connection ->
                        {"join", "ack", "read", "forward", "answer", "leave", "done"}]
      /\ receivers \in [Connection -> SUBSET Connection] /\ message \in [Connection -> Message]
      /\ joined \subseteq DOMAIN owner
  BY DEF Inv, TypeOK
<1>2. \A c \in joined : owner'[c] = owner[c]
  BY <1>1, OwnersStay
<1>3. ASSUME UNCHANGED <<handler, joined, receivers, message>>
      PROVE  HubInv'
  BY <1>2, <1>3 DEF HubInv
<1>4. CASE UNCHANGED vars
  BY <1>3, <1>4 DEF vars, relay
<1>5. ASSUME NEW p \in Page,
             \/ Connect(p) \/ OnMessage(p) \/ CloseBegins(p) \/ OnClose(p) \/ HandleInput(p)
             \/ Unmount(p)
      PROVE  HubInv'
  BY <1>3, <1>5 DEF Connect, OnMessage, CloseBegins, OnClose, HandleInput, Unmount, relay
<1>6. ASSUME NEW c \in Connection, NEW l \in {"ack", "read", "forward", "answer", "leave"},
             handler' = [handler EXCEPT ![c] = l], c \in joined, UNCHANGED joined,
             \A e \in Connection \ {c} : receivers'[e] = receivers[e] /\ message'[e] = message[e],
             l # "forward" => receivers'[c] = {} /\ message'[c] = NoMessage
      PROVE  HubInv'
  BY <1>1, <1>2, <1>6 DEF HubInv
<1>7. ASSUME NEW c \in Connection, Join(c)
      PROVE  HubInv'
  <2>1. c \notin joined /\ receivers[c] = {} /\ message[c] = NoMessage
    BY <1>7 DEF Join, HubInv
  <2>2. UNCHANGED <<receivers, message>>
    BY <1>7 DEF Join
  <2>3. CASE \E d \in joined : owner[d] = owner[c]
    <3>1. handler' = [handler EXCEPT ![c] = "done"] /\ UNCHANGED joined
      BY <1>7, <2>3 DEF Join, Goto
    <3> QED BY <1>1, <1>2, <2>1, <2>2, <3>1 DEF HubInv
  <2>4. CASE ~\E d \in joined : owner[d] = owner[c]
    <3>1. handler' = [handler EXCEPT ![c] = "ack"] /\ joined' = joined \union {c}
      BY <1>7, <2>4 DEF Join, Goto
    <3>2. c \in DOMAIN owner
      BY <1>7 DEF Join, Inv, Opened
    <3>3. owner'[c] = owner[c]
      BY <3>2, OwnersStay
    <3> QED BY <1>1, <1>2, <2>1, <2>2, <2>4, <3>1, <3>3 DEF HubInv
  <2> QED BY <2>3, <2>4
<1>8. ASSUME NEW c \in Connection, JoinFails(c)
      PROVE  HubInv'
  <2>1. /\ handler[c] = "join" /\ handler' = [handler EXCEPT ![c] = "done"]
        /\ UNCHANGED <<joined, receivers, message>>
    BY <1>8 DEF JoinFails, Goto
  <2> QED BY <1>1, <1>2, <2>1 DEF HubInv
<1>9. ASSUME NEW c \in Connection, SendAck(c) \/ Answer(c)
      PROVE  HubInv'
  <2>1. /\ handler[c] \in {"ack", "answer"} /\ UNCHANGED <<joined, receivers, message>>
        /\ \E l \in {"read", "leave"} : handler' = [handler EXCEPT ![c] = l]
    BY <1>9 DEF SendAck, Answer, Goto
  <2>2. c \in joined /\ receivers[c] = {} /\ message[c] = NoMessage
    BY <2>1 DEF HubInv
  <2> QED BY <1>6, <2>1, <2>2
<1>10. ASSUME NEW c \in Connection, SaveSnapshot(c) \/ Break(c)
       PROVE  HubInv'
  BY <1>3, <1>10 DEF SaveSnapshot, Break, relay
<1>11. ASSUME NEW c \in Connection, Receive(c)
       PROVE  HubInv'
  <2> DEFINE others == joined \ {c}
             l == IF others # {} THEN "forward"
                  ELSE IF Head(up[c]).type = "sync1" THEN "answer" ELSE "read"
  <2>1. /\ handler[c] = "read" /\ UNCHANGED joined
        /\ handler' = [handler EXCEPT ![c] = l]
        /\ receivers' = [receivers EXCEPT ![c] = others]
        /\ message' = [message EXCEPT ![c] = IF others # {} THEN Head(up[c]) ELSE NoMessage]
    BY <1>11 DEF Receive, Goto
  <2>2. c \in joined
    BY <2>1 DEF HubInv
  <2>3. l \in {"forward", "answer", "read"} /\ (l # "forward" => others = {})
    OBVIOUS
  <2> HIDE DEF l, others
  <2>4. /\ \A e \in Connection \ {c} : receivers'[e] = receivers[e] /\ message'[e] = message[e]
        /\ l # "forward" => receivers'[c] = {} /\ message'[c] = NoMessage
    BY <1>1, <2>1, <2>3
  <2> QED BY <1>6, <2>1, <2>2, <2>3, <2>4
<1>12. ASSUME NEW c \in Connection, Leave(c)
       PROVE  HubInv'
  <2>1. /\ handler[c] \in {"leave", "read"} /\ handler' = [handler EXCEPT ![c] = "done"]
        /\ joined' = joined \ {c} /\ UNCHANGED <<receivers, message>>
    BY <1>12 DEF Leave, Goto
  <2> QED BY <1>1, <1>2, <2>1 DEF HubInv
<1>13. ASSUME NEW c \in Connection, NEW d \in Connection, Forward(c, d)
       PROVE  HubInv'
  <2>1. /\ handler[c] = "forward" /\ UNCHANGED joined
        /\ receivers' = [receivers EXCEPT ![c] = @ \ {d}]
        /\ \/ receivers'[c] # {} /\ UNCHANGED <<handler, message>>
           \/ /\ receivers'[c] = {} /\ handler' = [handler EXCEPT ![c] = "read"]
              /\ message' = [message EXCEPT ![c] = NoMessage]
    BY <1>13 DEF Forward, Goto
  <2>2. c \in joined
    BY <2>1 DEF HubInv
  <2>3. CASE UNCHANGED <<handler, message>>
    BY <1>1, <1>2, <2>1, <2>3 DEF HubInv
  <2>4. CASE handler' = [handler EXCEPT ![c] = "read"]
    <3>1. /\ \A e \in Connection \ {c} : receivers'[e] = receivers[e] /\ message'[e] = message[e]
          /\ receivers'[c] = {} /\ message'[c] = NoMessage
      BY <1>1, <2>1, <2>4
    <3> QED BY <1>6, <2>1, <2>2, <2>4, <3>1
  <2> QED BY <2>1, <2>3, <2>4
<1>14. ASSUME NEW c \in Connection, NEW d \in Connection, ForwardFails(c, d)
       PROVE  HubInv'
  <2>1. /\ handler[c] = "forward" /\ UNCHANGED joined
        /\ receivers' = [receivers EXCEPT ![c] = {}]
        /\ message' = [message EXCEPT ![c] = NoMessage]
        /\ \E l \in {"read", "leave"} : handler' = [handler EXCEPT ![c] = l]
    BY <1>14 DEF ForwardFails, Goto
  <2>2. c \in joined
    BY <2>1 DEF HubInv
  <2>3. /\ \A e \in Connection \ {c} : receivers'[e] = receivers[e] /\ message'[e] = message[e]
        /\ receivers'[c] = {} /\ message'[c] = NoMessage
    BY <1>1, <2>1
  <2> QED BY <1>6, <2>1, <2>2, <2>3
<1>15. CASE Restart
  <2>1. /\ handler' = [c \in Connection |-> IF c \in DOMAIN owner THEN "done" ELSE "join"]
        /\ joined' = {} /\ receivers' = [c \in Connection |-> {}]
        /\ message' = [c \in Connection |-> NoMessage]
    BY <1>15 DEF Restart
  <2> QED BY <2>1 DEF HubInv
<1> QED BY <1>4, <1>5, <1>7, <1>8, <1>9, <1>10, <1>11, <1>12, <1>13, <1>14, <1>15, Steps

LEMMA SocketStep ==
  ASSUME Inv, SocketInv, [Next]_vars
  PROVE  SocketInv'
<1>1. /\ up \in [Connection -> Seq(Message)] /\ live \subseteq DOMAIN owner
      /\ websocket \in [Page -> 0..MaxConnections] /\ open \subseteq Page
      /\ status \in [Page -> {"disconnected", "connecting", "syncing", "online"}]
      /\ DOMAIN owner \subseteq Connection /\ owner \in Seq(Page) /\ 0 \notin DOMAIN owner
  <2>1. /\ up \in [Connection -> Seq(Message)] /\ live \subseteq DOMAIN owner
        /\ websocket \in [Page -> 0..MaxConnections] /\ open \subseteq Page
        /\ status \in [Page -> {"disconnected", "connecting", "syncing", "online"}]
        /\ owner \in Seq(Page)
    BY DEF Inv, TypeOK
  <2>2. DOMAIN owner \subseteq Connection
    BY OwnersConnected DEF Inv
  <2>3. 0 \notin DOMAIN owner
    BY <2>2, CollabAssumption DEF Connection
  <2> QED BY <2>1, <2>2, <2>3
<1>2. \A c \in DOMAIN owner : owner[c] \in Page
  BY <1>1, ElementOfSeq, OwnersConnected DEF Inv
\* steps that open nothing
<1>3. ASSUME UNCHANGED <<owner, websocket>>, open' \subseteq open, shut \subseteq shut',
             live' \subseteq live,
             \A p \in open \ open' : websocket[p] \notin live' \/ p \in shut',
             \A p \in open' : status'[p] # "disconnected",
             \A c \in DOMAIN owner : up'[c] # <<>> =>
               /\ up[c] # <<>> \/ (c \in live /\ c = websocket[owner[c]])
               /\ c \in live => c \in live' \/ owner[c] \in shut'
      PROVE  SocketInv'
  <2>1. \A p \in open' : websocket'[p] # 0 /\ status'[p] # "disconnected"
    BY <1>3 DEF SocketInv
  <2>2. \A p \in Page \ (open' \union shut') : websocket'[p] \notin live'
    BY <1>3 DEF SocketInv
  <2>3. ASSUME NEW c \in DOMAIN owner, up'[c] # <<>>
        PROVE  c = websocket[owner[c]] /\ (c \in live' \/ owner[c] \in shut')
    BY <1>3, <2>3 DEF SocketInv
  <2>4. \A p \in Page : websocket'[p] # 0 =>
          websocket'[p] \in DOMAIN owner' /\ owner'[websocket'[p]] = p
    BY <1>3 DEF SocketInv
  <2>5. \A c \in DOMAIN owner' : c <= websocket'[owner'[c]]
    BY <1>3 DEF SocketInv
  <2> QED BY <1>3, <2>1, <2>2, <2>3, <2>4, <2>5 DEF SocketInv
<1>4. CASE UNCHANGED vars
  BY <1>3, <1>4 DEF vars, page, network, SocketInv
<1>5. ASSUME NEW p \in Page, Connect(p)
      PROVE  SocketInv'
  <2>1. PICK c \in Connection :
          /\ c \notin DOMAIN owner /\ c # 0 /\ up[c] = <<>>
          /\ \A e \in DOMAIN owner : e < c
          /\ DOMAIN owner' = DOMAIN owner \union {c} /\ owner'[c] = p
          /\ \A e \in DOMAIN owner : owner'[e] = owner[e]
          /\ websocket' = [websocket EXCEPT ![p] = c]
          /\ up' = [up EXCEPT ![c] = <<JoinMessage>>]
          /\ live' = live \union {c}
    BY <1>5, Opening
  <2>2. /\ p \notin shut /\ status[p] = "disconnected"
        /\ open' = open \union {p} /\ status' = [status EXCEPT ![p] = "connecting"]
        /\ UNCHANGED shut
    BY <1>5 DEF Connect
  <2>3. p \notin open /\ websocket[p] \notin live
    BY <2>2 DEF SocketInv
  <2>4. \A e \in DOMAIN owner : up[e] # <<>> => owner[e] # p
    BY <2>2, <2>3 DEF SocketInv
  <2>5. websocket'[p] = c /\ \A q \in Page \ {p} : websocket'[q] = websocket[q]
    BY <1>1, <2>1
  <2>6. \A e \in Connection \ {c} : up'[e] = up[e]
    BY <1>1, <2>1
  <2>7. status'[p] = "connecting" /\ \A q \in Page \ {p} : status'[q] = status[q]
    BY <1>1, <2>2
  <2>8. \A q \in Page : websocket'[q] # 0 =>
          websocket'[q] \in DOMAIN owner' /\ owner'[websocket'[q]] = q
    BY <2>1, <2>5 DEF SocketInv
  <2>9. \A q \in open' : websocket'[q] # 0 /\ status'[q] # "disconnected"
    BY <1>1, <2>1, <2>2, <2>5, <2>7 DEF SocketInv
  <2>10. ASSUME NEW q \in Page \ (open' \union shut')
         PROVE  websocket'[q] \notin live'
    <3>1. q # p /\ websocket[q] \notin live
      BY <2>2 DEF SocketInv
    <3>2. websocket[q] # c
      BY <2>1 DEF SocketInv
    <3> QED BY <2>1, <2>5, <3>1, <3>2
  <2>11. ASSUME NEW e \in DOMAIN owner', up'[e] # <<>>
         PROVE  e = websocket'[owner'[e]] /\ (e \in live' \/ owner'[e] \in shut')
    <3>1. CASE e = c
      BY <2>1, <2>5, <3>1
    <3>2. CASE e # c
      <4>1. e \in DOMAIN owner /\ up[e] # <<>> /\ owner'[e] = owner[e]
        BY <1>1, <2>1, <2>6, <2>11, <3>2
      <4>2. owner[e] \in Page \ {p}
        BY <1>2, <2>4, <4>1
      <4>3. e = websocket[owner[e]] /\ (e \in live \/ owner[e] \in shut)
        BY <4>1 DEF SocketInv
      <4> QED BY <2>1, <2>2, <2>5, <4>1, <4>2, <4>3
    <3> QED BY <3>1, <3>2
  <2>12. ASSUME NEW e \in DOMAIN owner'
         PROVE  e <= websocket'[owner'[e]]
    <3>1. e \in Int /\ c \in Int
      BY <1>1, <2>1 DEF Connection
    <3>2. CASE owner'[e] = p
      BY <2>1, <2>5, <3>1, <3>2
    <3>3. CASE owner'[e] # p
      <4>1. e \in DOMAIN owner /\ owner'[e] = owner[e]
        BY <2>1, <3>3
      <4>2. owner[e] \in Page \ {p} /\ e <= websocket[owner[e]]
        BY <1>2, <3>3, <4>1 DEF SocketInv
      <4> QED BY <2>5, <4>1, <4>2
    <3> QED BY <3>2, <3>3
  <2> QED BY <2>8, <2>9, <2>10, <2>11, <2>12 DEF SocketInv
<1>6. ASSUME NEW p \in open, NEW ms, up' = Write(websocket[p], ms)
      PROVE  \A c \in DOMAIN owner : up'[c] # <<>> =>
               up[c] # <<>> \/ (c \in live /\ c = websocket[owner[c]])
  <2>1. owner[websocket[p]] = p
    BY <1>1 DEF SocketInv
  <2> QED BY <1>1, <1>6, <2>1 DEF Write
<1>7. ASSUME NEW p \in Page, OnMessage(p)
      PROVE  SocketInv'
  <2>1. PICK ops : OnJoinAck(p, ops) \/ OnSync1(p, ops) \/ OnSync2(p, ops) \/ OnOperation(p, ops)
    BY <1>7, Received DEF Inv
  <2>2. UNCHANGED up \/ \E ms : up' = Write(websocket[p], ms)
    BY <2>1 DEF OnJoinAck, OnSync1, OnSync2, OnOperation
  <2>3. p \in open /\ UNCHANGED <<owner, websocket, open, shut, live>>
    BY <1>7 DEF OnMessage
  <2>4. \A q \in open : status'[q] # "disconnected"
    BY <2>1, <1>1 DEF OnJoinAck, OnSync1, OnSync2, OnOperation, SocketInv
  <2>5. \A c \in DOMAIN owner : up'[c] # <<>> =>
          up[c] # <<>> \/ (c \in live /\ c = websocket[owner[c]])
    BY <1>6, <2>2, <2>3
  <2> QED BY <1>3, <2>3, <2>4, <2>5
<1>8. ASSUME NEW p \in Page, HandleInput(p)
      PROVE  SocketInv'
  <2>1. UNCHANGED up \/ (p \in open /\ \E ms : up' = Write(websocket[p], ms))
    BY <1>8, TypingAdds DEF Inv
  <2>2. UNCHANGED <<owner, websocket, open, shut, live, status>>
    BY <1>8 DEF HandleInput
  <2>3. \A c \in DOMAIN owner : up'[c] # <<>> =>
          up[c] # <<>> \/ (c \in live /\ c = websocket[owner[c]])
    BY <1>6, <2>1
  <2>4. \A q \in open : status'[q] # "disconnected"
    BY <2>2 DEF SocketInv
  <2> QED BY <1>3, <2>2, <2>3, <2>4
<1>9. ASSUME NEW p \in Page, CloseBegins(p)
      PROVE  SocketInv'
  <2>1. /\ open' = open \ {p} /\ websocket[p] \notin live
        /\ UNCHANGED <<owner, websocket, shut, live, status, up>>
    BY <1>9 DEF CloseBegins, network
  <2> QED BY <1>3, <2>1 DEF SocketInv
<1>10. ASSUME NEW p \in Page, OnClose(p)
       PROVE  SocketInv'
  <2>1. /\ p \notin open /\ status' = [status EXCEPT ![p] = "disconnected"]
        /\ UNCHANGED <<owner, websocket, shut, live, open, up>>
    BY <1>10 DEF OnClose, network
  <2>2. \A q \in open : status'[q] # "disconnected"
    BY <1>1, <2>1 DEF SocketInv
  <2> QED BY <1>3, <2>1, <2>2
<1>11. ASSUME NEW p \in Page, Unmount(p)
       PROVE  SocketInv'
  <2>1. /\ shut' = shut \union {p} /\ open' = open \ {p} /\ live' = live \ {websocket[p]}
        /\ UNCHANGED <<owner, websocket, status, up>> /\ websocket[p] # 0
    BY <1>11 DEF Unmount, Started
  <2>2. owner[websocket[p]] = p
    BY <2>1 DEF SocketInv
  <2>3. \A c \in live : c \in live' \/ owner[c] \in shut'
    BY <2>1, <2>2
  <2>4. \A q \in open' : status'[q] # "disconnected"
    BY <2>1 DEF SocketInv
  <2> QED BY <1>3, <2>1, <2>3, <2>4
<1>12. ASSUME NEW c \in Connection,
              \/ Join(c) \/ JoinFails(c) \/ SendAck(c) \/ SaveSnapshot(c) \/ Receive(c)
              \/ Answer(c) \/ Leave(c) \/ Break(c)
       PROVE  SocketInv'
  <2>1. UNCHANGED <<owner, websocket, open, shut, status>>
    BY <1>12 DEF Join, JoinFails, SendAck, SaveSnapshot, Receive, Answer, Leave, Break, page
  <2>2. \/ UNCHANGED <<up, live>>
        \/ up' = [up EXCEPT ![c] = <<>>] /\ (live' = live \/ live' = live \ {c})
        \/ up[c] # <<>> /\ up' = [up EXCEPT ![c] = Tail(@)] /\ live' = live
    BY <1>12 DEF Join, JoinFails, SendAck, SaveSnapshot, Receive, Answer, Leave, Break, network
  <2>3. live' \subseteq live
    BY <2>2
  <2>4. \A e \in DOMAIN owner : up'[e] # <<>> => up[e] # <<>> /\ (e \in live => e \in live')
    BY <1>1, <2>2
  <2>5. \A p \in open : status'[p] # "disconnected"
    BY <2>1 DEF SocketInv
  <2> QED BY <1>3, <2>1, <2>3, <2>4, <2>5
<1>13. ASSUME NEW c \in Connection, NEW d \in Connection, Forward(c, d) \/ ForwardFails(c, d)
       PROVE  SocketInv'
  <2>1. UNCHANGED <<owner, websocket, open, shut, status, up, live>>
    BY <1>13 DEF Forward, ForwardFails, page
  <2> QED BY <1>3, <2>1 DEF SocketInv
<1>14. CASE Restart
  <2>1. /\ UNCHANGED <<owner, websocket, open, shut, status>>
        /\ live' = {} /\ \A c \in Connection : up'[c] = <<>>
    BY <1>14 DEF Restart, page
  <2>2. \A c \in DOMAIN owner : up'[c] = <<>>
    BY <1>1, <2>1
  <2> QED BY <1>3, <2>1, <2>2 DEF SocketInv
<1> QED BY <1>4, <1>5, <1>7, <1>8, <1>9, <1>10, <1>11, <1>12, <1>13, <1>14, Steps

-----------------------------------------------------------------------------
\* The live operations on their way, and the pages they come from.

\* Whoever sends on, the operations in m have been sent before.
WasSent(m) == \A p \in Page : \A x \in LiveClocks(p, m) : x < Len(sent[p])

IsFrom(c, m) ==
  \A p \in Page : LiveClocks(p, m) # {} => c \in DOMAIN owner /\ owner[c] = p

\* Only what a page has sent is on its way, and only on the connections of that page.
SentInv ==
  \A c \in Connection : \A m \in Items(up[c]) \union {message[c]} \union Items(down[c]) : WasSent(m)

FromInv == \A c \in Connection : \A m \in Items(up[c]) \union {message[c]} : IsFrom(c, m)

TrafficInv == Ordered(up, message, down, receivers) /\ SentInv /\ FromInv

WayInv == HubInv /\ SocketInv /\ TrafficInv

\* What p writes now.
Fresh(p, m) ==
  \A q \in Page : \A x \in LiveClocks(q, m) : q = p /\ Len(sent[p]) <= x /\ x < Len(sent'[p])

LEMMA ItemsTyped ==
  /\ \A s \in Seq(Message) : Items(s) \subseteq Message
  /\ \A m \in Message, p \in Page : LiveClocks(p, m) \subseteq Nat
<1>1. \A s \in Seq(Message) : Items(s) \subseteq Message
  BY ElementOfSeq DEF Items
<1>2. ASSUME NEW m \in Message, NEW p \in Page
      PROVE  LiveClocks(p, m) \subseteq Nat
  <2>1. \A o \in m.ops : o[2] \in Nat
    BY DEF Message, Operation
  <2> QED BY <2>1 DEF LiveClocks
<1> QED BY <1>1, <1>2

LEMMA Unsung ==
  ASSUME NEW m, m.type # "operation"
  PROVE  /\ \A p : LiveClocks(p, m) = {}
         /\ \A n : Before(m, n) /\ Before(n, m)
         /\ WasSent(m) /\ \A c : IsFrom(c, m)
<1>1. \A p : LiveClocks(p, m) = {}
  BY DEF LiveClocks
<1> QED BY <1>1 DEF Before, WasSent, IsFrom

\* q has the operations of p from the clock n on.
Numbered(p, q, n) == \A i \in 1..Len(q) : q[i] = <<p, n + i - 1>>

\* m carries live only operations of p with clocks from first on and before last.
Between(p, m, first, last) ==
  \A r \in Page : \A x \in LiveClocks(r, m) : r = p /\ first <= x /\ x < last

LEMMA SecondPart ==
  ASSUME NEW s \in Seq(Operation), NEW q \in Seq(Operation), NEW p, Numbered(p, s \o q, 0)
  PROVE  Len(s \o q) = Len(s) + Len(q) /\ Numbered(p, q, Len(s))
<1>1. PICK k \in Nat, l \in Nat : k = Len(s) /\ l = Len(q)
  BY LenProperties
<1>2. /\ Len(s \o q) = k + l
      /\ \A i \in 1..k + l : (s \o q)[i] = IF i <= k THEN s[i] ELSE q[i - k]
  BY <1>1, ConcatProperties
<1>3. ASSUME NEW j \in 1..k + l
      PROVE  (s \o q)[j] = <<p, j - 1>>
  <2>1. (s \o q)[j] = <<p, 0 + j - 1>>
    BY <1>2 DEF Numbered
  <2>2. 0 + j - 1 = j - 1
    OBVIOUS
  <2> QED BY <2>1, <2>2
<1>4. ASSUME NEW i \in 1..l
      PROVE  q[i] = <<p, k + i - 1>>
  <2>1. PICK j \in 1..k + l : j = k + i /\ ~(j <= k) /\ j - k = i
    OBVIOUS
  <2>2. (s \o q)[j] = q[j - k]
    BY <1>2, <2>1
  <2>3. q[i] = <<p, j - 1>>
    BY <1>3, <2>1, <2>2
  <2> QED BY <2>1, <2>3
<1> QED BY <1>1, <1>2, <1>4 DEF Numbered

\* The operations in the queue of a page come after those it has sent.
LEMMA PendingClocks ==
  ASSUME Inv, NEW p \in Page
  PROVE  /\ Len(sent[p]) \in Nat /\ Len(pending[p]) \in Nat
         /\ Len(sent[p]) + Len(pending[p]) = Cardinality(Own(p))
         /\ Numbered(p, pending[p], Len(sent[p]))
<1>1. /\ sent[p] \in Seq(Operation) /\ pending[p] \in Seq(Operation)
      /\ Cardinality(Own(p)) \in Nat
  BY FS_CardinalityType DEF Inv, TypeOK, ClocksDense
<1>2. PICK all, n : all = sent[p] \o pending[p] /\ n = Cardinality(Own(p))
  OBVIOUS
<1>3. all = [i \in 1..n |-> <<p, i - 1>>]
  BY <1>2 DEF Inv, SentInOrder
<1>4. Len(all) = n /\ Numbered(p, all, 0)
  <2>1. n \in Nat
    BY <1>1, <1>2
  <2>2. Len(all) = n /\ \A i \in 1..n : all[i] = <<p, 0 + i - 1>>
    BY <1>3, <2>1
  <2> QED BY <2>2 DEF Numbered
<1> QED BY <1>1, <1>2, <1>4, SecondPart, LenProperties

\* The operations a page sends together, with the snapshot behind them.
LEMMA Batch ==
  ASSUME NEW p \in Page, NEW q \in Seq(Operation), NEW n \in Nat, NEW ops \in SUBSET Operation,
         Numbered(p, q, n), NEW ms, ms = Operations(q) \o Snapshot(ops)
  PROVE  /\ ms \in Seq(Message) /\ Sorted(ms)
         /\ \A m \in Items(ms) : Between(p, m, n, n + Len(q))
<1> DEFINE os == Operations(q)
           last == Snapshot(ops)
<1>1. /\ os \in Seq(Message) /\ last \in Seq(Message)
  <2>1. \A t \in {"operation", "snapshot"} :
          \A o \in SUBSET Operation : [type |-> t, ops |-> o] \in Message
    BY DEF Message
  <2> QED BY <2>1, Outgoing
<1>2. /\ Len(q) \in Nat /\ DOMAIN q = 1..Len(q)
  BY LenProperties
<1>3. Len(os) = Len(q) /\ \A i \in 1..Len(q) : os[i] = [type |-> "operation", ops |-> {q[i]}]
  BY <1>2 DEF Operations
<1> HIDE DEF os
<1>4. ASSUME NEW i \in 1..Len(q), NEW r \in Page, NEW x \in LiveClocks(r, os[i])
      PROVE  r = p /\ x = n + i - 1
  <2>1. os[i].ops = {<<p, n + i - 1>>}
    <3>1. os[i].ops = {q[i]}
      <4>1. os[i] = [type |-> "operation", ops |-> {q[i]}]
        BY <1>3, Zenon
      <4> QED BY <4>1
    <3>2. q[i] = <<p, n + i - 1>>
      BY DEF Numbered
    <3> QED BY <3>1, <3>2
  <2>2. PICK o \in os[i].ops : o[1] = r /\ x = o[2]
    BY <1>4 DEF LiveClocks
  <2> QED BY <2>1, <2>2
<1>5. last = <<[type |-> "snapshot", ops |-> ops]>>
  BY DEF Snapshot
<1>6. Items(last) = {[type |-> "snapshot", ops |-> ops]} /\ Sorted(last)
  BY <1>5 DEF Items, Sorted
<1>7. \A m \in Items(last) : (\A r : LiveClocks(r, m) = {}) /\ \A k : Before(k, m)
  BY <1>6, Unsung
<1> HIDE DEF last
<1>8. Sorted(os)
  <2>1. ASSUME NEW i \in 1..Len(q), NEW j \in 1..Len(q), i < j
        PROVE  Before(os[i], os[j])
    <3>1. n + i - 1 < n + j - 1
      BY <1>2, <2>1
    <3> QED BY <1>4, <3>1 DEF Before
  <2> QED BY <1>3, <2>1 DEF Sorted
<1>9. /\ ms \in Seq(Message) /\ Sorted(ms) /\ Items(ms) = Items(os) \union Items(last)
  <2>1. ms = os \o last
    BY DEF os, last
  <2>2. os \o last \in Seq(Message)
    BY <1>1, ConcatProperties
  <2> QED BY <1>1, <1>6, <1>7, <1>8, <2>1, <2>2, ConcatItems
<1>10. \A m \in Items(os), r \in Page : \A x \in LiveClocks(r, m) :
         r = p /\ n <= x /\ x < n + Len(q)
  <2>1. ASSUME NEW i \in 1..Len(q), NEW r \in Page, NEW x \in LiveClocks(r, os[i])
        PROVE  r = p /\ n <= x /\ x < n + Len(q)
    <3>1. r = p /\ x = n + i - 1
      BY <1>4, <2>1
    <3> QED BY <1>2, <3>1
  <2> QED BY <1>3, <2>1 DEF Items
<1> QED BY <1>7, <1>9, <1>10 DEF Between

-----------------------------------------------------------------------------
\* The ways in which a step changes what is on its way.

Growing ==
  /\ \A c \in DOMAIN owner : c \in DOMAIN owner' /\ owner'[c] = owner[c]
  /\ \A p \in Page : Len(sent[p]) \in Nat /\ Len(sent'[p]) \in Nat /\ Len(sent[p]) <= Len(sent'[p])

LEMMA Growth ==
  ASSUME Inv, Inv', [Next]_vars
  PROVE  Growing
<1>1. sent \in [Page -> Seq(Operation)] /\ pending \in [Page -> Seq(Operation)]
  BY DEF Inv, TypeOK
<1>2. \A p \in Page : Len(sent[p]) \in Nat
  BY <1>1, LenProperties
<1>3. CASE UNCHANGED sent
  BY <1>2, <1>3, OwnersStay DEF Growing
<1>4. ASSUME NEW p \in Page, NEW s \in Seq(Operation), sent' = [sent EXCEPT ![p] = @ \o s]
      PROVE  Growing
  <2>1. Len(sent[p] \o s) = Len(sent[p]) + Len(s) /\ Len(s) \in Nat
    BY <1>1, LenProperties, ConcatProperties
  <2>2. sent'[p] = sent[p] \o s /\ \A q \in Page \ {p} : sent'[q] = sent[q]
    BY <1>1, <1>4
  <2>3. Len(sent'[p]) \in Nat /\ Len(sent[p]) <= Len(sent'[p])
    BY <1>2, <2>1, <2>2
  <2>4. \A q \in Page :
          Len(sent[q]) \in Nat /\ Len(sent'[q]) \in Nat /\ Len(sent[q]) <= Len(sent'[q])
    BY <1>2, <2>2, <2>3
  <2> QED BY <2>4, OwnersStay DEF Growing
<1>5. ASSUME NEW p \in Page, OnMessage(p)
      PROVE  UNCHANGED sent \/ sent' = [sent EXCEPT ![p] = @ \o pending[p]]
  <2>1. PICK ops : OnJoinAck(p, ops) \/ OnSync1(p, ops) \/ OnSync2(p, ops) \/ OnOperation(p, ops)
    BY <1>5, Received DEF Inv
  <2> QED BY <2>1 DEF OnJoinAck, OnSync1, OnSync2, OnOperation
<1>6. ASSUME NEW p \in Page, HandleInput(p)
      PROVE  UNCHANGED sent \/ \E s \in Seq(Operation) : sent' = [sent EXCEPT ![p] = @ \o s]
  <2>1. PICK o \in Operation : UNCHANGED sent \/ sent' = [sent EXCEPT ![p] = Append(@, o)]
    BY <1>6, TypingAdds DEF Inv
  <2>2. Append(sent[p], o) = sent[p] \o <<o>> /\ <<o>> \in Seq(Operation)
    BY <1>1, AppendIsConcat
  <2> QED BY <2>1, <2>2
<1>7. ASSUME NEW p \in Page, Connect(p) \/ CloseBegins(p) \/ OnClose(p) \/ Unmount(p)
      PROVE  UNCHANGED sent
  BY <1>7 DEF Connect, CloseBegins, OnClose, Unmount
<1>8. CASE UNCHANGED page
  BY <1>3, <1>8 DEF page
<1> QED BY <1>1, <1>3, <1>4, <1>5, <1>6, <1>7, <1>8, PageSteps

LEMMA StillSent ==
  ASSUME Growing, NEW m \in Message
  PROVE  /\ WasSent(m) => WasSent(m)'
         /\ \A c : IsFrom(c, m) => IsFrom(c, m)'
<1>1. \A p \in Page : LiveClocks(p, m) \subseteq Nat
  BY ItemsTyped
<1>2. WasSent(m) => WasSent(m)'
  BY <1>1 DEF WasSent, Growing
<1>3. \A c : IsFrom(c, m) => IsFrom(c, m)'
  BY DEF IsFrom, Growing
<1> QED BY <1>2, <1>3

\* What is not new on its way was sent before, and what a page writes it has sent now.
LEMMA Carried ==
  ASSUME Inv, Growing, SentInv, FromInv,
         \A c \in Connection : \A m \in Items(up'[c]) \union {message'[c]} :
           m \in Items(up[c]) \union {message[c]} \/ (WasSent(m)' /\ IsFrom(c, m)'),
         \A c \in Connection : \A m \in Items(down'[c]) :
           \/ \E e \in Connection : m \in {message[e]} \union Items(down[e])
           \/ WasSent(m)'
  PROVE  SentInv' /\ FromInv'
<1>1. \A c \in Connection : Items(up[c]) \union {message[c]} \union Items(down[c]) \subseteq Message
  BY ItemsTyped DEF Inv, TypeOK
<1>2. ASSUME NEW c \in Connection, NEW m \in Items(up'[c]) \union {message'[c]}
      PROVE  WasSent(m)' /\ IsFrom(c, m)'
  <2>1. CASE m \in Items(up[c]) \union {message[c]}
    <3>1. m \in Message /\ WasSent(m) /\ IsFrom(c, m)
      BY <1>1, <2>1 DEF SentInv, FromInv
    <3> QED BY <3>1, StillSent
  <2> QED BY <1>2, <2>1
<1>3. ASSUME NEW c \in Connection, NEW m \in Items(down'[c])
      PROVE  WasSent(m)'
  <2>1. ASSUME NEW e \in Connection, m \in {message[e]} \union Items(down[e])
        PROVE  WasSent(m)'
    <3>1. m \in Message /\ WasSent(m)
      BY <1>1, <2>1 DEF SentInv
    <3> QED BY <3>1, StillSent
  <2> QED BY <1>3, <2>1
<1>4. SentInv'
  BY <1>2, <1>3 DEF SentInv
<1>5. FromInv'
  BY <1>2 DEF FromInv
<1> QED BY <1>4, <1>5

LEMMA NothingSent == \A c : WasSent(NoMessage)' /\ IsFrom(c, NoMessage)'
BY DEF WasSent, IsFrom, LiveClocks, NoMessage

LEMMA TrafficShrinks ==
  ASSUME Inv, Growing, TrafficInv,
         \A c \in Connection : Rest(up'[c], up[c]) /\ Rest(down'[c], down[c]),
         \A c \in Connection : message'[c] = message[c] \/ message'[c] = NoMessage,
         \A c \in Connection : receivers'[c] \subseteq receivers[c]
  PROVE  TrafficInv'
<1>1. up \in [Connection -> Seq(Message)] /\ down \in [Connection -> Seq(Message)]
  BY DEF Inv, TypeOK
<1>2. Ordered(up', message', down', receivers')
  BY <1>1, OrderShrinks DEF TrafficInv
<1>3. \A c \in Connection :
        Items(up'[c]) \subseteq Items(up[c]) /\ Items(down'[c]) \subseteq Items(down[c])
  BY <1>1, RestItems
<1>4. SentInv' /\ FromInv'
  <2>1. \A c \in Connection : \A m \in Items(up'[c]) \union {message'[c]} :
          m \in Items(up[c]) \union {message[c]} \/ (WasSent(m)' /\ IsFrom(c, m)')
    BY <1>3, NothingSent
  <2>2. \A c \in Connection : \A m \in Items(down'[c]) :
           \/ \E e \in Connection : m \in {message[e]} \union Items(down[e])
           \/ WasSent(m)'
    BY <1>3
  <2> QED BY <2>1, <2>2, Carried DEF TrafficInv
<1> QED BY <1>2, <1>4 DEF TrafficInv, Ordered

\* What is on its way already was sent before what is sent now.
LEMMA OlderThanFresh ==
  ASSUME NEW m, NEW n, NEW p \in Page, m \in Message, n \in Message,
         WasSent(m), Fresh(p, n), Len(sent[p]) \in Nat
  PROVE  Before(m, n)
<1>1. ASSUME NEW q \in Page, NEW x \in LiveClocks(q, m), NEW y \in LiveClocks(q, n)
      PROVE  x < y
  <2>1. x \in Nat /\ y \in Nat
    BY ItemsTyped
  <2>2. q = p /\ Len(sent[p]) <= y
    BY DEF Fresh
  <2>3. x < Len(sent[p])
    BY <2>2 DEF WasSent
  <2> QED BY <2>1, <2>2, <2>3
<1> QED BY <1>1 DEF Before

LEMMA TrafficWrites ==
  ASSUME Inv, Inv', Growing, TrafficInv,
         NEW p \in Page, NEW c \in Connection, c \in DOMAIN owner', owner'[c] = p,
         NEW ms \in Seq(Message), Sorted(ms), \A m \in Items(ms) : Fresh(p, m),
         up' = [up EXCEPT ![c] = @ \o ms],
         \A e \in Connection : Rest(down'[e], down[e]),
         UNCHANGED <<message, receivers>>
  PROVE  TrafficInv'
<1>1. /\ up \in [Connection -> Seq(Message)] /\ down \in [Connection -> Seq(Message)]
      /\ up' \in [Connection -> Seq(Message)] /\ message \in [Connection -> Message]
  BY DEF Inv, TypeOK
<1>2. /\ Items(ms) \subseteq Message
      /\ \A e \in Connection :
           Items(up[e]) \union {message[e]} \union Items(down[e]) \subseteq Message
  BY <1>1, ItemsTyped
<1>3. Len(sent[p]) \in Nat
  BY DEF Growing
<1>4. \A e \in Connection, n \in Items(ms) :
        \A m \in Items(up[e]) \union {message[e]} \union Items(down[e]) : Before(m, n)
  BY <1>2, <1>3, OlderThanFresh DEF TrafficInv, SentInv
<1>5. Ordered(up', message, down, receivers)
  <2>1. Ordered([up EXCEPT ![c] = @ \o ms], message, down, receivers)
    BY <1>1, <1>4, OrderWrites DEF TrafficInv
  <2> QED BY <2>1
<1>6. Ordered(up', message', down', receivers')
  <2>1. \A e \in Connection : Rest(up'[e], up'[e])
    BY DEF Rest
  <2>2. Ordered(up', message, down', receivers)
    BY <1>1, <1>5, <2>1, OrderShrinks
  <2> QED BY <2>2
<1>7. \A e \in Connection :
        /\ Items(down'[e]) \subseteq Items(down[e])
        /\ e # c => up'[e] = up[e]
  BY <1>1, RestItems
<1>8. Items(up'[c]) = Items(up[c]) \union Items(ms)
  BY <1>1, ConcatItems
<1>9. \A m \in Items(ms) : WasSent(m)' /\ IsFrom(c, m)'
  BY DEF Fresh, WasSent, IsFrom
<1>10. SentInv' /\ FromInv'
  <2>1. \A e \in Connection : \A m \in Items(up'[e]) \union {message'[e]} :
          m \in Items(up[e]) \union {message[e]} \/ (WasSent(m)' /\ IsFrom(e, m)')
    BY <1>7, <1>8, <1>9
  <2>2. \A e \in Connection : \A m \in Items(down'[e]) :
           \/ \E f \in Connection : m \in {message[f]} \union Items(down[f])
           \/ WasSent(m)'
    BY <1>7
  <2> QED BY <2>1, <2>2, Carried DEF TrafficInv
<1> QED BY <1>6, <1>10 DEF TrafficInv, Ordered

\* The relay writes a message of its own.
LEMMA TrafficDelivers ==
  ASSUME Inv, Growing, TrafficInv, NEW c \in Connection, NEW m \in Message, m.type # "operation",
         Delivered(c, m) \/ Fails(c), UNCHANGED <<up, message, receivers>>
  PROVE  TrafficInv'
<1>1. up \in [Connection -> Seq(Message)] /\ down \in [Connection -> Seq(Message)]
  BY DEF Inv, TypeOK
<1>2. CASE UNCHANGED down
  BY <1>2, TrafficShrinks DEF Rest
<1>3. CASE down' = [down EXCEPT ![c] = Append(@, m)]
  <2>1. /\ \A n : Before(m, n) /\ Before(n, m)
        /\ WasSent(m)'
    <3>1. \A p : LiveClocks(p, m) = {}
      BY Unsung
    <3> QED BY <3>1 DEF Before, WasSent
  <2>2. Ordered(up, message, [down EXCEPT ![c] = Append(@, m)], receivers)
    BY <1>1, <2>1, OrderDelivers DEF TrafficInv
  <2>3. Items(down'[c]) = Items(down[c]) \union {m} /\ \A e \in Connection \ {c} : down'[e] = down[e]
    BY <1>1, <1>3, AppendItems
  <2>4. SentInv' /\ FromInv'
    BY <2>1, <2>3, Carried DEF TrafficInv
  <2>5. Ordered(up', message', down', receivers')
    BY <1>3, <2>2
  <2> QED BY <2>4, <2>5 DEF TrafficInv, Ordered
<1> QED BY <1>2, <1>3 DEF Delivered, Fails

\* A handler takes the next message: the page writes on this connection only.
LEMMA TrafficReceives ==
  ASSUME Inv, SocketInv, Growing, TrafficInv, NEW c \in Connection, Receive(c)
  PROVE  TrafficInv'
<1>1. /\ up \in [Connection -> Seq(Message)] /\ down \in [Connection -> Seq(Message)]
      /\ message \in [Connection -> Message] /\ receivers \in [Connection -> SUBSET Connection]
  BY DEF Inv, TypeOK
<1> DEFINE h == Head(up[c])
<1>2. /\ up[c] # <<>> /\ UNCHANGED down /\ up' = [up EXCEPT ![c] = Tail(@)]
      /\ \E m \in {h, NoMessage} : message' = [message EXCEPT ![c] = m]
      /\ \E r : receivers' = [receivers EXCEPT ![c] = r]
  BY DEF Receive
<1>3. h \in Items(up[c]) /\ Items(Tail(up[c])) \subseteq Items(up[c])
  BY <1>1, <1>2, TailItems
<1>4. ASSUME NEW e \in Connection \ {c}, NEW n \in Items(up[e])
      PROVE  Before(h, n)
  <2>1. up[e] # <<>>
    BY <1>4, NoItems
  <2>2. c \in DOMAIN owner /\ e \in DOMAIN owner
    BY <1>2, <2>1 DEF Inv, Opened
  <2>3. owner[c] # owner[e]
    BY <1>2, <2>1, <2>2 DEF SocketInv
  <2>4. IsFrom(c, h) /\ IsFrom(e, n)
    BY <1>3, <1>4 DEF TrafficInv, FromInv
  <2> HIDE DEF h
  <2> QED BY <2>3, <2>4 DEF IsFrom, Before
<1>5. /\ message'[c] = h \/ message'[c] = NoMessage
      /\ \A e \in Connection \ {c} : message'[e] = message[e] /\ receivers'[e] = receivers[e]
  BY <1>1, <1>2
<1>6. Ordered(up', message', down', receivers')
  BY <1>1, <1>2, <1>4, <1>5, OrderReceives DEF TrafficInv
<1>7. SentInv' /\ FromInv'
  <2>1. up'[c] = Tail(up[c]) /\ \A e \in Connection \ {c} : up'[e] = up[e]
    BY <1>1, <1>2
  <2>2. \A e \in Connection : \A m \in Items(up'[e]) \union {message'[e]} :
          m \in Items(up[e]) \union {message[e]} \/ (WasSent(m)' /\ IsFrom(e, m)')
    <3>1. Items(up'[c]) \union {message'[c]} \subseteq Items(up[c]) \union {NoMessage}
      BY <1>3, <1>5, <2>1
    <3> QED BY <1>5, <2>1, <3>1, NothingSent
  <2>3. \A e \in Connection : \A m \in Items(down'[e]) :
           \/ \E f \in Connection : m \in {message[f]} \union Items(down[f])
           \/ WasSent(m)'
    BY <1>2
  <2> QED BY <2>2, <2>3, Carried DEF TrafficInv
<1> QED BY <1>6, <1>7 DEF TrafficInv, Ordered

\* A handler writes the message it forwards to the next receiver, who has had everything older
\* and gets everything newer from the same handler: the page has no second one.
LEMMA TrafficForwards ==
  ASSUME Inv, HubInv, Growing, TrafficInv, NEW c \in Connection, NEW d \in Connection,
         Forward(c, d)
  PROVE  TrafficInv'
<1>1. /\ up \in [Connection -> Seq(Message)] /\ down \in [Connection -> Seq(Message)]
      /\ message \in [Connection -> Message] /\ receivers \in [Connection -> SUBSET Connection]
  BY DEF Inv, TypeOK
<1> DEFINE m == message[c]
           r2 == [receivers EXCEPT ![c] = @ \ {d}]
<1>2. /\ handler[c] = "forward" /\ d \in receivers[c] /\ receivers' = r2 /\ UNCHANGED up
      /\ message' = message \/ message' = [message EXCEPT ![c] = NoMessage]
  BY DEF Forward
<1>3. /\ r2[c] = receivers[c] \ {d} /\ \A e \in Connection : r2[e] \subseteq receivers[e]
      /\ m \in Message
  BY <1>1
<1>4. \A e \in Connection : message'[e] = message[e] \/ message'[e] = NoMessage
  BY <1>1, <1>2
<1> HIDE DEF r2
<1>5. Ordered(up, message, down, r2)
  <2>1. \A e \in Connection : Rest(up[e], up[e]) /\ Rest(down[e], down[e])
    BY DEF Rest
  <2> QED BY <1>1, <1>3, <2>1, OrderShrinks DEF TrafficInv
<1>6. ASSUME NEW e \in Connection, d \in r2[e]
      PROVE  Before(m, message[e])
  <2>1. e # c /\ receivers[e] # {}
    BY <1>3, <1>6
  <2>2. e \in joined /\ c \in joined
    BY <1>2, <2>1 DEF HubInv
  <2>3. owner[e] # owner[c]
    BY <2>1, <2>2 DEF HubInv
  <2>4. IsFrom(c, m) /\ IsFrom(e, message[e])
    BY DEF TrafficInv, FromInv
  <2> QED BY <2>3, <2>4 DEF IsFrom, Before
<1>7. CASE UNCHANGED down
  BY <1>2, <1>3, <1>4, <1>7, TrafficShrinks DEF Rest
<1>8. CASE down' = [down EXCEPT ![d] = Append(@, m)]
  <2>1. \A n \in Items(down[d]) : Before(n, m)
    BY <1>2 DEF TrafficInv, Ordered
  <2>2. \A e \in Connection : \A n \in Items(up[e]) : Before(m, n)
    BY DEF TrafficInv, Ordered
  <2>3. Ordered(up, message, down', r2)
    <3> HIDE DEF m
    <3>1. Ordered(up, message, [down EXCEPT ![d] = Append(@, m)], r2)
      BY <1>1, <1>3, <1>5, <1>6, <2>1, <2>2, OrderDelivers
    <3> QED BY <1>8, <3>1
  <2>4. down' \in [Connection -> Seq(Message)]
    BY <1>1, <1>3, <1>8, Deliveries DEF Delivered, Fails
  <2>5. Ordered(up', message', down', receivers')
    <3>1. Ordered(up, message', down', r2)
      BY <1>4, <2>3, NothingBefore DEF Ordered
    <3> QED BY <1>2, <3>1
  <2>6. /\ Items(down'[d]) = Items(down[d]) \union {m}
        /\ \A e \in Connection \ {d} : down'[e] = down[e]
    BY <1>1, <1>3, <1>8, AppendItems
  <2>7. SentInv' /\ FromInv'
    <3>1. \A e \in Connection : \A n \in Items(up'[e]) \union {message'[e]} :
            n \in Items(up[e]) \union {message[e]} \/ (WasSent(n)' /\ IsFrom(e, n)')
      BY <1>2, <1>4, NothingSent
    <3>2. \A e \in Connection : \A n \in Items(down'[e]) :
             \/ \E f \in Connection : n \in {message[f]} \union Items(down[f])
             \/ WasSent(n)'
      BY <2>6
    <3> QED BY <3>1, <3>2, Carried DEF TrafficInv
  <2> QED BY <2>5, <2>7 DEF TrafficInv, Ordered
<1> QED BY <1>7, <1>8 DEF Forward, Delivered

LEMMA TrafficStep ==
  ASSUME Inv, Inv', HubInv, SocketInv, TrafficInv, [Next]_vars
  PROVE  TrafficInv'
<1>1. /\ up \in [Connection -> Seq(Message)] /\ down \in [Connection -> Seq(Message)]
      /\ message \in [Connection -> Message] /\ receivers \in [Connection -> SUBSET Connection]
      /\ pending \in [Page -> Seq(Operation)] /\ snapshot \subseteq Operation
      /\ log' \in [Page -> SUBSET Operation] /\ log \in [Page -> SUBSET Operation]
      /\ sent \in [Page -> Seq(Operation)]
  BY DEF Inv, TypeOK
<1>2. Growing
  BY Growth
<1>3. ASSUME UNCHANGED <<up, down, message, receivers>>
      PROVE  TrafficInv'
  BY <1>2, <1>3, TrafficShrinks DEF Rest
<1>4. ASSUME NEW c \in Connection, UNCHANGED <<message, receivers>>,
             \/ UNCHANGED up \/ up' = [up EXCEPT ![c] = <<>>]
             \/ up[c] # <<>> /\ up' = [up EXCEPT ![c] = Tail(@)],
             UNCHANGED down \/ down' = [down EXCEPT ![c] = <<>>]
      PROVE  TrafficInv'
  <2>1. \A e \in Connection : Rest(up'[e], up[e]) /\ Rest(down'[e], down[e])
    BY <1>1, <1>4 DEF Rest
  <2> QED BY <1>2, <1>4, <2>1, TrafficShrinks
\* a page writes
<1>5. ASSUME NEW p \in open, NEW c, c = websocket[p],
             NEW ms \in Seq(Message), Sorted(ms), \A m \in Items(ms) : Fresh(p, m),
             up' = Write(c, ms), \A e \in Connection : Rest(down'[e], down[e]),
             UNCHANGED <<message, receivers>>
      PROVE  TrafficInv'
  <2>1. p \in Page /\ c \in DOMAIN owner /\ owner[c] = p
    BY <1>5 DEF SocketInv, Inv, Opened, TypeOK
  <2>2. c \in Connection /\ c \in DOMAIN owner' /\ owner'[c] = p
    BY <1>2, <2>1, OwnersConnected DEF Growing, Inv
  <2>3. CASE up' = [up EXCEPT ![c] = @ \o ms]
    BY <1>2, <1>5, <2>1, <2>2, <2>3, TrafficWrites
  <2>4. CASE UNCHANGED up
    BY <1>2, <1>5, <2>4, TrafficShrinks DEF Rest
  <2> QED BY <1>5, <2>3, <2>4 DEF Write
<1>6. ASSUME NEW p \in Page, NEW m \in Message, m.type # "operation"
      PROVE  <<m>> \in Seq(Message) /\ Sorted(<<m>>) /\ \A n \in Items(<<m>>) : Fresh(p, n)
  <2>1. \A q \in Page : LiveClocks(q, m) = {}
    BY <1>6, Unsung
  <2> QED BY <2>1 DEF Items, Sorted, Fresh
<1>7. CASE UNCHANGED vars
  BY <1>3, <1>7 DEF vars, network, relay
<1>8. ASSUME NEW p \in Page, Connect(p)
      PROVE  TrafficInv'
  <2>1. PICK c \in Connection :
          /\ up[c] = <<>> /\ DOMAIN owner' = DOMAIN owner \union {c} /\ owner'[c] = p
          /\ up' = [up EXCEPT ![c] = <<JoinMessage>>]
    BY <1>8, Opening
  <2>2. JoinMessage \in Message /\ JoinMessage.type # "operation"
    BY DEF JoinMessage, Message
  <2>3. up' = [up EXCEPT ![c] = @ \o <<JoinMessage>>]
    <3>1. <<>> \o <<JoinMessage>> = <<JoinMessage>>
      BY <1>6, <2>2, ConcatEmptySeq
    <3> QED BY <2>1, <3>1
  <2>4. UNCHANGED <<message, receivers, down>>
    BY <1>8 DEF Connect, relay
  <2>5. \A e \in Connection : Rest(down'[e], down[e])
    BY <2>4 DEF Rest
  <2>6. c \in DOMAIN owner'
    BY <2>1
  <2>7. /\ <<JoinMessage>> \in Seq(Message) /\ Sorted(<<JoinMessage>>)
        /\ \A m \in Items(<<JoinMessage>>) : Fresh(p, m)
    BY <1>6, <2>2
  <2>8. PICK ms : ms = <<JoinMessage>>
    OBVIOUS
  <2> QED BY <1>2, <2>1, <2>3, <2>4, <2>5, <2>6, <2>7, <2>8, TrafficWrites
<1>9. ASSUME NEW p \in Page, OnMessage(p)
      PROVE  TrafficInv'
  <2>1. PICK c \in Connection, k \in Good :
          /\ c = websocket[p] /\ p \in open /\ down[c] # <<>>
          /\ down' = [down EXCEPT ![c] = Tail(@)]
          /\ \/ k.type = "ack" /\ OnJoinAck(p, k.ops)
             \/ k.type = "sync1" /\ OnSync1(p, k.ops)
             \/ k.type = "sync2" /\ OnSync2(p, k.ops)
             \/ k.type = "operation" /\ OnOperation(p, k.ops)
    BY <1>9, Received DEF Inv
  <2>2. UNCHANGED <<message, receivers>>
    BY <1>9 DEF OnMessage, relay
  <2>3. \A e \in Connection : Rest(down'[e], down[e])
    BY <1>1, <2>1 DEF Rest
  <2>4. CASE UNCHANGED up
    <3>1. \A e \in Connection : Rest(up'[e], up[e])
      BY <2>4 DEF Rest
    <3> QED BY <1>2, <2>2, <2>3, <3>1, TrafficShrinks
  <2>5. ASSUME NEW m \in Message, m.type # "operation", up' = Write(c, <<m>>)
        PROVE  TrafficInv'
    BY <1>5, <1>6, <2>1, <2>2, <2>3, <2>5
  <2>6. CASE OnJoinAck(p, k.ops)
    <3>1. Claimed(log[p]) \subseteq Operation
      BY <1>1 DEF Claimed
    <3>2. [type |-> "sync1", ops |-> Claimed(log[p])] \in Message
      BY <3>1 DEF Message
    <3> QED BY <2>1, <2>5, <2>6, <3>2 DEF OnJoinAck
  <2>7. CASE OnSync1(p, k.ops)
    <3>1. Missing(log[p], k.ops) \subseteq Operation
      BY <1>1 DEF Missing
    <3>2. [type |-> "sync2", ops |-> Missing(log[p], k.ops)] \in Message
      BY <3>1 DEF Message
    <3> QED BY <2>1, <2>5, <2>7, <3>2 DEF OnSync1
  <2>8. CASE OnSync2(p, k.ops)
    <3>1. PICK q, n, ops, ms :
            /\ q = pending[p] /\ n = Len(sent[p]) /\ ops = log'[p]
            /\ ms = Operations(q) \o Snapshot(ops)
      OBVIOUS
    <3>2. /\ up' = Write(c, ms) /\ sent'[p] = sent[p] \o pending[p]
      BY <1>1, <2>1, <2>8, <3>1 DEF OnSync2
    <3>3. q \in Seq(Operation) /\ ops \in SUBSET Operation
      BY <1>1, <3>1
    <3>4. n \in Nat /\ Numbered(p, q, n)
      BY <3>1, PendingClocks
    <3>5. /\ ms \in Seq(Message) /\ Sorted(ms)
          /\ \A m \in Items(ms) : Between(p, m, n, n + Len(q))
      BY <3>1, <3>3, <3>4, Batch
    <3>6. Len(sent'[p]) = n + Len(q)
      <4>1. Len(sent[p] \o pending[p]) = Len(sent[p]) + Len(pending[p])
        BY <1>1, ConcatProperties
      <4> QED BY <3>1, <3>2, <4>1
    <3>7. \A m \in Items(ms) : Fresh(p, m)
      BY <3>1, <3>5, <3>6 DEF Fresh, Between
    <3> QED BY <1>5, <2>1, <2>2, <2>3, <3>2, <3>5, <3>7
  <2>9. CASE OnOperation(p, k.ops)
    BY <2>4, <2>9 DEF OnOperation
  <2> QED BY <2>1, <2>6, <2>7, <2>8, <2>9
<1>10. ASSUME NEW p \in Page, HandleInput(p)
       PROVE  TrafficInv'
  <2>1. PICK n \in Nat :
          /\ n = Cardinality(Own(p)) /\ <<p, n>> \in Operation
          /\ IF status[p] = "online" /\ p \in open
             THEN /\ up' = Write(websocket[p], Operations(<<<<p, n>>>>) \o Snapshot(log'[p]))
                  /\ sent' = [sent EXCEPT ![p] = Append(@, <<p, n>>)]
             ELSE UNCHANGED <<up, sent>>
    BY <1>10, TypingAdds DEF Inv
  <2>2. UNCHANGED <<down, message, receivers>>
    BY <1>10 DEF HandleInput, relay
  <2>3. CASE status[p] = "online" /\ p \in open
    <3>1. PICK q : q = <<<<p, n>>>>
      OBVIOUS
    <3>2. PICK ops, ms : ops = log'[p] /\ ms = Operations(q) \o Snapshot(ops)
      OBVIOUS
    <3>3. up' = Write(websocket[p], ms) /\ sent'[p] = Append(sent[p], <<p, n>>)
      BY <1>1, <2>1, <2>3, <3>1, <3>2
    <3>4. Len(sent[p]) = n
      <4>1. pending[p] = <<>> /\ Len(pending[p]) = 0
        BY <2>3, EmptySeq DEF Inv, OnlineSends
      <4>2. Len(sent[p]) \in Nat /\ Len(sent[p]) + Len(pending[p]) = Cardinality(Own(p))
        BY PendingClocks, Zenon
      <4> QED BY <2>1, <4>1, <4>2
    <3>5. q \in Seq(Operation) /\ Len(q) = 1 /\ Numbered(p, q, n)
      BY <2>1, <3>1 DEF Numbered
    <3>6. ops \in SUBSET Operation
      BY <1>1, <3>2
    <3>7. /\ ms \in Seq(Message) /\ Sorted(ms)
          /\ \A m \in Items(ms) : Between(p, m, n, n + Len(q))
      BY <2>1, <3>2, <3>5, <3>6, Batch
    <3>8. Len(sent'[p]) = n + 1
      BY <1>1, <3>3, <3>4, AppendProperties, <2>1
    <3>9. \A m \in Items(ms) : Fresh(p, m)
      BY <3>4, <3>5, <3>7, <3>8 DEF Fresh, Between
    <3>10. \A e \in Connection : Rest(down'[e], down[e])
      BY <2>2 DEF Rest
    <3> QED BY <1>5, <2>2, <2>3, <3>3, <3>7, <3>9, <3>10
  <2>4. CASE ~(status[p] = "online" /\ p \in open)
    BY <1>3, <2>1, <2>2, <2>4
  <2> QED BY <2>3, <2>4
<1>11. ASSUME NEW p \in Page, CloseBegins(p) \/ OnClose(p)
       PROVE  TrafficInv'
  BY <1>3, <1>11 DEF CloseBegins, OnClose, network, relay
<1>12. ASSUME NEW p \in Page, Unmount(p)
       PROVE  TrafficInv'
  <2>1. /\ UNCHANGED <<up, message, receivers>>
        /\ down' = [down EXCEPT ![websocket[p]] = <<>>]
    BY <1>12 DEF Unmount, relay
  <2>2. \A e \in Connection : Rest(up'[e], up[e]) /\ Rest(down'[e], down[e])
    BY <1>1, <2>1 DEF Rest
  <2> QED BY <1>2, <2>1, <2>2, TrafficShrinks
<1>13. ASSUME NEW c \in Connection,
              Join(c) \/ JoinFails(c) \/ SaveSnapshot(c) \/ Leave(c) \/ Break(c)
       PROVE  TrafficInv'
  <2>1. /\ UNCHANGED <<message, receivers>>
        /\ UNCHANGED down \/ down' = [down EXCEPT ![c] = <<>>]
    BY <1>13 DEF Join, JoinFails, SaveSnapshot, Leave, Break, network, relay
  <2>2. \/ UNCHANGED up \/ up' = [up EXCEPT ![c] = <<>>]
        \/ up[c] # <<>> /\ up' = [up EXCEPT ![c] = Tail(@)]
    BY <1>13 DEF Join, JoinFails, SaveSnapshot, Leave, Break, network
  <2> QED BY <1>4, <2>1, <2>2
<1>14. ASSUME NEW c \in Connection, SendAck(c) \/ Answer(c)
       PROVE  TrafficInv'
  <2>1. Ack \in Message /\ [type |-> "sync2", ops |-> snapshot] \in Message
    BY <1>1 DEF Ack, Message
  <2>2. Ack.type # "operation" /\ [type |-> "sync2", ops |-> snapshot].type # "operation"
    BY DEF Ack
  <2>3. UNCHANGED <<up, message, receivers>>
    BY <1>14 DEF SendAck, Answer
  <2>4. \/ Delivered(c, Ack) \/ Fails(c)
        \/ Delivered(c, [type |-> "sync2", ops |-> snapshot])
    BY <1>14 DEF SendAck, Answer
  <2> QED BY <1>2, <2>1, <2>2, <2>3, <2>4, TrafficDelivers
<1>15. ASSUME NEW c \in Connection, Receive(c)
       PROVE  TrafficInv'
  BY <1>2, <1>15, TrafficReceives
<1>16. ASSUME NEW c \in Connection, NEW d \in Connection, Forward(c, d)
       PROVE  TrafficInv'
  BY <1>2, <1>16, TrafficForwards
<1>17. ASSUME NEW c \in Connection, NEW d \in Connection, ForwardFails(c, d)
       PROVE  TrafficInv'
  <2>1. /\ UNCHANGED <<up, down>> /\ receivers' = [receivers EXCEPT ![c] = {}]
        /\ message' = [message EXCEPT ![c] = NoMessage]
    BY <1>17 DEF ForwardFails, Fails
  <2>2. \A e \in Connection : Rest(up'[e], up[e]) /\ Rest(down'[e], down[e])
    BY <2>1 DEF Rest
  <2>3. \A e \in Connection :
          /\ message'[e] = message[e] \/ message'[e] = NoMessage
          /\ receivers'[e] \subseteq receivers[e]
    BY <1>1, <2>1
  <2> QED BY <1>2, <2>2, <2>3, TrafficShrinks
<1>18. CASE Restart
  <2>1. /\ up' = [c \in Connection |-> <<>>] /\ down' = [c \in Connection |-> <<>>]
        /\ message' = [c \in Connection |-> NoMessage]
        /\ receivers' = [c \in Connection |-> {}]
    BY <1>18 DEF Restart
  <2>2. \A e \in Connection : Rest(up'[e], up[e]) /\ Rest(down'[e], down[e])
    BY <2>1 DEF Rest
  <2>3. \A e \in Connection : message'[e] = NoMessage /\ receivers'[e] \subseteq receivers[e]
    BY <2>1
  <2> QED BY <1>2, <2>2, <2>3, TrafficShrinks
<1> QED BY <1>7, <1>8, <1>9, <1>10, <1>11, <1>12, <1>13, <1>14, <1>15, <1>16, <1>17, <1>18, Steps

LEMMA WayInit == Init => WayInv
<1> SUFFICES ASSUME Init
             PROVE  WayInv
  OBVIOUS
<1>1. /\ \A c \in Connection :
           /\ up[c] = <<>> /\ down[c] = <<>> /\ message[c] = NoMessage /\ receivers[c] = {}
           /\ handler[c] = "join"
      /\ joined = {} /\ open = {} /\ live = {} /\ \A p \in Page : websocket[p] = 0
      /\ owner = <<>>
  BY DEF Init
<1>2. HubInv
  BY <1>1 DEF HubInv
<1>3. SocketInv
  BY <1>1 DEF SocketInv
<1>4. Ordered(up, message, down, receivers)
  BY <1>1, NoItems DEF Ordered
<1>5. SentInv /\ FromInv
  <2>1. \A c : WasSent(NoMessage) /\ IsFrom(c, NoMessage)
    BY DEF WasSent, IsFrom, LiveClocks, NoMessage
  <2> QED BY <1>1, <2>1, NoItems DEF SentInv, FromInv
<1> QED BY <1>2, <1>3, <1>4, <1>5 DEF WayInv, TrafficInv

\* Of two messages on their way to one page, the one in front is older.
LEMMA WayOrdered ==
  ASSUME Inv, WayInv
  PROVE  LiveInOrder
<1> SUFFICES ASSUME NEW p \in Page, NEW d \in joined,
                    NEW a \in OnTheWay(p, d), NEW b \in OnTheWay(p, d), InFront(a, b)
             PROVE  \A x \in LiveClocks(p, a[3]), y \in LiveClocks(p, b[3]) : x < y
  BY DEF LiveInOrder
<1> DEFINE own == {c \in DOMAIN owner : owner[c] = p}
<1>1. /\ up \in [Connection -> Seq(Message)] /\ down \in [Connection -> Seq(Message)]
      /\ joined \subseteq DOMAIN owner
  BY DEF Inv, TypeOK
<1>2. d \in Connection /\ \A c \in own : c \in Connection /\ c \in Nat /\ c > 0
  BY <1>1, OwnersConnected, CollabAssumption DEF Inv, Connection
<1>3. /\ Len(down[d]) \in Nat /\ DOMAIN down[d] = 1..Len(down[d])
      /\ \A c \in own : Len(up[c]) \in Nat /\ DOMAIN up[c] = 1..Len(up[c])
  BY <1>1, <1>2, LenProperties
<1>4. ASSUME NEW z \in OnTheWay(p, d)
      PROVE  \/ z[1] = 0 /\ \E k \in 1..Len(down[d]) : z[2] = k /\ z[3] = down[d][k]
             \/ z[1] \in own /\ z[2] = 0 /\ d \in receivers[z[1]] /\ z[3] = message[z[1]]
             \/ z[1] \in own /\ \E k \in 1..Len(up[z[1]]) : z[2] = k /\ z[3] = up[z[1]][k]
  <2>1. CASE \E k \in DOMAIN down[d] : z = <<0, k, down[d][k]>>
    BY <1>3, <2>1
  <2>2. CASE \E c \in {c \in own : d \in receivers[c]} : z = <<c, 0, message[c]>>
    BY <2>2
  <2>3. CASE \E c \in own : \E k \in DOMAIN up[c] : z = <<c, k, up[c][k]>>
    BY <1>3, <2>3
  <2>4. z \in UNION {{<<c, k, up[c][k]>> : k \in DOMAIN up[c]} : c \in own}
          => \E c \in own : \E k \in DOMAIN up[c] : z = <<c, k, up[c][k]>>
    OBVIOUS
  <2> QED BY <2>1, <2>2, <2>3, <2>4 DEF OnTheWay
<1>5. \A c, e \in own : up[c] # <<>> /\ up[e] # <<>> => c = e
  BY DEF WayInv, SocketInv
<1>6. \A c, e \in own : receivers[c] # {} /\ receivers[e] # {} => c = e
  <2>1. \A c \in own : receivers[c] # {} => c \in joined
    BY <1>2 DEF WayInv, HubInv
  <2> QED BY <2>1 DEF WayInv, HubInv
<1> HIDE DEF own
<1>7. Ordered(up, message, down, receivers)
  BY DEF WayInv, TrafficInv
<1>8. Before(a[3], b[3])
  <2>1. CASE a[1] = 0
    <3>1. PICK k \in 1..Len(down[d]) : a[2] = k /\ a[3] = down[d][k]
      BY <1>2, <1>4, <2>1
    <3>2. a[3] \in Items(down[d])
      BY <3>1 DEF Items
    <3>3. CASE b[1] = 0
      <4>1. PICK l \in 1..Len(down[d]) : b[2] = l /\ b[3] = down[d][l]
        BY <1>2, <1>4, <3>3
      <4>2. k < l
        BY <2>1, <3>1, <3>3, <4>1 DEF InFront
      <4> QED BY <1>2, <1>7, <3>1, <4>1, <4>2 DEF Ordered, Sorted
    <3>4. CASE b[1] \in own /\ d \in receivers[b[1]] /\ b[3] = message[b[1]]
      BY <1>2, <1>7, <3>2, <3>4 DEF Ordered
    <3>5. CASE b[1] \in own /\ \E l \in 1..Len(up[b[1]]) : b[2] = l /\ b[3] = up[b[1]][l]
      <4>1. b[3] \in Items(up[b[1]])
        BY <3>5 DEF Items
      <4> QED BY <1>2, <1>7, <3>2, <3>5, <4>1 DEF Ordered
    <3> QED BY <1>4, <3>3, <3>4, <3>5
  <2>2. CASE a[1] \in own /\ a[2] = 0 /\ d \in receivers[a[1]] /\ a[3] = message[a[1]]
    <3>1. b[1] \in own
      BY <1>2, <1>4, <2>2 DEF InFront
    <3>2. CASE b[2] = 0 /\ d \in receivers[b[1]]
      <4>1. a[1] = b[1]
        BY <1>6, <2>2, <3>1, <3>2
      <4> QED BY <1>2, <2>2, <3>1, <3>2, <4>1 DEF InFront
    <3>3. CASE \E l \in 1..Len(up[b[1]]) : b[2] = l /\ b[3] = up[b[1]][l]
      <4>1. b[3] \in Items(up[b[1]])
        BY <3>3 DEF Items
      <4> QED BY <1>2, <1>7, <2>2, <3>1, <4>1 DEF Ordered
    <3>4. b[1] # 0
      BY <1>2, <3>1
    <3> QED BY <1>4, <3>2, <3>3, <3>4
  <2>3. CASE a[1] \in own /\ \E k \in 1..Len(up[a[1]]) : a[2] = k /\ a[3] = up[a[1]][k]
    <3>1. PICK k \in 1..Len(up[a[1]]) : a[2] = k /\ a[3] = up[a[1]][k]
      BY <2>3
    <3>2. b[1] \in own /\ b[1] # 0
      BY <1>2, <1>4, <2>3 DEF InFront
    <3>3. up[a[1]] # <<>> /\ a[3] \in Items(up[a[1]])
      BY <3>1, <1>3, <2>3 DEF Items
    <3>4. CASE b[2] = 0 /\ d \in receivers[b[1]] /\ b[3] = message[b[1]]
      <4>1. a[1] \in DOMAIN owner /\ b[1] \in DOMAIN owner /\ owner[b[1]] = owner[a[1]]
        BY <2>3, <3>2 DEF own
      <4>2. b[1] <= a[1]
        BY <3>3, <4>1 DEF WayInv, SocketInv
      <4> QED BY <1>2, <2>3, <3>1, <3>2, <3>4, <4>2 DEF InFront
    <3>5. CASE \E l \in 1..Len(up[b[1]]) : b[2] = l /\ b[3] = up[b[1]][l]
      <4>1. PICK l \in 1..Len(up[b[1]]) : b[2] = l /\ b[3] = up[b[1]][l]
        BY <3>5
      <4>2. a[1] = b[1]
        BY <1>3, <1>5, <2>3, <3>2, <3>3, <4>1
      <4>3. k < l
        BY <1>2, <2>3, <3>1, <4>1, <4>2 DEF InFront
      <4> QED BY <1>2, <1>7, <2>3, <3>1, <4>1, <4>2, <4>3 DEF Ordered, Sorted
    <3> QED BY <1>4, <3>2, <3>4, <3>5
  <2> QED BY <1>4, <2>1, <2>2, <2>3
<1> QED BY <1>8 DEF Before

LEMMA WayInvariance == Spec => []WayInv
<1>1. Inv /\ Inv' /\ WayInv /\ [Next]_vars => WayInv'
  BY HubStep, SocketStep, TrafficStep DEF WayInv
<1> QED BY <1>1, WayInit, CollabInvariance, PTL DEF Spec

\* BroadcastToRoom and Hub.Join: one session a page and one handler a session keep the live
\* operations of a page in the order of its clocks on every way to every other page, across
\* breaks, reconnections and restarts, and while an old handler is still forwarding.
THEOREM LiveOperationsInOrder == Spec => []LiveInOrder
<1>1. Inv /\ WayInv => LiveInOrder
  BY WayOrdered
<1> QED BY <1>1, WayInvariance, CollabInvariance, PTL

-----------------------------------------------------------------------------
\* Pages opened and closed one at a time, on connections that hold.

\* The messages on their way from and to the page at c, and the operations a message brings.
Up(c) == Items(up[c])
Down(c) == Items(down[c])
Brought(m) == {o \in m.ops : m.type \in {"operation", "sync2"}}

\* The connection opened last.
Newest == Len(owner)

\* Nothing is under way, but a page that has left may still have its session.
Still ==
  \A c \in DOMAIN owner :
    up[c] = <<>> /\ down[c] = <<>> /\ handler[c] \in {"read", "done"}

\* c belongs to the only page there is.
Lonely(c) == \A s \in Page : Started(s) => websocket[s] = c

\* A page has one connection, which holds until the page is left.
LinkInv ==
  /\ \A p \in Page : websocket[p] = 0 <=> status[p] = "disconnected"
  /\ \A p \in Page : websocket[p] = 0 => log[p] = {} /\ p \notin shut
  /\ \A p \in Page : Started(p) <=> p \in open
  /\ \A p \in open : websocket[p] \in live
  /\ \A c \in DOMAIN owner : websocket[owner[c]] = c
  /\ \A c \in live : Started(owner[c])

\* Only the handler of the newest can still be joining, and nobody writes to a page that
\* has left.
HandlersInv ==
  /\ \A c \in live :
       \/ handler[c] \in {"read", "forward"}
       \/ c = Newest /\ handler[c] \in {"join", "ack", "answer"}
  /\ \A c \in DOMAIN owner \ live :
       handler[c] \in {"read", "done"} /\ up[c] = <<>> /\ down[c] = <<>>
  /\ \A c \in Connection \ DOMAIN owner :
       handler[c] = "join" /\ up[c] = <<>> /\ down[c] = <<>>
  /\ joined \subseteq live \/ Still
  /\ \A c \in Connection : receivers[c] \subseteq live

\* Only the newest page asks, after its join, and claims what it has.
AskingInv ==
  /\ \A c \in DOMAIN owner : handler[c] = "join" => up[c] # <<>> /\ Head(up[c]).type = "join"
  /\ \A c \in Connection : \A m \in Up(c) :
       m.type # "ack" /\ (m.type = "sync1" => c = Newest)
  /\ \A c \in Connection : handler[c] = "forward" => message[c].type # "ack"
  /\ \A c \in Connection : \A m \in Down(c) : m.type = "ack" => c = Newest
  /\ \A c \in Connection : \A m \in Up(c) \union {message[c]} \union Down(c) :
       m.type = "sync1" => m.ops \subseteq log[owner[Newest]]

\* What a page sends it has, and what it is sent somebody has, unless it comes out of the
\* store to a page alone.
CarriedInv ==
  /\ \A c \in DOMAIN owner : \A m \in Up(c) \union {message[c]} :
       Brought(m) \subseteq log[owner[c]]
  /\ \A c \in DOMAIN owner : handler[c] = "answer" => Lonely(c)
  /\ \A c \in DOMAIN owner : \A m \in Down(c) : \A o \in Brought(m) :
       Lonely(c) \/ \E s \in Page : Started(s) /\ o \in log[s]

\* s has still to answer the state vector of q.
Unanswered(q, s) ==
  /\ websocket[q] = Newest
  /\ \/ handler[websocket[q]] \in {"join", "ack"}
     \/ \E m \in Down(websocket[q]) : m.type = "ack"
     \/ \E m \in Up(websocket[q]) : m.type = "sync1"
     \/ message[websocket[q]].type = "sync1" /\ websocket[s] \in receivers[websocket[q]]
     \/ \E m \in Down(websocket[s]) : m.type = "sync1"

\* s is sending o to q, or has still to send it.
Sending(o, s, q) ==
  \/ o \in Items(pending[s])
  \/ \E m \in Up(websocket[s]) : o \in Brought(m)
  \/ o \in Brought(message[websocket[s]]) /\ websocket[q] \in receivers[websocket[s]]

Arriving(o, q) == \E m \in Down(websocket[q]) : o \in Brought(m)

Coming(o, q) ==
  \/ Arriving(o, q)
  \/ \E s \in Page : /\ Started(s) /\ s # q /\ o \in log[s]
                     /\ Sending(o, s, q) \/ Unanswered(q, s)

\* What one page has and another lacks is coming to it.
ComingInv ==
  \A p, q \in Page : Started(p) /\ Started(q) => \A o \in log[p] \ log[q] : Coming(o, q)

CalmInv == LinkInv /\ HandlersInv /\ AskingInv /\ CarriedInv /\ ComingInv

CalmState ==
  /\ Inv /\ HubInv /\ SocketInv /\ discipline # "free"
  /\ LinkInv /\ HandlersInv /\ AskingInv /\ CarriedInv /\ ComingInv

-----------------------------------------------------------------------------
\* What a step does to what is on its way.

LEMMA HeadItems ==
  ASSUME NEW s \in Seq(Message), s # <<>>
  PROVE  /\ Head(s) \in Message /\ Tail(s) \in Seq(Message)
         /\ Items(s) = {Head(s)} \union Items(Tail(s))
<1> DEFINE t == Tail(s)
           h == Head(s)
<1>1. /\ Len(s) \in Nat /\ Len(s) >= 1 /\ h = s[1] /\ h \in Message
      /\ t \in Seq(Message) /\ Len(t) = Len(s) - 1
      /\ \A k \in 1..Len(t) : t[k] = s[k + 1]
  BY LenProperties, EmptySeq, HeadTailProperties
<1> HIDE DEF t, h
<1>2. Items(t) \subseteq Items(s) /\ h \in Items(s)
  BY <1>1 DEF Items
<1>3. ASSUME NEW k \in 1..Len(s)
      PROVE  s[k] \in {h} \union Items(t)
  <2>1. CASE k = 1
    BY <1>1, <2>1
  <2>2. CASE k # 1
    <3>1. k - 1 \in 1..Len(t) /\ (k - 1) + 1 = k
      BY <1>1, <2>2
    <3>2. t[k - 1] = s[k]
      BY <1>1, <3>1
    <3> QED BY <3>1, <3>2 DEF Items
  <2> QED BY <2>1, <2>2
<1>4. Items(s) = {h} \union Items(t)
  BY <1>2, <1>3 DEF Items
<1> QED BY <1>1, <1>4 DEF t, h

\* One more operation in a queue.
LEMMA QueueItems ==
  ASSUME NEW q \in Seq(Operation), NEW o \in Operation
  PROVE  Items(Append(q, o)) = Items(q) \union {o}
<1> DEFINE t == Append(q, o)
<1>1. /\ Len(q) \in Nat /\ Len(t) = Len(q) + 1 /\ t[Len(q) + 1] = o
      /\ \A i \in 1..Len(q) : t[i] = q[i]
  BY LenProperties, AppendProperties
<1> HIDE DEF t
<1>2. 1..Len(t) = 1..Len(q) \union {Len(t)} /\ t[Len(t)] = o
  BY <1>1
<1>3. Items(t) = Items(q) \union {o}
  BY <1>1, <1>2 DEF Items
<1> QED BY <1>3 DEF t

LEMMA HasItems ==
  ASSUME NEW s \in Seq(Message)
  PROVE  s = <<>> <=> Items(s) = {}
BY HeadItems, NoItems

\* What a page has queued goes out as one message each, and the snapshot behind them.
LEMMA BatchItems ==
  ASSUME NEW q \in Seq(Operation), NEW ops \in SUBSET Operation,
         NEW ms, ms = Operations(q) \o Snapshot(ops)
  PROVE  /\ ms \in Seq(Message)
         /\ Items(ms) = {[type |-> "operation", ops |-> {o}] : o \in Items(q)}
                          \union {[type |-> "snapshot", ops |-> ops]}
<1> DEFINE os == Operations(q)
           last == Snapshot(ops)
<1>1. os \in Seq(Message) /\ last \in Seq(Message) /\ os \o last \in Seq(Message)
  <2>1. \A t \in {"operation", "snapshot"} :
          \A o \in SUBSET Operation : [type |-> t, ops |-> o] \in Message
    BY DEF Message
  <2> QED BY <2>1, Outgoing
<1>2. Len(q) \in Nat /\ DOMAIN q = 1..Len(q)
  BY LenProperties
<1>3. Len(os) = Len(q) /\ \A i \in 1..Len(q) : os[i] = [type |-> "operation", ops |-> {q[i]}]
  BY <1>2 DEF Operations
<1>4. Items(last) = {[type |-> "snapshot", ops |-> ops]}
  BY DEF Snapshot, Items
<1> HIDE DEF os, last
<1>5. Items(os) = {[type |-> "operation", ops |-> {o}] : o \in Items(q)}
  BY <1>3 DEF Items
<1>6. Items(os \o last) = Items(os) \union Items(last)
  BY <1>1, ConcatItems
<1> QED BY <1>1, <1>4, <1>5, <1>6 DEF os, last

\* What a page has queued it has.
LEMMA PendingKnown ==
  ASSUME Inv, NEW p \in Page
  PROVE  Items(pending[p]) \subseteq log[p]
<1>1. ASSUME NEW k \in 1..Len(pending[p])
      PROVE  pending[p][k] \in log[p]
  <2>1. pending[p] \in Seq(Authored)
    BY DEF Inv, AuthorsKnow
  <2>2. pending[p][k] \in Authored
    BY <2>1, ElementOfSeq
  <2>3. pending[p][k] = <<p, Len(sent[p]) + k - 1>>
    BY PendingClocks DEF Numbered
  <2> QED BY <2>2, <2>3 DEF Authored
<1> QED BY <1>1 DEF Items

\* A handler reads.
LEMMA Reads ==
  ASSUME Inv, NEW c \in Connection, up[c] # <<>>, up' = [up EXCEPT ![c] = Tail(@)]
  PROVE  /\ Head(up[c]) \in Message /\ Up(c) = {Head(up[c])} \union Up(c)'
         /\ \A e \in Connection \ {c} : up'[e] = up[e] /\ Up(e)' = Up(e)
<1>1. up[c] \in Seq(Message) /\ up \in [Connection -> Seq(Message)]
  BY DEF Inv, TypeOK
<1>2. up'[c] = Tail(up[c]) /\ \A e \in Connection \ {c} : up'[e] = up[e]
  BY <1>1
<1> QED BY <1>1, <1>2, HeadItems DEF Up

\* A page writes.
LEMMA Speaks ==
  ASSUME Inv, NEW c \in live, NEW ms \in Seq(Message), up' = Write(c, ms)
  PROVE  /\ Up(c)' = Up(c) \union Items(ms)
         /\ up[c] # <<>> => up'[c] # <<>> /\ Head(up'[c]) = Head(up[c])
         /\ \A e \in Connection \ {c} : up'[e] = up[e] /\ Up(e)' = Up(e)
<1>1. up \in [Connection -> Seq(Message)] /\ c \in Connection
  BY OwnersConnected DEF Inv, TypeOK
<1>2. up' = [up EXCEPT ![c] = @ \o ms]
  BY DEF Write
<1>3. up'[c] = up[c] \o ms /\ \A e \in Connection \ {c} : up'[e] = up[e]
  BY <1>1, <1>2
<1>4. Up(c)' = Up(c) \union Items(ms)
  BY <1>1, <1>3, ConcatItems DEF Up
<1>5. ASSUME up[c] # <<>>
      PROVE  up'[c] # <<>> /\ Head(up'[c]) = Head(up[c])
  <2>1. PICK s, t : s \in Seq(Message) /\ s = up[c] /\ t = up'[c] /\ t = s \o ms
    BY <1>1, <1>3
  <2>2. /\ Len(s) \in Nat /\ Len(s) >= 1 /\ Len(ms) \in Nat /\ t \in Seq(Message)
        /\ Len(t) = Len(s) + Len(ms) /\ t[1] = s[1]
    BY <1>5, <2>1, EmptySeq, LenProperties, ConcatProperties
  <2>3. Head(s) = s[1] /\ Head(t) = t[1] /\ t # <<>>
    BY <2>2
  <2> QED BY <2>1, <2>2, <2>3
<1> QED BY <1>3, <1>4, <1>5 DEF Up

\* A handler delivers.
LEMMA Gives ==
  ASSUME Inv, NEW c \in live, NEW m \in Message, Delivered(c, m)
  PROVE  /\ Down(c)' = Down(c) \union {m}
         /\ \A e \in Connection \ {c} : down'[e] = down[e] /\ Down(e)' = Down(e)
<1>1. down \in [Connection -> Seq(Message)] /\ c \in Connection
  BY OwnersConnected DEF Inv, TypeOK
<1>2. down' = [down EXCEPT ![c] = Append(@, m)]
  BY DEF Delivered
<1>3. down'[c] = Append(down[c], m) /\ \A e \in Connection \ {c} : down'[e] = down[e]
  BY <1>1, <1>2
<1> QED BY <1>1, <1>3, AppendItems DEF Down

-----------------------------------------------------------------------------
\* What can happen there.

\* A join is not refused.
Admits(c) ==
  /\ handler[c] = "join" /\ up[c] # <<>>
  /\ up' = [up EXCEPT ![c] = Tail(@)]
  /\ joined' = joined \union {c} /\ Goto(c, "ack")
  /\ UNCHANGED <<page, shut, owner, down, live, receivers, message, snapshot, past>>

LEMMA CalmSteps ==
  ASSUME CalmState, [Next]_vars
  PROVE  \/ UNCHANGED vars
         \/ \E p \in Page : Connect(p) /\ websocket[p] = 0 /\ Quiet
         \/ \E p \in Page : OnMessage(p) \/ HandleInput(p)
         \/ \E p \in Page : Unmount(p) /\ Quiet
         \/ \E c \in live :
              Admits(c) \/ SendAck(c) \/ SaveSnapshot(c) \/ Receive(c) \/ Answer(c)
         \/ \E c, d \in live : Forward(c, d)
         \/ \E c \in DOMAIN owner \ live : Leave(c)
<1>1. /\ discipline # "free" /\ live \subseteq DOMAIN owner /\ DOMAIN owner \subseteq Connection
      /\ joined \subseteq DOMAIN owner
  BY OwnersConnected DEF CalmState, Inv, TypeOK
<1>2. \A c \in Connection : up[c] # <<>> => c \in live
  BY DEF CalmState, HandlersInv
<1>3. ASSUME NEW p \in Page, Connect(p)
      PROVE  websocket[p] = 0 /\ Quiet
  BY <1>1, <1>3 DEF Connect, CalmState, LinkInv
<1>4. ASSUME NEW p \in Page, CloseBegins(p)
      PROVE  FALSE
  <2>1. p \in open /\ websocket[p] \notin live
    BY <1>4 DEF CloseBegins
  <2> QED BY <2>1 DEF CalmState, LinkInv
<1>5. ASSUME NEW p \in Page, OnClose(p)
      PROVE  FALSE
  BY <1>5 DEF OnClose, CalmState, LinkInv, Started
<1>6. ASSUME NEW p \in Page, Unmount(p)
      PROVE  Quiet
  BY <1>1, <1>6 DEF Unmount
<1>7. ASSUME NEW c \in Connection, Join(c)
      PROVE  c \in live /\ Admits(c)
  <2>1. c \in live /\ handler[c] = "join"
    BY <1>2, <1>7 DEF Join
  <2>2. c \notin joined
    BY <2>1, <1>1 DEF CalmState, HubInv
  <2>3. \A d \in joined : owner[d] # owner[c]
    BY <1>1, <2>1, <2>2 DEF CalmState, LinkInv
  <2> QED BY <1>7, <2>1, <2>3 DEF Join, Admits
<1>8. ASSUME NEW c \in Connection, JoinFails(c)
      PROVE  FALSE
  BY <1>8 DEF JoinFails, CalmState, HandlersInv
<1>9. ASSUME NEW c \in Connection, SendAck(c) \/ SaveSnapshot(c) \/ Receive(c) \/ Answer(c)
      PROVE  c \in live
  <2>1. CASE SaveSnapshot(c) \/ Receive(c)
    BY <1>2, <2>1 DEF SaveSnapshot, Receive
  <2>2. CASE SendAck(c) \/ Answer(c)
    <3>1. handler[c] \in {"ack", "answer"}
      BY <2>2 DEF SendAck, Answer
    <3> QED BY <3>1 DEF CalmState, HandlersInv
  <2> QED BY <1>9, <2>1, <2>2
<1>10. ASSUME NEW c \in Connection, Leave(c)
       PROVE  c \in DOMAIN owner \ live
  <2>1. c \in DOMAIN owner
    BY <1>10 DEF Leave, CalmState, HandlersInv
  <2>2. c \notin live
    BY <1>10 DEF Leave, CalmState, HandlersInv
  <2> QED BY <2>1, <2>2
<1>11. ASSUME NEW c \in Connection, Break(c) \/ Restart
       PROVE  FALSE
  BY <1>1, <1>11 DEF Break, Restart
<1>12. ASSUME NEW c \in Connection, NEW d \in Connection, Forward(c, d) \/ ForwardFails(c, d)
       PROVE  c \in live /\ d \in live /\ Forward(c, d)
  <2>1. handler[c] = "forward" /\ d \in receivers[c]
    BY <1>12 DEF Forward, ForwardFails
  <2>2. c \in live /\ d \in live
    BY <2>1 DEF CalmState, HandlersInv
  <2> QED BY <1>12, <2>2 DEF ForwardFails, Fails
<1>13. Restart => FALSE
  BY <1>1 DEF Restart
<1> QED BY <1>3, <1>4, <1>5, <1>6, <1>7, <1>8, <1>9, <1>10, <1>11, <1>12, <1>13, Steps

\* A page that can hear or type is there, on a connection that holds.
LEMMA Present ==
  ASSUME CalmState, NEW p \in Page, OnMessage(p) \/ HandleInput(p)
  PROVE  /\ Started(p) /\ p \in open /\ websocket[p] \in live /\ websocket[p] \in Connection
         /\ websocket[p] \in DOMAIN owner /\ owner[websocket[p]] = p
<1>1. CASE OnMessage(p)
  <2>1. /\ p \in open /\ websocket[p] \in Connection /\ websocket[p] \in DOMAIN owner
        /\ owner[websocket[p]] = p
    BY <1>1, Received, OwnersConnected DEF CalmState, Inv, Opened, SocketInv
  <2>2. down[websocket[p]] # <<>>
    BY <1>1 DEF OnMessage
  <2>3. websocket[p] \in live
    BY <2>1, <2>2 DEF CalmState, HandlersInv
  <2> QED BY <2>1, <2>3 DEF CalmState, LinkInv
<1>2. CASE HandleInput(p)
  <2>1. Started(p)
    BY <1>2 DEF HandleInput
  <2>2. p \in open /\ websocket[p] \in live
    BY <2>1 DEF CalmState, LinkInv
  <2>3. websocket[p] \in DOMAIN owner /\ owner[websocket[p]] = p
    BY <2>1 DEF CalmState, SocketInv, Started
  <2> QED BY <2>1, <2>2, <2>3, OwnersConnected DEF CalmState, Inv
<1> QED BY <1>1, <1>2

\* Nothing is under way, and all pages have joined.
LEMMA QuietState ==
  ASSUME CalmState, Quiet
  PROVE  /\ Still /\ joined \subseteq live
         /\ \A c \in Connection :
              /\ up[c] = <<>> /\ down[c] = <<>> /\ Up(c) = {} /\ Down(c) = {}
              /\ receivers[c] = {} /\ message[c] = NoMessage
         /\ \A c \in live : handler[c] = "read"
         /\ \A c \in DOMAIN owner \ live : handler[c] = "done"
         /\ \A p \in Page : Started(p) => status[p] = "online" /\ pending[p] = <<>>
         /\ \A p, q \in Page : Started(p) /\ Started(q) => log[p] = log[q]
<1>1. /\ live \subseteq DOMAIN owner /\ joined \subseteq DOMAIN owner
      /\ DOMAIN owner \subseteq Connection
  BY OwnersConnected DEF CalmState, Inv, TypeOK
<1>2. \A c \in Connection : up[c] = <<>> /\ down[c] = <<>>
  BY DEF Quiet, CalmState, HandlersInv
<1>3. \A c \in Connection : Up(c) = {} /\ Down(c) = {}
  BY <1>2, NoItems DEF Up, Down
<1>4. /\ \A c \in live : handler[c] = "read"
      /\ \A c \in DOMAIN owner \ live : handler[c] = "done"
  BY <1>1 DEF Quiet
<1>5. Still
  BY <1>1, <1>2, <1>4 DEF Still
<1>6. joined \subseteq live
  BY <1>1, <1>4 DEF CalmState, HubInv
<1>7. \A c \in Connection : receivers[c] = {} /\ message[c] = NoMessage
  <2>1. \A c \in Connection : handler[c] # "forward"
    BY <1>4 DEF CalmState, HandlersInv
  <2> QED BY <2>1 DEF CalmState, HubInv
<1>8. \A p \in Page : Started(p) => status[p] = "online" /\ pending[p] = <<>>
  BY DEF Quiet, CalmState, LinkInv, Inv, OnlineSends
<1>9. ASSUME NEW p \in Page, NEW q \in Page, Started(p), Started(q), NEW o \in log[p] \ log[q]
      PROVE  FALSE
  <2>1. \A s \in Page : Started(s) => websocket[s] \in live /\ websocket[s] \in Connection
    BY <1>1 DEF CalmState, LinkInv
  <2>2. Coming(o, q)
    BY <1>9 DEF CalmState, ComingInv
  <2>3. \A s \in Page : Started(s) => Items(pending[s]) = {}
    BY <1>8, NoItems
  <2>4. NoMessage.type = "ack"
    BY DEF NoMessage
  <2>5. \A s \in Page : Started(s) => ~Sending(o, s, q) /\ ~Unanswered(q, s)
    BY <1>3, <1>4, <1>7, <1>9, <2>1, <2>3, <2>4 DEF Sending, Unanswered
  <2>6. ~Arriving(o, q)
    BY <1>3, <1>9, <2>1 DEF Arriving
  <2> QED BY <2>2, <2>5, <2>6 DEF Coming
<1>10. \A p, q \in Page : Started(p) /\ Started(q) => log[p] = log[q]
  <2>1. log \in [Page -> SUBSET Operation]
    BY DEF CalmState, Inv, TypeOK
  <2> QED BY <1>9, <2>1
<1> QED BY <1>2, <1>3, <1>4, <1>5, <1>6, <1>7, <1>8, <1>10

-----------------------------------------------------------------------------
\* What the pages do, in terms of the messages on their way.

\* new has been added to what p has written on c.
Wrote(c, new) ==
  /\ Up(c)' = Up(c) \union new
  /\ up[c] # <<>> => up'[c] # <<>> /\ Head(up'[c]) = Head(up[c])
  /\ \A e \in Connection \ {c} : up'[e] = up[e] /\ Up(e)' = Up(e)

OperationMessage(o) == [type |-> "operation", ops |-> {o}]
SnapshotMessage(ops) == [type |-> "snapshot", ops |-> ops]

\* What p writes for the message m.
Reply(p, m, new) ==
  \/ /\ m.type = "ack" /\ UNCHANGED <<log, pending>>
     /\ status' = [status EXCEPT ![p] = "syncing"]
     /\ new = {[type |-> "sync1", ops |-> Claimed(log[p])]}
  \/ /\ m.type = "sync1" /\ UNCHANGED <<log, pending, status>>
     /\ new = {[type |-> "sync2", ops |-> Missing(log[p], m.ops)]}
  \/ /\ m.type = "sync2"
     /\ log' = [log EXCEPT ![p] = @ \union m.ops] /\ pending' = [pending EXCEPT ![p] = <<>>]
     /\ status' = [status EXCEPT ![p] = "online"]
     /\ new = {OperationMessage(o) : o \in Items(pending[p])} \union {SnapshotMessage(log'[p])}
  \/ /\ m.type = "operation"
     /\ log' = [log EXCEPT ![p] = @ \union m.ops] /\ UNCHANGED <<pending, status>> /\ new = {}

LEMMA Hears ==
  ASSUME CalmState, Inv', NEW p \in Page, OnMessage(p), NEW c, c = websocket[p]
  PROVE  \E m \in Message, new \in SUBSET Message :
           /\ Down(c) = {m} \union Down(c)'
           /\ \A e \in Connection \ {c} : down'[e] = down[e] /\ Down(e)' = Down(e)
           /\ Wrote(c, new) /\ Reply(p, m, new)
<1>1. /\ up \in [Connection -> Seq(Message)] /\ down \in [Connection -> Seq(Message)]
      /\ pending \in [Page -> Seq(Operation)] /\ log \in [Page -> SUBSET Operation]
      /\ log' \in [Page -> SUBSET Operation]
  BY DEF CalmState, Inv, TypeOK
<1>2. c \in live /\ c \in Connection /\ p \in open
  BY Present
<1>3. /\ down[c] # <<>> /\ down' = [down EXCEPT ![c] = Tail(@)]
  BY DEF OnMessage
<1>4. PICK m : m = Head(down[c])
  OBVIOUS
<1>5. m \in Message /\ Items(down[c]) = {m} \union Items(Tail(down[c]))
  BY <1>1, <1>2, <1>3, <1>4, HeadItems
<1>6. /\ Down(c) = {m} \union Down(c)'
      /\ \A e \in Connection \ {c} : down'[e] = down[e] /\ Down(e)' = Down(e)
  BY <1>1, <1>2, <1>3, <1>5 DEF Down
<1>7. \/ m.type = "ack" /\ OnJoinAck(p, m.ops)
      \/ m.type = "sync1" /\ OnSync1(p, m.ops)
      \/ m.type = "sync2" /\ OnSync2(p, m.ops)
      \/ m.type = "operation" /\ OnOperation(p, m.ops)
  BY <1>4 DEF OnMessage
<1>8. ASSUME NEW k \in Message, up' = Write(c, <<k>>)
      PROVE  Wrote(c, {k}) /\ {k} \in SUBSET Message
  <2>1. <<k>> \in Seq(Message) /\ Items(<<k>>) = {k}
    BY DEF Items
  <2> QED BY <1>2, <1>8, <2>1, Speaks DEF CalmState, Wrote
<1>9. SUFFICES \E new \in SUBSET Message : Wrote(c, new) /\ Reply(p, m, new)
  BY <1>5, <1>6
<1>10. CASE m.type = "ack" /\ OnJoinAck(p, m.ops)
  <2>1. PICK k : k = [type |-> "sync1", ops |-> Claimed(log[p])]
    OBVIOUS
  <2>2. Claimed(log[p]) \subseteq Operation
    BY <1>1 DEF Claimed
  <2>3. k \in Message
    BY <2>1, <2>2 DEF Message
  <2>4. /\ up' = Write(c, <<k>>) /\ UNCHANGED <<log, pending>>
        /\ status' = [status EXCEPT ![p] = "syncing"]
    BY <1>10, <2>1 DEF OnJoinAck
  <2>5. Reply(p, m, {k})
    BY <1>10, <2>1, <2>4 DEF Reply
  <2> QED BY <1>8, <2>3, <2>4, <2>5
<1>11. CASE m.type = "sync1" /\ OnSync1(p, m.ops)
  <2>1. PICK k : k = [type |-> "sync2", ops |-> Missing(log[p], m.ops)]
    OBVIOUS
  <2>2. Missing(log[p], m.ops) \subseteq Operation
    BY <1>1 DEF Missing
  <2>3. k \in Message
    BY <2>1, <2>2 DEF Message
  <2>4. up' = Write(c, <<k>>) /\ UNCHANGED <<log, pending, status>>
    BY <1>11, <2>1 DEF OnSync1
  <2>5. Reply(p, m, {k})
    BY <1>11, <2>1, <2>4 DEF Reply
  <2> QED BY <1>8, <2>3, <2>4, <2>5
<1>12. CASE m.type = "sync2" /\ OnSync2(p, m.ops)
  <2>1. PICK q, ops, ms :
          q = pending[p] /\ ops = log'[p] /\ ms = Operations(q) \o Snapshot(ops)
    OBVIOUS
  <2>2. /\ up' = Write(c, ms) /\ log' = [log EXCEPT ![p] = @ \union m.ops]
        /\ pending' = [pending EXCEPT ![p] = <<>>]
        /\ status' = [status EXCEPT ![p] = "online"]
    BY <1>12, <2>1 DEF OnSync2
  <2>3. q \in Seq(Operation) /\ ops \in SUBSET Operation
    BY <1>1, <2>1
  <2>4. /\ ms \in Seq(Message)
        /\ Items(ms) = {OperationMessage(o) : o \in Items(q)} \union {SnapshotMessage(ops)}
    BY <2>1, <2>3, BatchItems DEF OperationMessage, SnapshotMessage
  <2>5. Wrote(c, Items(ms))
    BY <1>2, <2>2, <2>4, Speaks DEF CalmState, Wrote
  <2>6. Items(ms) \in SUBSET Message
    BY <2>4, ItemsTyped
  <2>7. Reply(p, m, Items(ms))
    BY <1>12, <2>1, <2>2, <2>4 DEF Reply
  <2> QED BY <2>5, <2>6, <2>7
<1>13. CASE m.type = "operation" /\ OnOperation(p, m.ops)
  <2>1. UNCHANGED <<up, pending, status>> /\ log' = [log EXCEPT ![p] = @ \union m.ops]
    BY <1>13 DEF OnOperation
  <2>2. Wrote(c, {}) /\ Reply(p, m, {})
    BY <1>13, <2>1 DEF Wrote, Up, Reply
  <2> QED BY <2>2
<1> QED BY <1>7, <1>10, <1>11, <1>12, <1>13

LEMMA Types ==
  ASSUME CalmState, Inv', NEW p \in Page, HandleInput(p), NEW c, c = websocket[p]
  PROVE  \E o \in Operation, new \in SUBSET Message :
           /\ o[1] = p /\ log' = [log EXCEPT ![p] = @ \union {o}] /\ Wrote(c, new)
           /\ \A q \in Page \ {p} : pending'[q] = pending[q]
           /\ IF status[p] = "online" /\ p \in open
              THEN new = {OperationMessage(o), SnapshotMessage(log'[p])} /\ UNCHANGED pending
              ELSE new = {} /\ Items(pending'[p]) = Items(pending[p]) \union {o}
<1>1. /\ up \in [Connection -> Seq(Message)] /\ pending \in [Page -> Seq(Operation)]
      /\ log' \in [Page -> SUBSET Operation]
  BY DEF CalmState, Inv, TypeOK
<1>2. c \in live /\ c \in Connection /\ p \in open
  BY Present
<1>3. PICK o \in Operation :
        /\ o[1] = p /\ log' = [log EXCEPT ![p] = @ \union {o}]
        /\ IF status[p] = "online" /\ p \in open
           THEN /\ up' = Write(websocket[p], Operations(<<o>>) \o Snapshot(log'[p]))
                /\ UNCHANGED pending
           ELSE /\ pending' = [pending EXCEPT ![p] = Append(@, o)]
                /\ UNCHANGED up
  <2>1. PICK n \in Nat :
          /\ <<p, n>> \in Operation /\ log' = [log EXCEPT ![p] = @ \union {<<p, n>>}]
          /\ IF status[p] = "online" /\ p \in open
             THEN /\ up' = Write(websocket[p], Operations(<<<<p, n>>>>) \o Snapshot(log'[p]))
                  /\ UNCHANGED pending
             ELSE /\ pending' = [pending EXCEPT ![p] = Append(@, <<p, n>>)]
                  /\ UNCHANGED up
    BY TypingAdds DEF CalmState, Inv
  <2> QED BY <2>1
<1>4. CASE status[p] = "online" /\ p \in open
  <2>1. PICK q, ops, ms : q = <<o>> /\ ops = log'[p] /\ ms = Operations(q) \o Snapshot(ops)
    OBVIOUS
  <2>2. up' = Write(c, ms) /\ UNCHANGED pending
    BY <1>3, <1>4, <2>1
  <2>3. q \in Seq(Operation) /\ ops \in SUBSET Operation /\ Items(q) = {o}
    BY <1>1, <2>1 DEF Items
  <2>4. /\ ms \in Seq(Message)
        /\ Items(ms) = {OperationMessage(o), SnapshotMessage(ops)}
    <3>1. /\ ms \in Seq(Message)
          /\ Items(ms) = {OperationMessage(x) : x \in Items(q)} \union {SnapshotMessage(ops)}
      BY <2>1, <2>3, BatchItems DEF OperationMessage, SnapshotMessage
    <3>2. {OperationMessage(x) : x \in Items(q)} = {OperationMessage(o)}
      BY <2>3
    <3> QED BY <3>1, <3>2
  <2>5. Wrote(c, Items(ms)) /\ Items(ms) \in SUBSET Message
    BY <1>2, <2>2, <2>4, Speaks, ItemsTyped DEF CalmState, Wrote
  <2> QED BY <1>3, <1>4, <2>1, <2>2, <2>4, <2>5
<1>5. CASE ~(status[p] = "online" /\ p \in open)
  <2>1. UNCHANGED up /\ pending' = [pending EXCEPT ![p] = Append(@, o)]
    BY <1>3, <1>5
  <2>2. Wrote(c, {})
    BY <2>1 DEF Wrote, Up
  <2>3. Items(pending'[p]) = Items(pending[p]) \union {o}
    <3>1. pending'[p] = Append(pending[p], o) /\ pending[p] \in Seq(Operation)
      BY <1>1, <2>1
    <3> QED BY <3>1, QueueItems
  <2> QED BY <1>1, <1>3, <1>5, <2>1, <2>2, <2>3
<1> QED BY <1>4, <1>5

-----------------------------------------------------------------------------
\* The connections and the handlers stay as they are supposed to.

LEMMA OpensNewest ==
  ASSUME CalmState, Inv', NEW p \in Page, Connect(p), Quiet
  PROVE  \E c \in Connection :
           /\ c = Newest' /\ c \notin DOMAIN owner /\ c # 0
           /\ up[c] = <<>> /\ down[c] = <<>> /\ handler[c] = "join"
           /\ DOMAIN owner' = DOMAIN owner \union {c} /\ owner'[c] = p
           /\ \A e \in DOMAIN owner : owner'[e] = owner[e]
           /\ websocket'[p] = c /\ \A q \in Page \ {p} : websocket'[q] = websocket[q]
           /\ up'[c] = <<JoinMessage>> /\ \A e \in Connection \ {c} : up'[e] = up[e]
           /\ live' = live \union {c} /\ open' = open \union {p}
           /\ status' = [status EXCEPT ![p] = "connecting"]
           /\ UNCHANGED <<log, pending, shut, down, handler, joined, receivers, message>>
<1>1. PICK c \in Connection :
        /\ c \notin DOMAIN owner /\ c # 0 /\ up[c] = <<>>
        /\ \A e \in DOMAIN owner : e < c
        /\ DOMAIN owner' = DOMAIN owner \union {c} /\ owner'[c] = p
        /\ \A e \in DOMAIN owner : owner'[e] = owner[e]
        /\ websocket' = [websocket EXCEPT ![p] = c]
        /\ up' = [up EXCEPT ![c] = <<JoinMessage>>]
        /\ live' = live \union {c}
  BY Opening DEF CalmState
<1>2. /\ Len(owner) \in Nat /\ DOMAIN owner = 1..Len(owner)
      /\ Len(owner') \in Nat /\ DOMAIN owner' = 1..Len(owner')
  <2>1. Len(owner) \in Nat /\ DOMAIN owner = 1..Len(owner)
    BY OwnersConnected DEF CalmState, Inv
  <2>2. owner' \in Seq(Page)
    BY DEF Inv, TypeOK
  <2> QED BY <2>1, <2>2, LenProperties
<1>3. c = Newest'
  <2>1. c \in 1..Len(owner') /\ Len(owner') \in 1..Len(owner')
    BY <1>1, <1>2
  <2>2. Len(owner') = c \/ Len(owner') < c
    BY <1>1, <1>2, <2>1
  <2>3. c <= Len(owner') /\ c \in Nat
    BY <1>2, <2>1
  <2>4. c = Len(owner')
    <3>1. PICK n \in Nat : n = Len(owner')
      BY <1>2
    <3>2. (n = c \/ n < c) /\ c <= n
      BY <2>2, <2>3, <3>1
    <3>3. n = c
      BY <2>3, <3>2
    <3> QED BY <3>1, <3>3
  <2> QED BY <2>4 DEF Newest
<1>4. down[c] = <<>> /\ handler[c] = "join"
  BY <1>1 DEF CalmState, HandlersInv
<1>5. /\ websocket \in [Page -> 0..MaxConnections] /\ up \in [Connection -> Seq(Message)]
  BY DEF CalmState, Inv, TypeOK
<1>6. /\ websocket'[p] = c /\ \A q \in Page \ {p} : websocket'[q] = websocket[q]
      /\ up'[c] = <<JoinMessage>> /\ \A e \in Connection \ {c} : up'[e] = up[e]
  BY <1>1, <1>5
<1>7. /\ open' = open \union {p} /\ status' = [status EXCEPT ![p] = "connecting"]
      /\ UNCHANGED <<log, pending, shut, down, handler, joined, receivers, message>>
  BY DEF Connect, relay
<1> QED BY <1>1, <1>3, <1>4, <1>6, <1>7

LEMMA LinkStep ==
  ASSUME CalmState, Inv', [Next]_vars
  PROVE  LinkInv'
<1>1. /\ status \in [Page -> {"disconnected", "connecting", "syncing", "online"}]
      /\ log \in [Page -> SUBSET Operation] /\ websocket \in [Page -> 0..MaxConnections]
      /\ live \subseteq DOMAIN owner /\ shut \subseteq Page /\ open \subseteq Page
      /\ \A c \in DOMAIN owner : owner[c] \in Page
  <2>1. owner \in Seq(Page)
    BY DEF CalmState, Inv, TypeOK
  <2>2. \A c \in DOMAIN owner : owner[c] \in Page
    BY <2>1, LenProperties, ElementOfSeq
  <2> QED BY <2>2 DEF CalmState, Inv, TypeOK
<1>2. ASSUME UNCHANGED <<websocket, open, shut, owner, live>>,
             NEW p \in Page, Started(p), status'[p] # "disconnected",
             \A q \in Page \ {p} : status'[q] = status[q] /\ log'[q] = log[q]
      PROVE  LinkInv'
  BY <1>1, <1>2 DEF CalmState, LinkInv, Started
<1>3. ASSUME UNCHANGED <<websocket, open, shut, owner, live, status, log>>
      PROVE  LinkInv'
  BY <1>3 DEF CalmState, LinkInv, Started
<1>4. CASE UNCHANGED vars
  BY <1>3, <1>4 DEF vars, page, network
<1>5. ASSUME NEW p \in Page, Connect(p), websocket[p] = 0, Quiet
      PROVE  LinkInv'
  <2>1. PICK c \in Connection :
          /\ c \notin DOMAIN owner /\ c # 0
          /\ DOMAIN owner' = DOMAIN owner \union {c} /\ owner'[c] = p
          /\ \A e \in DOMAIN owner : owner'[e] = owner[e]
          /\ websocket'[p] = c /\ \A q \in Page \ {p} : websocket'[q] = websocket[q]
          /\ live' = live \union {c} /\ open' = open \union {p}
          /\ status' = [status EXCEPT ![p] = "connecting"] /\ UNCHANGED <<log, shut>>
    BY <1>5, OpensNewest
  <2>2. status'[p] = "connecting" /\ \A q \in Page \ {p} : status'[q] = status[q]
    BY <1>1, <2>1
  <2>3. p \notin shut
    BY <1>5 DEF Connect
  <2>4. \A e \in DOMAIN owner : owner[e] # p
    BY <1>1, <1>5, CollabAssumption, OwnersConnected
       DEF CalmState, LinkInv, Inv, Connection
  <2>5. \A q \in Page : websocket'[q] = 0 <=> status'[q] = "disconnected"
    BY <2>1, <2>2 DEF CalmState, LinkInv
  <2>6. \A q \in Page : Started(q)' <=> q \in open'
    BY <2>1, <2>3 DEF CalmState, LinkInv, Started
  <2>7. \A q \in Page : websocket'[q] = 0 => log'[q] = {} /\ q \notin shut'
    BY <2>1 DEF CalmState, LinkInv
  <2>8. \A q \in open' : websocket'[q] \in live'
    BY <1>1, <2>1 DEF CalmState, LinkInv
  <2>9. \A e \in DOMAIN owner' : websocket'[owner'[e]] = e
    BY <1>1, <2>1, <2>4 DEF CalmState, LinkInv
  <2>10. \A e \in live' : Started(owner[e])'
    <3>1. websocket'[p] # 0 /\ p \notin shut'
      BY <2>1, <2>3
    <3>2. \A e \in live : websocket'[owner[e]] # 0 /\ owner[e] \notin shut'
      BY <1>1, <2>1, <2>4 DEF CalmState, LinkInv, Started
    <3>3. \A e \in live' : websocket'[owner'[e]] # 0 /\ owner'[e] \notin shut'
      BY <1>1, <2>1, <3>1, <3>2
    <3> QED BY <3>3 DEF Started
  <2> QED BY <2>5, <2>6, <2>7, <2>8, <2>9, <2>10 DEF LinkInv
<1>6. ASSUME NEW p \in Page, OnMessage(p)
      PROVE  LinkInv'
  <2>1. Started(p)
    BY <1>6, Present
  <2>2. UNCHANGED <<websocket, open, shut, owner, live>>
    BY <1>6 DEF OnMessage
  <2>3. PICK ops : OnJoinAck(p, ops) \/ OnSync1(p, ops) \/ OnSync2(p, ops) \/ OnOperation(p, ops)
    BY <1>6, Received DEF CalmState, Inv
  <2>4. status[p] # "disconnected"
    BY <2>1 DEF CalmState, LinkInv, Started
  <2>5. /\ status'[p] # "disconnected"
        /\ \A q \in Page \ {p} : status'[q] = status[q] /\ log'[q] = log[q]
    BY <1>1, <2>3, <2>4 DEF OnJoinAck, OnSync1, OnSync2, OnOperation
  <2> QED BY <1>2, <2>1, <2>2, <2>5
<1>7. ASSUME NEW p \in Page, HandleInput(p)
      PROVE  LinkInv'
  <2>1. PICK o \in Operation : log' = [log EXCEPT ![p] = @ \union {o}]
    BY <1>7, Types
  <2>2. Started(p) /\ UNCHANGED <<websocket, open, shut, owner, live, status>>
    BY <1>7 DEF HandleInput
  <2>3. status[p] # "disconnected"
    BY <2>2 DEF CalmState, LinkInv, Started
  <2>4. \A q \in Page \ {p} : log'[q] = log[q]
    BY <1>1, <2>1
  <2> QED BY <1>2, <2>2, <2>3, <2>4
<1>8. ASSUME NEW p \in Page, Unmount(p)
      PROVE  LinkInv'
  <2>1. /\ Started(p) /\ shut' = shut \union {p} /\ open' = open \ {p}
        /\ live' = live \ {websocket[p]} /\ UNCHANGED <<log, status, websocket, owner>>
    BY <1>8 DEF Unmount
  <2>2. \A q \in Page : Started(q)' <=> Started(q) /\ q # p
    BY <1>1, <2>1 DEF Started
  <2>3. \A e \in live' : owner[e] # p /\ owner[e] \in Page
    BY <1>1, <2>1 DEF CalmState, LinkInv
  <2>4. \A q \in open' : websocket[q] # websocket[p] /\ q \in open
    <3>1. \A q \in open : websocket[q] \in live /\ owner[websocket[q]] = q
      BY <1>1 DEF CalmState, LinkInv, SocketInv
    <3>2. owner[websocket[p]] = p
      BY <2>1 DEF CalmState, SocketInv, Started
    <3> QED BY <2>1, <3>1, <3>2
  <2>5. \A q \in Page : websocket[q] = 0 => q \notin shut'
    BY <2>1 DEF CalmState, LinkInv, Started
  <2> QED BY <2>1, <2>2, <2>3, <2>4, <2>5 DEF CalmState, LinkInv
<1>9. ASSUME NEW c \in Connection,
             \/ Admits(c) \/ SendAck(c) \/ SaveSnapshot(c) \/ Receive(c) \/ Answer(c)
             \/ Leave(c)
      PROVE  LinkInv'
  <2>1. UNCHANGED <<websocket, open, shut, owner, status, log>>
    BY <1>9 DEF Admits, SendAck, SaveSnapshot, Receive, Answer, Leave, page
  <2>2. UNCHANGED live
    BY <1>9 DEF Admits, SendAck, SaveSnapshot, Receive, Answer, Leave
  <2> QED BY <1>3, <2>1, <2>2
<1>10. ASSUME NEW c \in Connection, NEW d \in Connection, Forward(c, d)
       PROVE  LinkInv'
  BY <1>3, <1>10 DEF Forward, page
<1>11. DOMAIN owner \subseteq Connection /\ live \subseteq Connection
  BY <1>1, OwnersConnected DEF CalmState, Inv
<1> QED BY <1>4, <1>5, <1>6, <1>7, <1>8, <1>9, <1>10, <1>11, CalmSteps

\* Nothing happens to a page that has left, but that its handler ends.
LEMMA HandlersKeep ==
  ASSUME CalmState, UNCHANGED <<owner, live>>,
         \A e \in Connection \ live :
           /\ up'[e] = up[e] /\ down'[e] = down[e]
           /\ handler'[e] = handler[e] \/ (e \in DOMAIN owner /\ handler'[e] = "done"),
         \A e \in live :
           \/ handler'[e] \in {"read", "forward"}
           \/ e = Newest /\ handler'[e] \in {"join", "ack", "answer"},
         joined' \subseteq live \/ Still',
         \A e \in Connection : receivers'[e] \subseteq live
  PROVE  HandlersInv'
<1>1. DOMAIN owner \subseteq Connection /\ live \subseteq DOMAIN owner /\ Newest' = Newest
  BY OwnersConnected DEF CalmState, Inv, TypeOK, Newest
<1> QED BY <1>1 DEF CalmState, HandlersInv

\* A connection on which something happens is not still.
LEMMA NotStill ==
  ASSUME CalmState, NEW c \in live,
         up[c] # <<>> \/ down[c] # <<>> \/ handler[c] \notin {"read", "done"}
  PROVE  joined \subseteq live
<1>1. c \in DOMAIN owner
  BY DEF CalmState, Inv, TypeOK
<1> QED BY <1>1 DEF CalmState, HandlersInv, Still

LEMMA HandlersStep ==
  ASSUME CalmState, Inv', [Next]_vars
  PROVE  HandlersInv'
<1>1. /\ handler \in [Connection ->
                        {"join", "ack", "read", "forward", "answer", "leave", "done"}]
      /\ receivers \in [Connection -> SUBSET Connection] /\ live \subseteq DOMAIN owner
      /\ up \in [Connection -> Seq(Message)] /\ down \in [Connection -> Seq(Message)]
      /\ joined \subseteq DOMAIN owner /\ DOMAIN owner \subseteq Connection
      /\ live \subseteq Connection
  BY OwnersConnected DEF CalmState, Inv, TypeOK
<1>2. /\ \A e \in live : \/ handler[e] \in {"read", "forward"}
                         \/ e = Newest /\ handler[e] \in {"join", "ack", "answer"}
      /\ \A e \in Connection : receivers[e] \subseteq live
      /\ joined \subseteq live \/ Still
  BY DEF CalmState, HandlersInv
<1>3. CASE UNCHANGED vars
  <2>1. UNCHANGED <<owner, live, handler, up, down, joined, receivers>>
    BY <1>3 DEF vars, network, relay
  <2>2. Still => Still'
    BY <2>1 DEF Still
  <2> QED BY <1>2, <2>1, <2>2, HandlersKeep
\* a handler goes on
<1>4. ASSUME NEW c \in live, UNCHANGED <<owner, live>>,
             \A e \in Connection \ {c} : handler'[e] = handler[e] /\ up'[e] = up[e],
             \A e \in Connection \ live : down'[e] = down[e],
             \/ handler'[c] \in {"read", "forward"}
             \/ c = Newest /\ handler'[c] \in {"join", "ack", "answer"},
             joined' \subseteq live,
             \A e \in Connection : receivers'[e] \subseteq live
      PROVE  HandlersInv'
  BY <1>1, <1>2, <1>4, HandlersKeep
<1>5. ASSUME NEW p \in Page, Connect(p), Quiet
      PROVE  HandlersInv'
  <2>1. PICK c \in Connection :
          /\ c = Newest' /\ c \notin DOMAIN owner
          /\ down[c] = <<>> /\ handler[c] = "join"
          /\ DOMAIN owner' = DOMAIN owner \union {c}
          /\ \A e \in Connection \ {c} : up'[e] = up[e]
          /\ live' = live \union {c}
          /\ UNCHANGED <<down, handler, joined, receivers>>
    BY <1>5, OpensNewest
  <2>2. /\ joined \subseteq live
        /\ \A e \in Connection : up[e] = <<>> /\ down[e] = <<>> /\ receivers[e] = {}
        /\ \A e \in live : handler[e] = "read"
        /\ \A e \in DOMAIN owner \ live : handler[e] = "done"
    BY <1>5, QuietState
  <2> QED BY <1>1, <2>1, <2>2 DEF CalmState, HandlersInv
<1>6. ASSUME NEW p \in Page, OnMessage(p)
      PROVE  HandlersInv'
  <2>1. PICK c \in live : c = websocket[p]
    BY <1>6, Present
  <2>2. PICK new \in SUBSET Message :
          /\ \A e \in Connection \ {c} : down'[e] = down[e]
          /\ Wrote(c, new)
    BY <1>6, <2>1, Hears
  <2>3. down[c] # <<>> /\ UNCHANGED <<owner, live, handler, joined, receivers>>
    BY <1>6, <2>1 DEF OnMessage, relay
  <2>4. joined \subseteq live
    BY <2>3, NotStill
  <2> QED BY <1>2, <1>4, <2>2, <2>3, <2>4 DEF Wrote
<1>7. ASSUME NEW p \in Page, HandleInput(p)
      PROVE  HandlersInv'
  <2>1. PICK c \in live : c = websocket[p]
    BY <1>7, Present
  <2>2. PICK new \in SUBSET Message : Wrote(c, new)
    BY <1>7, <2>1, Types
  <2>3. MayType /\ UNCHANGED <<owner, live, handler, joined, receivers, down>>
    BY <1>7 DEF HandleInput, relay
  <2>4. joined \subseteq live
    <3>1. discipline \in {"orderly", "turns"}
      BY CollabAssumption DEF CalmState, Inv, TypeOK
    <3>2. CASE discipline = "orderly"
      <4>1. \A e \in DOMAIN owner : e \in live \/ handler[e] = "done"
        BY <2>3, <3>2 DEF MayType, Noticed
      <4> QED BY <1>1, <4>1 DEF CalmState, HubInv
    <3>3. CASE discipline = "turns"
      BY <2>3, <3>3, QuietState DEF MayType
    <3> QED BY <3>1, <3>2, <3>3
  <2> QED BY <1>2, <1>4, <2>2, <2>3, <2>4 DEF Wrote
<1>8. ASSUME NEW p \in Page, Unmount(p), Quiet
      PROVE  HandlersInv'
  <2>1. /\ live' = live \ {websocket[p]} /\ down' = [down EXCEPT ![websocket[p]] = <<>>]
        /\ UNCHANGED <<owner, up, handler, joined, receivers>>
    BY <1>8 DEF Unmount, relay
  <2>2. /\ joined \subseteq live
        /\ \A e \in Connection : up[e] = <<>> /\ down[e] = <<>> /\ receivers[e] = {}
        /\ \A e \in live : handler[e] = "read"
        /\ \A e \in DOMAIN owner \ live : handler[e] = "done"
    BY <1>8, QuietState
  <2>3. \A e \in Connection : up'[e] = <<>> /\ down'[e] = <<>> /\ receivers'[e] = {}
    BY <1>1, <2>1, <2>2
  <2>4. \A e \in DOMAIN owner : handler[e] \in {"read", "done"}
    BY <2>2
  <2>5. Still'
    BY <1>1, <2>1, <2>3, <2>4 DEF Still
  <2>6. \A e \in Connection \ DOMAIN owner : handler[e] = "join"
    BY DEF CalmState, HandlersInv
  <2> QED BY <1>1, <2>1, <2>2, <2>3, <2>4, <2>5, <2>6 DEF HandlersInv
<1>9. ASSUME NEW c \in live, Admits(c)
      PROVE  HandlersInv'
  <2>1. /\ handler[c] = "join" /\ up' = [up EXCEPT ![c] = Tail(@)]
        /\ handler' = [handler EXCEPT ![c] = "ack"] /\ joined' = joined \union {c}
        /\ UNCHANGED <<owner, live, down, receivers>>
    BY <1>9 DEF Admits, Goto
  <2>2. joined \subseteq live /\ c = Newest
    BY <1>2, <2>1, NotStill
  <2>3. /\ \A e \in Connection \ {c} : handler'[e] = handler[e] /\ up'[e] = up[e]
        /\ handler'[c] = "ack"
    BY <1>1, <2>1
  <2> QED BY <1>2, <1>4, <2>1, <2>2, <2>3
<1>10. ASSUME NEW c \in live, SendAck(c) \/ Answer(c)
       PROVE  HandlersInv'
  <2>1. PICK m :
          /\ handler[c] \in {"ack", "answer"} /\ Delivered(c, m)
          /\ handler' = [handler EXCEPT ![c] = "read"]
          /\ UNCHANGED <<owner, live, up, receivers, joined>>
    BY <1>10 DEF SendAck, Answer, Goto, Fails
  <2>2. joined \subseteq live
    BY <2>1, NotStill
  <2>3. \A e \in Connection \ live : down'[e] = down[e]
    BY <1>1, <2>1 DEF Delivered
  <2>4. /\ \A e \in Connection \ {c} : handler'[e] = handler[e] /\ up'[e] = up[e]
        /\ handler'[c] = "read"
    BY <1>1, <2>1
  <2> QED BY <1>2, <1>4, <2>1, <2>2, <2>3, <2>4
<1>11. ASSUME NEW c \in live, SaveSnapshot(c)
       PROVE  HandlersInv'
  <2>1. /\ up[c] # <<>> /\ up' = [up EXCEPT ![c] = Tail(@)]
        /\ UNCHANGED <<owner, live, down, handler, joined, receivers>>
    BY <1>11 DEF SaveSnapshot, relay
  <2>2. joined \subseteq live
    BY <2>1, NotStill
  <2>3. \A e \in Connection \ {c} : up'[e] = up[e]
    BY <1>1, <2>1
  <2> QED BY <1>2, <1>4, <2>1, <2>2, <2>3
<1>12. ASSUME NEW c \in live, Receive(c)
       PROVE  HandlersInv'
  <2>1. PICK l \in {"forward", "answer", "read"} :
          /\ up[c] # <<>> /\ up' = [up EXCEPT ![c] = Tail(@)]
          /\ l = "answer" => Head(up[c]).type = "sync1"
          /\ handler' = [handler EXCEPT ![c] = l]
          /\ receivers' = [receivers EXCEPT ![c] = joined \ {c}]
          /\ UNCHANGED <<owner, live, down, joined>>
    BY <1>12 DEF Receive, Goto
  <2>2. joined \subseteq live
    BY <2>1, NotStill
  <2>3. /\ \A e \in Connection \ {c} : handler'[e] = handler[e] /\ up'[e] = up[e]
        /\ handler'[c] = l /\ \A e \in Connection : receivers'[e] \subseteq live
    BY <1>1, <1>2, <2>1, <2>2
  <2>4. l = "answer" => c = Newest
    <3>1. Head(up[c]) \in Up(c)
      BY <1>1, <2>1, Reads DEF CalmState
    <3> QED BY <1>1, <2>1, <3>1 DEF CalmState, AskingInv
  <2> QED BY <1>4, <2>1, <2>2, <2>3, <2>4
<1>13. ASSUME NEW c \in DOMAIN owner \ live, Leave(c)
       PROVE  HandlersInv'
  <2>1. /\ handler' = [handler EXCEPT ![c] = "done"] /\ joined' = joined \ {c}
        /\ up' = [up EXCEPT ![c] = <<>>] /\ UNCHANGED <<owner, live, down, receivers>>
    BY <1>13 DEF Leave, Goto
  <2>2. up[c] = <<>>
    BY DEF CalmState, HandlersInv
  <2>3. /\ handler'[c] = "done" /\ \A e \in Connection \ {c} : handler'[e] = handler[e]
        /\ \A e \in Connection : up'[e] = up[e]
    BY <1>1, <2>1, <2>2
  <2>4. Still => Still'
    BY <2>1, <2>3 DEF Still
  <2> QED BY <1>1, <1>2, <2>1, <2>3, <2>4, HandlersKeep
<1>14. ASSUME NEW c \in live, NEW d \in live, Forward(c, d)
       PROVE  HandlersInv'
  <2>1. /\ handler[c] = "forward" /\ Delivered(d, message[c])
        /\ receivers' = [receivers EXCEPT ![c] = @ \ {d}]
        /\ handler' = handler \/ handler' = [handler EXCEPT ![c] = "read"]
        /\ UNCHANGED <<owner, live, up, joined>>
    BY <1>14 DEF Forward, Goto
  <2>2. joined \subseteq live
    BY <2>1, NotStill
  <2>3. \A e \in Connection \ live : down'[e] = down[e]
    BY <1>1, <2>1 DEF Delivered
  <2>4. /\ \A e \in Connection \ {c} : handler'[e] = handler[e] /\ up'[e] = up[e]
        /\ handler'[c] \in {"read", "forward"}
    BY <1>1, <2>1
  <2>5. \A e \in Connection : receivers'[e] \subseteq live
    BY <1>1, <1>2, <2>1
  <2> QED BY <1>4, <2>1, <2>2, <2>3, <2>4, <2>5
<1> QED BY <1>3, <1>5, <1>6, <1>7, <1>8, <1>9, <1>10, <1>11, <1>12, <1>13, <1>14, CalmSteps

-----------------------------------------------------------------------------
\* What is asked and what is carried.

\* The page at c has what it writes now.
Proper(c, m) ==
  /\ m.type # "ack" /\ Brought(m) \subseteq log'[owner[c]]
  /\ m.type = "sync1" => c = Newest /\ m.ops \subseteq log'[owner[c]]

\* What a step that opens and closes no page may write, take and deliver.
Passing ==
  /\ UNCHANGED <<owner, websocket, shut>>
  /\ \A c \in DOMAIN owner : handler'[c] = "join" =>
       handler[c] = "join" /\ (up[c] # <<>> => up'[c] # <<>> /\ Head(up'[c]) = Head(up[c]))
  /\ \A c \in DOMAIN owner : \A m \in Up(c)' : m \in Up(c) \/ Proper(c, m)
  /\ \A c \in Connection :
       \/ message'[c] = message[c] /\ handler'[c] = handler[c]
       \/ message'[c] = NoMessage /\ handler'[c] # "forward"
       \/ message'[c] \in Up(c)
  /\ \A c \in Connection : handler'[c] = "answer" => handler[c] = "answer" \/ Lonely(c)
  /\ \A c \in Connection : \A m \in Down(c)' :
       \/ m \in Down(c)
       \/ \E e \in live : handler[e] = "forward" /\ m = message[e]
       \/ m.type = "ack" /\ c = Newest
       \/ m.type = "sync2" /\ Lonely(c)

LEMMA NothingBrought == \A m : m.type \notin {"operation", "sync2"} => Brought(m) = {}
BY DEF Brought

LEMMA MessagesKeep ==
  ASSUME CalmState, Inv', HandlersInv', [Next]_vars, Passing
  PROVE  AskingInv' /\ CarriedInv'
<1>1. /\ \A c \in Connection : c \notin DOMAIN owner => Up(c) = {} /\ Up(c)' = {} /\ Down(c)' = {}
      /\ DOMAIN owner \subseteq Connection /\ live \subseteq DOMAIN owner
      /\ \A c \in DOMAIN owner : owner[c] \in Page /\ Newest \in DOMAIN owner
  <2>1. owner \in Seq(Page) /\ Len(owner) \in Nat /\ DOMAIN owner = 1..Len(owner)
    BY OwnersConnected DEF CalmState, Inv, TypeOK
  <2>2. \A c \in DOMAIN owner : owner[c] \in Page /\ Newest \in DOMAIN owner
    BY <2>1, ElementOfSeq DEF Newest
  <2>3. \A c \in Connection : c \notin DOMAIN owner =>
          up[c] = <<>> /\ up'[c] = <<>> /\ down'[c] = <<>>
    BY DEF CalmState, HandlersInv, Passing
  <2>4. \A c \in Connection : c \notin DOMAIN owner => Up(c) = {} /\ Up(c)' = {} /\ Down(c)' = {}
    BY <2>3, NoItems DEF Up, Down
  <2> QED BY <2>2, <2>4, OwnersConnected DEF CalmState, Inv, TypeOK
<1>2. \A p \in Page : log[p] \subseteq log'[p]
  BY LogsGrow DEF CalmState, Inv
<1>3. Newest' = Newest /\ owner' = owner /\ \A p \in Page : Started(p)' <=> Started(p)
  BY DEF Passing, Newest, Started
<1>4. NoMessage.type = "ack"
  BY DEF NoMessage
<1>5. \A c \in Connection : message[c] # NoMessage => handler[c] = "forward" /\ c \in live
  <2>1. \A c \in Connection : message[c] # NoMessage => handler[c] = "forward"
    BY DEF CalmState, HubInv
  <2>2. \A c \in Connection : handler[c] = "forward" => c \in live
    BY DEF CalmState, HandlersInv
  <2> QED BY <2>1, <2>2
\* what is asked
<1>6. \A c \in DOMAIN owner : handler'[c] = "join" => up'[c] # <<>> /\ Head(up'[c]).type = "join"
  BY DEF CalmState, AskingInv, Passing
<1>7. \A c \in Connection : \A m \in Up(c)' :
        m.type # "ack" /\ (m.type = "sync1" => c = Newest)
  BY <1>1 DEF CalmState, AskingInv, Passing, Proper
<1>8. \A c \in Connection : handler'[c] = "forward" => message'[c].type # "ack"
  BY DEF CalmState, AskingInv, Passing
<1>9. \A c \in Connection : \A m \in Down(c)' : m.type = "ack" => c = Newest
  <2>1. ASSUME NEW c \in Connection, NEW m \in Down(c)', m.type = "ack"
        PROVE  c = Newest
    <3>1. CASE \E e \in live : handler[e] = "forward" /\ m = message[e]
      BY <1>1, <2>1, <3>1 DEF CalmState, AskingInv
    <3> QED BY <2>1, <3>1 DEF CalmState, AskingInv, Passing
  <2> QED BY <2>1
<1>10. ASSUME NEW c \in Connection, NEW m \in Up(c) \union {message[c]} \union Down(c),
              m.type = "sync1"
       PROVE  m.ops \subseteq log'[owner[Newest]]
  <2>1. m.ops \subseteq log[owner[Newest]]
    BY <1>10 DEF CalmState, AskingInv
  <2>2. c \in DOMAIN owner
    <3>1. CASE m = message[c]
      BY <1>1, <1>4, <1>5, <1>10, <3>1
    <3>2. CASE m \in Up(c) \union Down(c)
      <4>1. up[c] # <<>> \/ down[c] # <<>>
        BY <3>2, NoItems DEF Up, Down
      <4> QED BY <4>1 DEF CalmState, HandlersInv
    <3> QED BY <3>1, <3>2
  <2> QED BY <1>1, <1>2, <2>1, <2>2
<1>11. \A c \in Connection : \A m \in Up(c)' :
         m.type = "sync1" => m.ops \subseteq log'[owner[Newest]]
  BY <1>1, <1>10 DEF Passing, Proper
<1>12. \A c \in Connection :
         message'[c].type = "sync1" => message'[c].ops \subseteq log'[owner[Newest]]
  BY <1>4, <1>10 DEF Passing
<1>13. \A c \in Connection : \A m \in Down(c)' :
         m.type = "sync1" => m.ops \subseteq log'[owner[Newest]]
  <2>1. ASSUME NEW c \in Connection, NEW m \in Down(c)', m.type = "sync1"
        PROVE  m.ops \subseteq log'[owner[Newest]]
    <3>1. CASE \E e \in live : handler[e] = "forward" /\ m = message[e]
      BY <1>1, <1>10, <2>1, <3>1
    <3> QED BY <1>10, <2>1, <3>1 DEF Passing
  <2> QED BY <2>1
<1>14. AskingInv'
  BY <1>3, <1>6, <1>7, <1>8, <1>9, <1>11, <1>12, <1>13 DEF AskingInv
\* what is carried
<1>15. ASSUME NEW c \in DOMAIN owner, NEW m \in Up(c)' \union {message'[c]}
       PROVE  Brought(m) \subseteq log'[owner[c]]
  <2>1. \A k \in Up(c) \union {message[c]} : Brought(k) \subseteq log'[owner[c]]
    BY <1>1, <1>2 DEF CalmState, CarriedInv
  <2>2. Brought(NoMessage) = {}
    BY <1>4, NothingBrought
  <2> QED BY <1>1, <1>15, <2>1, <2>2 DEF Passing, Proper
<1>16. \A c \in Connection : Lonely(c) => Lonely(c)'
  BY <1>3 DEF Lonely, Passing
<1>17. \A c \in DOMAIN owner : handler'[c] = "answer" => Lonely(c)'
  BY <1>1, <1>16 DEF CalmState, CarriedInv, Passing
<1>18. ASSUME NEW c \in DOMAIN owner, NEW m \in Down(c)', NEW o \in Brought(m)
       PROVE  Lonely(c)' \/ \E s \in Page : Started(s)' /\ o \in log'[s]
  <2>1. CASE m \in Down(c)
    BY <1>1, <1>2, <1>3, <1>16, <1>18, <2>1 DEF CalmState, CarriedInv
  <2>2. CASE \E e \in live : handler[e] = "forward" /\ m = message[e]
    <3>1. PICK e \in live : m = message[e]
      BY <2>2
    <3>2. owner[e] \in Page /\ Started(owner[e]) /\ o \in log[owner[e]]
      BY <1>1, <1>18, <3>1 DEF CalmState, CarriedInv, LinkInv
    <3> QED BY <1>2, <1>3, <3>2
  <2>3. CASE m.type = "ack"
    BY <1>18, <2>3, NothingBrought
  <2>4. CASE Lonely(c)
    BY <1>1, <1>16, <2>4
  <2> QED BY <1>1, <1>18, <2>1, <2>2, <2>3, <2>4 DEF Passing
<1>19. CarriedInv'
  BY <1>3, <1>15, <1>17, <1>18 DEF CarriedInv
<1> QED BY <1>14, <1>19

LEMMA PagesPass ==
  ASSUME CalmState, Inv', [Next]_vars, NEW p \in Page, OnMessage(p) \/ HandleInput(p)
  PROVE  Passing
<1>1. PICK c \in live :
        /\ c = websocket[p] /\ c \in Connection /\ c \in DOMAIN owner /\ owner[c] = p
        /\ Started(p)
  BY Present
<1>2. /\ log \in [Page -> SUBSET Operation] /\ log' \in [Page -> SUBSET Operation]
      /\ DOMAIN owner \subseteq Connection
  BY OwnersConnected DEF CalmState, Inv, TypeOK
<1>3. log[p] \subseteq log'[p] /\ Items(pending[p]) \subseteq log[p]
  BY LogsGrow, PendingKnown DEF CalmState, Inv
<1>4. ASSUME NEW o \in log'[p]
      PROVE  Proper(c, OperationMessage(o))
  BY <1>1, <1>4 DEF Proper, OperationMessage, Brought
<1>5. \A ops : Proper(c, SnapshotMessage(ops))
  BY <1>1 DEF Proper, SnapshotMessage, Brought
<1>6. UNCHANGED <<owner, websocket, shut, handler, message>>
  BY DEF OnMessage, HandleInput, relay
<1>7. ASSUME NEW new, Wrote(c, new), \A m \in new : Proper(c, m),
             \A e \in Connection : Down(e)' \subseteq Down(e)
      PROVE  Passing
  BY <1>1, <1>2, <1>6, <1>7 DEF Passing, Wrote
<1>8. CASE OnMessage(p)
  <2>1. PICK m \in Message, new \in SUBSET Message :
          /\ Down(c) = {m} \union Down(c)'
          /\ \A e \in Connection \ {c} : Down(e)' = Down(e)
          /\ Wrote(c, new) /\ Reply(p, m, new)
    BY <1>1, <1>8, Hears
  <2>2. \A e \in Connection : Down(e)' \subseteq Down(e)
    BY <2>1
  <2>3. CASE m.type = "ack"
    <3>1. new = {[type |-> "sync1", ops |-> Claimed(log[p])]}
      BY <2>1, <2>3 DEF Reply
    <3>2. c = Newest
      BY <1>1, <2>1, <2>3 DEF CalmState, AskingInv
    <3>3. Claimed(log[p]) \subseteq log'[p]
      BY <1>3 DEF Claimed
    <3>4. Proper(c, [type |-> "sync1", ops |-> Claimed(log[p])])
      BY <1>1, <3>2, <3>3 DEF Proper, Brought
    <3> QED BY <1>7, <2>1, <2>2, <3>1, <3>4
  <2>4. CASE m.type = "sync1"
    <3>1. new = {[type |-> "sync2", ops |-> Missing(log[p], m.ops)]}
      BY <2>1, <2>4 DEF Reply
    <3>2. Missing(log[p], m.ops) \subseteq log'[p]
      BY <1>3 DEF Missing
    <3>3. Proper(c, [type |-> "sync2", ops |-> Missing(log[p], m.ops)])
      BY <1>1, <3>2 DEF Proper, Brought
    <3> QED BY <1>7, <2>1, <2>2, <3>1, <3>3
  <2>5. CASE m.type = "sync2"
    <3>1. new = {OperationMessage(o) : o \in Items(pending[p])} \union {SnapshotMessage(log'[p])}
      BY <2>1, <2>5 DEF Reply
    <3>2. \A o \in Items(pending[p]) : Proper(c, OperationMessage(o))
      BY <1>3, <1>4
    <3>3. \A k \in new : Proper(c, k)
      BY <1>5, <3>1, <3>2
    <3> QED BY <1>7, <2>1, <2>2, <3>3
  <2>6. CASE m.type = "operation"
    <3>1. new = {}
      BY <2>1, <2>6 DEF Reply
    <3> QED BY <1>7, <2>1, <2>2, <3>1
  <2> QED BY <2>1, <2>3, <2>4, <2>5, <2>6 DEF Reply
<1>9. CASE HandleInput(p)
  <2>1. PICK o \in Operation, new \in SUBSET Message :
          /\ log' = [log EXCEPT ![p] = @ \union {o}] /\ Wrote(c, new)
          /\ new \subseteq {OperationMessage(o), SnapshotMessage(log'[p])}
    BY <1>1, <1>9, Types
  <2>2. o \in log'[p]
    BY <1>2, <2>1
  <2>3. UNCHANGED down
    BY <1>9 DEF HandleInput
  <2>4. \A e \in Connection : Down(e)' = Down(e)
    BY <2>3 DEF Down
  <2>5. \A k \in new : Proper(c, k)
    BY <1>4, <1>5, <2>1, <2>2
  <2> QED BY <1>7, <2>1, <2>4, <2>5
<1> QED BY <1>8, <1>9

\* A started page that is not alone has a session, but for the newest, which may still join.
LEMMA Joined ==
  ASSUME CalmState, NEW s \in Page, Started(s)
  PROVE  /\ websocket[s] \in live /\ websocket[s] \in Connection /\ owner[websocket[s]] = s
         /\ websocket[s] \in joined \/ (websocket[s] = Newest /\ handler[websocket[s]] = "join")
<1>1. /\ websocket[s] \in live /\ live \subseteq DOMAIN owner /\ DOMAIN owner \subseteq Connection
      /\ owner[websocket[s]] = s
  BY OwnersConnected DEF CalmState, LinkInv, SocketInv, Inv, TypeOK, Started
<1>2. \/ handler[websocket[s]] \in {"read", "forward"}
      \/ websocket[s] = Newest /\ handler[websocket[s]] \in {"join", "ack", "answer"}
  BY <1>1 DEF CalmState, HandlersInv
<1> QED BY <1>1, <1>2 DEF CalmState, HubInv

LEMMA RelayPasses ==
  ASSUME CalmState, Inv', [Next]_vars,
         \/ UNCHANGED vars
         \/ \E c \in live :
              Admits(c) \/ SendAck(c) \/ SaveSnapshot(c) \/ Receive(c) \/ Answer(c)
         \/ \E c, d \in live : Forward(c, d)
         \/ \E c \in DOMAIN owner \ live : Leave(c)
  PROVE  Passing
<1>1. /\ handler \in [Connection ->
                        {"join", "ack", "read", "forward", "answer", "leave", "done"}]
      /\ message \in [Connection -> Message]
      /\ up \in [Connection -> Seq(Message)] /\ down \in [Connection -> Seq(Message)]
      /\ live \subseteq DOMAIN owner /\ DOMAIN owner \subseteq Connection
      /\ live \subseteq Connection /\ snapshot \subseteq Operation
  BY OwnersConnected DEF CalmState, Inv, TypeOK
<1>2. UNCHANGED <<owner, websocket, shut>>
  <2>1. CASE UNCHANGED vars
    BY <2>1 DEF vars, page
  <2>2. ASSUME NEW c \in Connection,
               \/ Admits(c) \/ SendAck(c) \/ SaveSnapshot(c) \/ Receive(c) \/ Answer(c)
               \/ Leave(c)
        PROVE  UNCHANGED <<owner, websocket, shut>>
    BY <2>2 DEF Admits, SendAck, SaveSnapshot, Receive, Answer, Leave, page
  <2>3. ASSUME NEW c \in Connection, NEW d \in Connection, Forward(c, d)
        PROVE  UNCHANGED <<owner, websocket, shut>>
    BY <2>3 DEF Forward, page
  <2> QED BY <1>1, <2>1, <2>2, <2>3
\* what c has written, what it has been told and what it is forwarding
<1>3. ASSUME NEW c \in Connection,
             \A e \in Connection \ {c} :
               handler'[e] = handler[e] /\ message'[e] = message[e],
             \A e \in Connection : Up(e)' \subseteq Up(e),
             \A e \in Connection \ {c} : up'[e] = up[e],
             handler'[c] # "join",
             \/ message'[c] = message[c] /\ handler'[c] = handler[c]
             \/ message'[c] = NoMessage /\ handler'[c] # "forward"
             \/ message'[c] \in Up(c),
             handler'[c] = "answer" => handler[c] = "answer" \/ Lonely(c),
             \A e \in Connection : \A m \in Down(e)' :
               \/ m \in Down(e)
               \/ \E g \in live : handler[g] = "forward" /\ m = message[g]
               \/ m.type = "ack" /\ e = Newest
               \/ m.type = "sync2" /\ Lonely(e)
      PROVE  Passing
  BY <1>1, <1>2, <1>3 DEF Passing
<1>4. CASE UNCHANGED vars
  BY <1>2, <1>4 DEF vars, network, relay, Passing, Up, Down
<1>5. ASSUME NEW c \in Connection, up[c] # <<>>, up' = [up EXCEPT ![c] = Tail(@)]
      PROVE  /\ \A e \in Connection : Up(e)' \subseteq Up(e) /\ Head(up[c]) \in Up(c)
             /\ \A e \in Connection \ {c} : up'[e] = up[e]
  BY <1>5, Reads DEF CalmState
<1>6. UNCHANGED down => \A e \in Connection : Down(e)' = Down(e)
  BY DEF Down
<1>7. UNCHANGED up => \A e \in Connection : Up(e)' = Up(e) /\ up'[e] = up[e]
  BY DEF Up
<1>8. ASSUME NEW c \in live, Admits(c)
      PROVE  Passing
  <2>1. /\ handler[c] = "join" /\ up[c] # <<>> /\ up' = [up EXCEPT ![c] = Tail(@)]
        /\ handler' = [handler EXCEPT ![c] = "ack"] /\ UNCHANGED <<down, message>>
    BY <1>8 DEF Admits, Goto
  <2>2. message[c] = NoMessage
    BY <1>1, <2>1 DEF CalmState, HubInv
  <2>3. /\ handler'[c] = "ack" /\ \A e \in Connection \ {c} : handler'[e] = handler[e]
    BY <1>1, <2>1
  <2> QED BY <1>1, <1>3, <1>5, <1>6, <2>1, <2>2, <2>3
<1>9. ASSUME NEW c \in live, SendAck(c) \/ Answer(c)
      PROVE  Passing
  <2>1. PICK m :
          /\ handler[c] \in {"ack", "answer"} /\ Delivered(c, m)
          /\ \/ handler[c] = "ack" /\ m = Ack
             \/ handler[c] = "answer" /\ m = [type |-> "sync2", ops |-> snapshot]
          /\ handler' = [handler EXCEPT ![c] = "read"]
          /\ UNCHANGED <<up, message>>
    BY <1>9 DEF SendAck, Answer, Goto, Fails
  <2>2. message[c] = NoMessage
    BY <1>1, <2>1 DEF CalmState, HubInv
  <2>3. /\ handler'[c] = "read" /\ \A e \in Connection \ {c} : handler'[e] = handler[e]
    BY <1>1, <2>1
  <2>4. (m.type = "ack" /\ c = Newest) \/ (m.type = "sync2" /\ Lonely(c))
    <3>1. CASE handler[c] = "ack"
      <4>1. c = Newest
        BY <3>1 DEF CalmState, HandlersInv
      <4> QED BY <2>1, <3>1, <4>1 DEF Ack
    <3>2. CASE handler[c] = "answer"
      BY <1>1, <2>1, <3>2 DEF CalmState, CarriedInv
    <3> QED BY <2>1, <3>1, <3>2
  <2>5. m \in Message
    BY <1>1, <2>1 DEF Message, Ack
  <2>6. /\ Down(c)' = Down(c) \union {m}
        /\ \A e \in Connection \ {c} : Down(e)' = Down(e)
    BY <1>1, <2>1, <2>5, Gives DEF CalmState
  <2>7. \A e \in Connection : \A k \in Down(e)' :
          \/ k \in Down(e)
          \/ k.type = "ack" /\ e = Newest
          \/ k.type = "sync2" /\ Lonely(e)
    BY <2>4, <2>6
  <2>8. \A e \in Connection : Up(e)' \subseteq Up(e) /\ up'[e] = up[e]
    BY <1>7, <2>1
  <2>9. \A e \in Connection \ {c} : handler'[e] = handler[e] /\ message'[e] = message[e]
    BY <2>1, <2>3
  <2>10. message'[c] = NoMessage /\ handler'[c] \notin {"join", "forward", "answer"}
    BY <2>1, <2>2, <2>3
  <2>11. c \in Connection
    BY <1>1
  <2> QED BY <1>3, <2>7, <2>8, <2>9, <2>10, <2>11
<1>10. ASSUME NEW c \in live, SaveSnapshot(c)
       PROVE  Passing
  <2>1. /\ up[c] # <<>> /\ up' = [up EXCEPT ![c] = Tail(@)] /\ handler[c] = "read"
        /\ UNCHANGED <<down, handler, message>>
    BY <1>10 DEF SaveSnapshot, relay
  <2> QED BY <1>1, <1>3, <1>5, <1>6, <2>1
<1>11. ASSUME NEW c \in live, Receive(c)
       PROVE  Passing
  <2>1. PICK l \in {"forward", "answer", "read"} :
          /\ handler[c] = "read" /\ up[c] # <<>> /\ up' = [up EXCEPT ![c] = Tail(@)]
          /\ l = "answer" => joined \ {c} = {} /\ Head(up[c]).type = "sync1"
          /\ l = "forward" => joined \ {c} # {}
          /\ handler' = [handler EXCEPT ![c] = l]
          /\ message' = [message EXCEPT ![c] =
                           IF joined \ {c} # {} THEN Head(up[c]) ELSE NoMessage]
          /\ UNCHANGED down
    BY <1>11 DEF Receive, Goto
  <2>2. /\ handler'[c] = l /\ message'[c] = IF joined \ {c} # {} THEN Head(up[c]) ELSE NoMessage
        /\ \A e \in Connection \ {c} : handler'[e] = handler[e] /\ message'[e] = message[e]
    BY <1>1, <2>1
  <2>3. Head(up[c]) \in Up(c)
    BY <1>1, <1>5, <2>1
  <2>4. l = "answer" => Lonely(c)
    <3>1. SUFFICES ASSUME l = "answer", NEW s \in Page, Started(s)
                   PROVE  websocket[s] = c
      BY DEF Lonely
    <3>2. c = Newest
      BY <1>1, <2>1, <2>3, <3>1 DEF CalmState, AskingInv
    <3> QED BY <2>1, <3>1, <3>2, Joined
  <2> QED BY <1>1, <1>3, <1>5, <1>6, <2>1, <2>2, <2>3, <2>4
<1>12. ASSUME NEW c \in DOMAIN owner \ live, Leave(c)
       PROVE  Passing
  <2>1. /\ handler' = [handler EXCEPT ![c] = "done"] /\ up' = [up EXCEPT ![c] = <<>>]
        /\ UNCHANGED <<down, message>>
    BY <1>12 DEF Leave, Goto
  <2>2. up[c] = <<>> /\ handler[c] \in {"read", "done"}
    BY DEF CalmState, HandlersInv
  <2>3. message[c] = NoMessage
    BY <1>1, <2>2 DEF CalmState, HubInv
  <2>4. up' = up
    BY <1>1, <2>1, <2>2
  <2>5. handler'[c] = "done" /\ \A e \in Connection \ {c} : handler'[e] = handler[e]
    BY <1>1, <2>1
  <2> QED BY <1>1, <1>3, <1>6, <1>7, <2>1, <2>3, <2>4, <2>5
<1>13. ASSUME NEW c \in live, NEW d \in live, Forward(c, d)
       PROVE  Passing
  <2>1. /\ handler[c] = "forward" /\ Delivered(d, message[c])
        /\ \/ UNCHANGED <<handler, message>>
           \/ /\ handler' = [handler EXCEPT ![c] = "read"]
              /\ message' = [message EXCEPT ![c] = NoMessage]
        /\ UNCHANGED up
    BY <1>13 DEF Forward, Goto
  <2>2. /\ Down(d)' = Down(d) \union {message[c]}
        /\ \A e \in Connection \ {d} : Down(e)' = Down(e)
    BY <1>1, <2>1, Gives DEF CalmState
  <2>3. /\ \A e \in Connection \ {c} : handler'[e] = handler[e] /\ message'[e] = message[e]
        /\ \/ message'[c] = message[c] /\ handler'[c] = handler[c]
           \/ message'[c] = NoMessage /\ handler'[c] = "read"
    BY <1>1, <2>1
  <2>4. \A e \in Connection : \A m \in Down(e)' :
          m \in Down(e) \/ \E g \in live : handler[g] = "forward" /\ m = message[g]
    BY <2>1, <2>2
  <2>5. handler'[c] # "join" /\ handler'[c] # "answer"
    BY <2>1, <2>3
  <2>6. \A e \in Connection : Up(e)' \subseteq Up(e) /\ up'[e] = up[e]
    BY <1>7, <2>1
  <2>7. \/ message'[c] = message[c] /\ handler'[c] = handler[c]
        \/ message'[c] = NoMessage /\ handler'[c] # "forward"
    BY <2>3
  <2>8. c \in Connection
    BY <1>1
  <2> QED BY <1>3, <2>3, <2>4, <2>5, <2>6, <2>7, <2>8
<1> QED BY <1>4, <1>8, <1>9, <1>10, <1>11, <1>12, <1>13

-----------------------------------------------------------------------------
\* What one page has and another lacks goes on coming.

\* With what s has for q, one of three things happens.
Moves(o, s, q) ==
  Sending(o, s, q) \/ Unanswered(q, s) =>
    Sending(o, s, q)' \/ Unanswered(q, s)' \/ Arriving(o, q)'

LEMMA ComingKeeps ==
  ASSUME CalmState, Inv', [Next]_vars, UNCHANGED <<websocket, shut>>,
         \A q \in Page : Started(q) => \A o : Arriving(o, q) => Arriving(o, q)' \/ o \in log'[q],
         \A q, s \in Page : Started(q) /\ Started(s) /\ s # q =>
           \A o \in log[s] \ log'[q] : Moves(o, s, q),
         \A p, q \in Page : Started(p) /\ Started(q) =>
           \A o \in (log'[p] \ log[p]) \ log'[q] :
             Coming(o, q)' \/ \E s \in Page : Started(s) /\ o \in log[s]
  PROVE  ComingInv'
<1>1. /\ \A p \in Page : log[p] \subseteq log'[p]
      /\ \A p \in Page : Started(p)' <=> Started(p)
  BY LogsGrow DEF CalmState, Inv, Started
<1>2. ASSUME NEW q \in Page, NEW s \in Page, Started(q), Started(s), NEW o \in log[s] \ log'[q]
      PROVE  Coming(o, q)'
  <2>1. Coming(o, q)
    BY <1>1, <1>2 DEF CalmState, ComingInv
  <2>2. CASE Arriving(o, q)
    <3>1. Arriving(o, q)'
      BY <1>2, <2>2
    <3> QED BY <3>1 DEF Coming
  <2>3. CASE \E r \in Page : /\ Started(r) /\ r # q /\ o \in log[r]
                             /\ Sending(o, r, q) \/ Unanswered(q, r)
    <3>1. PICK r \in Page : /\ Started(r) /\ r # q /\ o \in log[r]
                            /\ Sending(o, r, q) \/ Unanswered(q, r)
      BY <2>3
    <3>2. Sending(o, r, q)' \/ Unanswered(q, r)' \/ Arriving(o, q)'
      BY <1>2, <3>1 DEF Moves
    <3>3. Started(r)' /\ o \in log'[r]
      BY <1>1, <3>1
    <3> QED BY <3>1, <3>2, <3>3 DEF Coming
  <2> QED BY <2>1, <2>2, <2>3 DEF Coming
<1>3. ASSUME NEW p \in Page, NEW q \in Page, Started(p), Started(q), NEW o \in log'[p] \ log'[q]
      PROVE  Coming(o, q)'
  <2>1. CASE o \in log[p]
    BY <1>2, <1>3, <2>1
  <2>2. CASE o \notin log[p]
    <3>1. Coming(o, q)' \/ \E s \in Page : Started(s) /\ o \in log[s]
      BY <1>3, <2>2
    <3> QED BY <1>2, <1>3, <3>1
  <2> QED BY <2>1, <2>2
<1> QED BY <1>1, <1>3 DEF ComingInv

\* Two pages are on two connections.
LEMMA Apart ==
  ASSUME CalmState, NEW q \in Page, NEW s \in Page, Started(q), Started(s), s # q
  PROVE  websocket[s] # websocket[q]
BY DEF CalmState, SocketInv, Started

LEMMA RelayComing ==
  ASSUME CalmState, Inv', [Next]_vars,
         \/ UNCHANGED vars
         \/ \E c \in live :
              Admits(c) \/ SendAck(c) \/ SaveSnapshot(c) \/ Receive(c) \/ Answer(c)
         \/ \E c, d \in live : Forward(c, d)
         \/ \E c \in DOMAIN owner \ live : Leave(c)
  PROVE  ComingInv'
<1>1. /\ handler \in [Connection ->
                        {"join", "ack", "read", "forward", "answer", "leave", "done"}]
      /\ message \in [Connection -> Message] /\ receivers \in [Connection -> SUBSET Connection]
      /\ up \in [Connection -> Seq(Message)] /\ down \in [Connection -> Seq(Message)]
      /\ live \subseteq DOMAIN owner /\ DOMAIN owner \subseteq Connection
      /\ live \subseteq Connection /\ snapshot \subseteq Operation
  BY OwnersConnected DEF CalmState, Inv, TypeOK
<1>2. UNCHANGED <<owner, websocket, shut>> /\ Newest' = Newest
  BY RelayPasses DEF Passing, Newest
<1>3. UNCHANGED <<log, pending>>
  <2>1. CASE UNCHANGED vars
    BY <2>1 DEF vars, page
  <2>2. ASSUME NEW c \in Connection,
               \/ Admits(c) \/ SendAck(c) \/ SaveSnapshot(c) \/ Receive(c) \/ Answer(c)
               \/ Leave(c)
        PROVE  UNCHANGED <<log, pending>>
    BY <2>2 DEF Admits, SendAck, SaveSnapshot, Receive, Answer, Leave, page
  <2>3. ASSUME NEW c \in Connection, NEW d \in Connection, Forward(c, d)
        PROVE  UNCHANGED <<log, pending>>
    BY <2>3 DEF Forward, page
  <2> QED BY <1>1, <2>1, <2>2, <2>3
<1>4. \A s \in Page : Started(s) => websocket[s] \in live /\ websocket[s] \in Connection
  BY Joined
<1>5. ASSUME \A e \in Connection : Down(e) \subseteq Down(e)',
             \A q, s \in Page : Started(q) /\ Started(s) /\ s # q =>
               \A o \in log[s] : Moves(o, s, q)
      PROVE  ComingInv'
  <2>1. \A q \in Page : Started(q) => \A o : Arriving(o, q) => Arriving(o, q)'
    BY <1>2, <1>4, <1>5 DEF Arriving
  <2> QED BY <1>2, <1>3, <1>5, <2>1, ComingKeeps
\* nothing that matters is taken
<1>6. ASSUME \A e \in Connection : Down(e) \subseteq Down(e)',
             \A e \in Connection : \A m \in Up(e) :
               m \in Up(e)' \/ m.type \in {"join", "snapshot"},
             \A e \in live : message'[e] = message[e] /\ receivers'[e] = receivers[e],
             \A e \in live : handler[e] \in {"join", "ack"} =>
               handler'[e] \in {"join", "ack"} \/ \E m \in Down(e)' : m.type = "ack"
      PROVE  ComingInv'
  <2>1. ASSUME NEW q \in Page, NEW s \in Page, Started(q), Started(s), NEW o \in log[s]
        PROVE  Moves(o, s, q)
    <3>1. Sending(o, s, q) => Sending(o, s, q)'
      BY <1>2, <1>3, <1>4, <1>6, <2>1 DEF Sending, Brought
    <3>2. Unanswered(q, s) => Unanswered(q, s)'
      BY <1>2, <1>4, <1>6, <2>1 DEF Unanswered
    <3> QED BY <3>1, <3>2 DEF Moves
  <2> QED BY <1>5, <1>6, <2>1
<1>7. ASSUME NEW c \in Connection, up[c] # <<>>, up' = [up EXCEPT ![c] = Tail(@)]
      PROVE  /\ Head(up[c]) \in Up(c) /\ Up(c) = {Head(up[c])} \union Up(c)'
             /\ \A e \in Connection \ {c} : Up(e)' = Up(e)
  BY <1>7, Reads DEF CalmState
<1>8. UNCHANGED down => \A e \in Connection : Down(e)' = Down(e)
  BY DEF Down
<1>9. UNCHANGED up => \A e \in Connection : Up(e)' = Up(e)
  BY DEF Up
<1>10. CASE UNCHANGED vars
  BY <1>6, <1>8, <1>9, <1>10 DEF vars, network, relay
<1>11. ASSUME NEW c \in live, Admits(c)
       PROVE  ComingInv'
  <2>1. /\ handler[c] = "join" /\ up[c] # <<>> /\ up' = [up EXCEPT ![c] = Tail(@)]
        /\ handler' = [handler EXCEPT ![c] = "ack"] /\ UNCHANGED <<down, message, receivers>>
    BY <1>11 DEF Admits, Goto
  <2>2. Head(up[c]).type = "join"
    BY <1>1, <2>1 DEF CalmState, AskingInv
  <2>3. \A e \in live : handler[e] \in {"join", "ack"} => handler'[e] \in {"join", "ack"}
    BY <1>1, <2>1
  <2>4. \A e \in Connection : \A m \in Up(e) : m \in Up(e)' \/ m.type = "join"
    BY <1>1, <1>7, <2>1, <2>2
  <2> QED BY <1>6, <1>8, <2>1, <2>3, <2>4
<1>12. ASSUME NEW c \in live, SendAck(c) \/ Answer(c)
       PROVE  ComingInv'
  <2>1. PICK m :
          /\ handler[c] \in {"ack", "answer"} /\ Delivered(c, m)
          /\ \/ handler[c] = "ack" /\ m = Ack
             \/ handler[c] = "answer" /\ m = [type |-> "sync2", ops |-> snapshot]
          /\ handler' = [handler EXCEPT ![c] = "read"]
          /\ UNCHANGED <<up, message, receivers>>
    BY <1>12 DEF SendAck, Answer, Goto, Fails
  <2>2. m \in Message /\ (handler[c] = "ack" => m.type = "ack")
    BY <1>1, <2>1 DEF Message, Ack
  <2>3. /\ Down(c)' = Down(c) \union {m}
        /\ \A e \in Connection \ {c} : Down(e)' = Down(e)
    BY <1>1, <2>1, <2>2, Gives DEF CalmState
  <2>4. \A e \in live : handler[e] \in {"join", "ack"} =>
          handler'[e] \in {"join", "ack"} \/ \E k \in Down(e)' : k.type = "ack"
    BY <1>1, <2>1, <2>2, <2>3
  <2> QED BY <1>1, <1>6, <1>9, <2>1, <2>3, <2>4
<1>13. ASSUME NEW c \in live, SaveSnapshot(c)
       PROVE  ComingInv'
  <2>1. /\ up[c] # <<>> /\ Head(up[c]).type = "snapshot" /\ up' = [up EXCEPT ![c] = Tail(@)]
        /\ UNCHANGED <<down, handler, message, receivers>>
    BY <1>13 DEF SaveSnapshot, relay
  <2>2. \A e \in Connection : \A m \in Up(e) : m \in Up(e)' \/ m.type = "snapshot"
    BY <1>1, <1>7, <2>1
  <2> QED BY <1>6, <1>8, <2>1, <2>2
<1>14. ASSUME NEW c \in live, Receive(c)
       PROVE  ComingInv'
  <2>1. PICK l \in {"forward", "answer", "read"} :
          /\ handler[c] = "read" /\ up[c] # <<>> /\ up' = [up EXCEPT ![c] = Tail(@)]
          /\ handler' = [handler EXCEPT ![c] = l]
          /\ receivers' = [receivers EXCEPT ![c] = joined \ {c}]
          /\ message' = [message EXCEPT ![c] =
                           IF joined \ {c} # {} THEN Head(up[c]) ELSE NoMessage]
          /\ UNCHANGED down
    BY <1>14 DEF Receive, Goto
  <2>2. /\ receivers'[c] = joined \ {c}
        /\ message'[c] = IF joined \ {c} # {} THEN Head(up[c]) ELSE NoMessage
        /\ \A e \in Connection \ {c} : /\ handler'[e] = handler[e] /\ message'[e] = message[e]
                                       /\ receivers'[e] = receivers[e]
    BY <1>1, <2>1
  <2>3. /\ Up(c) = {Head(up[c])} \union Up(c)' /\ Head(up[c]) \in Up(c)
        /\ \A e \in Connection \ {c} : Up(e)' = Up(e)
    BY <1>1, <1>7, <2>1
  <2>4. receivers[c] = {} /\ message[c] = NoMessage
    BY <1>1, <2>1 DEF CalmState, HubInv
  <2>5. \A e \in Connection : Down(e)' = Down(e)
    BY <1>8, <2>1
  <2>6. ASSUME NEW q \in Page, NEW s \in Page, Started(q), Started(s), s # q, NEW o \in log[s]
        PROVE  Moves(o, s, q)
    <3>1. /\ websocket[q] # websocket[s] /\ websocket[q] \in Connection
          /\ websocket[s] \in Connection
      BY <1>4, <2>6, Apart
    <3>2. CASE Sending(o, s, q)
      <4>1. CASE o \in Items(pending[s])
        BY <1>3, <4>1 DEF Moves, Sending
      <4>2. CASE \E m \in Up(websocket[s]) : o \in Brought(m)
        <5>1. CASE \E m \in Up(websocket[s])' : o \in Brought(m)
          <6>1. Sending(o, s, q)'
            BY <1>2, <5>1 DEF Sending, Up
          <6> QED BY <6>1 DEF Moves
        <5>2. CASE websocket[s] = c /\ o \in Brought(Head(up[c]))
          <6>1. CASE websocket[q] \in joined
            <7>1. websocket[q] \in receivers'[c] /\ message'[c] = Head(up[c])
              BY <2>2, <3>1, <5>2, <6>1
            <7>2. Sending(o, s, q)'
              BY <1>2, <5>2, <7>1 DEF Sending
            <7> QED BY <7>2 DEF Moves
          <6>2. CASE websocket[q] = Newest /\ handler[websocket[q]] = "join"
            <7>1. handler'[websocket[q]] = "join"
              BY <2>2, <3>1, <5>2, <6>2
            <7>2. Unanswered(q, s)'
              BY <1>2, <6>2, <7>1 DEF Unanswered
            <7> QED BY <7>2 DEF Moves
          <6> QED BY <2>6, <6>1, <6>2, Joined
        <5> QED BY <1>2, <2>3, <3>1, <4>2, <5>1, <5>2 DEF Up
      <4>3. CASE o \in Brought(message[websocket[s]]) /\ websocket[q] \in receivers[websocket[s]]
        <5>1. websocket[s] # c
          BY <2>4, <4>3
        <5>2. Sending(o, s, q)'
          BY <1>2, <2>2, <3>1, <4>3, <5>1 DEF Sending
        <5> QED BY <5>2 DEF Moves
      <4> QED BY <3>2, <4>1, <4>2, <4>3 DEF Sending
    <3>3. CASE Unanswered(q, s)
      <4>1. websocket[q] = Newest
        BY <3>3 DEF Unanswered
      <4>2. CASE websocket[q] # c
        <5>1. Unanswered(q, s)'
          BY <1>2, <2>2, <2>3, <2>5, <3>1, <3>3, <4>2 DEF Unanswered
        <5> QED BY <5>1 DEF Moves
      <4>3. CASE websocket[q] = c
        <5>1. websocket[s] \in joined
          BY <2>6, <3>1, <4>1, Joined
        <5>2. websocket[s] \in receivers'[c] /\ message'[c] = Head(up[c])
          BY <2>2, <3>1, <4>3, <5>1
        <5>3. Unanswered(q, s)'
          BY <1>2, <2>1, <2>3, <2>4, <2>5, <3>1, <3>3, <4>3, <5>2 DEF Unanswered
        <5> QED BY <5>3 DEF Moves
      <4> QED BY <4>2, <4>3
    <3> QED BY <3>2, <3>3 DEF Moves
  <2> QED BY <1>5, <2>5, <2>6
<1>15. ASSUME NEW c \in DOMAIN owner \ live, Leave(c)
       PROVE  ComingInv'
  <2>1. /\ handler' = [handler EXCEPT ![c] = "done"] /\ up' = [up EXCEPT ![c] = <<>>]
        /\ UNCHANGED <<down, message, receivers>>
    BY <1>15 DEF Leave, Goto
  <2>2. up[c] = <<>>
    BY DEF CalmState, HandlersInv
  <2>3. up' = up
    BY <1>1, <2>1, <2>2
  <2>4. \A e \in live : handler'[e] = handler[e]
    BY <1>1, <2>1
  <2> QED BY <1>6, <1>8, <1>9, <2>1, <2>3, <2>4
<1>16. ASSUME NEW c \in live, NEW d \in live, Forward(c, d)
       PROVE  ComingInv'
  <2>1. /\ handler[c] = "forward" /\ Delivered(d, message[c])
        /\ receivers' = [receivers EXCEPT ![c] = @ \ {d}]
        /\ \/ receivers'[c] # {} /\ UNCHANGED <<handler, message>>
           \/ /\ receivers'[c] = {} /\ handler' = [handler EXCEPT ![c] = "read"]
              /\ message' = [message EXCEPT ![c] = NoMessage]
        /\ UNCHANGED up
    BY <1>16 DEF Forward, Goto
  <2>2. /\ Down(d)' = Down(d) \union {message[c]}
        /\ \A e \in Connection \ {d} : Down(e)' = Down(e)
    BY <1>1, <2>1, Gives DEF CalmState
  <2>3. /\ receivers'[c] = receivers[c] \ {d}
        /\ \A e \in Connection \ {c} : /\ handler'[e] = handler[e] /\ message'[e] = message[e]
                                       /\ receivers'[e] = receivers[e]
        /\ receivers'[c] # {} => message'[c] = message[c]
        /\ \A e \in Connection : handler[e] \in {"join", "ack"} => handler'[e] = handler[e]
    BY <1>1, <2>1
  <2>4. /\ \A e \in Connection : Up(e)' = Up(e) /\ Down(e) \subseteq Down(e)'
        /\ d \in Connection
    BY <1>1, <1>9, <2>1, <2>2
  <2>5. ASSUME NEW q \in Page, NEW s \in Page, Started(q), Started(s), s # q, NEW o \in log[s]
        PROVE  Moves(o, s, q)
    <3>1. websocket[q] \in Connection /\ websocket[s] \in Connection
      BY <1>4, <2>5
    <3>2. CASE Sending(o, s, q)
      <4>1. CASE /\ websocket[s] = c /\ o \in Brought(message[c])
                 /\ websocket[q] = d
        <5>1. Arriving(o, q)'
          BY <1>2, <2>2, <4>1 DEF Arriving, Down
        <5> QED BY <5>1 DEF Moves
      <4>2. CASE /\ o \in Brought(message[websocket[s]])
                 /\ websocket[q] \in receivers[websocket[s]]
                 /\ ~(websocket[s] = c /\ websocket[q] = d)
        <5>1. /\ websocket[q] \in receivers'[websocket[s]]
              /\ message'[websocket[s]] = message[websocket[s]]
          BY <2>3, <3>1, <4>2
        <5>2. Sending(o, s, q)'
          BY <1>2, <4>2, <5>1 DEF Sending
        <5> QED BY <5>2 DEF Moves
      <4>3. CASE o \in Items(pending[s]) \/ \E m \in Up(websocket[s]) : o \in Brought(m)
        <5>1. Sending(o, s, q)'
          BY <1>2, <1>3, <2>4, <3>1, <4>3 DEF Sending
        <5> QED BY <5>1 DEF Moves
      <4> QED BY <3>2, <4>1, <4>2, <4>3 DEF Sending
    <3>3. CASE Unanswered(q, s)
      <4>1. CASE /\ message[websocket[q]].type = "sync1"
                 /\ websocket[s] \in receivers[websocket[q]]
        <5>1. CASE websocket[q] = c /\ websocket[s] = d
          <6>1. \E m \in Down(websocket[s])' : m.type = "sync1"
            BY <1>2, <2>2, <4>1, <5>1 DEF Down
          <6>2. Unanswered(q, s)'
            BY <1>2, <3>3, <6>1 DEF Unanswered, Down
          <6> QED BY <6>2 DEF Moves
        <5>2. CASE ~(websocket[q] = c /\ websocket[s] = d)
          <6>1. /\ websocket[s] \in receivers'[websocket[q]]
                /\ message'[websocket[q]] = message[websocket[q]]
            BY <2>3, <3>1, <4>1, <5>2
          <6>2. Unanswered(q, s)'
            BY <1>2, <3>3, <4>1, <6>1 DEF Unanswered
          <6> QED BY <6>2 DEF Moves
        <5> QED BY <5>1, <5>2
      <4>2. CASE ~(/\ message[websocket[q]].type = "sync1"
                   /\ websocket[s] \in receivers[websocket[q]])
        <5>1. Unanswered(q, s)'
          BY <1>2, <2>3, <2>4, <3>1, <3>3, <4>2 DEF Unanswered
        <5> QED BY <5>1 DEF Moves
      <4> QED BY <4>1, <4>2
    <3> QED BY <3>2, <3>3 DEF Moves
  <2> QED BY <1>5, <2>4, <2>5
<1> QED BY <1>10, <1>11, <1>12, <1>13, <1>14, <1>15, <1>16

LEMMA PagesComing ==
  ASSUME CalmState, Inv', [Next]_vars, NEW p \in Page, OnMessage(p) \/ HandleInput(p)
  PROVE  ComingInv'
<1>1. PICK c \in live :
        /\ c = websocket[p] /\ c \in Connection /\ c \in DOMAIN owner /\ owner[c] = p
        /\ Started(p)
  BY Present
<1>2. /\ log \in [Page -> SUBSET Operation] /\ log' \in [Page -> SUBSET Operation]
      /\ pending \in [Page -> Seq(Operation)] /\ DOMAIN owner \subseteq Connection
  BY OwnersConnected DEF CalmState, Inv, TypeOK
<1>3. /\ UNCHANGED <<owner, websocket, shut, handler, message, receivers>>
      /\ Newest' = Newest
  BY DEF OnMessage, HandleInput, relay, Newest
<1>4. \A r \in Page : log[r] \subseteq log'[r]
  BY LogsGrow DEF CalmState, Inv
<1>5. \A s \in Page : Started(s) =>
        websocket[s] \in Connection /\ owner[websocket[s]] = s /\ (s # p => websocket[s] # c)
  BY <1>1, Joined
<1>6. CASE OnMessage(p)
  <2>1. PICK m \in Message, new \in SUBSET Message :
          /\ Down(c) = {m} \union Down(c)'
          /\ \A e \in Connection \ {c} : Down(e)' = Down(e)
          /\ Wrote(c, new) /\ Reply(p, m, new)
    BY <1>1, <1>6, Hears
  <2>2. /\ Up(c)' = Up(c) \union new
        /\ \A e \in Connection : Up(e) \subseteq Up(e)'
    BY <2>1 DEF Wrote
  <2>3. /\ m.type \in {"operation", "sync2"} => log' = [log EXCEPT ![p] = @ \union m.ops]
        /\ m.type \notin {"operation", "sync2"} => log' = log
    BY <2>1 DEF Reply
  <2>4. /\ m.type \in {"operation", "sync2"} => log'[p] = log[p] \union m.ops
        /\ \A r \in Page \ {p} : log'[r] = log[r]
        /\ \A r \in Page \ {p} : pending'[r] = pending[r]
    BY <1>2, <2>1, <2>3 DEF Reply
  <2>5. ASSUME NEW q \in Page, Started(q), NEW o, Arriving(o, q)
        PROVE  Arriving(o, q)' \/ o \in log'[q]
    <3>1. PICK k \in Down(websocket[q]) : o \in Brought(k)
      BY <2>5 DEF Arriving
    <3>2. CASE k \in Down(websocket[q])'
      <4>1. Arriving(o, q)'
        BY <1>3, <3>1, <3>2 DEF Arriving, Down
      <4> QED BY <4>1
    <3>3. CASE q = p /\ k = m
      BY <2>4, <3>1, <3>3 DEF Brought
    <3>4. websocket[q] # c => Down(websocket[q])' = Down(websocket[q])
      BY <1>3, <1>5, <2>1, <2>5 DEF Down
    <3>5. q = p => Down(websocket[q])' = Down(c)'
      BY <1>1, <1>3 DEF Down
    <3> QED BY <1>1, <1>5, <2>1, <2>5, <3>1, <3>2, <3>3, <3>4, <3>5
  <2>6. ASSUME NEW q \in Page, NEW s \in Page, Started(q), Started(s), s # q,
               NEW o \in log[s] \ log'[q]
        PROVE  Moves(o, s, q)
    <3>1. CASE Sending(o, s, q)
      <4>1. pending'[p] = pending[p] \/ \A x \in Items(pending[p]) : OperationMessage(x) \in Up(c)'
        BY <1>2, <2>1, <2>2 DEF Reply
      <4>2. CASE s = p /\ o \in Items(pending[p]) /\ pending'[p] # pending[p]
        <5>1. OperationMessage(o) \in Up(c)' /\ o \in Brought(OperationMessage(o))
          BY <4>1, <4>2 DEF OperationMessage, Brought
        <5>2. Sending(o, s, q)'
          BY <1>1, <1>3, <4>2, <5>1 DEF Sending, Up
        <5> QED BY <5>2 DEF Moves
      <4>3. CASE ~(s = p /\ o \in Items(pending[p]) /\ pending'[p] # pending[p])
        <5>1. Sending(o, s, q)'
          BY <1>1, <1>3, <1>5, <2>2, <2>4, <2>6, <3>1, <4>3 DEF Sending, Up
        <5> QED BY <5>1 DEF Moves
      <4> QED BY <4>2, <4>3
    <3>2. CASE Unanswered(q, s)
      <4>1. websocket[q] = Newest /\ owner[Newest] = q
        BY <1>5, <2>6, <3>2 DEF Unanswered
      <4>2. CASE q = p /\ m.type = "ack"
        <5>1. \E k \in Up(websocket[q])' : k.type = "sync1"
          <6>1. new = {[type |-> "sync1", ops |-> Claimed(log[p])]}
            BY <2>1, <4>2 DEF Reply
          <6> QED BY <1>1, <1>3, <2>2, <4>2, <6>1 DEF Up
        <5>2. Unanswered(q, s)'
          BY <1>3, <4>1, <5>1 DEF Unanswered, Up
        <5> QED BY <5>2 DEF Moves
      <4>3. CASE s = p /\ m.type = "sync1"
        <5>1. m.ops \subseteq log[q]
          BY <1>1, <2>1, <4>1, <4>3 DEF CalmState, AskingInv
        <5>2. o \in Missing(log[p], m.ops)
          BY <1>4, <2>6, <4>3, <5>1 DEF Missing
        <5>3. \E k \in new : o \in Brought(k)
          <6>1. new = {[type |-> "sync2", ops |-> Missing(log[p], m.ops)]}
            BY <2>1, <4>3 DEF Reply
          <6>2. o \in Brought([type |-> "sync2", ops |-> Missing(log[p], m.ops)])
            BY <5>2 DEF Brought
          <6> QED BY <6>1, <6>2
        <5>4. Sending(o, s, q)'
          BY <1>1, <1>3, <2>2, <4>3, <5>3 DEF Sending, Up
        <5> QED BY <5>4 DEF Moves
      <4>4. CASE ~(q = p /\ m.type = "ack") /\ ~(s = p /\ m.type = "sync1")
        <5>1. ASSUME NEW k \in Down(websocket[q]), k.type = "ack"
              PROVE  k \in Down(websocket[q])'
          BY <1>1, <1>3, <1>5, <2>1, <2>6, <4>4, <5>1 DEF Down
        <5>2. ASSUME NEW k \in Down(websocket[s]), k.type = "sync1"
              PROVE  k \in Down(websocket[s])'
          BY <1>1, <1>3, <1>5, <2>1, <2>6, <4>4, <5>2 DEF Down
        <5>3. Up(websocket[q]) \subseteq Up(websocket[q])'
          BY <1>3, <1>5, <2>2, <2>6 DEF Up
        <5>4. Unanswered(q, s)'
          BY <1>3, <3>2, <5>1, <5>2, <5>3 DEF Unanswered
        <5> QED BY <5>4 DEF Moves
      <4> QED BY <4>2, <4>3, <4>4
    <3> QED BY <3>1, <3>2 DEF Moves
  <2>7. ASSUME NEW r \in Page, NEW q \in Page, Started(r), Started(q),
               NEW o \in (log'[r] \ log[r]) \ log'[q]
        PROVE  \E s \in Page : Started(s) /\ o \in log[s]
    <3>1. r = p /\ q # p /\ o \in Brought(m)
      BY <2>3, <2>4, <2>7 DEF Brought
    <3>2. ~Lonely(c)
      BY <1>5, <2>7, <3>1 DEF Lonely
    <3> QED BY <1>1, <2>1, <3>1, <3>2 DEF CalmState, CarriedInv
  <2> QED BY <1>3, <2>5, <2>6, <2>7, ComingKeeps
<1>7. CASE HandleInput(p)
  <2>1. PICK x \in Operation, new \in SUBSET Message :
          /\ log' = [log EXCEPT ![p] = @ \union {x}] /\ Wrote(c, new)
          /\ \A q \in Page \ {p} : pending'[q] = pending[q]
          /\ \/ OperationMessage(x) \in new /\ UNCHANGED pending
             \/ Items(pending'[p]) = Items(pending[p]) \union {x}
    BY <1>1, <1>7, Types
  <2>2. /\ Up(c)' = Up(c) \union new
        /\ \A e \in Connection : Up(e) \subseteq Up(e)'
    BY <2>1 DEF Wrote
  <2>3. UNCHANGED down
    BY <1>7 DEF HandleInput
  <2>4. \A q \in Page : Items(pending[q]) \subseteq Items(pending'[q])
    BY <2>1
  <2>5. \A e : Down(e)' = Down(e)
    BY <2>3 DEF Down
  <2>6. ASSUME NEW q \in Page, Started(q), NEW o, Arriving(o, q)
        PROVE  Arriving(o, q)'
    BY <1>3, <2>3, <2>6 DEF Arriving, Down
  <2>7. ASSUME NEW q \in Page, NEW s \in Page, Started(q), Started(s), s # q,
               NEW o \in log[s] \ log'[q]
        PROVE  Moves(o, s, q)
    <3>1. /\ Up(websocket[q]) \subseteq Up(websocket[q])'
          /\ Up(websocket[s]) \subseteq Up(websocket[s])'
      BY <1>3, <1>5, <2>2, <2>7 DEF Up
    <3>2. Sending(o, s, q) => Sending(o, s, q)'
      BY <1>3, <2>4, <3>1 DEF Sending
    <3>3. Unanswered(q, s) => Unanswered(q, s)'
      BY <1>3, <2>3, <3>1 DEF Unanswered, Down
    <3> QED BY <3>2, <3>3 DEF Moves
  <2>8. ASSUME NEW r \in Page, NEW q \in Page, Started(r), Started(q),
               NEW o \in (log'[r] \ log[r]) \ log'[q]
        PROVE  Coming(o, q)'
    <3>1. r = p /\ q # p /\ o = x
      BY <1>2, <2>1, <2>8
    <3>2. Sending(o, p, q)'
      <4>1. CASE OperationMessage(x) \in new
        <5>1. OperationMessage(x) \in Up(websocket[p])' /\ o \in Brought(OperationMessage(x))
          BY <1>1, <1>3, <2>2, <3>1, <4>1 DEF OperationMessage, Brought, Up
        <5> QED BY <5>1 DEF Sending
      <4>2. CASE Items(pending'[p]) = Items(pending[p]) \union {x}
        BY <3>1, <4>2 DEF Sending
      <4> QED BY <2>1, <4>1, <4>2
    <3>3. Started(p)' /\ o \in log'[p]
      BY <1>1, <1>3, <2>8, <3>1 DEF Started
    <3> QED BY <3>1, <3>2, <3>3 DEF Coming
  <2> QED BY <1>3, <2>6, <2>7, <2>8, ComingKeeps
<1> QED BY <1>6, <1>7

-----------------------------------------------------------------------------
\* A page is opened or left when nothing is under way.

LEMMA OpenStep ==
  ASSUME CalmState, Inv', [Next]_vars, NEW p \in Page, Connect(p), websocket[p] = 0, Quiet
  PROVE  AskingInv' /\ CarriedInv' /\ ComingInv'
<1>1. PICK c \in Connection :
        /\ c = Newest' /\ c \notin DOMAIN owner /\ c # 0 /\ handler[c] = "join"
        /\ DOMAIN owner' = DOMAIN owner \union {c} /\ owner'[c] = p
        /\ websocket'[p] = c /\ \A q \in Page \ {p} : websocket'[q] = websocket[q]
        /\ up'[c] = <<JoinMessage>> /\ \A e \in Connection \ {c} : up'[e] = up[e]
        /\ UNCHANGED <<log, pending, shut, down, handler, joined, receivers, message>>
  BY OpensNewest
<1>2. /\ \A e \in Connection :
           /\ Up(e) = {} /\ Down(e) = {} /\ receivers[e] = {} /\ message[e] = NoMessage
      /\ \A e \in live : handler[e] = "read"
      /\ \A e \in DOMAIN owner \ live : handler[e] = "done"
      /\ \A r, q \in Page : Started(r) /\ Started(q) => log[r] = log[q]
  BY QuietState
<1>3. /\ \A e \in Connection \ {c} : Up(e)' = {}
      /\ Up(c)' = {JoinMessage} /\ \A e \in Connection : Down(e)' = {}
      /\ \A e \in Connection : message'[e] = NoMessage
  <2>1. Items(<<JoinMessage>>) = {JoinMessage}
    BY DEF Items
  <2> QED BY <1>1, <1>2, <2>1 DEF Up, Down
<1>4. /\ JoinMessage.type = "join" /\ NoMessage.type = "ack"
      /\ Brought(JoinMessage) = {} /\ Brought(NoMessage) = {}
      /\ <<JoinMessage>> # <<>> /\ Head(<<JoinMessage>>) = JoinMessage
  BY DEF JoinMessage, NoMessage, Brought
<1>5. DOMAIN owner' \subseteq Connection /\ DOMAIN owner \subseteq Connection
  BY <1>1, OwnersConnected DEF CalmState, Inv
<1>6. \A e \in DOMAIN owner' : handler'[e] = "join" => e = c
  BY <1>1, <1>2
<1>7. \A e \in Connection : handler'[e] # "forward" /\ handler'[e] # "answer"
  BY <1>1, <1>2 DEF CalmState, HandlersInv
<1>8. AskingInv'
  <2>1. \A e \in DOMAIN owner' :
          handler'[e] = "join" => up'[e] # <<>> /\ Head(up'[e]).type = "join"
    BY <1>1, <1>4, <1>6
  <2>2. \A e \in Connection : \A m \in Up(e)' \union {message'[e]} \union Down(e)' :
          m.type # "sync1"
    BY <1>3, <1>4
  <2>3. \A e \in Connection : \A m \in Up(e)' : m.type = "join"
    BY <1>3, <1>4
  <2> QED BY <1>3, <1>7, <2>1, <2>2, <2>3 DEF AskingInv
<1>9. CarriedInv'
  <2>1. \A e \in Connection : \A m \in Up(e)' \union {message'[e]} : Brought(m) = {}
    BY <1>3, <1>4
  <2> QED BY <1>3, <1>5, <1>7, <2>1 DEF CarriedInv
<1>10. ASSUME NEW r \in Page, NEW q \in Page, Started(r)', Started(q)', NEW o \in log'[r] \ log'[q]
       PROVE  Coming(o, q)'
  <2>1. r # p /\ r # q
    BY <1>1, <1>10 DEF CalmState, LinkInv
  <2>2. q = p
    BY <1>1, <1>2, <1>10, <2>1 DEF Started
  <2>3. Unanswered(q, r)'
    BY <1>1, <2>2 DEF Unanswered
  <2> QED BY <1>10, <2>1, <2>3 DEF Coming
<1>11. ComingInv'
  BY <1>10 DEF ComingInv
<1> QED BY <1>8, <1>9, <1>11

LEMMA CloseStep ==
  ASSUME CalmState, Inv', [Next]_vars, NEW p \in Page, Unmount(p), Quiet
  PROVE  AskingInv' /\ CarriedInv' /\ ComingInv'
<1>1. /\ shut' = shut \union {p} /\ down' = [down EXCEPT ![websocket[p]] = <<>>]
      /\ UNCHANGED <<owner, log, websocket, up, handler, receivers, message>>
  BY DEF Unmount, relay
<1>2. /\ \A e \in Connection :
           /\ Up(e) = {} /\ down[e] = <<>> /\ receivers[e] = {} /\ message[e] = NoMessage
      /\ \A e \in live : handler[e] = "read"
      /\ \A e \in DOMAIN owner \ live : handler[e] = "done"
      /\ \A r, q \in Page : Started(r) /\ Started(q) => log[r] = log[q]
  BY QuietState
<1>3. \A e \in Connection : Up(e)' = {} /\ Down(e)' = {} /\ message'[e] = NoMessage
  <2>1. down \in [Connection -> Seq(Message)]
    BY DEF CalmState, Inv, TypeOK
  <2>2. \A e \in Connection : down'[e] = <<>>
    BY <1>1, <1>2, <2>1
  <2> QED BY <1>1, <1>2, <2>2, NoItems DEF Up, Down
<1>4. NoMessage.type = "ack" /\ Brought(NoMessage) = {}
  BY DEF NoMessage, Brought
<1>5. DOMAIN owner \subseteq Connection /\ live \subseteq DOMAIN owner
  BY OwnersConnected DEF CalmState, Inv, TypeOK
<1>6. /\ \A e \in DOMAIN owner : handler'[e] \in {"read", "done"}
      /\ \A e \in Connection : handler'[e] \in {"read", "done", "join"}
  BY <1>1, <1>2 DEF CalmState, HandlersInv
<1>7. AskingInv'
  <2>1. \A e \in Connection : \A m \in Up(e)' \union {message'[e]} \union Down(e)' :
          m.type # "sync1"
    BY <1>3, <1>4
  <2> QED BY <1>1, <1>3, <1>6, <2>1 DEF AskingInv
<1>8. CarriedInv'
  BY <1>1, <1>3, <1>4, <1>5, <1>6 DEF CarriedInv
<1>9. \A q \in Page : Started(q)' => Started(q)
  BY <1>1 DEF Started
<1>10. ComingInv'
  BY <1>1, <1>2, <1>9 DEF ComingInv
<1> QED BY <1>7, <1>8, <1>10

LEMMA CalmStep ==
  ASSUME CalmState, Inv', [Next]_vars
  PROVE  CalmInv'
<1>1. LinkInv' /\ HandlersInv'
  BY LinkStep, HandlersStep
<1>2. Passing => AskingInv' /\ CarriedInv'
  BY <1>1, MessagesKeep
<1>3. CASE \E p \in Page : Connect(p) /\ websocket[p] = 0 /\ Quiet
  BY <1>1, <1>3, OpenStep DEF CalmInv
<1>4. CASE \E p \in Page : OnMessage(p) \/ HandleInput(p)
  BY <1>1, <1>2, <1>4, PagesPass, PagesComing DEF CalmInv
<1>5. CASE \E p \in Page : Unmount(p) /\ Quiet
  BY <1>1, <1>5, CloseStep DEF CalmInv
<1>6. CASE \/ UNCHANGED vars
           \/ \E c \in live :
                Admits(c) \/ SendAck(c) \/ SaveSnapshot(c) \/ Receive(c) \/ Answer(c)
           \/ \E c, d \in live : Forward(c, d)
           \/ \E c \in DOMAIN owner \ live : Leave(c)
  BY <1>1, <1>2, <1>6, RelayPasses, RelayComing DEF CalmInv
<1> QED BY <1>3, <1>4, <1>5, <1>6, CalmSteps

LEMMA CalmInit == Init => CalmInv
<1> SUFFICES ASSUME Init
             PROVE  CalmInv
  OBVIOUS
<1>1. /\ \A c \in Connection :
           /\ up[c] = <<>> /\ down[c] = <<>> /\ message[c] = NoMessage /\ receivers[c] = {}
           /\ handler[c] = "join"
      /\ joined = {} /\ open = {} /\ live = {} /\ shut = {} /\ DOMAIN owner = {}
      /\ \A p \in Page : websocket[p] = 0 /\ status[p] = "disconnected" /\ log[p] = {}
  BY DEF Init
<1>2. LinkInv
  BY <1>1 DEF LinkInv, Started
<1>3. HandlersInv
  BY <1>1 DEF HandlersInv
<1>4. \A c \in Connection : Up(c) = {} /\ Down(c) = {}
  BY <1>1, NoItems DEF Up, Down
<1>5. AskingInv
  <2>1. NoMessage.type # "sync1"
    BY DEF NoMessage
  <2> QED BY <1>1, <1>4, <2>1 DEF AskingInv
<1>6. CarriedInv
  BY <1>1 DEF CarriedInv
<1>7. ComingInv
  BY <1>1 DEF ComingInv
<1> QED BY <1>2, <1>3, <1>5, <1>6, <1>7 DEF CalmInv

\* The way of using the editor does not change.
LEMMA DisciplineStays == [Next]_vars => discipline' = discipline
<1> SUFFICES ASSUME [Next]_vars
             PROVE  discipline' = discipline
  OBVIOUS
<1>1. CASE UNCHANGED vars
  BY <1>1 DEF vars, past
<1>2. ASSUME NEW p \in Page,
             \/ Connect(p) \/ OnMessage(p) \/ CloseBegins(p) \/ OnClose(p) \/ HandleInput(p)
             \/ Unmount(p)
      PROVE  discipline' = discipline
  BY <1>2 DEF Connect, OnMessage, CloseBegins, OnClose, HandleInput, Unmount, past
<1>3. ASSUME NEW c \in Connection,
             \/ Join(c) \/ JoinFails(c) \/ SendAck(c) \/ SaveSnapshot(c) \/ Receive(c)
             \/ Answer(c) \/ Leave(c) \/ Break(c)
      PROVE  discipline' = discipline
  BY <1>3 DEF Join, JoinFails, SendAck, SaveSnapshot, Receive, Answer, Leave, Break, past
<1>4. ASSUME NEW c \in Connection, NEW d \in Connection, Forward(c, d) \/ ForwardFails(c, d)
      PROVE  discipline' = discipline
  BY <1>4 DEF Forward, ForwardFails, past
<1>5. CASE Restart
  BY <1>5 DEF Restart
<1> QED BY <1>1, <1>2, <1>3, <1>4, <1>5, Steps

\* While the editor is used in this way, it stays so.
Calm == discipline # "free" => CalmInv

LEMMA CalmInvariance == Spec => []Calm
<1>1. Inv /\ Inv' /\ WayInv /\ Calm /\ [Next]_vars => Calm'
  BY CalmStep, DisciplineStays DEF Calm, CalmState, CalmInv, WayInv
<1>2. Init => Calm
  BY CalmInit DEF Calm
<1> QED BY <1>1, <1>2, WayInvariance, CollabInvariance, PTL DEF Spec

\* OnSync1, OnSync2, sendOrQueue and BroadcastToRoom: with pages opened and closed one at a
\* time, on connections that hold, what one page has and another lacks is under way, so that
\* the pages agree whenever nothing is, however they type meanwhile.
THEOREM OrderlyPagesAgree == Spec => []OrderlyAgree
<1>1. Inv /\ WayInv /\ Calm => OrderlyAgree
  BY QuietState DEF OrderlyAgree, Calm, CalmState, CalmInv, WayInv
<1> QED BY <1>1, CalmInvariance, WayInvariance, CollabInvariance, PTL

-----------------------------------------------------------------------------
\* Nobody types before everything has been heard.

\* What has ever been typed.
Everything == Earlier \union Typed

\* What has been typed is in the store, or in a snapshot on its way there.
SavingInv ==
  /\ \A p \in Page : pending[p] = <<>>
  /\ accepted \subseteq Everything
  /\ \A c \in Connection : \A m \in Up(c) :
       /\ m.type = "operation" => m.ops \subseteq Everything
       /\ m.type = "snapshot" => Everything \subseteq m.ops
  /\ Everything \subseteq snapshot \/ \E c \in Connection : \E m \in Up(c) : m.type = "snapshot"

\* A page has been opened and has not asked yet.
Entering ==
  /\ Everything \subseteq snapshot
  /\ \A p \in Page : Started(p) => websocket[p] = Newest \/ Everything \subseteq log[p]
  /\ \A c \in DOMAIN owner \ {Newest} :
       up[c] = <<>> /\ down[c] = <<>> /\ handler[c] \in {"read", "done"}
  /\ Newest \in live /\ log[owner[Newest]] = {}
  /\ \/ handler[Newest] = "join" /\ up[Newest] = <<JoinMessage>> /\ down[Newest] = <<>>
     \/ handler[Newest] = "ack" /\ up[Newest] = <<>> /\ down[Newest] = <<>>
     \/ handler[Newest] = "read" /\ up[Newest] = <<>> /\ down[Newest] = <<Ack>>

\* The newest page is being told everything, and the others hear what they know.
Synchronising ==
  /\ Everything \subseteq snapshot
  /\ \A p \in Page : Started(p) =>
       Everything \subseteq log[p] \/ (websocket[p] = Newest /\ status[p] # "online")
  /\ \A c \in live : handler[c] \notin {"join", "ack"}
  /\ \A c \in Connection : \A m \in Up(c) \union {message[c]} \union Down(c) :
       /\ m.type # "operation"
       /\ m.type = "sync1" => m.ops = {}
       /\ m.type = "sync2" => Everything \subseteq m.ops
  /\ \A c \in Connection : \A m \in Down(c) : m.type # "ack" /\ (m.type = "sync1" => c # Newest)
  /\ \A c \in Connection : message[c].type = "sync1" => Newest \notin receivers[c]

\* What somebody has typed is being told to the others.
Spreading ==
  /\ \E p \in Page : Started(p) /\ Everything \subseteq log[p]
  /\ \A c \in live : handler[c] \in {"read", "forward"}
  /\ \A c \in Connection :
       /\ \A m \in Up(c) : m.type \in {"operation", "snapshot"}
       /\ message[c].type \in {"operation", "ack"}
       /\ \A m \in Down(c) : m.type = "operation"

TurnsInv == SavingInv /\ (Entering \/ Synchronising \/ Spreading)

TurnState ==
  /\ CalmState /\ discipline = "turns"
  /\ SavingInv /\ (Entering \/ Synchronising \/ Spreading)

LEMMA TypedBy == \A o : o \in Everything <=> o \in Earlier \/ \E p \in Page : o \in Own(p)
BY DEF Everything, Typed, Own

\* Hearing adds nothing to what has been typed.
LEMMA EverythingStays ==
  ASSUME Inv, UNCHANGED log \/ \E p \in Page : OnMessage(p)
  PROVE  Everything' = Everything
<1>1. CASE UNCHANGED log
  BY <1>1 DEF Everything, Typed
<1>2. ASSUME NEW p \in Page, OnMessage(p)
      PROVE  Everything' = Everything
  <2>1. PICK m \in Good :
          OnJoinAck(p, m.ops) \/ OnSync1(p, m.ops) \/ OnSync2(p, m.ops) \/ OnOperation(p, m.ops)
    BY <1>2, Received DEF Inv
  <2>2. m.ops \in SUBSET Authored
    BY DEF Good
  <2>3. \A q \in Page : Own(q)' = Own(q)
    <3>1. CASE UNCHANGED log
      BY <3>1 DEF Own
    <3>2. CASE log' = [log EXCEPT ![p] = @ \union m.ops]
      BY <2>2, <3>2, HearingKeepsOwn DEF Inv
    <3> QED BY <2>1, <3>1, <3>2 DEF OnJoinAck, OnSync1, OnSync2, OnOperation
  <2>4. Typed' = Typed
    BY <2>3 DEF Typed, Own
  <2> QED BY <2>4 DEF Everything
<1> QED BY <1>1, <1>2

\* What is typed is one operation more.
LEMMA EverythingGrows ==
  ASSUME Inv, NEW p \in Page, NEW o \in Operation, o[1] = p,
         log' = [log EXCEPT ![p] = @ \union {o}]
  PROVE  Everything' = Everything \union {o}
<1>1. log'[p] = log[p] \union {o} /\ \A q \in Page \ {p} : log'[q] = log[q]
  BY DEF Inv, TypeOK
<1>2. Own(p)' = Own(p) \union {o} /\ \A q \in Page \ {p} : Own(q)' = Own(q)
  BY <1>1 DEF Own
<1>3. \A x : x \in Typed' <=> \E q \in Page : x \in Own(q)'
  BY DEF Typed, Own
<1>4. \A x : x \in Typed <=> \E q \in Page : x \in Own(q)
  BY DEF Typed, Own
<1>5. Typed' = Typed \union {o}
  BY <1>2, <1>3, <1>4
<1> QED BY <1>5 DEF Everything

\* When nothing is under way, the store and every page have everything.
LEMMA QuietTurns ==
  ASSUME TurnState, Quiet
  PROVE  Everything \subseteq snapshot /\ \A p \in Page : Started(p) => Everything \subseteq log[p]
<1>1. /\ \A c \in Connection : Up(c) = {} /\ up[c] = <<>> /\ down[c] = <<>>
      /\ \A c \in live : handler[c] = "read"
      /\ \A p \in Page : Started(p) => status[p] = "online"
      /\ \A p, q \in Page : Started(p) /\ Started(q) => log[p] = log[q]
  BY QuietState DEF TurnState
<1>2. Everything \subseteq snapshot
  BY <1>1 DEF TurnState, SavingInv
<1>3. CASE Entering
  <2>1. Newest \in live /\ Newest \in Connection
    BY <1>3, OwnersConnected DEF Entering, TurnState, CalmState, Inv, TypeOK
  <2>2. <<JoinMessage>> # <<>> /\ <<Ack>> # <<>>
    OBVIOUS
  <2> QED BY <1>1, <1>3, <2>1, <2>2 DEF Entering
<1>4. CASE Synchronising
  BY <1>1, <1>2, <1>4 DEF Synchronising
<1>5. CASE Spreading
  BY <1>1, <1>2, <1>5 DEF Spreading
<1> QED BY <1>3, <1>4, <1>5 DEF TurnState

-----------------------------------------------------------------------------
\* What the relay does with the messages.

RelayMoves ==
  /\ UNCHANGED <<page, shut, owner, live>>
  /\ \A c \in Connection : Up(c)' \subseteq Up(c)
  /\ \A c \in Connection :
       \/ message'[c] = message[c] /\ receivers'[c] \subseteq receivers[c]
       \/ message'[c] = NoMessage
       \/ message'[c] \in Up(c) /\ message'[c].type # "snapshot" /\ c \notin receivers'[c]
  /\ \A c \in Connection : \A m \in Down(c)' :
       \/ m \in Down(c)
       \/ \E e \in live : handler[e] = "forward" /\ m = message[e] /\ c \in receivers[e]
       \/ c \in live /\ handler[c] = "ack"
       \/ c \in live /\ handler[c] = "answer" /\ m = [type |-> "sync2", ops |-> snapshot]
  /\ \A c \in live : handler'[c] \in {"join", "ack"} => handler[c] \in {"join", "ack"}
  /\ \A c \in live :
       handler'[c] = "answer" => handler[c] = "answer" \/ \E m \in Up(c) : m.type = "sync1"
  /\ \A c \in Connection : \A m \in Up(c) :
       m \in Up(c)' \/ m.type # "snapshot" \/ snapshot' = m.ops
  /\ \/ snapshot' = snapshot
     \/ \E c \in Connection : \E m \in Up(c) : m.type = "snapshot" /\ snapshot' = m.ops
  /\ \A o \in accepted' :
       \/ o \in accepted
       \/ \E c \in Connection : \E m \in Up(c) : m.type = "operation" /\ o \in m.ops

LEMMA RelayMovesOn ==
  ASSUME CalmState,
         \/ UNCHANGED vars
         \/ \E c \in live :
              Admits(c) \/ SendAck(c) \/ SaveSnapshot(c) \/ Receive(c) \/ Answer(c)
         \/ \E c, d \in live : Forward(c, d)
         \/ \E c \in DOMAIN owner \ live : Leave(c)
  PROVE  RelayMoves
<1>1. /\ handler \in [Connection ->
                        {"join", "ack", "read", "forward", "answer", "leave", "done"}]
      /\ message \in [Connection -> Message] /\ receivers \in [Connection -> SUBSET Connection]
      /\ up \in [Connection -> Seq(Message)] /\ down \in [Connection -> Seq(Message)]
      /\ live \subseteq DOMAIN owner /\ DOMAIN owner \subseteq Connection
      /\ live \subseteq Connection /\ snapshot \subseteq Operation
  BY OwnersConnected DEF CalmState, Inv, TypeOK
<1>2. UNCHANGED down => \A e \in Connection : Down(e)' = Down(e)
  BY DEF Down
<1>3. UNCHANGED up => \A e \in Connection : Up(e)' = Up(e)
  BY DEF Up
<1>4. ASSUME NEW c \in Connection, up[c] # <<>>, up' = [up EXCEPT ![c] = Tail(@)]
      PROVE  /\ Head(up[c]) \in Up(c) /\ Up(c) = {Head(up[c])} \union Up(c)'
             /\ \A e \in Connection \ {c} : Up(e)' = Up(e)
  BY <1>4, Reads DEF CalmState
<1>5. CASE UNCHANGED vars
  <2>1. UNCHANGED <<page, shut, owner, live, up, down, handler, message, receivers,
                    snapshot, accepted>>
    BY <1>5 DEF vars, network, relay, past
  <2> QED BY <1>2, <1>3, <2>1 DEF RelayMoves
\* the store is left alone
<1>6. ASSUME NEW c \in Connection, UNCHANGED <<page, shut, owner, live, snapshot, accepted>>,
             \A e \in Connection : Up(e)' \subseteq Up(e),
             \A e \in Connection : \A m \in Up(e) : m \in Up(e)' \/ m.type # "snapshot",
             \A e \in Connection :
               \/ message'[e] = message[e] /\ receivers'[e] \subseteq receivers[e]
               \/ message'[e] = NoMessage,
             \A e \in Connection : \A m \in Down(e)' :
               \/ m \in Down(e)
               \/ \E g \in live : handler[g] = "forward" /\ m = message[g] /\ e \in receivers[g]
               \/ e \in live /\ handler[e] = "ack"
               \/ e \in live /\ handler[e] = "answer" /\ m = [type |-> "sync2", ops |-> snapshot],
             \A e \in Connection \ {c} : handler'[e] = handler[e],
             \/ handler'[c] = handler[c]
             \/ handler'[c] \in {"read", "done"}
             \/ handler[c] = "join" /\ handler'[c] = "ack"
      PROVE  RelayMoves
  BY <1>1, <1>6 DEF RelayMoves
<1>7. ASSUME NEW c \in live, Admits(c)
      PROVE  RelayMoves
  <2>1. /\ handler[c] = "join" /\ up[c] # <<>> /\ up' = [up EXCEPT ![c] = Tail(@)]
        /\ handler' = [handler EXCEPT ![c] = "ack"]
        /\ UNCHANGED <<page, shut, owner, live, down, message, receivers, snapshot, accepted>>
    BY <1>7 DEF Admits, Goto, past
  <2>2. Head(up[c]).type = "join"
    BY <1>1, <2>1 DEF CalmState, AskingInv
  <2>3. /\ handler'[c] = "ack" /\ \A e \in Connection \ {c} : handler'[e] = handler[e]
        /\ c \in Connection
    BY <1>1, <2>1
  <2>4. /\ \A e \in Connection : Up(e)' \subseteq Up(e)
        /\ \A e \in Connection : \A m \in Up(e) : m \in Up(e)' \/ m.type # "snapshot"
    BY <1>4, <2>1, <2>2, <2>3
  <2> QED BY <1>2, <1>6, <2>1, <2>3, <2>4
<1>8. ASSUME NEW c \in live, SendAck(c) \/ Answer(c)
      PROVE  RelayMoves
  <2>1. PICK m :
          /\ Delivered(c, m)
          /\ \/ handler[c] = "ack" /\ m = Ack
             \/ handler[c] = "answer" /\ m = [type |-> "sync2", ops |-> snapshot]
          /\ handler' = [handler EXCEPT ![c] = "read"]
          /\ UNCHANGED <<page, shut, owner, live, up, message, receivers, snapshot, accepted>>
    BY <1>8 DEF SendAck, Answer, Goto, Fails, past
  <2>2. m \in Message
    BY <1>1, <2>1 DEF Message, Ack
  <2>3. /\ Down(c)' = Down(c) \union {m}
        /\ \A e \in Connection \ {c} : Down(e)' = Down(e)
    BY <1>1, <2>1, <2>2, Gives DEF CalmState
  <2>4. /\ handler'[c] = "read" /\ \A e \in Connection \ {c} : handler'[e] = handler[e]
        /\ c \in Connection
    BY <1>1, <2>1
  <2>5. \A e \in Connection : \A k \in Down(e)' :
          \/ k \in Down(e)
          \/ e \in live /\ handler[e] = "ack"
          \/ e \in live /\ handler[e] = "answer" /\ k = [type |-> "sync2", ops |-> snapshot]
    BY <2>1, <2>3
  <2>6. /\ \A e \in Connection : Up(e)' \subseteq Up(e)
        /\ \A e \in Connection : \A k \in Up(e) : k \in Up(e)' \/ k.type # "snapshot"
    BY <1>3, <2>1
  <2>7. \A e \in Connection : message'[e] = message[e] /\ receivers'[e] \subseteq receivers[e]
    BY <2>1
  <2> QED BY <1>6, <2>1, <2>4, <2>5, <2>6, <2>7
<1>9. ASSUME NEW c \in live, SaveSnapshot(c)
      PROVE  RelayMoves
  <2>1. /\ up[c] # <<>> /\ Head(up[c]).type = "snapshot" /\ up' = [up EXCEPT ![c] = Tail(@)]
        /\ snapshot' = Head(up[c]).ops
        /\ UNCHANGED <<page, shut, owner, live, down, handler, message, receivers, accepted>>
    BY <1>9 DEF SaveSnapshot, relay, past
  <2>2. c \in Connection
    BY <1>1
  <2>3. /\ Head(up[c]) \in Up(c) /\ Up(c) = {Head(up[c])} \union Up(c)'
        /\ \A e \in Connection \ {c} : Up(e)' = Up(e)
    BY <1>4, <2>1, <2>2
  <2> QED BY <1>1, <1>2, <2>1, <2>2, <2>3 DEF RelayMoves
<1>10. ASSUME NEW c \in live, Receive(c)
       PROVE  RelayMoves
  <2>1. PICK k, l :
          /\ k = Head(up[c]) /\ up[c] # <<>> /\ k.type # "snapshot"
          /\ up' = [up EXCEPT ![c] = Tail(@)]
          /\ l \in {"forward", "answer", "read"} /\ (l = "answer" => k.type = "sync1")
          /\ handler' = [handler EXCEPT ![c] = l]
          /\ receivers' = [receivers EXCEPT ![c] = joined \ {c}]
          /\ message' = [message EXCEPT ![c] = IF joined \ {c} # {} THEN k ELSE NoMessage]
          /\ accepted' = IF k.type = "operation" THEN accepted \union k.ops ELSE accepted
          /\ UNCHANGED <<page, shut, owner, live, down, snapshot>>
    BY <1>10 DEF Receive, Goto
  <2>2. /\ c \in Connection /\ handler'[c] = l
        /\ message'[c] = k \/ message'[c] = NoMessage
        /\ c \notin receivers'[c]
        /\ \A e \in Connection \ {c} : /\ handler'[e] = handler[e] /\ message'[e] = message[e]
                                       /\ receivers'[e] = receivers[e]
    BY <1>1, <2>1
  <2>3. /\ k \in Up(c) /\ Up(c) = {k} \union Up(c)'
        /\ \A e \in Connection \ {c} : Up(e)' = Up(e)
    BY <1>4, <2>1, <2>2
  <2>4. \A e \in Connection :
          \/ message'[e] = message[e] /\ receivers'[e] \subseteq receivers[e]
          \/ message'[e] = NoMessage
          \/ message'[e] \in Up(e) /\ message'[e].type # "snapshot" /\ e \notin receivers'[e]
    BY <2>1, <2>2, <2>3
  <2>5. /\ \A e \in Connection : Up(e)' \subseteq Up(e) /\ Down(e)' = Down(e)
        /\ \A e \in Connection : \A m \in Up(e) : m \in Up(e)' \/ m.type # "snapshot"
    BY <1>2, <2>1, <2>3
  <2>6. \A e \in live :
          /\ handler'[e] \in {"join", "ack"} => handler[e] \in {"join", "ack"}
          /\ handler'[e] = "answer" => handler[e] = "answer" \/ \E m \in Up(e) : m.type = "sync1"
    BY <1>1, <2>1, <2>2, <2>3
  <2>7. \A o \in accepted' : \/ o \in accepted
                             \/ \E m \in Up(c) : m.type = "operation" /\ o \in m.ops
    BY <2>1, <2>3
  <2> QED BY <2>1, <2>2, <2>4, <2>5, <2>6, <2>7 DEF RelayMoves
<1>11. ASSUME NEW c \in DOMAIN owner \ live, Leave(c)
       PROVE  RelayMoves
  <2>1. /\ handler' = [handler EXCEPT ![c] = "done"] /\ up' = [up EXCEPT ![c] = <<>>]
        /\ UNCHANGED <<page, shut, owner, live, down, message, receivers, snapshot, accepted>>
    BY <1>11 DEF Leave, Goto, past
  <2>2. up[c] = <<>>
    BY DEF CalmState, HandlersInv
  <2>3. up' = up
    BY <1>1, <2>1, <2>2
  <2>4. /\ handler'[c] = "done" /\ \A e \in Connection \ {c} : handler'[e] = handler[e]
        /\ c \in Connection
    BY <1>1, <2>1
  <2>5. \A e \in Connection : \A k \in Down(e)' : k \in Down(e)
    BY <1>2, <2>1
  <2>6. /\ \A e \in Connection : Up(e)' \subseteq Up(e)
        /\ \A e \in Connection : \A k \in Up(e) : k \in Up(e)' \/ k.type # "snapshot"
    BY <1>3, <2>3
  <2>7. \A e \in Connection : message'[e] = message[e] /\ receivers'[e] \subseteq receivers[e]
    BY <2>1
  <2> QED BY <1>6, <2>1, <2>4, <2>5, <2>6, <2>7
<1>12. ASSUME NEW c \in live, NEW d \in live, Forward(c, d)
       PROVE  RelayMoves
  <2>1. /\ handler[c] = "forward" /\ d \in receivers[c] /\ Delivered(d, message[c])
        /\ receivers' = [receivers EXCEPT ![c] = @ \ {d}]
        /\ \/ UNCHANGED <<handler, message>>
           \/ /\ handler' = [handler EXCEPT ![c] = "read"]
              /\ message' = [message EXCEPT ![c] = NoMessage]
        /\ UNCHANGED <<page, shut, owner, live, up, snapshot, accepted>>
    BY <1>12 DEF Forward, Goto, past
  <2>2. /\ Down(d)' = Down(d) \union {message[c]}
        /\ \A e \in Connection \ {d} : Down(e)' = Down(e)
    BY <1>1, <2>1, Gives DEF CalmState
  <2>3. /\ c \in Connection
        /\ \A e \in Connection \ {c} : handler'[e] = handler[e] /\ message'[e] = message[e]
        /\ \A e \in Connection : receivers'[e] \subseteq receivers[e]
        /\ \/ message'[c] = message[c] /\ handler'[c] = handler[c]
           \/ message'[c] = NoMessage /\ handler'[c] = "read"
    BY <1>1, <2>1
  <2>4. \A e \in Connection : \A m \in Down(e)' :
          \/ m \in Down(e)
          \/ \E g \in live : handler[g] = "forward" /\ m = message[g] /\ e \in receivers[g]
    BY <2>1, <2>2
  <2>5. /\ \A e \in Connection : Up(e)' \subseteq Up(e)
        /\ \A e \in Connection : \A k \in Up(e) : k \in Up(e)' \/ k.type # "snapshot"
    BY <1>3, <2>1
  <2>6. \A e \in Connection :
          \/ message'[e] = message[e] /\ receivers'[e] \subseteq receivers[e]
          \/ message'[e] = NoMessage
    BY <2>3
  <2>7. \/ handler'[c] = handler[c]
        \/ handler'[c] \in {"read", "done"}
    BY <2>3
  <2> QED BY <1>6, <2>1, <2>3, <2>4, <2>5, <2>6, <2>7
<1> QED BY <1>5, <1>7, <1>8, <1>9, <1>10, <1>11, <1>12

-----------------------------------------------------------------------------
\* The relay keeps to the turns.

LEMMA RelaySaves ==
  ASSUME TurnState, RelayMoves
  PROVE  SavingInv' /\ Everything' = Everything
<1>1. UNCHANGED <<log, pending>>
  BY DEF RelayMoves, page
<1>2. Everything' = Everything
  BY <1>1, EverythingStays DEF TurnState, CalmState
<1>3. accepted' \subseteq Everything
  BY DEF RelayMoves, TurnState, SavingInv
<1>4. \A c \in Connection : \A m \in Up(c)' :
        /\ m.type = "operation" => m.ops \subseteq Everything
        /\ m.type = "snapshot" => Everything \subseteq m.ops
  BY DEF RelayMoves, TurnState, SavingInv
<1>5. Everything \subseteq snapshot' \/ \E c \in Connection : \E m \in Up(c)' : m.type = "snapshot"
  <2>1. CASE Everything \subseteq snapshot
    BY <2>1 DEF RelayMoves, TurnState, SavingInv
  <2>2. ASSUME NEW c \in Connection, NEW m \in Up(c), m.type = "snapshot"
        PROVE  Everything \subseteq snapshot' \/ m \in Up(c)'
    BY <2>2 DEF RelayMoves, TurnState, SavingInv
  <2> QED BY <2>1, <2>2 DEF TurnState, SavingInv
<1> QED BY <1>1, <1>2, <1>3, <1>4, <1>5 DEF TurnState, SavingInv

LEMMA RelaySynchronises ==
  ASSUME TurnState, Inv, Synchronising, RelayMoves
  PROVE  Synchronising'
<1>1. /\ UNCHANGED <<log, status, websocket, shut, owner, live>> /\ Everything' = Everything
      /\ Newest' = Newest
  BY RelaySaves DEF RelayMoves, page, Newest
<1>2. Everything \subseteq snapshot'
  BY DEF RelayMoves, TurnState, SavingInv, Synchronising
<1>3. /\ \A c \in live : handler[c] \notin {"join", "ack"} /\ handler'[c] \notin {"join", "ack"}
      /\ \A c \in Connection : handler[c] = "forward" => message[c].type # "ack"
      /\ NoMessage.type = "ack"
  BY DEF RelayMoves, Synchronising, TurnState, CalmState, AskingInv, NoMessage
<1>4. \A c \in Connection : \A m \in Up(c) \union {message[c]} \union Down(c) :
        /\ m.type # "operation"
        /\ m.type = "sync1" => m.ops = {}
        /\ m.type = "sync2" => Everything \subseteq m.ops
  BY DEF Synchronising
<1>5. live \subseteq Connection
  BY OwnersConnected DEF Inv, TypeOK
<1>6. \A c \in Connection : \A m \in Up(c)' \union {message'[c]} :
        /\ m.type # "operation"
        /\ m.type = "sync1" => m.ops = {}
        /\ m.type = "sync2" => Everything \subseteq m.ops
  <2>1. ASSUME NEW c \in Connection, NEW m \in Up(c)' \union {message'[c]}
        PROVE  m \in Up(c) \union {message[c]} \/ m.type = "ack"
    BY <1>3 DEF RelayMoves
  <2> QED BY <1>4, <2>1
<1>7. \A c \in Connection : \A m \in Down(c)' :
        /\ m.type # "operation" /\ m.type # "ack"
        /\ m.type = "sync1" => m.ops = {} /\ c # Newest
        /\ m.type = "sync2" => Everything \subseteq m.ops
  <2>1. SUFFICES ASSUME NEW c \in Connection, NEW m \in Down(c)'
                 PROVE  /\ m.type # "operation" /\ m.type # "ack"
                        /\ m.type = "sync1" => m.ops = {} /\ c # Newest
                        /\ m.type = "sync2" => Everything \subseteq m.ops
    OBVIOUS
  <2>2. CASE m \in Down(c)
    BY <1>4, <2>2 DEF Synchronising
  <2>3. CASE \E e \in live : handler[e] = "forward" /\ m = message[e] /\ c \in receivers[e]
    BY <1>3, <1>4, <1>5, <2>3 DEF Synchronising
  <2>4. CASE m = [type |-> "sync2", ops |-> snapshot]
    BY <2>4 DEF Synchronising
  <2> QED BY <1>3, <2>2, <2>3, <2>4 DEF RelayMoves
<1>8. \A c \in Connection : message'[c].type = "sync1" => Newest \notin receivers'[c]
  <2>1. \A c \in Connection : \A m \in Up(c) : m.type = "sync1" => c = Newest
    BY DEF TurnState, CalmState, AskingInv
  <2> QED BY <1>3, <2>1 DEF RelayMoves, Synchronising
<1>9. \A p \in Page : Started(p)' =>
        Everything \subseteq log'[p] \/ (websocket'[p] = Newest /\ status'[p] # "online")
  BY <1>1 DEF Synchronising, Started
<1> QED BY <1>1, <1>2, <1>3, <1>6, <1>7, <1>8, <1>9 DEF Synchronising

LEMMA RelaySpreads ==
  ASSUME TurnState, HandlersInv', Spreading, RelayMoves
  PROVE  Spreading'
<1>1. /\ UNCHANGED <<log, websocket, shut, live>> /\ Everything' = Everything
  BY RelaySaves DEF RelayMoves, page
<1>2. /\ \A c \in Connection : handler[c] = "forward" => message[c].type # "ack"
      /\ NoMessage.type = "ack" /\ live \subseteq Connection
  BY OwnersConnected DEF TurnState, CalmState, AskingInv, NoMessage, Inv, TypeOK
<1>3. \A c \in live : handler'[c] \in {"read", "forward"}
  <2>1. \A c \in live : \A m \in Up(c) : m.type # "sync1"
    BY <1>2 DEF Spreading
  <2>2. \A c \in live : handler'[c] \notin {"join", "ack", "answer"}
    BY <2>1 DEF Spreading, RelayMoves
  <2> QED BY <1>1, <2>2 DEF HandlersInv
<1>4. \A c \in Connection : \A m \in Up(c)' : m.type \in {"operation", "snapshot"}
  BY DEF Spreading, RelayMoves
<1>5. \A c \in Connection : message'[c].type \in {"operation", "ack"}
  BY <1>2 DEF Spreading, RelayMoves
<1>6. \A c \in Connection : \A m \in Down(c)' : m.type = "operation"
  <2>1. \A e \in live : handler[e] = "forward" => message[e].type = "operation"
    BY <1>2 DEF Spreading
  <2>2. \A c \in live : handler[c] # "ack" /\ handler[c] # "answer"
    BY DEF Spreading
  <2> QED BY <2>1, <2>2 DEF Spreading, RelayMoves
<1> QED BY <1>1, <1>3, <1>4, <1>5, <1>6 DEF Spreading, Started

LEMMA RelayAdmits ==
  ASSUME TurnState, Entering, RelayMoves,
         \/ UNCHANGED vars
         \/ \E c \in live :
              Admits(c) \/ SendAck(c) \/ SaveSnapshot(c) \/ Receive(c) \/ Answer(c)
         \/ \E c, d \in live : Forward(c, d)
         \/ \E c \in DOMAIN owner \ live : Leave(c)
  PROVE  Entering'
<1>1. /\ handler \in [Connection ->
                        {"join", "ack", "read", "forward", "answer", "leave", "done"}]
      /\ up \in [Connection -> Seq(Message)] /\ down \in [Connection -> Seq(Message)]
      /\ live \subseteq DOMAIN owner /\ DOMAIN owner \subseteq Connection
      /\ live \subseteq Connection
  BY OwnersConnected DEF TurnState, CalmState, Inv, TypeOK
<1>2. /\ UNCHANGED <<log, websocket, shut, owner, live>> /\ Everything' = Everything
      /\ Newest' = Newest
  BY RelaySaves DEF RelayMoves, page, Newest
<1>3. /\ Everything \subseteq snapshot'
      /\ \A p \in Page : Started(p)' => websocket'[p] = Newest \/ Everything \subseteq log'[p]
      /\ Newest \in live /\ log'[owner'[Newest]] = {}
  BY <1>2 DEF RelayMoves, TurnState, SavingInv, Entering, Started
<1>4. /\ \A c \in DOMAIN owner \ {Newest} :
           up[c] = <<>> /\ down[c] = <<>> /\ handler[c] \in {"read", "done"}
      /\ \/ handler[Newest] = "join" /\ up[Newest] = <<JoinMessage>> /\ down[Newest] = <<>>
         \/ handler[Newest] = "ack" /\ up[Newest] = <<>> /\ down[Newest] = <<>>
         \/ handler[Newest] = "read" /\ up[Newest] = <<>> /\ down[Newest] = <<Ack>>
  BY DEF Entering
\* the others go on as they are
<1>5. ASSUME \A c \in DOMAIN owner \ {Newest} :
               up'[c] = <<>> /\ down'[c] = <<>> /\ handler'[c] \in {"read", "done"},
             \/ handler'[Newest] = "join" /\ up'[Newest] = <<JoinMessage>> /\ down'[Newest] = <<>>
             \/ handler'[Newest] = "ack" /\ up'[Newest] = <<>> /\ down'[Newest] = <<>>
             \/ handler'[Newest] = "read" /\ up'[Newest] = <<>> /\ down'[Newest] = <<Ack>>
      PROVE  Entering'
  BY <1>2, <1>3, <1>5 DEF Entering
<1>6. CASE UNCHANGED vars
  BY <1>4, <1>5, <1>6 DEF vars, network, relay
<1>7. ASSUME NEW c \in live, Admits(c)
      PROVE  Entering'
  <2>1. /\ handler[c] = "join" /\ up' = [up EXCEPT ![c] = Tail(@)]
        /\ handler' = [handler EXCEPT ![c] = "ack"] /\ UNCHANGED down
    BY <1>7 DEF Admits, Goto
  <2>2. c = Newest /\ up[c] = <<JoinMessage>> /\ down[c] = <<>>
    BY <1>1, <1>4, <2>1
  <2>3. up'[c] = <<>>
    BY <1>1, <2>1, <2>2
  <2>4. /\ handler'[c] = "ack"
        /\ \A e \in DOMAIN owner \ {c} : handler'[e] = handler[e] /\ up'[e] = up[e]
    BY <1>1, <2>1
  <2> QED BY <1>4, <1>5, <2>1, <2>2, <2>3, <2>4
<1>8. ASSUME NEW c \in live, SendAck(c)
      PROVE  Entering'
  <2>1. /\ handler[c] = "ack" /\ Delivered(c, Ack)
        /\ handler' = [handler EXCEPT ![c] = "read"] /\ UNCHANGED up
    BY <1>8 DEF SendAck, Goto, Fails
  <2>2. c = Newest /\ up[c] = <<>> /\ down[c] = <<>>
    BY <1>1, <1>4, <2>1
  <2>3. down' = [down EXCEPT ![c] = Append(@, Ack)]
    BY <2>1 DEF Delivered
  <2>4. down'[c] = <<Ack>>
    BY <1>1, <2>2, <2>3
  <2>5. /\ handler'[c] = "read"
        /\ \A e \in DOMAIN owner \ {c} : handler'[e] = handler[e] /\ down'[e] = down[e]
    BY <1>1, <2>1, <2>3
  <2> QED BY <1>4, <1>5, <2>1, <2>2, <2>4, <2>5
<1>9. ASSUME NEW c \in live, SaveSnapshot(c) \/ Receive(c) \/ Answer(c)
      PROVE  FALSE
  BY <1>1, <1>4, <1>9 DEF SaveSnapshot, Receive, Answer
<1>10. ASSUME NEW c \in live, NEW d \in live, Forward(c, d)
       PROVE  FALSE
  BY <1>1, <1>4, <1>10 DEF Forward
<1>11. ASSUME NEW c \in DOMAIN owner \ live, Leave(c)
       PROVE  Entering'
  <2>1. /\ handler' = [handler EXCEPT ![c] = "done"] /\ up' = [up EXCEPT ![c] = <<>>]
        /\ UNCHANGED down /\ c # Newest
    BY <1>3, <1>11 DEF Leave, Goto
  <2>2. up'[c] = <<>> /\ handler'[c] = "done"
    BY <1>1, <2>1
  <2>3. \A e \in DOMAIN owner \ {c} : handler'[e] = handler[e] /\ up'[e] = up[e]
    BY <1>1, <2>1
  <2>4. Newest \in DOMAIN owner
    BY <1>1, <1>3
  <2> QED BY <1>4, <1>5, <2>1, <2>2, <2>3, <2>4
<1> QED BY <1>6, <1>7, <1>8, <1>9, <1>10, <1>11

-----------------------------------------------------------------------------
\* The pages keep to the turns.

\* What p hears of changes nothing at the relay.
LEMMA HearsMore ==
  ASSUME TurnState, Inv', [Next]_vars, NEW p \in Page, OnMessage(p)
  PROVE  /\ UNCHANGED <<owner, websocket, shut, live, relay, snapshot, accepted>>
         /\ Everything' = Everything /\ Newest' = Newest
         /\ \A q \in Page : log[q] \subseteq log'[q] /\ (Started(q)' <=> Started(q))
<1>1. UNCHANGED <<owner, websocket, shut, live, relay, snapshot, accepted>>
  BY DEF OnMessage, past
<1>2. Everything' = Everything
  BY EverythingStays DEF TurnState, CalmState
<1>3. \A q \in Page : log[q] \subseteq log'[q]
  BY LogsGrow DEF TurnState, CalmState, Inv
<1> QED BY <1>1, <1>2, <1>3 DEF Newest, Started

\* What p writes for what it hears is saved.
LEMMA HearsSaves ==
  ASSUME TurnState, Inv', [Next]_vars, NEW p \in Page, OnMessage(p),
         NEW c \in Connection, NEW new, Wrote(c, new), pending' = pending,
         \A m \in new : /\ m.type # "operation"
                        /\ m.type = "snapshot" => Everything \subseteq m.ops
  PROVE  SavingInv'
<1>1. /\ UNCHANGED <<snapshot, accepted>> /\ Everything' = Everything
  BY HearsMore
<1>2. /\ \A e \in Connection : Up(e) \subseteq Up(e)'
      /\ \A e \in Connection : \A m \in Up(e)' : m \in Up(e) \/ m \in new
  BY DEF Wrote
<1> QED BY <1>1, <1>2 DEF TurnState, SavingInv

LEMMA EnteringHears ==
  ASSUME TurnState, Inv', [Next]_vars, Entering, NEW p \in Page, OnMessage(p)
  PROVE  SavingInv' /\ Synchronising'
<1>1. PICK c \in live :
        c = websocket[p] /\ c \in Connection /\ c \in DOMAIN owner /\ owner[c] = p
  BY Present DEF TurnState
<1>2. PICK m \in Message, new \in SUBSET Message :
        /\ Down(c) = {m} \union Down(c)'
        /\ \A e \in Connection \ {c} : down'[e] = down[e] /\ Down(e)' = Down(e)
        /\ Wrote(c, new) /\ Reply(p, m, new)
  BY <1>1, Hears DEF TurnState
<1>3. /\ UNCHANGED <<owner, websocket, shut, live, handler, message, receivers, snapshot>>
      /\ Everything' = Everything /\ Newest' = Newest
      /\ \A q \in Page : log[q] \subseteq log'[q] /\ (Started(q)' <=> Started(q))
  BY HearsMore DEF relay
<1>4. down[c] # <<>> /\ down' = [down EXCEPT ![c] = Tail(@)]
  BY <1>1 DEF OnMessage
<1>5. c = Newest /\ handler[c] = "read" /\ up[c] = <<>> /\ down[c] = <<Ack>> /\ log[p] = {}
  BY <1>1, <1>4 DEF Entering
<1>6. down'[c] = <<>> /\ Down(c) = {Ack}
  <2>1. down \in [Connection -> Seq(Message)]
    BY DEF TurnState, CalmState, Inv, TypeOK
  <2>2. Tail(<<Ack>>) = <<>> /\ Items(<<Ack>>) = {Ack}
    BY DEF Items
  <2> QED BY <1>1, <1>4, <1>5, <2>1, <2>2 DEF Down
<1>7. m = Ack /\ m.type = "ack"
  BY <1>2, <1>6 DEF Ack
<1>8. PICK k : k = [type |-> "sync1", ops |-> {}]
  OBVIOUS
<1>9. /\ new = {k} /\ UNCHANGED <<log, pending>> /\ status' = [status EXCEPT ![p] = "syncing"]
  <2>1. Claimed({}) = {}
    BY DEF Claimed
  <2> QED BY <1>2, <1>5, <1>7, <1>8, <2>1 DEF Reply
<1>10. /\ Up(c)' = {k} /\ \A e \in Connection \ {c} : Up(e)' = {}
       /\ \A e \in Connection : Down(e)' = {} /\ message'[e].type = "ack"
  <2>1. \A e \in Connection \ {c} : up[e] = <<>> /\ down[e] = <<>>
    BY <1>5 DEF Entering, TurnState, CalmState, HandlersInv
  <2>2. \A e \in Connection : handler[e] # "forward"
    BY <1>5 DEF Entering, TurnState, CalmState, HandlersInv
  <2>3. \A e \in Connection : message[e] = NoMessage
    BY <2>2 DEF TurnState, CalmState, HubInv
  <2>4. Up(c) = {} /\ \A e \in Connection \ {c} : Up(e) = {} /\ Down(e) = {}
    BY <1>5, <2>1, NoItems DEF Up, Down
  <2>5. Down(c)' = {}
    BY <1>6, NoItems DEF Down
  <2> QED BY <1>2, <1>3, <1>9, <2>3, <2>4, <2>5 DEF Wrote, NoMessage
<1>11. SavingInv'
  <2>1. \A x \in new : /\ x.type # "operation"
                       /\ x.type = "snapshot" => Everything \subseteq x.ops
    BY <1>8, <1>9
  <2> QED BY <1>1, <1>2, <1>9, <2>1, HearsSaves
<1>12. status'[p] = "syncing"
  BY <1>9 DEF TurnState, CalmState, Inv, TypeOK
<1>13. \A q \in Page : Started(q)' =>
         Everything \subseteq log'[q] \/ (websocket'[q] = Newest /\ status'[q] # "online")
  <2>1. \A q \in Page : Started(q) /\ websocket[q] = Newest => q = p
    BY <1>1, <1>5 DEF TurnState, CalmState, SocketInv, Started
  <2> QED BY <1>3, <1>9, <1>12, <2>1 DEF Entering
<1>14. \A e \in live : handler'[e] \notin {"join", "ack"}
  <2>1. live \subseteq DOMAIN owner
    BY DEF TurnState, CalmState, Inv, TypeOK
  <2> QED BY <1>3, <1>5, <2>1 DEF Entering
<1>15. Synchronising'
  BY <1>3, <1>8, <1>10, <1>13, <1>14 DEF Synchronising, Entering
<1> QED BY <1>11, <1>15

LEMMA SynchronisingHears ==
  ASSUME TurnState, Inv', [Next]_vars, Synchronising, NEW p \in Page, OnMessage(p)
  PROVE  SavingInv' /\ Synchronising'
<1>1. PICK c \in live :
        /\ c = websocket[p] /\ c \in Connection /\ c \in DOMAIN owner /\ owner[c] = p
        /\ Started(p)
  BY Present DEF TurnState
<1>2. PICK m \in Message, new \in SUBSET Message :
        /\ Down(c) = {m} \union Down(c)'
        /\ \A e \in Connection \ {c} : Down(e)' = Down(e)
        /\ Wrote(c, new) /\ Reply(p, m, new)
  BY <1>1, Hears DEF TurnState
<1>3. /\ UNCHANGED <<owner, websocket, shut, live, handler, message, receivers, snapshot>>
      /\ Everything' = Everything /\ Newest' = Newest
      /\ \A q \in Page : log[q] \subseteq log'[q] /\ (Started(q)' <=> Started(q))
  BY HearsMore DEF relay
<1>4. /\ log \in [Page -> SUBSET Operation] /\ pending \in [Page -> Seq(Operation)]
      /\ status \in [Page -> {"disconnected", "connecting", "syncing", "online"}]
      /\ live \subseteq Connection
  BY OwnersConnected DEF TurnState, CalmState, Inv, TypeOK
<1>5. m \in Down(c) /\ m.type # "operation" /\ m.type # "ack"
  BY <1>1, <1>2 DEF Synchronising
<1>6. \A e \in Connection : Down(e)' \subseteq Down(e)
  BY <1>2
\* what may be written
<1>7. ASSUME \A k \in new : \/ k.type = "sync2" /\ Everything \subseteq k.ops
                            \/ k.type = "snapshot" /\ Everything \subseteq k.ops,
             UNCHANGED pending,
             \A q \in Page : Started(q) =>
               Everything \subseteq log'[q] \/ (websocket[q] = Newest /\ status'[q] # "online")
      PROVE  SavingInv' /\ Synchronising'
  <2>1. \A e \in Connection : \A k \in Up(e)' : k \in Up(e) \/ k \in new
    BY <1>2 DEF Wrote
  <2>2. SavingInv'
    BY <1>1, <1>2, <1>7, HearsSaves
  <2>3. \A e \in Connection : \A k \in Up(e)' \union {message'[e]} \union Down(e)' :
          /\ k.type # "operation"
          /\ k.type = "sync1" => k.ops = {}
          /\ k.type = "sync2" => Everything \subseteq k.ops
    <3>1. ASSUME NEW e \in Connection,
                 NEW k \in Up(e)' \union {message'[e]} \union Down(e)'
          PROVE  k \in Up(e) \union {message[e]} \union Down(e) \/ k \in new
      BY <1>3, <1>6, <2>1
    <3> QED BY <1>7, <3>1 DEF Synchronising
  <2>4. \A e \in Connection : \A k \in Down(e)' : k.type # "ack" /\ (k.type = "sync1" => e # Newest)
    BY <1>6 DEF Synchronising
  <2> QED BY <1>3, <1>7, <2>2, <2>3, <2>4 DEF Synchronising
<1>8. CASE m.type = "sync1"
  <2>1. /\ UNCHANGED <<log, pending, status>>
        /\ new = {[type |-> "sync2", ops |-> Missing(log[p], m.ops)]}
    BY <1>2, <1>8 DEF Reply
  <2>2. m.ops = {} /\ c # Newest
    BY <1>1, <1>5, <1>8 DEF Synchronising
  <2>3. Everything \subseteq log[p]
    BY <1>1, <2>2 DEF Synchronising
  <2>4. Everything \subseteq Missing(log[p], m.ops)
    BY <2>2, <2>3 DEF Missing
  <2>5. \A q \in Page : Started(q) =>
          Everything \subseteq log'[q] \/ (websocket[q] = Newest /\ status'[q] # "online")
    BY <2>1 DEF Synchronising
  <2>6. \A k \in new : k.type = "sync2" /\ Everything \subseteq k.ops
    BY <2>1, <2>4
  <2> QED BY <1>7, <2>1, <2>5, <2>6
<1>9. CASE m.type = "sync2"
  <2>1. /\ log' = [log EXCEPT ![p] = @ \union m.ops] /\ pending' = [pending EXCEPT ![p] = <<>>]
        /\ status' = [status EXCEPT ![p] = "online"]
        /\ new = {OperationMessage(o) : o \in Items(pending[p])} \union {SnapshotMessage(log'[p])}
    BY <1>2, <1>9 DEF Reply
  <2>2. pending[p] = <<>>
    BY DEF TurnState, SavingInv
  <2>3. pending' = pending /\ new = {SnapshotMessage(log'[p])}
    BY <1>4, <2>1, <2>2, NoItems
  <2>4. Everything \subseteq m.ops
    BY <1>1, <1>5, <1>9 DEF Synchronising
  <2>5. /\ log'[p] = log[p] \union m.ops
        /\ \A q \in Page \ {p} : log'[q] = log[q] /\ status'[q] = status[q]
    BY <1>4, <2>1
  <2>6. \A q \in Page : Started(q) =>
          Everything \subseteq log'[q] \/ (websocket[q] = Newest /\ status'[q] # "online")
    BY <2>4, <2>5 DEF Synchronising
  <2>7. \A k \in new : k.type = "snapshot" /\ Everything \subseteq k.ops
    BY <2>3, <2>4, <2>5 DEF SnapshotMessage
  <2> QED BY <1>7, <2>3, <2>6, <2>7
<1> QED BY <1>2, <1>5, <1>8, <1>9 DEF Reply

LEMMA SpreadingHears ==
  ASSUME TurnState, Inv', [Next]_vars, Spreading, NEW p \in Page, OnMessage(p)
  PROVE  SavingInv' /\ Spreading'
<1>1. PICK c \in live : c = websocket[p] /\ c \in Connection
  BY Present DEF TurnState
<1>2. PICK m \in Message, new \in SUBSET Message :
        /\ Down(c) = {m} \union Down(c)'
        /\ \A e \in Connection \ {c} : Down(e)' = Down(e)
        /\ Wrote(c, new) /\ Reply(p, m, new)
  BY <1>1, Hears DEF TurnState
<1>3. /\ UNCHANGED <<live, handler, message>> /\ Everything' = Everything
      /\ \A q \in Page : log[q] \subseteq log'[q] /\ (Started(q)' <=> Started(q))
  BY HearsMore DEF relay
<1>4. m.type = "operation"
  BY <1>1, <1>2 DEF Spreading
<1>5. new = {} /\ UNCHANGED pending
  BY <1>2, <1>4 DEF Reply
<1>6. SavingInv'
  BY <1>1, <1>2, <1>5, HearsSaves
<1>7. \A e \in Connection : Up(e)' = Up(e) /\ Down(e)' \subseteq Down(e)
  BY <1>2, <1>5 DEF Wrote
<1>8. \E q \in Page : Started(q)' /\ Everything \subseteq log'[q]
  BY <1>3 DEF Spreading
<1> QED BY <1>3, <1>6, <1>7, <1>8 DEF Spreading

-----------------------------------------------------------------------------
\* What begins when nothing is under way.

LEMMA TurnOpens ==
  ASSUME TurnState, Inv', NEW p \in Page, Connect(p), websocket[p] = 0, Quiet
  PROVE  SavingInv' /\ Entering'
<1>1. PICK c \in Connection :
        /\ c = Newest' /\ c \notin DOMAIN owner /\ c # 0
        /\ down[c] = <<>> /\ handler[c] = "join"
        /\ DOMAIN owner' = DOMAIN owner \union {c} /\ owner'[c] = p
        /\ websocket'[p] = c /\ \A q \in Page \ {p} : websocket'[q] = websocket[q]
        /\ up'[c] = <<JoinMessage>> /\ \A e \in Connection \ {c} : up'[e] = up[e]
        /\ live' = live \union {c}
        /\ UNCHANGED <<log, pending, shut, down, handler>>
  BY OpensNewest DEF TurnState
<1>2. UNCHANGED <<snapshot, accepted>> /\ Everything' = Everything
  <2>1. UNCHANGED <<snapshot, accepted>>
    BY DEF Connect, past
  <2> QED BY <1>1, <2>1, EverythingStays DEF TurnState, CalmState
<1>3. /\ \A e \in Connection : up[e] = <<>> /\ down[e] = <<>> /\ Up(e) = {}
      /\ \A e \in live : handler[e] = "read"
      /\ \A e \in DOMAIN owner \ live : handler[e] = "done"
  BY QuietState DEF TurnState
<1>4. DOMAIN owner \subseteq Connection
  BY OwnersConnected DEF TurnState, CalmState, Inv
<1>5. Everything \subseteq snapshot /\ \A q \in Page : Started(q) => Everything \subseteq log[q]
  BY QuietTurns
<1>6. SavingInv'
  <2>1. /\ Up(c)' = {JoinMessage} /\ \A e \in Connection \ {c} : Up(e)' = {}
    <3>1. Items(<<JoinMessage>>) = {JoinMessage}
      BY DEF Items
    <3> QED BY <1>1, <1>3, <3>1 DEF Up
  <2>2. \A e \in Connection : \A m \in Up(e)' : m.type = "join"
    BY <2>1 DEF JoinMessage
  <2> QED BY <1>1, <1>2, <1>5, <2>2 DEF TurnState, SavingInv
<1>7. Entering'
  <2>1. \A e \in DOMAIN owner' \ {c} :
          up'[e] = <<>> /\ down'[e] = <<>> /\ handler'[e] \in {"read", "done"}
    BY <1>1, <1>3, <1>4
  <2>2. \A q \in Page : Started(q)' => websocket'[q] = c \/ Everything \subseteq log'[q]
    BY <1>1, <1>5 DEF Started
  <2>3. log'[owner'[c]] = {}
    BY <1>1 DEF TurnState, CalmState, LinkInv
  <2> QED BY <1>1, <1>2, <1>5, <2>1, <2>2, <2>3 DEF Entering
<1> QED BY <1>6, <1>7

LEMMA TurnCloses ==
  ASSUME TurnState, Inv', NEW p \in Page, Unmount(p), Quiet
  PROVE  SavingInv' /\ Synchronising'
<1>1. /\ shut' = shut \union {p} /\ down' = [down EXCEPT ![websocket[p]] = <<>>]
      /\ live' = live \ {websocket[p]}
      /\ UNCHANGED <<log, pending, status, websocket, owner, up, handler, receivers, message,
                     snapshot, accepted>>
  BY DEF Unmount, relay, past
<1>2. Everything' = Everything
  BY <1>1, EverythingStays DEF TurnState, CalmState
<1>3. /\ \A e \in Connection : Up(e) = {} /\ down[e] = <<>> /\ message[e] = NoMessage
      /\ \A e \in live : handler[e] = "read"
  BY QuietState DEF TurnState
<1>4. \A e \in Connection : Up(e)' = {} /\ Down(e)' = {} /\ message'[e].type = "ack"
  <2>1. down \in [Connection -> Seq(Message)]
    BY DEF TurnState, CalmState, Inv, TypeOK
  <2>2. \A e \in Connection : down'[e] = <<>>
    BY <1>1, <1>3, <2>1
  <2> QED BY <1>1, <1>3, <2>2, NoItems DEF Up, Down, NoMessage
<1>5. Everything \subseteq snapshot /\ \A q \in Page : Started(q) => Everything \subseteq log[q]
  BY QuietTurns
<1>6. SavingInv'
  BY <1>1, <1>2, <1>4, <1>5 DEF TurnState, SavingInv
<1>7. Synchronising'
  <2>1. \A q \in Page : Started(q)' => Everything \subseteq log'[q]
    BY <1>1, <1>5 DEF Started
  <2> QED BY <1>1, <1>2, <1>3, <1>4, <1>5, <2>1 DEF Synchronising
<1> QED BY <1>6, <1>7

LEMMA TurnTypes ==
  ASSUME TurnState, Inv', NEW p \in Page, HandleInput(p)
  PROVE  SavingInv' /\ Spreading'
<1>1. Quiet
  BY DEF HandleInput, MayType, TurnState
<1>2. PICK c \in live :
        c = websocket[p] /\ c \in Connection /\ Started(p) /\ p \in open
  BY Present DEF TurnState
<1>3. /\ \A e \in Connection : Up(e) = {} /\ Down(e) = {} /\ message[e] = NoMessage
      /\ \A e \in live : handler[e] = "read"
      /\ status[p] = "online"
  BY <1>1, <1>2, QuietState DEF TurnState
<1>4. PICK o \in Operation, new \in SUBSET Message :
        /\ o[1] = p /\ log' = [log EXCEPT ![p] = @ \union {o}] /\ Wrote(c, new)
        /\ new = {OperationMessage(o), SnapshotMessage(log'[p])} /\ UNCHANGED pending
  BY <1>2, <1>3, Types DEF TurnState
<1>5. /\ UNCHANGED <<websocket, shut, live, down, handler, message, snapshot, accepted>>
  <2>1. UNCHANGED <<websocket, shut, live, down, relay, snapshot, past>>
    BY DEF HandleInput
  <2> QED BY <2>1 DEF relay, past
<1>6. Everything' = Everything \union {o} /\ log'[p] = log[p] \union {o}
  <2>1. log \in [Page -> SUBSET Operation]
    BY DEF TurnState, CalmState, Inv, TypeOK
  <2> QED BY <1>4, <2>1, EverythingGrows DEF TurnState, CalmState
<1>7. Everything \subseteq log[p]
  BY <1>1, <1>2, QuietTurns
<1>8. Everything' \subseteq log'[p]
  BY <1>6, <1>7
<1>9. /\ Up(c)' = new /\ \A e \in Connection \ {c} : Up(e)' = {}
      /\ \A e \in Connection : Down(e)' = {}
  <2>1. Up(c)' = Up(c) \union new /\ \A e \in Connection \ {c} : Up(e)' = Up(e)
    BY <1>4 DEF Wrote
  <2>2. \A e \in Connection : Down(e)' = Down(e)
    BY <1>5 DEF Down
  <2> QED BY <1>2, <1>3, <2>1, <2>2
<1>10. SavingInv'
  <2>1. \A m \in new : /\ m.type = "operation" => m.ops \subseteq Everything'
                       /\ m.type = "snapshot" => Everything' \subseteq m.ops
    BY <1>4, <1>6, <1>8 DEF OperationMessage, SnapshotMessage
  <2>2. \E m \in new : m.type = "snapshot"
    BY <1>4 DEF SnapshotMessage
  <2>3. accepted' \subseteq Everything'
    BY <1>5, <1>6 DEF TurnState, SavingInv
  <2>4. \A q \in Page : pending'[q] = <<>>
    BY <1>4 DEF TurnState, SavingInv
  <2>5. \A e \in Connection : \A m \in Up(e)' : m \in new
    BY <1>9
  <2>6. \E m \in Up(c)' : m.type = "snapshot"
    BY <1>9, <2>2
  <2> QED BY <1>2, <2>1, <2>3, <2>4, <2>5, <2>6 DEF SavingInv
<1>11. Spreading'
  <2>1. Started(p)'
    BY <1>2, <1>5 DEF Started
  <2>2. \A m \in new : m.type \in {"operation", "snapshot"}
    BY <1>4 DEF OperationMessage, SnapshotMessage
  <2>3. \A e \in Connection : message'[e].type = "ack"
    BY <1>3, <1>5 DEF NoMessage
  <2> QED BY <1>3, <1>5, <1>8, <1>9, <2>1, <2>2, <2>3 DEF Spreading
<1> QED BY <1>10, <1>11

LEMMA TurnStep ==
  ASSUME TurnState, Inv', HandlersInv', [Next]_vars
  PROVE  TurnsInv'
<1>1. CASE \E p \in Page : Connect(p) /\ websocket[p] = 0 /\ Quiet
  BY <1>1, TurnOpens DEF TurnsInv
<1>2. ASSUME NEW p \in Page, OnMessage(p)
      PROVE  TurnsInv'
  BY <1>2, EnteringHears, SynchronisingHears, SpreadingHears DEF TurnState, TurnsInv
<1>3. CASE \E p \in Page : HandleInput(p)
  BY <1>3, TurnTypes DEF TurnsInv
<1>4. CASE \E p \in Page : Unmount(p) /\ Quiet
  BY <1>4, TurnCloses DEF TurnsInv
<1>5. CASE \/ UNCHANGED vars
           \/ \E c \in live :
                Admits(c) \/ SendAck(c) \/ SaveSnapshot(c) \/ Receive(c) \/ Answer(c)
           \/ \E c, d \in live : Forward(c, d)
           \/ \E c \in DOMAIN owner \ live : Leave(c)
  <2>1. RelayMoves
    BY <1>5, RelayMovesOn DEF TurnState
  <2>2. Entering => Entering'
    BY <1>5, <2>1, RelayAdmits
  <2>3. Synchronising => Synchronising'
    BY <2>1, RelaySynchronises DEF TurnState, CalmState
  <2>4. Spreading => Spreading'
    BY <2>1, RelaySpreads
  <2> QED BY <2>1, <2>2, <2>3, <2>4, RelaySaves DEF TurnState, TurnsInv
<1> QED BY <1>1, <1>2, <1>3, <1>4, <1>5, CalmSteps DEF TurnState

LEMMA TurnInit == Init => TurnsInv
<1> SUFFICES ASSUME Init
             PROVE  TurnsInv
  OBVIOUS
<1>1. /\ \A c \in Connection : up[c] = <<>> /\ down[c] = <<>> /\ message[c] = NoMessage
      /\ live = {} /\ accepted = {} /\ snapshot = Earlier
      /\ \A p \in Page : websocket[p] = 0 /\ pending[p] = <<>> /\ log[p] = {}
  BY DEF Init
<1>2. Everything = Earlier
  BY <1>1 DEF Everything, Typed
<1>3. \A c \in Connection : Up(c) = {} /\ Down(c) = {} /\ message[c].type = "ack"
  BY <1>1, NoItems DEF Up, Down, NoMessage
<1>4. SavingInv
  BY <1>1, <1>2, <1>3 DEF SavingInv
<1>5. Synchronising
  BY <1>1, <1>2, <1>3 DEF Synchronising, Started
<1> QED BY <1>4, <1>5 DEF TurnsInv

\* While the users take turns, they go on to.
Turns == discipline = "turns" => TurnsInv

LEMMA TurnsInvariance == Spec => []Turns
<1>1. Inv /\ Inv' /\ WayInv /\ Calm /\ Calm' /\ Turns /\ [Next]_vars => Turns'
  BY TurnStep, DisciplineStays DEF Turns, TurnState, TurnsInv, Calm, CalmState, CalmInv, WayInv
<1>2. Init => Turns
  BY TurnInit DEF Turns
<1> QED BY <1>1, <1>2, CalmInvariance, WayInvariance, CollabInvariance, PTL DEF Spec

\* sendSnapshot and SaveInternalSnapshot: if moreover nobody types before he has heard of
\* everything, every snapshot written has all there is, so that whenever nothing is under way
\* the store has every operation the relay has ever accepted.
THEOREM TurnsAreSaved == Spec => []TurnsSaved
<1>1. Inv /\ WayInv /\ Calm /\ Turns => TurnsSaved
  <2>1. TurnState /\ Quiet => accepted \union Earlier \subseteq snapshot
    <3> SUFFICES ASSUME TurnState, Quiet
                 PROVE  accepted \union Earlier \subseteq snapshot
      OBVIOUS
    <3>1. Everything \subseteq snapshot
      BY QuietTurns
    <3> QED BY <3>1 DEF TurnState, SavingInv, Everything
  <2> QED BY <2>1 DEF TurnsSaved, Turns, TurnState, TurnsInv, Calm, CalmState, CalmInv, WayInv
<1> QED BY <1>1, TurnsInvariance, CalmInvariance, WayInvariance, CollabInvariance, PTL

=============================================================================
