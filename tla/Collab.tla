-------------------------------- MODULE Collab --------------------------------
(***************************************************************************)
(* A room as its users have it: the pages (useCollaborativeDocument.js)    *)
(* with their websockets, the handlers of the relay that forward what the  *)
(* pages send, and the snapshot of the room in the store behind the relay. *)
(*                                                                         *)
(* A document is here the set of the operations it has integrated, which   *)
(* is what Document shows it to be for the others (ImplementsOpLog); an    *)
(* operation is its author and the author's clock.  A handler of a page    *)
(* runs to its end and is one step.  What a handler of the relay does is   *)
(* cut as in Relay; the list of users, which no page acts upon, is left    *)
(* out, and so are deletes, which travel like inserts but are claimed one  *)
(* by one.  A page that is loaded again is another page.                   *)
(***************************************************************************)
EXTENDS Naturals, Sequences, FiniteSets

CONSTANTS
  Page,           \* pages on one document, each loaded once
  MaxConnections, \* bound: websockets opened by all pages together
  MaxTyped,       \* bound: operations typed by all pages together
  MaxFaults,      \* bound: connections that break and restarts of the relay, together
  EarlierOps,     \* operations of a page of the past, in the snapshot from the start
  Disciplines     \* the ways of using the editor that are considered

ASSUME CollabAssumption ==
  /\ MaxConnections \in Nat /\ MaxTyped \in Nat /\ MaxFaults \in Nat /\ EarlierOps \in Nat
  /\ "earlier" \notin Page
  /\ Disciplines \subseteq {"free", "orderly", "turns"}

Connection == 1..MaxConnections
Operation == (Page \union {"earlier"}) \X Nat
Earlier == {"earlier"} \X (0..EarlierOps - 1)

VARIABLES
  log,        \* per page, the operations its document has
  pending,    \* pendingOperations
  status,     \* connectionStatusRef
  websocket,  \* the number of its websocket, 0 before the first
  open,       \* pages whose websocket has the readyState OPEN
  shut,       \* pages that have been closed
  owner,      \* per connection, its page, once it has been opened
  up, down,   \* what is on its way to the relay and to the page
  live,       \* connections neither broken nor closed
  handler,    \* where the handler of each connection is
  joined,     \* connections with a session in the hub
  receivers, message, \* what a handler is forwarding, and to whom still
  snapshot,   \* the snapshot of the room in the store
  faults,     \* breaks and restarts so far
  sent,       \* history: what each page has sent as live operations
  accepted,   \* history: live operations the relay has read
  discipline  \* how the editor is used

page == <<log, pending, status, websocket, open, sent>>
network == <<up, down, live>>
relay == <<handler, joined, receivers, message>>
past == <<accepted, faults, discipline>>
vars == <<page, shut, owner, network, relay, snapshot, past>>

Message == [type : {"join", "ack", "sync1", "sync2", "operation", "snapshot"},
            ops : SUBSET Operation]
JoinMessage == [type |-> "join", ops |-> {}]
Ack == [type |-> "ack", ops |-> {}]
NoMessage == [type |-> "ack", ops |-> {}]

Init ==
  /\ log = [p \in Page |-> {}] /\ pending = [p \in Page |-> <<>>]
  /\ status = [p \in Page |-> "disconnected"] /\ websocket = [p \in Page |-> 0]
  /\ open = {} /\ shut = {} /\ owner = <<>>
  /\ up = [c \in Connection |-> <<>>] /\ down = [c \in Connection |-> <<>>]
  /\ live = {}
  /\ handler = [c \in Connection |-> "join"] /\ joined = {}
  /\ receivers = [c \in Connection |-> {}]
  /\ message = [c \in Connection |-> NoMessage]
  /\ snapshot = Earlier /\ faults = 0
  /\ sent = [p \in Page |-> <<>>] /\ accepted = {}
  /\ discipline \in Disciplines

-----------------------------------------------------------------------------
\* What synchronisation sends.

\* generateStateVector: per author, the operations before the first one missing
Claimed(ops) == {o \in ops : \A n \in 0..o[2] : <<o[1], n>> \in ops}

\* generateSync2, the answer to the vector of somebody else
Missing(ops, claimed) == ops \ claimed

\* a page writes messages on its websocket; on one that is broken, unnoticed, they are lost
Write(c, messages) == IF c \in live THEN [up EXCEPT ![c] = @ \o messages] ELSE up

Operations(ops) == [i \in DOMAIN ops |-> [type |-> "operation", ops |-> {ops[i]}]]
Snapshot(ops) == <<[type |-> "snapshot", ops |-> ops]>>

-----------------------------------------------------------------------------
\* The system at rest: nothing under way, and every page that is open is online.

Started(p) == websocket[p] # 0 /\ p \notin shut

Quiet ==
  /\ \A c \in DOMAIN owner :
       /\ up[c] = <<>> /\ down[c] = <<>>
       /\ handler[c] = IF c \in live THEN "read" ELSE "done"
  /\ \A p \in Page : Started(p) => status[p] = "online"

\* the relay has noticed every page that has left
Noticed == \A c \in DOMAIN owner : c \in live \/ handler[c] = "done"

MayType ==
  /\ discipline = "orderly" => Noticed
  /\ discipline = "turns" => Quiet

-----------------------------------------------------------------------------
\* The pages.

\* connect: at once when the page is mounted, and two seconds after each onclose.  The
\* opening of the websocket, with the join that onopen sends, is part of the step.
Connect(p) ==
  /\ p \notin shut /\ status[p] = "disconnected"
  /\ websocket[p] = 0 /\ discipline # "free" => Quiet
  /\ LET c == Len(owner) + 1
     IN  /\ c \in Connection
         /\ owner' = Append(owner, p)
         /\ websocket' = [websocket EXCEPT ![p] = c]
         /\ up' = [up EXCEPT ![c] = <<JoinMessage>>]
         /\ live' = live \union {c}
  /\ open' = open \union {p}
  /\ status' = [status EXCEPT ![p] = "connecting"]
  /\ UNCHANGED <<log, pending, sent, shut, down, relay, snapshot, past>>

\* onmessage, one alternative per message; ops is what the message carries
OnJoinAck(p, ops) ==
  /\ status' = [status EXCEPT ![p] = "syncing"]
  /\ up' = Write(websocket[p], <<[type |-> "sync1", ops |-> Claimed(log[p])]>>)
  /\ UNCHANGED <<log, pending, sent>>

OnSync1(p, ops) ==
  /\ up' = Write(websocket[p], <<[type |-> "sync2", ops |-> Missing(log[p], ops)]>>)
  /\ UNCHANGED <<log, pending, status, sent>>

\* Mutant: a page that is online ignores the answers that still come.
OnSync2Once(p, ops) ==
  IF status[p] = "online"
  THEN UNCHANGED <<log, status, up, sent, pending>>
  ELSE /\ log' = [log EXCEPT ![p] = @ \union ops]
       /\ status' = [status EXCEPT ![p] = "online"]
       /\ up' = Write(websocket[p], Operations(pending[p]) \o Snapshot(log'[p]))
       /\ sent' = [sent EXCEPT ![p] = @ \o pending[p]]
       /\ pending' = [pending EXCEPT ![p] = <<>>]

\* integrateDelta, online, flushPendingOperations, sendSnapshot
OnSync2(p, ops) ==
  /\ log' = [log EXCEPT ![p] = @ \union ops]
  /\ status' = [status EXCEPT ![p] = "online"]
  /\ up' = Write(websocket[p], Operations(pending[p]) \o Snapshot(log'[p]))
  /\ sent' = [sent EXCEPT ![p] = @ \o pending[p]]
  /\ pending' = [pending EXCEPT ![p] = <<>>]

OnOperation(p, ops) ==
  /\ log' = [log EXCEPT ![p] = @ \union ops]
  /\ UNCHANGED <<pending, status, sent, up>>

OnMessage(p) ==
  /\ p \in open
  /\ LET c == websocket[p]
     IN  /\ down[c] # <<>>
         /\ down' = [down EXCEPT ![c] = Tail(@)]
         /\ LET m == Head(down[c])
            IN  \/ m.type = "ack" /\ OnJoinAck(p, m.ops)
                \/ m.type = "sync1" /\ OnSync1(p, m.ops)
                \/ m.type = "sync2" /\ OnSync2(p, m.ops)
                \/ m.type = "operation" /\ OnOperation(p, m.ops)
  /\ UNCHANGED <<websocket, open, shut, owner, live, relay, snapshot, past>>

\* The page notices that its websocket has been closed or is broken; onclose comes later.
CloseBegins(p) ==
  /\ p \in open /\ websocket[p] \notin live
  /\ open' = open \ {p}
  /\ UNCHANGED <<log, pending, status, websocket, sent, shut, owner, network, relay, snapshot, past>>

\* Mutant: the status gets a name nobody tests for.
OnCloseMisnamed(p) ==
  /\ p \notin shut \union open /\ status[p] # "disconnected"
  /\ status' = [status EXCEPT ![p] = "offline"]
  /\ UNCHANGED <<log, pending, websocket, open, sent, shut, owner, network, relay, snapshot, past>>

\* onclose
OnClose(p) ==
  /\ p \notin shut \union open /\ status[p] # "disconnected"
  /\ status' = [status EXCEPT ![p] = "disconnected"]
  /\ UNCHANGED <<log, pending, websocket, open, sent, shut, owner, network, relay, snapshot, past>>

Typed == UNION {{o \in log[p] : o[1] = p} : p \in Page}

\* Mutant: an operation is sent as soon as the join is acknowledged.
HandleInputSyncing(p) ==
  /\ Started(p) /\ Cardinality(Typed) < MaxTyped
  /\ MayType
  /\ LET o == <<p, Cardinality({x \in log[p] : x[1] = p})>>
     IN  /\ log' = [log EXCEPT ![p] = @ \union {o}]
         /\ IF status[p] \in {"syncing", "online"} /\ p \in open
            THEN /\ up' = Write(websocket[p], Operations(<<o>>) \o Snapshot(log'[p]))
                 /\ sent' = [sent EXCEPT ![p] = Append(@, o)]
                 /\ UNCHANGED pending
            ELSE /\ pending' = [pending EXCEPT ![p] = Append(@, o)]
                 /\ UNCHANGED <<up, sent>>
  /\ UNCHANGED <<status, websocket, open, shut, owner, down, live, relay, snapshot, past>>

\* handleInput: the edit, sendOrQueue and sendSnapshot
HandleInput(p) ==
  /\ Started(p) /\ Cardinality(Typed) < MaxTyped
  /\ MayType
  /\ LET o == <<p, Cardinality({x \in log[p] : x[1] = p})>>
     IN  /\ log' = [log EXCEPT ![p] = @ \union {o}]
         /\ IF status[p] = "online" /\ p \in open
            THEN /\ up' = Write(websocket[p], Operations(<<o>>) \o Snapshot(log'[p]))
                 /\ sent' = [sent EXCEPT ![p] = Append(@, o)]
                 /\ UNCHANGED pending
            ELSE /\ pending' = [pending EXCEPT ![p] = Append(@, o)]
                 /\ UNCHANGED <<up, sent>>
  /\ UNCHANGED <<status, websocket, open, shut, owner, down, live, relay, snapshot, past>>

\* The page is left: what it has written still arrives.
Unmount(p) ==
  /\ Started(p)
  /\ discipline # "free" => Quiet
  /\ shut' = shut \union {p} /\ open' = open \ {p}
  /\ live' = live \ {websocket[p]}
  /\ down' = [down EXCEPT ![websocket[p]] = <<>>]
  /\ UNCHANGED <<log, pending, status, websocket, sent, owner, up, relay, snapshot, past>>

-----------------------------------------------------------------------------
\* The handlers of the relay.

Goto(c, l) == handler' = [handler EXCEPT ![c] = l]

\* Mutant: a page that comes again gets a second session.
JoinTwice(c) ==
  /\ handler[c] = "join" /\ up[c] # <<>>
  /\ up' = [up EXCEPT ![c] = Tail(@)]
  /\ Goto(c, "ack")
  /\ joined' = joined \union {c}
  /\ UNCHANGED <<page, shut, owner, down, live, receivers, message, snapshot, past>>

\* the first message; a client that has a session in the room is refused
Join(c) ==
  /\ handler[c] = "join" /\ up[c] # <<>>
  /\ IF \E d \in joined : owner[d] = owner[c]
     THEN /\ up' = [up EXCEPT ![c] = <<>>]
          /\ live' = live \ {c}
          /\ Goto(c, "done")
          /\ UNCHANGED joined
     ELSE /\ up' = [up EXCEPT ![c] = Tail(@)]
          /\ joined' = joined \union {c}
          /\ Goto(c, "ack")
          /\ UNCHANGED live
  /\ UNCHANGED <<page, shut, owner, down, receivers, message, snapshot, past>>

\* the websocket is gone before its first message
JoinFails(c) ==
  /\ c \in DOMAIN owner /\ handler[c] = "join" /\ up[c] = <<>> /\ c \notin live
  /\ Goto(c, "done")
  /\ UNCHANGED <<page, shut, owner, network, joined, receivers, message, snapshot, past>>

\* A write to d: one that is broken takes it, while the relay has not noticed, or fails.
Delivered(d, m) == down' = IF d \in live THEN [down EXCEPT ![d] = Append(@, m)] ELSE down
Fails(d) == d \notin live /\ UNCHANGED down

SendAck(c) ==
  /\ handler[c] = "ack"
  /\ \/ Delivered(c, Ack) /\ Goto(c, "read")
     \/ Fails(c) /\ Goto(c, "leave")
  /\ UNCHANGED <<page, shut, owner, up, live, joined, receivers, message, snapshot, past>>

SaveSnapshot(c) ==
  /\ handler[c] = "read" /\ up[c] # <<>> /\ Head(up[c]).type = "snapshot"
  /\ snapshot' = Head(up[c]).ops
  /\ up' = [up EXCEPT ![c] = Tail(@)]
  /\ UNCHANGED <<page, shut, owner, down, live, relay, past>>

\* Mutant: a page alone in the room gets no answer.
ReceiveUnanswered(c) ==
  /\ handler[c] = "read" /\ up[c] # <<>> /\ Head(up[c]).type # "snapshot"
  /\ up' = [up EXCEPT ![c] = Tail(@)]
  /\ LET m == Head(up[c])
         others == joined \ {c}
     IN  /\ receivers' = [receivers EXCEPT ![c] = others]
         /\ message' = [message EXCEPT ![c] = IF others # {} THEN m ELSE NoMessage]
         /\ Goto(c, IF others # {} THEN "forward" ELSE "read")
         /\ accepted' = IF m.type = "operation" THEN accepted \union m.ops ELSE accepted
  /\ UNCHANGED <<page, shut, owner, down, live, joined, snapshot, faults, discipline>>

\* BroadcastToRoom up to the release of the lock; alone in the room, a sync_step1 is
\* answered by the relay
Receive(c) ==
  /\ handler[c] = "read" /\ up[c] # <<>> /\ Head(up[c]).type # "snapshot"
  /\ up' = [up EXCEPT ![c] = Tail(@)]
  /\ LET m == Head(up[c])
         others == joined \ {c}
     IN  /\ receivers' = [receivers EXCEPT ![c] = others]
         /\ message' = [message EXCEPT ![c] = IF others # {} THEN m ELSE NoMessage]
         /\ Goto(c, IF others # {} THEN "forward"
                    ELSE IF m.type = "sync1" THEN "answer" ELSE "read")
         /\ accepted' = IF m.type = "operation" THEN accepted \union m.ops ELSE accepted
  /\ UNCHANGED <<page, shut, owner, down, live, joined, snapshot, faults, discipline>>

\* the next receiver
Forward(c, d) ==
  /\ handler[c] = "forward" /\ d \in receivers[c]
  /\ Delivered(d, message[c])
  /\ receivers' = [receivers EXCEPT ![c] = @ \ {d}]
  /\ IF receivers'[c] # {}
     THEN UNCHANGED <<handler, message>>
     ELSE Goto(c, "read") /\ message' = [message EXCEPT ![c] = NoMessage]
  /\ UNCHANGED <<page, shut, owner, up, live, joined, snapshot, past>>

\* the first that fails ends the broadcast; telling the sender may fail, too
ForwardFails(c, d) ==
  /\ handler[c] = "forward" /\ d \in receivers[c]
  /\ Fails(d)
  /\ receivers' = [receivers EXCEPT ![c] = {}] /\ message' = [message EXCEPT ![c] = NoMessage]
  /\ \/ Goto(c, "read")
     \/ c \notin live /\ Goto(c, "leave")
  /\ UNCHANGED <<page, shut, owner, up, live, joined, snapshot, past>>

\* Mutant: the relay answers without looking into the store.
AnswerEmpty(c) ==
  /\ handler[c] = "answer"
  /\ \/ Delivered(c, [type |-> "sync2", ops |-> {}]) /\ Goto(c, "read")
     \/ Fails(c) /\ Goto(c, "leave")
  /\ UNCHANGED <<page, shut, owner, up, live, joined, receivers, message, snapshot, past>>

\* LoadInternalSnapshot and the sync_step2 made of it
Answer(c) ==
  /\ handler[c] = "answer"
  /\ \/ Delivered(c, [type |-> "sync2", ops |-> snapshot]) /\ Goto(c, "read")
     \/ Fails(c) /\ Goto(c, "leave")
  /\ UNCHANGED <<page, shut, owner, up, live, joined, receivers, message, snapshot, past>>

\* the loop ends with the first read that fails, and the session goes
Leave(c) ==
  /\ \/ handler[c] = "leave"
     \/ handler[c] = "read" /\ up[c] = <<>> /\ c \notin live
  /\ joined' = joined \ {c}
  /\ up' = [up EXCEPT ![c] = <<>>]
  /\ Goto(c, "done")
  /\ UNCHANGED <<page, shut, owner, down, live, receivers, message, snapshot, past>>

-----------------------------------------------------------------------------
\* What goes wrong (external).

\* A connection breaks and takes with it what is under way; neither end knows yet.
Break(c) ==
  /\ discipline = "free" /\ faults < MaxFaults /\ c \in live
  /\ faults' = faults + 1
  /\ live' = live \ {c}
  /\ up' = [up EXCEPT ![c] = <<>>] /\ down' = [down EXCEPT ![c] = <<>>]
  /\ UNCHANGED <<page, shut, owner, relay, snapshot, accepted, discipline>>

\* The relay stops and starts again: the hub is lost, the store is not.
Restart ==
  /\ discipline = "free" /\ faults < MaxFaults /\ owner # <<>>
  /\ faults' = faults + 1
  /\ live' = {} /\ joined' = {}
  /\ up' = [c \in Connection |-> <<>>] /\ down' = [c \in Connection |-> <<>>]
  /\ handler' = [c \in Connection |-> IF c \in DOMAIN owner THEN "done" ELSE "join"]
  /\ receivers' = [c \in Connection |-> {}]
  /\ message' = [c \in Connection |-> NoMessage]
  /\ UNCHANGED <<page, shut, owner, snapshot, accepted, discipline>>

-----------------------------------------------------------------------------

PageStep(p) == OnMessage(p) \/ CloseBegins(p) \/ OnClose(p)

RelayStep(c) ==
  \/ Join(c) \/ JoinFails(c) \/ SendAck(c)
  \/ SaveSnapshot(c) \/ Receive(c) \/ Answer(c) \/ Leave(c)
  \/ \E d \in Connection : Forward(c, d) \/ ForwardFails(c, d)

Next ==
  \/ \E p \in Page : PageStep(p) \/ Connect(p) \/ HandleInput(p) \/ Unmount(p)
  \/ \E c \in Connection : RelayStep(c) \/ Break(c)
  \/ Restart

Spec == Init /\ [][Next]_vars

\* Events are handled, handlers are scheduled, and the timer that connects again fires;
\* nobody has to open a page, to type or to leave.
Fairness ==
  /\ \A p \in Page : WF_vars(PageStep(p)) /\ WF_vars(websocket[p] # 0 /\ Connect(p))
  /\ \A c \in Connection : WF_vars(RelayStep(c))

FairSpec == Spec /\ Fairness

-----------------------------------------------------------------------------

TypeOK ==
  /\ log \in [Page -> SUBSET Operation]
  /\ pending \in [Page -> Seq(Operation)] /\ sent \in [Page -> Seq(Operation)]
  /\ status \in [Page -> {"disconnected", "connecting", "syncing", "online"}]
  /\ websocket \in [Page -> 0..MaxConnections] /\ shut \subseteq Page /\ open \subseteq Page
  /\ owner \in Seq(Page) /\ Len(owner) <= MaxConnections
  /\ up \in [Connection -> Seq(Message)] /\ down \in [Connection -> Seq(Message)]
  /\ live \subseteq DOMAIN owner /\ joined \subseteq DOMAIN owner
  /\ handler \in [Connection -> {"join", "ack", "read", "forward", "answer", "leave", "done"}]
  /\ receivers \in [Connection -> SUBSET Connection]
  /\ message \in [Connection -> Message]
  /\ snapshot \subseteq Operation /\ accepted \subseteq Operation
  /\ faults \in 0..MaxFaults /\ discipline \in Disciplines

Own(p) == {o \in log[p] : o[1] = p}

\* What a page has sent and what it has queued are together its operations, each once and
\* in the order of its clock, across disconnections, flushes and early answers.
SentInOrder ==
  \A p \in Page :
    sent[p] \o pending[p] = [i \in 1..Cardinality(Own(p)) |-> <<p, i - 1>>]

\* Nothing waits in the queue of a page that is online, unless its websocket is closing.
OnlineSends == \A p \in Page : status[p] = "online" /\ p \in open => pending[p] = <<>>

\* The clocks of the operations of p that a message carries live.
LiveClocks(p, m) == {o[2] : o \in {x \in m.ops : m.type = "operation" /\ x[1] = p}}

\* What is on its way from p to the page at d, as <<connection, place, message>>: the last
\* stretch (0), then, from the oldest connection of p on, what its handler is forwarding to d
\* and what p has written.  What is in front arrives first.
OnTheWay(p, d) ==
  LET own == {c \in DOMAIN owner : owner[c] = p}
  IN  {<<0, k, down[d][k]>> : k \in DOMAIN down[d]}
        \union {<<c, 0, message[c]>> : c \in {c \in own : d \in receivers[c]}}
        \union UNION {{<<c, k, up[c][k]>> : k \in DOMAIN up[c]} : c \in own}

InFront(a, b) == a[1] < b[1] \/ (a[1] = b[1] /\ a[2] < b[2])

\* The live operations of a page reach another page in the order of their clocks, even if
\* the page has come back on another connection while the handler of the old one is still
\* forwarding.
LiveInOrder ==
  \A p \in Page : \A d \in joined : \A a, b \in OnTheWay(p, d) :
    InFront(a, b) => \A x \in LiveClocks(p, a[3]), y \in LiveClocks(p, b[3]) : x < y

\* With pages opened and closed one at a time, on connections that hold, the pages know the
\* same operations whenever nothing is under way, however they type meanwhile.
OrderlyAgree ==
  discipline # "free" /\ Quiet =>
    \A p, q \in Page : Started(p) /\ Started(q) => log[p] = log[q]

\* If moreover nobody types before he has heard of everything, the store has every operation.
TurnsSaved == discipline = "turns" /\ Quiet => accepted \union Earlier \subseteq snapshot

\* A page that is opened while the others are online gets online.
GetsOnline ==
  \A p \in Page : (discipline # "free" /\ status[p] = "connecting") ~> status[p] = "online"

\* README, case 2: after a reconnection every client reaches the same state.
PagesAgree ==
  Quiet => \A p, q \in Page : Started(p) /\ Started(q) => log[p] = log[q]

\* README, case 3: if no client is connected, the relay has a snapshot ready to send; what
\* it has forwarded is in it.
SnapshotReady ==
  Quiet /\ (\A p \in Page : ~Started(p)) => accepted \union Earlier \subseteq snapshot

=============================================================================
