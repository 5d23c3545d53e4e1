------------------------------ MODULE RelayProofs ------------------------------
(***************************************************************************)
(* The safety of the hub, of forwarding and of presence, for every set of  *)
(* connections, rooms and clients and every number of messages.            *)
(***************************************************************************)
EXTENDS Relay, SequenceTheorems, TLAPS

\* Those a handler forwards to have joined the room of the sender.
ReceiversInv ==
  \A c \in Connection : pc[c] = "forward" =>
    \A d \in receivers[c] :
      d # c /\ pc[d] # "join" /\ session[d].room = session[c].room

\* Who wrote on a connection, and whose connection it is, have joined.
GotInv ==
  \A d \in Connection : \A i \in DOMAIN got[d] :
    pc[d] # "join" /\ pc[got[d][i][1]] # "join"

\* What has been written was read before, and earlier than what is still to be written.
NumberInv ==
  /\ \A c \in Connection :
       message[c] <= read /\ (pc[c] = "forward" => message[c] > 0)
  /\ \A d \in Connection : \A i \in DOMAIN got[d] :
       /\ got[d][i][2] <= message[got[d][i][1]]
       /\ pc[got[d][i][1]] = "forward" /\ d \in receivers[got[d][i][1]] =>
            got[d][i][2] # message[got[d][i][1]]

Inv ==
  /\ TypeOK /\ SessionsMatch /\ NoEmptyRoom
  /\ ReceiversInv /\ GotInv /\ NumberInv
  /\ StaysInRoom /\ ForwardedInOrder

-----------------------------------------------------------------------------

\* The actions, one by one.
LEMMA Steps ==
  ASSUME [Next]_vars
  PROVE  \/ UNCHANGED vars
         \/ \E c \in Connection :
              \/ Join(c) \/ RefuseJoin(c) \/ SendAck(c) \/ GetActiveUsers(c) \/ CaptureRoom(c)
              \/ Receive(c) \/ ReceiveOther(c) \/ Reply(c) \/ ReadError(c)
              \/ Leave(c) \/ CloseConnection(c) \/ Break(c) \/ Stall(c)
         \/ \E c, d \in Connection : Announce(c, d) \/ Forward(c, d)
BY DEF Next, Handler

\* What Hub.Join does to the rooms.
LEMMA JoinAdds ==
  ASSUME TypeOK, NEW c \in Connection, Join(c)
  PROVE  \E r \in RoomID, k \in ClientID :
           /\ session' = [session EXCEPT ![c] = [room |-> r, client |-> k]]
           /\ ~(r \in DOMAIN rooms /\ k \in DOMAIN rooms[r])
           /\ DOMAIN rooms' = DOMAIN rooms \union {r}
           /\ \A q \in DOMAIN rooms : q # r => rooms'[q] = rooms[q]
           /\ DOMAIN rooms'[r] = (IF r \in DOMAIN rooms THEN DOMAIN rooms[r] ELSE {}) \union {k}
           /\ rooms'[r] \in [DOMAIN rooms'[r] -> Connection]
           /\ rooms'[r][k] = c
           /\ r \in DOMAIN rooms => \A l \in DOMAIN rooms[r] : rooms'[r][l] = rooms[r][l]
<1>1. PICK r \in RoomID, k \in ClientID :
        /\ ~(r \in DOMAIN rooms /\ k \in DOMAIN rooms[r])
        /\ rooms' = [q \in DOMAIN rooms \union {r} |->
             IF q # r THEN rooms[q]
             ELSE [l \in (IF r \in DOMAIN rooms THEN DOMAIN rooms[r] ELSE {}) \union {k} |->
                     IF l = k THEN c ELSE rooms[r][l]]]
        /\ session' = [session EXCEPT ![c] = [room |-> r, client |-> k]]
  BY DEF Join, Exists
<1>2. rooms'[r] = [l \in (IF r \in DOMAIN rooms THEN DOMAIN rooms[r] ELSE {}) \union {k} |->
                     IF l = k THEN c ELSE rooms[r][l]]
  BY <1>1
<1>3. DOMAIN rooms'[r] = (IF r \in DOMAIN rooms THEN DOMAIN rooms[r] ELSE {}) \union {k}
  BY <1>2
<1>4. rooms'[r][k] = c
  BY <1>2
<1>5. r \in DOMAIN rooms => \A l \in DOMAIN rooms[r] : rooms'[r][l] = rooms[r][l]
  BY <1>1, <1>2
<1>6. \A l \in DOMAIN rooms'[r] : rooms'[r][l] \in Connection
  <2>1. r \in DOMAIN rooms => \A l \in DOMAIN rooms[r] : rooms[r][l] \in Connection
    <3>1. \A q \in DOMAIN rooms : rooms[q] \in [DOMAIN rooms[q] -> Connection]
      BY DEF TypeOK
    <3> QED BY <3>1
  <2> QED BY <1>3, <1>4, <1>5, <2>1
<1>7. rooms'[r] \in [DOMAIN rooms'[r] -> Connection]
  BY <1>2, <1>3, <1>6
<1>8. /\ DOMAIN rooms' = DOMAIN rooms \union {r}
      /\ \A q \in DOMAIN rooms : q # r => rooms'[q] = rooms[q]
  BY <1>1
<1> QED BY <1>1, <1>3, <1>4, <1>5, <1>7, <1>8

\* What Hub.Leave does to the rooms when it takes client k out of room r.
Removed(r, k) ==
  /\ r \in DOMAIN rooms /\ k \in DOMAIN rooms[r]
  /\ DOMAIN rooms' = IF DOMAIN rooms[r] = {k} THEN DOMAIN rooms \ {r} ELSE DOMAIN rooms
  /\ \A q \in DOMAIN rooms' : q # r => rooms'[q] = rooms[q]
  /\ r \in DOMAIN rooms' =>
       /\ DOMAIN rooms'[r] = DOMAIN rooms[r] \ {k}
       /\ rooms'[r] \in [DOMAIN rooms'[r] -> Connection]
       /\ \A l \in DOMAIN rooms'[r] : rooms'[r][l] = rooms[r][l]

LEMMA LeaveRemoves ==
  ASSUME TypeOK, NEW c \in Connection, Leave(c), Stored(c)
  PROVE  \E r, k : r = session[c].room /\ k = session[c].client /\ Removed(r, k)
<1>0. PICK r, k : r = session[c].room /\ k = session[c].client
  OBVIOUS
<1> DEFINE rest == DOMAIN rooms[r] \ {k}
<1>1. r \in DOMAIN rooms /\ k \in DOMAIN rooms[r]
  BY <1>0 DEF Stored, Exists
<1>2. rooms' = [q \in DOMAIN rooms \ (IF rest = {} THEN {r} ELSE {}) |->
                  IF q = r THEN [l \in rest |-> rooms[r][l]] ELSE rooms[q]]
  BY <1>0 DEF Leave
<1>3. rest = {} <=> DOMAIN rooms[r] = {k}
  BY <1>1
<1>4. DOMAIN rooms' = IF DOMAIN rooms[r] = {k} THEN DOMAIN rooms \ {r} ELSE DOMAIN rooms
  BY <1>2, <1>3
<1>5. \A q \in DOMAIN rooms' : q # r => rooms'[q] = rooms[q]
  BY <1>2
<1>6. ASSUME r \in DOMAIN rooms'
      PROVE  rooms'[r] = [l \in rest |-> rooms[r][l]]
  BY <1>2, <1>6
<1>7. rooms[r] \in [DOMAIN rooms[r] -> Connection]
  BY <1>1 DEF TypeOK
<1> HIDE DEF rest
<1>8. ASSUME r \in DOMAIN rooms'
      PROVE  /\ DOMAIN rooms'[r] = rest
             /\ \A l \in rest : rooms'[r][l] = rooms[r][l]
  BY <1>6, <1>8
<1>9. rest \subseteq DOMAIN rooms[r] /\ rest = DOMAIN rooms[r] \ {k}
  BY DEF rest
<1>10. ASSUME r \in DOMAIN rooms'
       PROVE  rooms'[r] \in [DOMAIN rooms'[r] -> Connection]
  BY <1>6, <1>7, <1>8, <1>9, <1>10
<1>11. Removed(r, k)
  BY <1>1, <1>4, <1>5, <1>8, <1>9, <1>10 DEF Removed
<1> QED BY <1>0, <1>11

-----------------------------------------------------------------------------

\* Only Hub.Join and Hub.Leave change the hub, and who is in its loop.
LEMMA HubKept ==
  ASSUME TypeOK, [Next]_vars, \A c \in Connection : ~Join(c) /\ ~Leave(c)
  PROVE  /\ UNCHANGED hub
         /\ \A x \in Connection : pc'[x] \in Joined <=> pc[x] \in Joined
<1> USE DEF Joined, Goto, hub, written
<1>1. pc \in [Connection -> Label]
  BY DEF TypeOK
<1>2. ASSUME NEW c \in Connection,
             RefuseJoin(c) \/ SendAck(c) \/ GetActiveUsers(c) \/ CaptureRoom(c)
      PROVE  UNCHANGED hub /\ \A x \in Connection : pc'[x] \in Joined <=> pc[x] \in Joined
  BY <1>1, <1>2 DEF RefuseJoin, SendAck, GetActiveUsers, CaptureRoom
<1>3. ASSUME NEW c \in Connection, Receive(c) \/ ReceiveOther(c) \/ Reply(c) \/ ReadError(c)
      PROVE  UNCHANGED hub /\ \A x \in Connection : pc'[x] \in Joined <=> pc[x] \in Joined
  BY <1>1, <1>3 DEF Receive, ReceiveOther, Reply, ReadError
<1>4. ASSUME NEW c \in Connection, CloseConnection(c) \/ Break(c) \/ Stall(c)
      PROVE  UNCHANGED hub /\ \A x \in Connection : pc'[x] \in Joined <=> pc[x] \in Joined
  BY <1>1, <1>4 DEF CloseConnection, Break, Stall
<1>5. ASSUME NEW c \in Connection, NEW d \in Connection, Announce(c, d) \/ Forward(c, d)
      PROVE  UNCHANGED hub /\ \A x \in Connection : pc'[x] \in Joined <=> pc[x] \in Joined
  BY <1>1, <1>5 DEF Announce, Forward
<1>6. CASE UNCHANGED vars
  BY <1>6 DEF vars
<1> QED BY <1>2, <1>3, <1>4, <1>5, <1>6, Steps

\* Nobody returns to the join, and a session is made once.
LEMMA JoinOnce ==
  ASSUME TypeOK, [Next]_vars, NEW x \in Connection, pc[x] # "join"
  PROVE  pc'[x] # "join" /\ session'[x] = session[x]
<1> USE DEF Goto, hub, written
<1>1. pc \in [Connection -> Label]
  BY DEF TypeOK
<1>2. ASSUME NEW c \in Connection,
             RefuseJoin(c) \/ SendAck(c) \/ GetActiveUsers(c) \/ CaptureRoom(c)
      PROVE  pc'[x] # "join" /\ session'[x] = session[x]
  BY <1>1, <1>2 DEF RefuseJoin, SendAck, GetActiveUsers, CaptureRoom
<1>3. ASSUME NEW c \in Connection, Receive(c) \/ ReceiveOther(c) \/ Reply(c) \/ ReadError(c)
      PROVE  pc'[x] # "join" /\ session'[x] = session[x]
  BY <1>1, <1>3 DEF Receive, ReceiveOther, Reply, ReadError
<1>4. ASSUME NEW c \in Connection, Leave(c) \/ CloseConnection(c) \/ Break(c) \/ Stall(c)
      PROVE  pc'[x] # "join" /\ session'[x] = session[x]
  BY <1>1, <1>4 DEF Leave, CloseConnection, Break, Stall
<1>5. ASSUME NEW c \in Connection, NEW d \in Connection, Announce(c, d) \/ Forward(c, d)
      PROVE  pc'[x] # "join" /\ session'[x] = session[x]
  BY <1>1, <1>5 DEF Announce, Forward
<1>6. ASSUME NEW c \in Connection, Join(c)
      PROVE  pc'[x] # "join" /\ session'[x] = session[x]
  <2>1. pc[c] = "join" /\ pc' = [pc EXCEPT ![c] = "ack"]
    BY <1>6 DEF Join
  <2>2. \E s : session' = [session EXCEPT ![c] = s]
    BY <1>6, JoinAdds
  <2> QED BY <1>1, <2>1, <2>2 DEF TypeOK
<1>7. CASE UNCHANGED vars
  BY <1>7 DEF vars
<1> QED BY <1>2, <1>3, <1>4, <1>5, <1>6, <1>7, Steps

\* Sessions: a join adds one under a free name, a leave takes out the handler's own.
LEMMA SessionsStep ==
  ASSUME TypeOK, SessionsMatch, [Next]_vars
  PROVE  SessionsMatch'
<1>1. /\ pc \in [Connection -> Label]
      /\ session \in [Connection -> [room : RoomID \union {""}, client : ClientID \union {""}]]
      /\ \A r \in DOMAIN rooms : \A k \in DOMAIN rooms[r] : rooms[r][k] \in Connection
  <2>1. \A r \in DOMAIN rooms : rooms[r] \in [DOMAIN rooms[r] -> Connection]
    BY DEF TypeOK
  <2>2. \A r \in DOMAIN rooms : \A k \in DOMAIN rooms[r] : rooms[r][k] \in Connection
    BY <2>1
  <2> QED BY <2>2 DEF TypeOK
<1>2. ASSUME NEW c \in Connection, Join(c)
      PROVE  SessionsMatch'
  <2>1. PICK r \in RoomID, k \in ClientID :
          /\ session' = [session EXCEPT ![c] = [room |-> r, client |-> k]]
          /\ ~(r \in DOMAIN rooms /\ k \in DOMAIN rooms[r])
          /\ DOMAIN rooms' = DOMAIN rooms \union {r}
          /\ \A q \in DOMAIN rooms : q # r => rooms'[q] = rooms[q]
          /\ DOMAIN rooms'[r] = (IF r \in DOMAIN rooms THEN DOMAIN rooms[r] ELSE {}) \union {k}
          /\ rooms'[r] \in [DOMAIN rooms'[r] -> Connection]
          /\ rooms'[r][k] = c
          /\ r \in DOMAIN rooms => \A l \in DOMAIN rooms[r] : rooms'[r][l] = rooms[r][l]
    BY <1>2, JoinAdds
  <2>2. pc[c] = "join" /\ pc' = [pc EXCEPT ![c] = "ack"]
    BY <1>2 DEF Join, Goto
  <2>3. session'[c] = [room |-> r, client |-> k] /\ pc'[c] = "ack"
    BY <1>1, <2>1, <2>2
  <2>4. \A x \in Connection : x # c => session'[x] = session[x] /\ pc'[x] = pc[x]
    BY <1>1, <2>1, <2>2
  <2>5. ASSUME NEW x \in Connection, pc'[x] \in Joined
        PROVE  Stored(x)'
    <3>1. CASE x = c
      BY <2>1, <2>3, <3>1 DEF Stored, Exists
    <3>2. CASE x # c
      <4>1. Stored(x)
        BY <2>4, <2>5, <3>2 DEF SessionsMatch
      <4> QED BY <2>1, <2>4, <3>2, <4>1 DEF Stored, Exists
    <3> QED BY <3>1, <3>2
  <2>6. ASSUME NEW q \in DOMAIN rooms', NEW l \in DOMAIN rooms'[q]
        PROVE  /\ pc'[rooms'[q][l]] \in Joined
               /\ session'[rooms'[q][l]] = [room |-> q, client |-> l]
    <3>1. CASE q = r /\ l = k
      BY <2>1, <2>3, <3>1 DEF Joined
    <3>2. CASE ~(q = r /\ l = k)
      <4>1. q \in DOMAIN rooms /\ l \in DOMAIN rooms[q] /\ rooms'[q][l] = rooms[q][l]
        BY <2>1, <2>6, <3>2
      <4>2. rooms[q][l] # c
        BY <2>2, <4>1 DEF SessionsMatch, Joined
      <4>3. rooms[q][l] \in Connection
        BY <1>1, <4>1
      <4>4. /\ pc[rooms[q][l]] \in Joined
            /\ session[rooms[q][l]] = [room |-> q, client |-> l]
        BY <4>1 DEF SessionsMatch
      <4>5. /\ pc'[rooms[q][l]] = pc[rooms[q][l]]
            /\ session'[rooms[q][l]] = session[rooms[q][l]]
        BY <2>4, <4>2, <4>3
      <4> QED BY <4>1, <4>4, <4>5
    <3> QED BY <3>1, <3>2
  <2> QED BY <2>5, <2>6 DEF SessionsMatch
<1>3. ASSUME NEW c \in Connection, Leave(c)
      PROVE  SessionsMatch'
  <2>1. Stored(c)
    BY <1>3 DEF Leave, SessionsMatch, Joined
  <2>a. PICK r, k : r = session[c].room /\ k = session[c].client /\ Removed(r, k)
    BY <1>3, <2>1, LeaveRemoves
  <2>2. /\ r \in DOMAIN rooms /\ k \in DOMAIN rooms[r]
        /\ DOMAIN rooms' = IF DOMAIN rooms[r] = {k} THEN DOMAIN rooms \ {r} ELSE DOMAIN rooms
        /\ \A q \in DOMAIN rooms' : q # r => rooms'[q] = rooms[q]
        /\ r \in DOMAIN rooms' =>
             /\ DOMAIN rooms'[r] = DOMAIN rooms[r] \ {k}
             /\ rooms'[r] \in [DOMAIN rooms'[r] -> Connection]
             /\ \A l \in DOMAIN rooms'[r] : rooms'[r][l] = rooms[r][l]
    BY <2>a DEF Removed
  <2>3. pc' = [pc EXCEPT ![c] = "leftUsers"] /\ session' = session
    BY <1>3 DEF Leave, Goto
  <2>4. rooms[r][k] = c
    BY <2>a, <2>1 DEF Stored
  <2>5. ASSUME NEW x \in Connection, pc'[x] \in Joined
        PROVE  Stored(x)'
    <3>1. x # c
      BY <1>1, <2>3, <2>5 DEF Joined
    <3>2. Stored(x)
      BY <1>1, <2>3, <2>5, <3>1 DEF SessionsMatch
    <3>3. CASE session[x].room # r
      BY <2>2, <2>3, <3>2, <3>3 DEF Stored, Exists
    <3>4. CASE session[x].room = r
      <4>1. session[x].client # k
        BY <2>4, <3>1, <3>2, <3>4 DEF Stored
      <4>2. session[x].client \in DOMAIN rooms[r] /\ rooms[r][session[x].client] = x
        BY <3>2, <3>4 DEF Stored
      <4>3. r \in DOMAIN rooms'
        BY <2>2, <4>1, <4>2
      <4> QED BY <2>2, <2>3, <3>4, <4>1, <4>2, <4>3 DEF Stored, Exists
    <3> QED BY <3>3, <3>4
  <2>6. ASSUME NEW q \in DOMAIN rooms', NEW l \in DOMAIN rooms'[q]
        PROVE  /\ pc'[rooms'[q][l]] \in Joined
               /\ session'[rooms'[q][l]] = [room |-> q, client |-> l]
    <3>1. q \in DOMAIN rooms /\ l \in DOMAIN rooms[q] /\ rooms'[q][l] = rooms[q][l]
      BY <2>2, <2>6
    <3>2. session[rooms[q][l]] = [room |-> q, client |-> l] /\ pc[rooms[q][l]] \in Joined
      BY <3>1 DEF SessionsMatch
    <3>3. rooms[q][l] # c
      <4>1. CASE q # r
        BY <2>a, <3>2, <4>1
      <4>2. CASE q = r
        <5>1. l # k
          BY <2>2, <2>6, <4>2
        <5> QED BY <2>a, <3>2, <5>1
      <4> QED BY <4>1, <4>2
    <3> QED BY <1>1, <2>3, <3>1, <3>2, <3>3
  <2> QED BY <2>5, <2>6 DEF SessionsMatch
<1>4. CASE \A c \in Connection : ~Join(c) /\ ~Leave(c)
  <2>1. UNCHANGED <<rooms, session>> /\ \A x \in Connection : pc'[x] \in Joined <=> pc[x] \in Joined
    BY <1>4, HubKept DEF hub
  <2> QED BY <1>1, <2>1 DEF SessionsMatch, Stored, Exists
<1> QED BY <1>2, <1>3, <1>4

LEMMA RoomsStep ==
  ASSUME TypeOK, NoEmptyRoom, [Next]_vars
  PROVE  NoEmptyRoom'
<1>1. ASSUME NEW c \in Connection, Join(c)
      PROVE  NoEmptyRoom'
  <2>1. PICK r \in RoomID, k \in ClientID :
          /\ DOMAIN rooms' = DOMAIN rooms \union {r}
          /\ \A q \in DOMAIN rooms : q # r => rooms'[q] = rooms[q]
          /\ DOMAIN rooms'[r] = (IF r \in DOMAIN rooms THEN DOMAIN rooms[r] ELSE {}) \union {k}
    BY <1>1, JoinAdds
  <2> QED BY <2>1 DEF NoEmptyRoom
<1>2. ASSUME NEW c \in Connection, Leave(c)
      PROVE  NoEmptyRoom'
  <2>1. CASE Stored(c)
    <3>a. PICK r, k : r = session[c].room /\ k = session[c].client /\ Removed(r, k)
      BY <1>2, <2>1, LeaveRemoves
    <3>1. /\ r \in DOMAIN rooms /\ k \in DOMAIN rooms[r]
          /\ DOMAIN rooms' = IF DOMAIN rooms[r] = {k} THEN DOMAIN rooms \ {r} ELSE DOMAIN rooms
          /\ \A q \in DOMAIN rooms' : q # r => rooms'[q] = rooms[q]
          /\ r \in DOMAIN rooms' => DOMAIN rooms'[r] = DOMAIN rooms[r] \ {k}
      BY <3>a DEF Removed
    <3> QED BY <3>1 DEF NoEmptyRoom
  <2>2. CASE ~Stored(c)
    BY <1>2, <2>2 DEF Leave, NoEmptyRoom
  <2> QED BY <2>1, <2>2
<1>3. CASE \A c \in Connection : ~Join(c) /\ ~Leave(c)
  BY <1>3, HubKept DEF hub, NoEmptyRoom
<1> QED BY <1>1, <1>2, <1>3

-----------------------------------------------------------------------------
\* Types.

\* A leave only takes away.
LEMMA LeaveShrinks ==
  ASSUME TypeOK, NEW c \in Connection, Leave(c), Stored(c)
  PROVE  \E r : /\ DOMAIN rooms' \subseteq DOMAIN rooms
                /\ \A q \in DOMAIN rooms' : q # r => rooms'[q] = rooms[q]
                /\ r \in DOMAIN rooms' =>
                     /\ DOMAIN rooms'[r] \subseteq DOMAIN rooms[r]
                     /\ rooms'[r] \in [DOMAIN rooms'[r] -> Connection]
<1>1. PICK r, k : r = session[c].room /\ k = session[c].client /\ Removed(r, k)
  BY LeaveRemoves
<1>2. /\ r \in DOMAIN rooms /\ k \in DOMAIN rooms[r]
      /\ DOMAIN rooms' = IF DOMAIN rooms[r] = {k} THEN DOMAIN rooms \ {r} ELSE DOMAIN rooms
      /\ \A q \in DOMAIN rooms' : q # r => rooms'[q] = rooms[q]
      /\ r \in DOMAIN rooms' =>
           /\ DOMAIN rooms'[r] = DOMAIN rooms[r] \ {k}
           /\ rooms'[r] \in [DOMAIN rooms'[r] -> Connection]
           /\ \A l \in DOMAIN rooms'[r] : rooms'[r][l] = rooms[r][l]
  BY <1>1 DEF Removed
<1> QED BY <1>2

\* Every step keeps the types.
LEMMA TypeStep ==
  ASSUME TypeOK, NumberInv, [Next]_vars
  PROVE  TypeOK'
<1> USE DEF Label, Joined, Goto, hub, written
<1>0. MaxMessages \in Nat
  BY RelayAssumption
<1>1. /\ DOMAIN rooms \subseteq RoomID
      /\ \A r \in DOMAIN rooms :
           /\ DOMAIN rooms[r] \subseteq ClientID
           /\ rooms[r] \in [DOMAIN rooms[r] -> Connection]
      /\ session \in [Connection -> [room : RoomID \union {""}, client : ClientID \union {""}]]
  BY DEF TypeOK
<1>2. /\ pc \in [Connection -> Label]
      /\ users \in [Connection -> SUBSET ClientID]
      /\ receivers \in [Connection -> SUBSET Connection]
      /\ read \in 0..MaxMessages /\ message \in [Connection -> 0..MaxMessages]
      /\ open \subseteq Connection /\ stalled \subseteq Connection
  BY DEF TypeOK
<1>3. /\ shown \in [Connection -> SUBSET ClientID]
      /\ got \in [Connection -> Seq(Connection \X (1..MaxMessages))]
  BY DEF TypeOK
<1>4. \A r \in DOMAIN rooms : Sessions(r) \subseteq Connection /\ Users(r) \subseteq ClientID
  <2>1. \A r \in DOMAIN rooms : \A k \in DOMAIN rooms[r] : rooms[r][k] \in Connection
    BY <1>1
  <2>2. \A r \in DOMAIN rooms : Sessions(r) \subseteq Connection
    BY <2>1 DEF Sessions
  <2>3. \A r \in DOMAIN rooms : Users(r) \subseteq ClientID
    BY <1>1 DEF Users
  <2> QED BY <2>2, <2>3
<1>5. ASSUME NEW c \in Connection, Join(c)
      PROVE  TypeOK'
  <2>1. PICK r \in RoomID, k \in ClientID :
          /\ session' = [session EXCEPT ![c] = [room |-> r, client |-> k]]
          /\ ~(r \in DOMAIN rooms /\ k \in DOMAIN rooms[r])
          /\ DOMAIN rooms' = DOMAIN rooms \union {r}
          /\ \A q \in DOMAIN rooms : q # r => rooms'[q] = rooms[q]
          /\ DOMAIN rooms'[r] = (IF r \in DOMAIN rooms THEN DOMAIN rooms[r] ELSE {}) \union {k}
          /\ rooms'[r] \in [DOMAIN rooms'[r] -> Connection]
          /\ rooms'[r][k] = c
          /\ r \in DOMAIN rooms => \A l \in DOMAIN rooms[r] : rooms'[r][l] = rooms[r][l]
    BY <1>5, JoinAdds
  <2>2. /\ pc' = [pc EXCEPT ![c] = "ack"]
        /\ UNCHANGED <<users, receivers, read, message, open, stalled, shown, got>>
    BY <1>5 DEF Join
  <2>3. \A q \in DOMAIN rooms' :
           /\ DOMAIN rooms'[q] \subseteq ClientID
           /\ rooms'[q] \in [DOMAIN rooms'[q] -> Connection]
    <3>1. DOMAIN rooms'[r] \subseteq ClientID
      BY <1>1, <2>1
    <3> QED BY <1>1, <2>1, <3>1
  <2>4. session' \in [Connection -> [room : RoomID \union {""}, client : ClientID \union {""}]]
    BY <1>1, <2>1
  <2> QED BY <1>1, <1>2, <1>3, <2>1, <2>2, <2>3, <2>4 DEF TypeOK
<1>6. ASSUME NEW c \in Connection, Leave(c)
      PROVE  TypeOK'
  <2>1. /\ pc' = [pc EXCEPT ![c] = "leftUsers"]
        /\ UNCHANGED <<session, users, receivers, read, message, open, stalled, shown, got>>
    BY <1>6 DEF Leave
  <2>2. /\ DOMAIN rooms' \subseteq RoomID
        /\ \A q \in DOMAIN rooms' :
             /\ DOMAIN rooms'[q] \subseteq ClientID
             /\ rooms'[q] \in [DOMAIN rooms'[q] -> Connection]
    <3>1. CASE Stored(c)
      <4>1. PICK r : /\ DOMAIN rooms' \subseteq DOMAIN rooms
                     /\ \A q \in DOMAIN rooms' : q # r => rooms'[q] = rooms[q]
                     /\ r \in DOMAIN rooms' =>
                          /\ DOMAIN rooms'[r] \subseteq DOMAIN rooms[r]
                          /\ rooms'[r] \in [DOMAIN rooms'[r] -> Connection]
        BY <1>6, <3>1, LeaveShrinks
      <4> QED BY <1>1, <4>1
    <3>2. CASE ~Stored(c)
      BY <1>1, <1>6, <3>2 DEF Leave
    <3> QED BY <3>1, <3>2
  <2> QED BY <1>1, <1>2, <1>3, <2>1, <2>2 DEF TypeOK
<1>7. ASSUME UNCHANGED hub,
             /\ pc' \in [Connection -> Label]
             /\ users' \in [Connection -> SUBSET ClientID]
             /\ receivers' \in [Connection -> SUBSET Connection]
             /\ read' \in 0..MaxMessages /\ message' \in [Connection -> 0..MaxMessages]
             /\ open' \subseteq Connection /\ stalled' \subseteq Connection,
             /\ shown' \in [Connection -> SUBSET ClientID]
             /\ got' \in [Connection -> Seq(Connection \X (1..MaxMessages))]
      PROVE  TypeOK'
  BY <1>1, <1>7 DEF TypeOK
<1>8. ASSUME NEW c \in Connection, RefuseJoin(c) \/ SendAck(c) \/ GetActiveUsers(c)
      PROVE  TypeOK'
  <2>1. CASE RefuseJoin(c)
    BY <1>2, <1>3, <1>7, <2>1 DEF RefuseJoin
  <2>2. CASE SendAck(c)
    BY <1>2, <1>3, <1>7, <2>2 DEF SendAck
  <2>3. CASE GetActiveUsers(c)
    <3>1. users' \in [Connection -> SUBSET ClientID]
      <4>1. CASE Exists(session[c].room)
        <5>1. Users(session[c].room) \in SUBSET ClientID
          BY <1>4, <4>1 DEF Exists
        <5>2. users' = [users EXCEPT ![c] = Users(session[c].room)]
          BY <2>3, <4>1 DEF GetActiveUsers
        <5> QED BY <1>2, <5>1, <5>2
      <4>2. CASE ~Exists(session[c].room)
        BY <1>2, <2>3, <4>2 DEF GetActiveUsers
      <4> QED BY <4>1, <4>2
    <3>2. pc' \in [Connection -> Label]
      BY <1>2, <2>3 DEF GetActiveUsers
    <3>3. UNCHANGED <<hub, receivers, read, message, open, stalled, written>>
      BY <2>3 DEF GetActiveUsers
    <3> QED BY <1>2, <1>3, <1>7, <3>1, <3>2, <3>3
  <2> QED BY <1>8, <2>1, <2>2, <2>3
<1>9. ASSUME NEW c \in Connection, CaptureRoom(c)
      PROVE  TypeOK'
  <2>1. receivers' \in [Connection -> SUBSET Connection]
    <3>1. CASE Exists(session[c].room)
      <4>1. Sessions(session[c].room) \in SUBSET Connection
        BY <1>4, <3>1 DEF Exists
      <4>2. receivers' = [receivers EXCEPT ![c] = Sessions(session[c].room)]
        BY <1>9, <3>1 DEF CaptureRoom
      <4> QED BY <1>2, <4>1, <4>2
    <3>2. CASE ~Exists(session[c].room)
      BY <1>2, <1>9, <3>2 DEF CaptureRoom
    <3> QED BY <3>1, <3>2
  <2>2. users' \in [Connection -> SUBSET ClientID]
    BY <1>2, <1>9 DEF CaptureRoom
  <2>3. pc' \in [Connection -> Label]
    BY <1>2, <1>9 DEF CaptureRoom
  <2>4. UNCHANGED <<hub, read, message, open, stalled, written>>
    BY <1>9 DEF CaptureRoom
  <2> QED BY <1>2, <1>3, <1>7, <2>1, <2>2, <2>3, <2>4
<1>10. ASSUME NEW c \in Connection, Receive(c)
       PROVE  TypeOK'
  <2>1. read < MaxMessages /\ read' = read + 1 /\ message' = [message EXCEPT ![c] = read + 1]
    BY <1>10 DEF Receive
  <2>2. read' \in 0..MaxMessages /\ message' \in [Connection -> 0..MaxMessages]
    <3>1. read \in 0..MaxMessages /\ message \in [Connection -> 0..MaxMessages]
      BY <1>2
    <3>2. read + 1 \in 0..MaxMessages
      BY <1>0, <2>1, <3>1
    <3> QED BY <2>1, <3>1, <3>2
  <2>3. (IF Stored(c) THEN Sessions(session[c].room) \ {c} ELSE {}) \in SUBSET Connection
    BY <1>4 DEF Stored, Exists
  <2>4. receivers' \in [Connection -> SUBSET Connection]
    BY <1>2, <1>10, <2>3 DEF Receive
  <2>5. pc' \in [Connection -> Label]
    BY <1>2, <1>10 DEF Receive
  <2>6. UNCHANGED <<hub, users, open, stalled, written>>
    BY <1>10 DEF Receive
  <2> QED BY <1>2, <1>3, <1>7, <2>2, <2>4, <2>5, <2>6
<1>11. ASSUME NEW c \in Connection, ReceiveOther(c) \/ Reply(c) \/ ReadError(c)
      PROVE  TypeOK'
  BY <1>2, <1>3, <1>7, <1>11 DEF ReceiveOther, Reply, ReadError
<1>12. ASSUME NEW c \in Connection, CloseConnection(c) \/ Break(c) \/ Stall(c)
      PROVE  TypeOK'
  BY <1>2, <1>3, <1>7, <1>12 DEF CloseConnection, Break, Stall
<1>13. ASSUME NEW c \in Connection, NEW d \in Connection, Announce(c, d)
      PROVE  TypeOK'
  BY <1>2, <1>3, <1>7, <1>13 DEF Announce
<1>14. ASSUME NEW c \in Connection, NEW d \in Connection, Forward(c, d)
      PROVE  TypeOK'
  <2>1. CASE d \in open
    <3>1. message[c] > 0
      BY <1>14 DEF Forward, NumberInv
    <3>2. message[c] \in 1..MaxMessages
      <4>1. message[c] \in 0..MaxMessages
        BY <1>2
      <4> QED BY <1>0, <3>1, <4>1
    <3>3. Append(got[d], <<c, message[c]>>) \in Seq(Connection \X (1..MaxMessages))
      <4>1. got[d] \in Seq(Connection \X (1..MaxMessages))
        BY <1>3
      <4>2. <<c, message[c]>> \in Connection \X (1..MaxMessages)
        BY <3>2
      <4> QED BY <4>1, <4>2, AppendProperties
    <3>4. got' \in [Connection -> Seq(Connection \X (1..MaxMessages))]
      BY <1>3, <1>14, <2>1, <3>3 DEF Forward
    <3>5. receivers' \in [Connection -> SUBSET Connection]
      <4>1. receivers' = [receivers EXCEPT ![c] = receivers[c] \ {d}]
        BY <1>14, <2>1 DEF Forward
      <4> QED BY <1>2, <4>1
    <3>6. pc' \in [Connection -> Label]
      <4>1. pc' = pc \/ pc' = [pc EXCEPT ![c] = "read"]
        BY <1>14, <2>1 DEF Forward
      <4> QED BY <1>2, <4>1 DEF Label
    <3>7. UNCHANGED <<hub, users, read, message, open, stalled, shown>>
      BY <1>14 DEF Forward
    <3> QED BY <1>2, <1>3, <1>7, <3>4, <3>5, <3>6, <3>7
  <2>2. CASE d \notin open
    BY <1>2, <1>3, <1>7, <1>14, <2>2 DEF Forward
  <2> QED BY <2>1, <2>2
<1>15. CASE UNCHANGED vars
  BY <1>2, <1>3, <1>7, <1>15 DEF vars
<1> QED BY <1>5, <1>6, <1>8, <1>9, <1>10, <1>11, <1>12, <1>13, <1>14, <1>15, Steps

-----------------------------------------------------------------------------
\* Who is written to.

\* What the handlers forward, to whom, and what has been written, in one step: nothing
\* changes, or Receive sets it up, or Forward writes to one of the receivers.
LEMMA ForwardingStep ==
  ASSUME TypeOK, [Next]_vars
  PROVE  \/ /\ UNCHANGED <<read, message, got>>
            /\ \A x \in Connection : pc'[x] = "forward" <=> pc[x] = "forward"
            /\ \A x \in Connection : pc[x] = "forward" => receivers'[x] = receivers[x]
         \/ \E c \in Connection :
              /\ Receive(c) /\ read \in Nat
              /\ pc[c] = "read" /\ UNCHANGED got
              /\ read' = read + 1 /\ message' = [message EXCEPT ![c] = read + 1]
              /\ \A x \in Connection : x # c => pc'[x] = pc[x] /\ receivers'[x] = receivers[x]
              /\ pc'[c] = "forward" =>
                   Stored(c) /\ receivers'[c] = Sessions(session[c].room) \ {c}
         \/ \E c, d \in Connection :
              /\ pc[c] = "forward" /\ d \in receivers[c]
              /\ UNCHANGED <<read, message>>
              /\ \A x \in Connection : pc'[x] = "forward" => pc[x] = "forward"
              /\ \A x \in Connection : x # c => receivers'[x] = receivers[x]
              /\ receivers'[c] \subseteq receivers[c] \ {d}
              /\ \/ UNCHANGED got
                 \/ got' = [got EXCEPT ![d] = Append(got[d], <<c, message[c]>>)]
<1> USE DEF Goto, hub, written
<1>1. /\ pc \in [Connection -> Label]
      /\ receivers \in [Connection -> SUBSET Connection]
      /\ read \in Nat
  <2>1. read \in 0..MaxMessages
    BY DEF TypeOK
  <2>2. read \in Nat
    BY <2>1
  <2> QED BY <2>2 DEF TypeOK
<1> DEFINE Same == /\ UNCHANGED <<read, message, got>>
                   /\ \A x \in Connection : pc'[x] = "forward" <=> pc[x] = "forward"
                   /\ \A x \in Connection : pc[x] = "forward" => receivers'[x] = receivers[x]
<1>2. ASSUME NEW c \in Connection,
             Join(c) \/ RefuseJoin(c) \/ SendAck(c) \/ GetActiveUsers(c) \/ CaptureRoom(c)
      PROVE  Same
  <2>1. CASE Join(c)
    <3>1. pc[c] = "join" /\ pc' = [pc EXCEPT ![c] = "ack"]
             /\ UNCHANGED <<receivers, read, message, got>>
      BY <2>1 DEF Join
    <3> QED BY <1>1, <3>1
  <2>2. CASE RefuseJoin(c) \/ SendAck(c)
    BY <1>1, <2>2 DEF RefuseJoin, SendAck
  <2>3. CASE GetActiveUsers(c)
    BY <1>1, <2>3 DEF GetActiveUsers
  <2>4. CASE CaptureRoom(c)
    BY <1>1, <2>4 DEF CaptureRoom
  <2> QED BY <1>2, <2>1, <2>2, <2>3, <2>4
<1>3. ASSUME NEW c \in Connection, ReceiveOther(c) \/ Reply(c) \/ ReadError(c)
      PROVE  Same
  BY <1>1, <1>3 DEF ReceiveOther, Reply, ReadError
<1>4. ASSUME NEW c \in Connection, Leave(c) \/ CloseConnection(c) \/ Break(c) \/ Stall(c)
      PROVE  Same
  <2>1. CASE Leave(c)
    <3>1. pc[c] = "leave" /\ pc' = [pc EXCEPT ![c] = "leftUsers"]
             /\ UNCHANGED <<receivers, read, message, got>>
      BY <2>1 DEF Leave
    <3> QED BY <1>1, <3>1
  <2>2. CASE CloseConnection(c) \/ Break(c) \/ Stall(c)
    BY <1>1, <2>2 DEF CloseConnection, Break, Stall
  <2> QED BY <1>4, <2>1, <2>2
<1>5. ASSUME NEW c \in Connection, NEW d \in Connection, Announce(c, d)
      PROVE  Same
  BY <1>1, <1>5 DEF Announce
<1>6. ASSUME NEW c \in Connection, Receive(c)
      PROVE  /\ Receive(c) /\ read \in Nat
             /\ pc[c] = "read" /\ UNCHANGED got
             /\ read' = read + 1 /\ message' = [message EXCEPT ![c] = read + 1]
             /\ \A x \in Connection : x # c => pc'[x] = pc[x] /\ receivers'[x] = receivers[x]
             /\ pc'[c] = "forward" =>
                  Stored(c) /\ receivers'[c] = Sessions(session[c].room) \ {c}
  <2> DEFINE others == IF Stored(c) THEN Sessions(session[c].room) \ {c} ELSE {}
  <2>1. /\ pc[c] = "read" /\ UNCHANGED got
        /\ read' = read + 1 /\ message' = [message EXCEPT ![c] = read + 1]
    BY <1>6 DEF Receive
  <2>2. PICK l : /\ receivers' = [receivers EXCEPT ![c] = others]
                 /\ pc' = [pc EXCEPT ![c] = l]
                 /\ l = "forward" => others # {}
    BY <1>6 DEF Receive
  <2>3. \A x \in Connection : x # c => pc'[x] = pc[x] /\ receivers'[x] = receivers[x]
    BY <1>1, <2>2
  <2>4. pc'[c] = "forward" => others # {} /\ receivers'[c] = others
    BY <1>1, <2>2
  <2>5. others # {} => Stored(c) /\ others = Sessions(session[c].room) \ {c}
    OBVIOUS
  <2> QED BY <1>1, <1>6, <2>1, <2>3, <2>4, <2>5
<1>7. ASSUME NEW c \in Connection, NEW d \in Connection, Forward(c, d)
      PROVE  /\ pc[c] = "forward" /\ d \in receivers[c]
             /\ UNCHANGED <<read, message>>
             /\ \A x \in Connection : pc'[x] = "forward" => pc[x] = "forward"
             /\ \A x \in Connection : x # c => receivers'[x] = receivers[x]
             /\ receivers'[c] \subseteq receivers[c] \ {d}
             /\ \/ UNCHANGED got
                \/ got' = [got EXCEPT ![d] = Append(got[d], <<c, message[c]>>)]
  <2>1. pc[c] = "forward" /\ d \in receivers[c] /\ UNCHANGED <<read, message>>
    BY <1>7 DEF Forward
  <2>2. \A x \in Connection : pc'[x] = "forward" => pc[x] = "forward"
    BY <1>1, <1>7 DEF Forward
  <2>3. /\ \A x \in Connection : x # c => receivers'[x] = receivers[x]
        /\ receivers'[c] \subseteq receivers[c] \ {d}
    BY <1>1, <1>7 DEF Forward
  <2>4. UNCHANGED got \/ got' = [got EXCEPT ![d] = Append(got[d], <<c, message[c]>>)]
    BY <1>7 DEF Forward
  <2> QED BY <2>1, <2>2, <2>3, <2>4
<1>8. ASSUME UNCHANGED vars
      PROVE  Same
  BY <1>8 DEF vars
<1>9. ASSUME \A c \in Connection : ~Receive(c), \A c, d \in Connection : ~Forward(c, d)
      PROVE  Same
  <2> HIDE DEF Same
  <2> QED BY <1>2, <1>3, <1>4, <1>5, <1>8, <1>9, Steps
<1>10. CASE (\A c \in Connection : ~Receive(c)) /\ (\A c, d \in Connection : ~Forward(c, d))
  BY <1>9, <1>10
<1>11. CASE \E c \in Connection : Receive(c)
  BY <1>6, <1>11
<1>12. CASE \E c, d \in Connection : Forward(c, d)
  BY <1>7, <1>12
<1> QED BY <1>10, <1>11, <1>12, Zenon

LEMMA ReceiversStep ==
  ASSUME TypeOK, SessionsMatch, ReceiversInv, [Next]_vars
  PROVE  ReceiversInv'
<1> SUFFICES ASSUME NEW x \in Connection, pc'[x] = "forward", NEW d \in receivers'[x]
             PROVE  d # x /\ pc'[d] # "join" /\ session'[d].room = session'[x].room
  BY DEF ReceiversInv
<1>1. receivers \in [Connection -> SUBSET Connection]
  BY DEF TypeOK
<1>2. ASSUME pc[x] = "forward", d \in receivers[x]
      PROVE  d # x /\ pc'[d] # "join" /\ session'[d].room = session'[x].room
  <2>1. d # x /\ pc[d] # "join" /\ session[d].room = session[x].room
    BY <1>2 DEF ReceiversInv
  <2>2. d \in Connection
    BY <1>1, <1>2
  <2>3. pc'[d] # "join" /\ session'[d] = session[d]
    BY <2>1, <2>2, JoinOnce
  <2>4. session'[x] = session[x]
    BY <1>2, JoinOnce
  <2> QED BY <2>1, <2>3, <2>4
<1>3. ASSUME Receive(x), pc[x] = "read", Stored(x),
             receivers'[x] = Sessions(session[x].room) \ {x}
      PROVE  d # x /\ pc'[d] # "join" /\ session'[d].room = session'[x].room
  <2>1. d # x /\ d \in Sessions(session[x].room)
    BY <1>3
  <2>2. PICK k \in DOMAIN rooms[session[x].room] : d = rooms[session[x].room][k]
    BY <2>1 DEF Sessions
  <2>3. session[x].room \in DOMAIN rooms
    BY <1>3 DEF Stored, Exists
  <2>4. pc[d] \in Joined /\ session[d] = [room |-> session[x].room, client |-> k]
    BY <2>2, <2>3 DEF SessionsMatch
  <2>5. pc[d] # "join" /\ session[d].room = session[x].room
    BY <2>4 DEF Joined
  <2>6. rooms[session[x].room] \in [DOMAIN rooms[session[x].room] -> Connection]
    BY <2>3 DEF TypeOK
  <2>7. d \in Connection
    BY <2>2, <2>6
  <2>8. pc'[d] # "join" /\ session'[d] = session[d]
    BY <2>5, <2>7, JoinOnce
  <2>9. session'[x] = session[x]
    BY <1>3, JoinOnce
  <2> QED BY <2>1, <2>5, <2>8, <2>9
<1>4. \/ pc[x] = "forward" /\ d \in receivers[x]
      \/ /\ Receive(x) /\ pc[x] = "read" /\ Stored(x)
         /\ receivers'[x] = Sessions(session[x].room) \ {x}
  <2>1. CASE /\ UNCHANGED <<read, message, got>>
             /\ \A y \in Connection : pc'[y] = "forward" <=> pc[y] = "forward"
             /\ \A y \in Connection : pc[y] = "forward" => receivers'[y] = receivers[y]
    BY <2>1
  <2>2. ASSUME NEW c \in Connection,
               Receive(c), pc[c] = "read",
               \A y \in Connection : y # c => pc'[y] = pc[y] /\ receivers'[y] = receivers[y],
               pc'[c] = "forward" =>
                 Stored(c) /\ receivers'[c] = Sessions(session[c].room) \ {c}
        PROVE  \/ pc[x] = "forward" /\ d \in receivers[x]
               \/ /\ Receive(x) /\ pc[x] = "read" /\ Stored(x)
                  /\ receivers'[x] = Sessions(session[x].room) \ {x}
    <3>1. CASE x = c
      BY <2>2, <3>1
    <3>2. CASE x # c
      BY <2>2, <3>2
    <3> QED BY <3>1, <3>2
  <2>3. ASSUME NEW c \in Connection,
               pc[c] = "forward",
               \A y \in Connection : pc'[y] = "forward" => pc[y] = "forward",
               \A y \in Connection : y # c => receivers'[y] = receivers[y],
               receivers'[c] \subseteq receivers[c]
        PROVE  pc[x] = "forward" /\ d \in receivers[x]
    BY <2>3
  <2> QED BY <2>1, <2>2, <2>3, ForwardingStep
<1> QED BY <1>2, <1>3, <1>4

\* What is on a connection after a message has been written on d.
LEMMA Written ==
  ASSUME TypeOK, NEW c \in Connection, NEW d \in Connection,
         got' = [got EXCEPT ![d] = Append(got[d], <<c, message[c]>>)],
         NEW x \in Connection
  PROVE  /\ Len(got[x]) \in Nat /\ DOMAIN got[x] = 1..Len(got[x])
         /\ \A i \in DOMAIN got'[x] :
              \/ i \in DOMAIN got[x] /\ got'[x][i] = got[x][i]
              \/ x = d /\ i = Len(got[d]) + 1 /\ got'[x][i] = <<c, message[c]>>
<1>1. got \in [Connection -> Seq(Connection \X (1..MaxMessages))]
  BY DEF TypeOK
<1>2. got[x] \in Seq(Connection \X (1..MaxMessages))
  BY <1>1
<1>3. Len(got[x]) \in Nat /\ DOMAIN got[x] = 1..Len(got[x])
  BY <1>2
<1>4. CASE x # d
  BY <1>1, <1>3, <1>4
<1>5. CASE x = d
  <2>1. got'[x] = Append(got[x], <<c, message[c]>>)
    BY <1>1, <1>5
  <2>2. /\ DOMAIN got'[x] = 1..(Len(got[x]) + 1)
        /\ \A i \in 1..Len(got[x]) : got'[x][i] = got[x][i]
        /\ got'[x][Len(got[x]) + 1] = <<c, message[c]>>
    BY <1>2, <2>1
  <2>3. \A i \in 1..(Len(got[x]) + 1) : i \in 1..Len(got[x]) \/ i = Len(got[x]) + 1
    BY <1>3
  <2> QED BY <1>3, <1>5, <2>2, <2>3
<1> QED BY <1>4, <1>5

\* Either nothing is written, or one message of c on one of its receivers.
LEMMA GotChanges ==
  ASSUME TypeOK, [Next]_vars
  PROVE  \/ UNCHANGED got
         \/ \E c, d \in Connection :
              /\ pc[c] = "forward" /\ d \in receivers[c]
              /\ got' = [got EXCEPT ![d] = Append(got[d], <<c, message[c]>>)]
BY ForwardingStep, Zenon

LEMMA GotStep ==
  ASSUME TypeOK, ReceiversInv, GotInv, StaysInRoom, [Next]_vars
  PROVE  GotInv' /\ StaysInRoom'
<1> SUFFICES ASSUME NEW x \in Connection, NEW i \in DOMAIN got'[x]
             PROVE  /\ pc'[x] # "join" /\ pc'[got'[x][i][1]] # "join"
                    /\ got'[x][i][1] # x
                    /\ session'[got'[x][i][1]].room = session'[x].room
  BY DEF GotInv, StaysInRoom
<1>1. got \in [Connection -> Seq(Connection \X (1..MaxMessages))]
  BY DEF TypeOK
<1>2. ASSUME i \in DOMAIN got[x], got'[x][i] = got[x][i]
      PROVE  /\ pc'[x] # "join" /\ pc'[got'[x][i][1]] # "join"
             /\ got'[x][i][1] # x
             /\ session'[got'[x][i][1]].room = session'[x].room
  <2>1. PICK w : w = got[x][i][1]
    OBVIOUS
  <2>2. w \in Connection
    <3>1. got[x] \in Seq(Connection \X (1..MaxMessages))
      BY <1>1
    <3>2. got[x][i] \in Connection \X (1..MaxMessages)
      BY <1>2, <3>1
    <3> QED BY <2>1, <3>2
  <2>3. /\ pc[x] # "join" /\ pc[w] # "join" /\ w # x
        /\ session[w].room = session[x].room
    BY <1>2, <2>1 DEF GotInv, StaysInRoom
  <2>4. pc'[x] # "join" /\ session'[x] = session[x]
    BY <2>3, JoinOnce
  <2>5. pc'[w] # "join" /\ session'[w] = session[w]
    BY <2>2, <2>3, JoinOnce
  <2> QED BY <1>2, <2>1, <2>3, <2>4, <2>5
<1>3. ASSUME NEW c \in Connection, NEW d \in Connection,
             pc[c] = "forward", d \in receivers[c], x = d, got'[x][i] = <<c, message[c]>>
      PROVE  /\ pc'[x] # "join" /\ pc'[got'[x][i][1]] # "join"
             /\ got'[x][i][1] # x
             /\ session'[got'[x][i][1]].room = session'[x].room
  <2>1. x # c /\ pc[x] # "join" /\ session[x].room = session[c].room
    BY <1>3 DEF ReceiversInv
  <2>2. pc'[x] # "join" /\ session'[x] = session[x]
    BY <2>1, JoinOnce
  <2>3. pc'[c] # "join" /\ session'[c] = session[c]
    BY <1>3, JoinOnce
  <2> QED BY <1>3, <2>1, <2>2, <2>3
<1>4. CASE UNCHANGED got
  BY <1>2, <1>4
<1>5. CASE \E c, d \in Connection :
             /\ pc[c] = "forward" /\ d \in receivers[c]
             /\ got' = [got EXCEPT ![d] = Append(got[d], <<c, message[c]>>)]
  <2>1. PICK c \in Connection, d \in Connection :
          /\ pc[c] = "forward" /\ d \in receivers[c]
          /\ got' = [got EXCEPT ![d] = Append(got[d], <<c, message[c]>>)]
    BY <1>5
  <2>2. \/ i \in DOMAIN got[x] /\ got'[x][i] = got[x][i]
        \/ x = d /\ i = Len(got[d]) + 1 /\ got'[x][i] = <<c, message[c]>>
    BY <2>1, Written
  <2> QED BY <1>2, <1>3, <2>1, <2>2
<1> QED BY <1>4, <1>5, GotChanges

-----------------------------------------------------------------------------
\* The order of what is written.

LEMMA NumberStep ==
  ASSUME TypeOK, NumberInv, ForwardedInOrder, [Next]_vars
  PROVE  NumberInv' /\ ForwardedInOrder'
<1>1. /\ message \in [Connection -> Nat]
      /\ got \in [Connection -> Seq(Connection \X (1..MaxMessages))]
      /\ receivers \in [Connection -> SUBSET Connection]
  <2>1. message \in [Connection -> 0..MaxMessages]
    BY DEF TypeOK
  <2>2. message \in [Connection -> Nat]
    <3>1. \A n \in 0..MaxMessages : n \in Nat
      OBVIOUS
    <3> QED BY <2>1, <3>1
  <2> QED BY <2>2 DEF TypeOK
<1>2. \A x \in Connection : \A i \in DOMAIN got[x] :
        got[x][i][1] \in Connection /\ got[x][i][2] \in Nat
  <2>1. SUFFICES ASSUME NEW x \in Connection, NEW i \in DOMAIN got[x]
                 PROVE  got[x][i][1] \in Connection /\ got[x][i][2] \in Nat
    OBVIOUS
  <2>2. got[x] \in Seq(Connection \X (1..MaxMessages))
    BY <1>1
  <2>3. got[x][i] \in Connection \X (1..MaxMessages)
    BY <2>2
  <2> QED BY <2>3
<1>3. CASE /\ UNCHANGED <<read, message, got>>
           /\ \A x \in Connection : pc'[x] = "forward" <=> pc[x] = "forward"
           /\ \A x \in Connection : pc[x] = "forward" => receivers'[x] = receivers[x]
  <2>1. \A c \in Connection : message'[c] <= read' /\ (pc'[c] = "forward" => message'[c] > 0)
    BY <1>3 DEF NumberInv
  <2>2. ASSUME NEW d \in Connection, NEW i \in DOMAIN got'[d]
        PROVE  /\ got'[d][i][2] <= message'[got'[d][i][1]]
               /\ pc'[got'[d][i][1]] = "forward" /\ d \in receivers'[got'[d][i][1]] =>
                    got'[d][i][2] # message'[got'[d][i][1]]
    <3>1. got[d][i][1] \in Connection
      BY <1>2, <1>3
    <3> QED BY <1>3, <3>1 DEF NumberInv
  <2>3. ForwardedInOrder'
    BY <1>3 DEF ForwardedInOrder
  <2> QED BY <2>1, <2>2, <2>3 DEF NumberInv
<1>4. CASE \E c \in Connection :
             /\ Receive(c) /\ read \in Nat
             /\ pc[c] = "read" /\ UNCHANGED got
             /\ read' = read + 1 /\ message' = [message EXCEPT ![c] = read + 1]
             /\ \A x \in Connection : x # c => pc'[x] = pc[x] /\ receivers'[x] = receivers[x]
             /\ pc'[c] = "forward" =>
                  Stored(c) /\ receivers'[c] = Sessions(session[c].room) \ {c}
  <2>1. PICK c \in Connection :
             /\ read \in Nat
             /\ pc[c] = "read" /\ UNCHANGED got
             /\ read' = read + 1 /\ message' = [message EXCEPT ![c] = read + 1]
             /\ \A x \in Connection : x # c => pc'[x] = pc[x] /\ receivers'[x] = receivers[x]
    BY <1>4
  <2>2. message'[c] = read + 1 /\ \A x \in Connection : x # c => message'[x] = message[x]
    BY <1>1, <2>1
  <2>3. ASSUME NEW x \in Connection
        PROVE  message'[x] <= read' /\ (pc'[x] = "forward" => message'[x] > 0)
    <3>1. CASE x = c
      BY <2>1, <2>2, <3>1
    <3>2. CASE x # c
      <4>1. message[x] <= read /\ (pc[x] = "forward" => message[x] > 0) /\ message[x] \in Nat
        BY <1>1 DEF NumberInv
      <4> QED BY <2>1, <2>2, <3>2, <4>1
    <3> QED BY <3>1, <3>2
  <2>4. ASSUME NEW d \in Connection, NEW i \in DOMAIN got'[d]
        PROVE  /\ got'[d][i][2] <= message'[got'[d][i][1]]
               /\ pc'[got'[d][i][1]] = "forward" /\ d \in receivers'[got'[d][i][1]] =>
                    got'[d][i][2] # message'[got'[d][i][1]]
    <3>1. PICK w, n : w = got[d][i][1] /\ n = got[d][i][2]
      OBVIOUS
    <3>2. w \in Connection /\ n \in Nat /\ got'[d][i][1] = w /\ got'[d][i][2] = n
      BY <1>2, <2>1, <2>4, <3>1
    <3>3. n <= message[w] /\ (pc[w] = "forward" /\ d \in receivers[w] => n # message[w])
      BY <2>1, <2>4, <3>1 DEF NumberInv
    <3>4. message[w] \in Nat /\ message[w] <= read
      BY <1>1, <3>2 DEF NumberInv
    <3>5. CASE w = c
      BY <2>1, <2>2, <3>2, <3>3, <3>4, <3>5
    <3>6. CASE w # c
      BY <2>1, <2>2, <3>2, <3>3, <3>6
    <3> QED BY <3>5, <3>6
  <2>5. ForwardedInOrder'
    BY <2>1 DEF ForwardedInOrder
  <2> QED BY <2>3, <2>4, <2>5 DEF NumberInv
<1>5. CASE \E c, d \in Connection :
             /\ pc[c] = "forward" /\ d \in receivers[c]
             /\ UNCHANGED <<read, message>>
             /\ \A x \in Connection : pc'[x] = "forward" => pc[x] = "forward"
             /\ \A x \in Connection : x # c => receivers'[x] = receivers[x]
             /\ receivers'[c] \subseteq receivers[c] \ {d}
             /\ \/ UNCHANGED got
                \/ got' = [got EXCEPT ![d] = Append(got[d], <<c, message[c]>>)]
  <2>1. PICK c \in Connection, d \in Connection :
             /\ pc[c] = "forward" /\ d \in receivers[c]
             /\ UNCHANGED <<read, message>>
             /\ \A x \in Connection : pc'[x] = "forward" => pc[x] = "forward"
             /\ \A x \in Connection : x # c => receivers'[x] = receivers[x]
             /\ receivers'[c] \subseteq receivers[c] \ {d}
             /\ \/ UNCHANGED got
                \/ got' = [got EXCEPT ![d] = Append(got[d], <<c, message[c]>>)]
    BY <1>5
  <2>2. \A x \in Connection : message'[x] <= read' /\ (pc'[x] = "forward" => message'[x] > 0)
    BY <2>1 DEF NumberInv
  <2>3. \A x \in Connection : receivers'[x] \subseteq receivers[x]
    BY <2>1
  <2>4. ASSUME NEW x \in Connection, NEW i \in DOMAIN got'[x]
        PROVE  \/ i \in DOMAIN got[x] /\ got'[x][i] = got[x][i]
               \/ /\ x = d /\ i = Len(got[x]) + 1 /\ got'[x][i] = <<c, message[c]>>
                  /\ Len(got[x]) \in Nat /\ DOMAIN got[x] = 1..Len(got[x])
    <3>1. CASE UNCHANGED got
      BY <2>4, <3>1
    <3>2. CASE got' = [got EXCEPT ![d] = Append(got[d], <<c, message[c]>>)]
      <4>1. /\ Len(got[x]) \in Nat /\ DOMAIN got[x] = 1..Len(got[x])
            /\ \A j \in DOMAIN got'[x] :
                 \/ j \in DOMAIN got[x] /\ got'[x][j] = got[x][j]
                 \/ x = d /\ j = Len(got[d]) + 1 /\ got'[x][j] = <<c, message[c]>>
        BY <3>2, Written
      <4> QED BY <2>4, <4>1
    <3> QED BY <2>1, <3>1, <3>2
  <2>5. ASSUME NEW x \in Connection, NEW i \in DOMAIN got'[x]
        PROVE  /\ got'[x][i][2] <= message'[got'[x][i][1]]
               /\ pc'[got'[x][i][1]] = "forward" /\ x \in receivers'[got'[x][i][1]] =>
                    got'[x][i][2] # message'[got'[x][i][1]]
    <3>1. CASE i \in DOMAIN got[x] /\ got'[x][i] = got[x][i]
      <4>1. PICK w, n : w = got[x][i][1] /\ n = got[x][i][2]
        OBVIOUS
      <4>2. w \in Connection
        BY <1>2, <3>1, <4>1
      <4>3. n <= message[w] /\ (pc[w] = "forward" /\ x \in receivers[w] => n # message[w])
        BY <3>1, <4>1 DEF NumberInv
      <4> QED BY <2>1, <2>3, <3>1, <4>1, <4>2, <4>3
    <3>2. CASE x = d /\ got'[x][i] = <<c, message[c]>>
      <4>1. message[c] \in Nat /\ message' = message /\ x \notin receivers'[c]
        BY <1>1, <2>1, <3>2
      <4>2. got'[x][i][1] = c /\ got'[x][i][2] = message[c]
        BY <3>2
      <4> QED BY <4>1, <4>2
    <3> QED BY <2>4, <2>5, <3>1, <3>2
  <2>6. ASSUME NEW x \in Connection, NEW i \in DOMAIN got'[x], NEW j \in DOMAIN got'[x],
               i < j, got'[x][i][1] = got'[x][j][1]
        PROVE  got'[x][i][2] < got'[x][j][2]
    <3>1. CASE j \in DOMAIN got[x] /\ got'[x][j] = got[x][j]
      <4>1. i \in DOMAIN got[x] /\ got'[x][i] = got[x][i]
        <5>1. Len(got[x]) \in Nat /\ DOMAIN got[x] = 1..Len(got[x])
          <6>1. got[x] \in Seq(Connection \X (1..MaxMessages))
            BY <1>1
          <6> QED BY <6>1
        <5> QED BY <2>4, <2>6, <3>1, <5>1
      <4> QED BY <2>6, <3>1, <4>1 DEF ForwardedInOrder
    <3>2. CASE /\ x = d /\ j = Len(got[x]) + 1 /\ got'[x][j] = <<c, message[c]>>
               /\ Len(got[x]) \in Nat /\ DOMAIN got[x] = 1..Len(got[x])
      <4>1. i \in DOMAIN got[x] /\ got'[x][i] = got[x][i]
        BY <2>4, <2>6, <3>2
      <4>2. got'[x][j][1] = c /\ got'[x][j][2] = message[c]
        BY <3>2
      <4>3. got[x][i][1] = c
        BY <2>6, <4>1, <4>2
      <4>4. got[x][i][2] <= message[c] /\ got[x][i][2] # message[c]
        BY <2>1, <3>2, <4>1, <4>3 DEF NumberInv
      <4>5. got[x][i][2] \in Nat /\ message[c] \in Nat
        BY <1>1, <1>2, <4>1
      <4> QED BY <4>1, <4>2, <4>4, <4>5
    <3> QED BY <2>4, <2>6, <3>1, <3>2
  <2>7. ForwardedInOrder'
    BY <2>6 DEF ForwardedInOrder
  <2> QED BY <2>2, <2>5, <2>7 DEF NumberInv
<1> QED BY <1>3, <1>4, <1>5, ForwardingStep, Zenon

-----------------------------------------------------------------------------

LEMMA InitInv == Init => Inv
<1> SUFFICES ASSUME Init
             PROVE  Inv
  OBVIOUS
<1>1. /\ DOMAIN rooms = {}
      /\ \A c \in Connection : DOMAIN got[c] = {}
      /\ \A c \in Connection : pc[c] = "join" /\ message[c] = 0
  <2>1. rooms = <<>> /\ got = [c \in Connection |-> <<>>]
    BY DEF Init
  <2>2. DOMAIN <<>> = {}
    OBVIOUS
  <2>3. \A c \in Connection : got[c] = <<>>
    BY <2>1
  <2>4. \A c \in Connection : DOMAIN got[c] = {}
    BY <2>2, <2>3
  <2> QED BY <2>1, <2>2, <2>4 DEF Init
<1>2. TypeOK
  <2>1. 0 \in 0..MaxMessages
    <3>1. MaxMessages \in Nat
      BY RelayAssumption
    <3> QED BY <3>1
  <2>2. got \in [Connection -> Seq(Connection \X (1..MaxMessages))]
    <3>1. <<>> \in Seq(Connection \X (1..MaxMessages))
      OBVIOUS
    <3> QED BY <3>1 DEF Init
  <2>3. /\ session \in [Connection -> [room : RoomID \union {""}, client : ClientID \union {""}]]
        /\ pc \in [Connection -> Label]
    BY DEF Init, Label
  <2>4. /\ users \in [Connection -> SUBSET ClientID]
        /\ receivers \in [Connection -> SUBSET Connection]
        /\ read \in 0..MaxMessages /\ message \in [Connection -> 0..MaxMessages]
        /\ open \subseteq Connection /\ stalled \subseteq Connection
    BY <2>1 DEF Init
  <2>5. shown \in [Connection -> SUBSET ClientID]
    BY DEF Init
  <2> QED BY <1>1, <2>2, <2>3, <2>4, <2>5 DEF TypeOK
<1>3. SessionsMatch /\ NoEmptyRoom
  BY <1>1 DEF SessionsMatch, NoEmptyRoom, Joined
<1>4. ReceiversInv /\ GotInv /\ NumberInv
  <2>1. read = 0
    BY DEF Init
  <2> QED BY <1>1, <2>1 DEF ReceiversInv, GotInv, NumberInv
<1>5. StaysInRoom /\ ForwardedInOrder
  BY <1>1 DEF StaysInRoom, ForwardedInOrder
<1> QED BY <1>2, <1>3, <1>4, <1>5 DEF Inv

LEMMA NextInv == Inv /\ [Next]_vars => Inv'
BY TypeStep, SessionsStep, RoomsStep, ReceiversStep, GotStep, NumberStep, Zenon DEF Inv

\* Everything above holds in every reachable state.
THEOREM RelayInvariance == Spec => []Inv
BY InitInv, NextInv, PTL DEF Spec

\* Whatever the handlers do in whatever order, what the hub and they hold has its type.
THEOREM RelayTypeCorrect == Spec => []TypeOK
BY RelayInvariance, PTL DEF Inv

\* The hub holds the sessions of the handlers that have joined and not left, and no others.
THEOREM SessionsAreMatched == Spec => []SessionsMatch
BY RelayInvariance, PTL DEF Inv

\* A room of the hub has a client.
THEOREM RoomsAreOccupied == Spec => []NoEmptyRoom
BY RelayInvariance, PTL DEF Inv

\* What Hub.BroadcastToRoom writes stays in the room of its sender and is not echoed.
THEOREM MessagesStay == Spec => []StaysInRoom
BY RelayInvariance, PTL DEF Inv

\* A receiver is written the messages of one sender in the order they were read, none twice.
THEOREM ForwardingKeepsOrder == Spec => []ForwardedInOrder
BY RelayInvariance, PTL DEF Inv

-----------------------------------------------------------------------------
\* Presence, when one client at a time joins or leaves: the handler that changed a room is
\* the only one that tells it about a change, so what it tells is true until it has told all.

\* A handler that will list the users and tell them to everybody in its room, and one that
\* is telling them.
Telling == {"ack", "users", "capture", "leave", "leftUsers", "leftCapture"}
Announcing == {"announce", "leftAnnounce"}

WillBeTold(c, r) ==
  \E e \in Connection :
    /\ session[e].room = r
    /\ pc[e] \in Telling \/ (pc[e] \in Announcing /\ c \in receivers[e])

\* Who is in a room has been shown its users, or will be told.
ShownInv ==
  \A r \in DOMAIN rooms : \A c \in Sessions(r) \intersect open :
    shown[c] = Users(r) \/ WillBeTold(c, r)

\* The list a handler has made is still the list of its room.
UsersInv ==
  \A e \in Connection :
    pc[e] \in {"capture", "leftCapture"} \union Announcing /\ Exists(session[e].room) =>
      users[e] = Users(session[e].room)

\* Those a handler tells have joined its room.
TargetsInv ==
  \A e \in Connection : pc[e] \in Announcing =>
    \A d \in receivers[e] : pc[d] # "join" /\ session[d].room = session[e].room

PresenceInv == ShownInv /\ UsersInv /\ TargetsInv

\* What such a step may do to a handler that tells: it goes on, or has lost its room.
Quiet(e) ==
  /\ pc[e] \in Telling /\ Exists(session[e].room) =>
       \/ pc'[e] \in Telling
       \/ pc'[e] \in Announcing /\ receivers'[e] = Sessions(session[e].room)
  /\ pc[e] \in Announcing => pc'[e] = pc[e] /\ receivers'[e] = receivers[e]
  /\ pc'[e] \in {"capture", "leftCapture"} /\ Exists(session[e].room) =>
       users'[e] = Users(session[e].room) \/ (pc'[e] = pc[e] /\ users'[e] = users[e])
  /\ pc'[e] \in Announcing =>
       /\ users'[e] = users[e]
       /\ \/ pc[e] = pc'[e] /\ receivers'[e] = receivers[e]
          \/ /\ pc[e] \in {"capture", "leftCapture"} /\ Exists(session[e].room)
             /\ receivers'[e] = Sessions(session[e].room)

\* The steps that neither change the hub nor tell anybody.
LEMMA QuietStep ==
  ASSUME TypeOK, [Next]_vars,
         \A c \in Connection : ~Join(c) /\ ~Leave(c),
         \A c, d \in Connection : ~Announce(c, d)
  PROVE  /\ UNCHANGED <<hub, shown>> /\ open' \subseteq open
         /\ \A e \in Connection : Quiet(e)
<1> USE DEF Goto, hub, written, Telling, Announcing, Quiet
<1> DEFINE Calm ==
      /\ UNCHANGED <<hub, shown>> /\ open' \subseteq open
      /\ \A e \in Connection : Quiet(e)
<1>1. /\ pc \in [Connection -> Label] /\ users \in [Connection -> SUBSET ClientID]
      /\ receivers \in [Connection -> SUBSET Connection]
  BY DEF TypeOK
<1>2. ASSUME NEW c \in Connection, RefuseJoin(c) \/ SendAck(c)
      PROVE  Calm
  BY <1>1, <1>2 DEF RefuseJoin, SendAck
<1>3. ASSUME NEW c \in Connection, GetActiveUsers(c)
      PROVE  Calm
  <2>1. UNCHANGED <<hub, shown, open, receivers>>
    BY <1>3 DEF GetActiveUsers
  <2>2. \A x \in Connection : x # c => pc'[x] = pc[x] /\ users'[x] = users[x]
    BY <1>1, <1>3 DEF GetActiveUsers
  <2>3. pc[c] \in {"users", "leftUsers"}
    BY <1>3 DEF GetActiveUsers
  <2>4. CASE Exists(session[c].room)
    <3>1. pc'[c] \in {"capture", "leftCapture"} /\ users'[c] = Users(session[c].room)
      BY <1>1, <1>3, <2>4 DEF GetActiveUsers
    <3>2. Quiet(c)
      BY <2>3, <3>1
    <3> QED BY <2>1, <2>2, <3>2
  <2>5. CASE ~Exists(session[c].room)
    <3>1. pc'[c] \in {"leave", "close"}
      BY <1>1, <1>3, <2>5 DEF GetActiveUsers
    <3>2. Quiet(c)
      BY <2>3, <2>5, <3>1
    <3> QED BY <2>1, <2>2, <3>2
  <2> QED BY <2>4, <2>5
<1>4. ASSUME NEW c \in Connection, CaptureRoom(c)
      PROVE  Calm
  <2>1. UNCHANGED <<hub, shown, open>>
    BY <1>4 DEF CaptureRoom
  <2>2. \A x \in Connection : x # c =>
          pc'[x] = pc[x] /\ users'[x] = users[x] /\ receivers'[x] = receivers[x]
    BY <1>1, <1>4 DEF CaptureRoom
  <2>3. pc[c] \in {"capture", "leftCapture"}
    BY <1>4 DEF CaptureRoom
  <2>4. CASE Exists(session[c].room)
    <3>1. /\ pc'[c] \in Announcing /\ receivers'[c] = Sessions(session[c].room)
          /\ users'[c] = users[c]
      BY <1>1, <1>4, <2>4 DEF CaptureRoom
    <3>2. Quiet(c)
      BY <2>3, <2>4, <3>1
    <3> QED BY <2>1, <2>2, <3>2
  <2>5. CASE ~Exists(session[c].room)
    <3>1. pc'[c] \in {"leave", "close"}
      BY <1>1, <1>4, <2>5 DEF CaptureRoom
    <3>2. Quiet(c)
      BY <2>3, <2>5, <3>1
    <3> QED BY <2>1, <2>2, <3>2
  <2> QED BY <2>4, <2>5
<1>5. ASSUME NEW c \in Connection, Receive(c)
      PROVE  Calm
  <2>1. UNCHANGED <<hub, shown, open, users>> /\ pc[c] = "read"
    BY <1>5 DEF Receive
  <2>2. /\ \A x \in Connection : x # c => pc'[x] = pc[x] /\ receivers'[x] = receivers[x]
        /\ pc'[c] \in {"forward", "reply", "read"}
    BY <1>1, <1>5 DEF Receive
  <2> QED BY <2>1, <2>2
<1>6. ASSUME NEW c \in Connection, ReceiveOther(c) \/ Reply(c) \/ ReadError(c)
      PROVE  Calm
  BY <1>1, <1>6 DEF ReceiveOther, Reply, ReadError
<1>7. ASSUME NEW c \in Connection, CloseConnection(c) \/ Break(c) \/ Stall(c)
      PROVE  Calm
  BY <1>1, <1>7 DEF CloseConnection, Break, Stall
<1>8. ASSUME NEW c \in Connection, NEW d \in Connection, Forward(c, d)
      PROVE  Calm
  <2>1. UNCHANGED <<hub, shown, open, users>> /\ pc[c] = "forward"
    BY <1>8 DEF Forward
  <2>2. /\ \A x \in Connection : x # c => pc'[x] = pc[x] /\ receivers'[x] = receivers[x]
        /\ pc'[c] \in {"forward", "reply", "read"}
    BY <1>1, <1>8, <2>1 DEF Forward
  <2> QED BY <2>1, <2>2
<1>9. CASE UNCHANGED vars
  BY <1>9 DEF vars
<1>10. Calm
  BY <1>2, <1>3, <1>4, <1>5, <1>6, <1>7, <1>8, <1>9, Steps, Zenon
<1> QED BY <1>10

\* The sessions of a room are of connections that have joined it.
LEMMA SessionsIn ==
  ASSUME TypeOK, SessionsMatch, NEW r \in DOMAIN rooms, NEW c \in Sessions(r)
  PROVE  c \in Connection /\ pc[c] \in Joined /\ session[c].room = r
<1>1. PICK k \in DOMAIN rooms[r] : c = rooms[r][k]
  BY DEF Sessions
<1>2. rooms[r] \in [DOMAIN rooms[r] -> Connection]
  BY DEF TypeOK
<1>3. c \in Connection
  BY <1>1, <1>2
<1>4. pc[c] \in Joined /\ session[c] = [room |-> r, client |-> k]
  BY <1>1 DEF SessionsMatch
<1> QED BY <1>3, <1>4

\* Such a step keeps whoever is not up to date among those that will be told.
LEMMA QuietPresence ==
  ASSUME TypeOK, SessionsMatch, PresenceInv, [Next]_vars,
         \A c \in Connection : ~Join(c) /\ ~Leave(c),
         \A c, d \in Connection : ~Announce(c, d)
  PROVE  PresenceInv'
<1>1. /\ UNCHANGED <<hub, shown>> /\ open' \subseteq open
      /\ \A e \in Connection : Quiet(e)
  BY QuietStep
<1>2. /\ rooms' = rooms /\ session' = session /\ shown' = shown
      /\ \A r : Sessions(r)' = Sessions(r) /\ Users(r)' = Users(r) /\ (Exists(r)' <=> Exists(r))
  BY <1>1 DEF hub, Sessions, Users, Exists
<1>3. ASSUME NEW r \in DOMAIN rooms, NEW c \in Sessions(r), WillBeTold(c, r)
      PROVE  WillBeTold(c, r)'
  <2>1. PICK e \in Connection :
          /\ session[e].room = r
          /\ pc[e] \in Telling \/ (pc[e] \in Announcing /\ c \in receivers[e])
    BY <1>3 DEF WillBeTold
  <2>2. pc'[e] \in Telling \/ (pc'[e] \in Announcing /\ c \in receivers'[e])
    BY <1>1, <1>3, <2>1 DEF Quiet, Exists, Sessions
  <2> QED BY <1>2, <2>1, <2>2 DEF WillBeTold
<1>4. ShownInv'
  <2>1. SUFFICES ASSUME NEW r \in DOMAIN rooms', NEW c \in Sessions(r)', c \in open'
                 PROVE  shown'[c] = Users(r)' \/ WillBeTold(c, r)'
    BY DEF ShownInv
  <2>2. r \in DOMAIN rooms /\ c \in Sessions(r) /\ c \in open
    BY <1>1, <1>2, <2>1
  <2>3. shown[c] = Users(r) \/ WillBeTold(c, r)
    BY <2>2 DEF PresenceInv, ShownInv
  <2> QED BY <1>2, <1>3, <2>2, <2>3
<1>5. UsersInv'
  BY <1>1, <1>2 DEF PresenceInv, UsersInv, Announcing, Quiet
<1>6. TargetsInv'
  <2>1. SUFFICES ASSUME NEW e \in Connection, pc'[e] \in Announcing, NEW d \in receivers'[e]
                 PROVE  pc'[d] # "join" /\ session'[d].room = session'[e].room
    BY DEF TargetsInv
  <2>2. d \in Connection /\ pc[d] # "join" /\ session[d].room = session[e].room
    <3>1. CASE pc[e] = pc'[e] /\ receivers'[e] = receivers[e]
      <4>1. pc[d] # "join" /\ session[d].room = session[e].room
        BY <2>1, <3>1 DEF PresenceInv, TargetsInv
      <4> QED BY <2>1, <3>1, <4>1 DEF TypeOK
    <3>2. CASE Exists(session[e].room) /\ receivers'[e] = Sessions(session[e].room)
      <4>1. d \in Connection /\ pc[d] \in Joined /\ session[d].room = session[e].room
        BY <2>1, <3>2, SessionsIn DEF Exists
      <4> QED BY <4>1 DEF Joined
    <3> QED BY <1>1, <2>1, <3>1, <3>2 DEF Quiet
  <2> QED BY <1>2, <2>2, JoinOnce
<1> QED BY <1>4, <1>5, <1>6 DEF PresenceInv

\* Who is written is shown the list of the room, and the others are still to be told.
LEMMA AnnouncePresence ==
  ASSUME TypeOK, SessionsMatch, PresenceInv, [Next]_vars,
         NEW a \in Connection, NEW b \in Connection, Announce(a, b)
  PROVE  PresenceInv'
<1>1. /\ pc \in [Connection -> Label] /\ users \in [Connection -> SUBSET ClientID]
      /\ receivers \in [Connection -> SUBSET Connection]
      /\ shown \in [Connection -> SUBSET ClientID]
  BY DEF TypeOK
<1>2. /\ rooms' = rooms /\ session' = session /\ open' = open
      /\ \A r : Sessions(r)' = Sessions(r) /\ Users(r)' = Users(r) /\ (Exists(r)' <=> Exists(r))
  BY DEF Announce, hub, Sessions, Users, Exists
<1>3. /\ pc[a] \in Announcing /\ b \in receivers[a]
      /\ receivers'[a] = receivers[a] \ {b}
      /\ \A x \in Connection : x # a =>
           pc'[x] = pc[x] /\ users'[x] = users[x] /\ receivers'[x] = receivers[x]
  BY <1>1 DEF Announce, Goto, Announcing
<1>4. /\ receivers'[a] # {} => pc' = pc /\ users' = users
      /\ receivers'[a] = {} => pc'[a] \in {"read", "close"}
  BY <1>1 DEF Announce, Goto
<1>5. /\ b \in open => shown'[b] = users[a]
      /\ \A x \in Connection : x # b => shown'[x] = shown[x]
  BY <1>1 DEF Announce
<1>6. ShownInv'
  <2>1. SUFFICES ASSUME NEW r \in DOMAIN rooms', NEW c \in Sessions(r)', c \in open'
                 PROVE  shown'[c] = Users(r)' \/ WillBeTold(c, r)'
    BY DEF ShownInv
  <2>2. r \in DOMAIN rooms /\ c \in Sessions(r) /\ c \in open
    BY <1>2, <2>1
  <2>3. c \in Connection /\ session[c].room = r
    BY <2>2, SessionsIn
  <2>4. shown[c] = Users(r) \/ WillBeTold(c, r)
    BY <2>2 DEF PresenceInv, ShownInv
  <2>5. CASE c = b
    <3>1. session[a].room = r
      BY <1>3, <2>3, <2>5 DEF PresenceInv, TargetsInv
    <3>2. users[a] = Users(r)
      BY <1>3, <2>2, <3>1 DEF PresenceInv, UsersInv, Exists
    <3> QED BY <1>2, <1>5, <2>2, <2>5, <3>2
  <2>6. CASE c # b /\ WillBeTold(c, r)
    <3>1. PICK e \in Connection :
            /\ session[e].room = r
            /\ pc[e] \in Telling \/ (pc[e] \in Announcing /\ c \in receivers[e])
      BY <2>6 DEF WillBeTold
    <3>2. CASE e # a
      BY <1>2, <1>3, <3>1, <3>2 DEF WillBeTold
    <3>3. CASE e = a
      <4>1. c \in receivers'[a]
        BY <1>3, <2>6, <3>1, <3>3 DEF Announcing, Telling
      <4>2. pc'[a] \in Announcing
        BY <1>3, <1>4, <4>1
      <4> QED BY <1>2, <3>1, <3>3, <4>1, <4>2 DEF WillBeTold
    <3> QED BY <3>2, <3>3
  <2>7. CASE c # b /\ shown[c] = Users(r)
    BY <1>2, <1>5, <2>3, <2>7
  <2> QED BY <2>4, <2>5, <2>6, <2>7
<1>7. UsersInv'
  <2>1. SUFFICES ASSUME NEW e \in Connection, Exists(session[e].room)',
                        pc'[e] \in {"capture", "leftCapture"} \union Announcing
                 PROVE  users'[e] = Users(session[e].room)'
    BY DEF UsersInv
  <2>2. pc'[e] = pc[e] /\ users'[e] = users[e]
    BY <1>3, <1>4, <2>1 DEF Announcing
  <2>3. users[e] = Users(session[e].room)
    BY <1>2, <2>1, <2>2 DEF PresenceInv, UsersInv
  <2> QED BY <1>2, <2>2, <2>3
<1>8. TargetsInv'
  <2>1. SUFFICES ASSUME NEW e \in Connection, pc'[e] \in Announcing, NEW d \in receivers'[e]
                 PROVE  pc'[d] # "join" /\ session'[d].room = session'[e].room
    BY DEF TargetsInv
  <2>2. pc[e] \in Announcing /\ d \in receivers[e] /\ d \in Connection
    BY <1>1, <1>3, <2>1
  <2>3. pc[d] # "join" /\ session[d].room = session[e].room
    BY <2>2 DEF PresenceInv, TargetsInv
  <2> QED BY <1>2, <2>2, <2>3, JoinOnce
<1> QED BY <1>6, <1>7, <1>8 DEF PresenceInv

\* A join makes the list of its room untrue for everybody there, and its handler will tell
\* them; no other handler is between its join or leave and the end of its announcement.
LEMMA JoinPresence ==
  ASSUME TypeOK, SessionsMatch, PresenceInv, [Next]_vars, OneAtATime',
         NEW a \in Connection, Join(a)
  PROVE  PresenceInv'
<1>1. /\ pc \in [Connection -> Label]
      /\ session \in [Connection -> [room : RoomID \union {""}, client : ClientID \union {""}]]
      /\ \A r \in DOMAIN rooms : \A k \in DOMAIN rooms[r] : rooms[r][k] \in Connection
  <2>1. \A r \in DOMAIN rooms : rooms[r] \in [DOMAIN rooms[r] -> Connection]
    BY DEF TypeOK
  <2> QED BY <2>1 DEF TypeOK
<1>2. PICK q \in RoomID, k \in ClientID :
        /\ session' = [session EXCEPT ![a] = [room |-> q, client |-> k]]
        /\ ~(q \in DOMAIN rooms /\ k \in DOMAIN rooms[q])
        /\ DOMAIN rooms' = DOMAIN rooms \union {q}
        /\ \A p \in DOMAIN rooms : p # q => rooms'[p] = rooms[p]
        /\ DOMAIN rooms'[q] = (IF q \in DOMAIN rooms THEN DOMAIN rooms[q] ELSE {}) \union {k}
        /\ rooms'[q] \in [DOMAIN rooms'[q] -> Connection]
        /\ rooms'[q][k] = a
        /\ q \in DOMAIN rooms => \A l \in DOMAIN rooms[q] : rooms'[q][l] = rooms[q][l]
  BY JoinAdds
<1>3. /\ pc[a] = "join" /\ pc' = [pc EXCEPT ![a] = "ack"]
      /\ UNCHANGED <<users, receivers, open, shown>>
  BY DEF Join, Goto, written
<1>4. session'[a].room = q /\ pc'[a] = "ack"
  BY <1>1, <1>2, <1>3
<1>5. \A x \in Connection : x # a => pc'[x] = pc[x] /\ session'[x] = session[x]
  BY <1>1, <1>2, <1>3
<1>6. ASSUME NEW e \in Connection, Changing(e)'
      PROVE  e = a
  <2>1. Changing(a)'
    BY <1>4 DEF Changing
  <2> QED BY <1>6, <2>1 DEF OneAtATime
<1>7. ShownInv'
  <2>1. SUFFICES ASSUME NEW r \in DOMAIN rooms', NEW c \in Sessions(r)', c \in open'
                 PROVE  shown'[c] = Users(r)' \/ WillBeTold(c, r)'
    BY DEF ShownInv
  <2>2. CASE r = q
    BY <1>4, <2>2 DEF WillBeTold, Telling
  <2>3. CASE r # q
    <3>1. /\ r \in DOMAIN rooms /\ rooms'[r] = rooms[r] /\ c \in Sessions(r) /\ c \in open
          /\ Users(r)' = Users(r)
      BY <1>2, <1>3, <2>1, <2>3 DEF Sessions, Users
    <3>2. CASE WillBeTold(c, r)
      <4>1. PICK e \in Connection :
              /\ session[e].room = r
              /\ pc[e] \in Telling \/ (pc[e] \in Announcing /\ c \in receivers[e])
        BY <3>2 DEF WillBeTold
      <4>2. e # a
        BY <1>3, <4>1 DEF Telling, Announcing
      <4> QED BY <1>3, <1>5, <4>1, <4>2 DEF WillBeTold
    <3>3. CASE shown[c] = Users(r)
      BY <1>3, <3>1, <3>3
    <3> QED BY <3>1, <3>2, <3>3 DEF PresenceInv, ShownInv
  <2> QED BY <2>2, <2>3
<1>8. UsersInv' /\ TargetsInv'
  <2>1. \A e \in Connection : pc'[e] \notin {"capture", "leftCapture"} \union Announcing
    BY <1>4, <1>6 DEF Changing, Announcing
  <2> QED BY <2>1 DEF UsersInv, TargetsInv
<1> QED BY <1>7, <1>8 DEF PresenceInv

\* The same for a leave, whose handler tells those that remain.
LEMMA LeavePresence ==
  ASSUME TypeOK, SessionsMatch, PresenceInv, [Next]_vars, OneAtATime',
         NEW a \in Connection, Leave(a)
  PROVE  PresenceInv'
<1>1. pc \in [Connection -> Label]
  BY DEF TypeOK
<1>2. /\ pc[a] = "leave" /\ pc' = [pc EXCEPT ![a] = "leftUsers"]
      /\ UNCHANGED <<session, users, receivers, open, shown>>
  BY DEF Leave, Goto, written
<1>3. pc'[a] = "leftUsers" /\ \A x \in Connection : x # a => pc'[x] = pc[x]
  BY <1>1, <1>2
<1>4. Stored(a)
  BY <1>2 DEF SessionsMatch, Joined
<1>5. PICK q, k : q = session[a].room /\ k = session[a].client /\ Removed(q, k)
  BY <1>4, LeaveRemoves
<1>6. \A r \in DOMAIN rooms' : r # q => r \in DOMAIN rooms /\ rooms'[r] = rooms[r]
  BY <1>5 DEF Removed
<1>7. ASSUME NEW e \in Connection, Changing(e)'
      PROVE  e = a
  <2>1. Changing(a)'
    BY <1>3 DEF Changing
  <2> QED BY <1>7, <2>1 DEF OneAtATime
<1>8. ShownInv'
  <2>1. SUFFICES ASSUME NEW r \in DOMAIN rooms', NEW c \in Sessions(r)', c \in open'
                 PROVE  shown'[c] = Users(r)' \/ WillBeTold(c, r)'
    BY DEF ShownInv
  <2>2. CASE r = q
    BY <1>2, <1>3, <1>5, <2>2 DEF WillBeTold, Telling
  <2>3. CASE r # q
    <3>1. /\ r \in DOMAIN rooms /\ rooms'[r] = rooms[r] /\ c \in Sessions(r) /\ c \in open
          /\ Users(r)' = Users(r)
      BY <1>2, <1>6, <2>1, <2>3 DEF Sessions, Users
    <3>2. CASE WillBeTold(c, r)
      <4>1. PICK e \in Connection :
              /\ session[e].room = r
              /\ pc[e] \in Telling \/ (pc[e] \in Announcing /\ c \in receivers[e])
        BY <3>2 DEF WillBeTold
      <4>2. e # a
        BY <1>5, <2>3, <4>1
      <4> QED BY <1>2, <1>3, <4>1, <4>2 DEF WillBeTold
    <3>3. CASE shown[c] = Users(r)
      BY <1>2, <3>1, <3>3
    <3> QED BY <3>1, <3>2, <3>3 DEF PresenceInv, ShownInv
  <2> QED BY <2>2, <2>3
<1>9. UsersInv' /\ TargetsInv'
  <2>1. \A e \in Connection : pc'[e] \notin {"capture", "leftCapture"} \union Announcing
    BY <1>3, <1>7 DEF Changing, Announcing
  <2> QED BY <2>1 DEF UsersInv, TargetsInv
<1> QED BY <1>8, <1>9 DEF PresenceInv

\* When one client at a time joins or leaves, and all that has been announced, everybody in
\* a room whose connection is open has been shown exactly its users.
THEOREM OrderlyPresence == OrderlySpec => []PresenceTrue
<1>1. Init => Inv /\ PresenceInv
  <2>1. Init => PresenceInv
    <3>1. DOMAIN <<>> = {}
      OBVIOUS
    <3> QED BY <3>1 DEF Init, PresenceInv, ShownInv, UsersInv, TargetsInv, Announcing
  <2> QED BY <2>1, InitInv
<1>2. Inv /\ PresenceInv /\ [Next /\ OneAtATime']_vars => Inv' /\ PresenceInv'
  <2> SUFFICES ASSUME Inv, PresenceInv, [Next /\ OneAtATime']_vars
               PROVE  Inv' /\ PresenceInv'
    OBVIOUS
  <2>1. [Next]_vars /\ TypeOK /\ SessionsMatch
    BY DEF Inv
  <2>2. Inv'
    BY <2>1, NextInv
  <2>3. CASE UNCHANGED vars
    BY <2>2, <2>3 DEF vars, hub, written, PresenceInv, ShownInv, UsersInv, TargetsInv,
       WillBeTold, Sessions, Users, Exists
  <2>4. CASE OneAtATime'
    BY <2>1, <2>2, <2>4, QuietPresence, AnnouncePresence, JoinPresence, LeavePresence, Zenon
  <2> QED BY <2>3, <2>4
<1>3. PresenceInv => PresenceTrue
  BY DEF PresenceInv, ShownInv, PresenceTrue, WillBeTold, Telling, Announcing
<1> QED BY <1>1, <1>2, <1>3, PTL DEF OrderlySpec

=============================================================================
