----------------------------- MODULE Disciplines -----------------------------
(***************************************************************************)
(* Two ways of sharing a document under which the replicas of Document do  *)
(* converge.  Nothing in the code enforces either: they delimit what the   *)
(* algorithm of integrateInsert achieves, between editing in turn and free *)
(* concurrent typing.  Delivery and synchronisation are as free as in      *)
(* Document; deletes, which move nothing in a list, are left out.          *)
(***************************************************************************)
EXTENDS Document

CONSTANT TurnClient   \* bound: the clients that take part when typing is in turn

ASSUME TurnAssumption == TurnClient \subseteq Client

VARIABLES
  inTurn,   \* which of the two is followed
  base      \* the inserts known to everyone when the round began

CaughtUp(c) == Settled(c) /\ insertLog[c] = Issued

InsertSome(c) == \E index \in 0..characterCounter[c] : InsertElement(c, index)

\* Turns: whoever types has integrated every insert typed before.  What is on
\* its way to the others may reach them in any order.
TurnInsert(c) ==
  /\ inTurn /\ CaughtUp(c)
  /\ InsertSome(c)
  /\ UNCHANGED base

\* Rounds: everyone may type one character, concurrently with the one of each
\* other client, and the next round begins when everyone has all of them.
RoundInsert(c) ==
  /\ ~inTurn
  /\ \/ insertLog[c] = base /\ Settled(c) /\ UNCHANGED base
     \/ (\A d \in Client : CaughtUp(d)) /\ base' = Issued
  /\ InsertSome(c)

DisciplineNext ==
  /\ \E c \in IF inTurn THEN TurnClient ELSE Client :
       \/ TurnInsert(c) \/ RoundInsert(c)
       \/ Remote(c) /\ UNCHANGED base
  /\ UNCHANGED inTurn

DisciplineSpec ==
  /\ Init /\ inTurn \in BOOLEAN /\ base = {}
  /\ [][DisciplineNext]_<<vars, inTurn, base>>

=============================================================================
