-------------------------------- MODULE OpLog --------------------------------
(***************************************************************************)
(* What the replicas of a document promise each other, whatever they do    *)
(* with the characters: every client keeps the set of the inserts and the  *)
(* set of the deletes it knows of.  A client adds an operation of its own, *)
(* under an identifier nobody has used and referring to characters it has, *)
(* or learns an operation another client issued.  Nothing is ever forgotten*)
(* and nothing is made up.                                                 *)
(***************************************************************************)
EXTENDS Yata

VARIABLES inserts, deletes   \* [Client -> set of operations, of identifiers]

vars == <<inserts, deletes>>

IDs(ops) == {op.id : op \in ops}

Init ==
  /\ inserts = [c \in Client |-> {}]
  /\ deletes = [c \in Client |-> {}]

Insert(c, op) ==
  /\ op.id.client = c
  /\ \A d \in Client : op.id \notin IDs(inserts[d])
  /\ op.origin \in IDs(inserts[c]) \cup {Start}
  /\ op.right \in IDs(inserts[c]) \cup {End}
  /\ inserts' = [inserts EXCEPT ![c] = @ \cup {op}]
  /\ UNCHANGED deletes

Delete(c, id) ==
  /\ id \in IDs(inserts[c])
  /\ deletes' = [deletes EXCEPT ![c] = @ \cup {id}]
  /\ UNCHANGED inserts

LearnInsert(c, d, op) ==
  /\ op \in inserts[d]
  /\ inserts' = [inserts EXCEPT ![c] = @ \cup {op}]
  /\ UNCHANGED deletes

LearnDelete(c, d, id) ==
  /\ id \in deletes[d]
  /\ deletes' = [deletes EXCEPT ![c] = @ \cup {id}]
  /\ UNCHANGED inserts

\* The operation c issues is what the step adds to inserts[c].
Next ==
  \E c \in Client :
    \/ \E op \in inserts'[c] : Insert(c, op)
    \/ \E id \in IDs(inserts[c]) : Delete(c, id)
    \/ \E d \in Client :
         \/ \E op \in inserts[d] : LearnInsert(c, d, op)
         \/ \E id \in deletes[d] : LearnDelete(c, d, id)

Spec == Init /\ [][Next]_vars

=============================================================================
