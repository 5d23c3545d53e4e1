------------------------------- MODULE Catalog -------------------------------
(***************************************************************************)
(* The catalog of documents: the table (catalog.go), the handlers of the   *)
(* HTTP API in front of it (httpapi/handler.go), and the lists that the    *)
(* pages keep (App.jsx), which no later change of the table is told to.    *)
(*                                                                         *)
(* Every request has a handler of its own and every statement of SQL is    *)
(* one step.  A document is known by the number of its row, and its name   *)
(* by how often it has been renamed: no two names that are typed are the   *)
(* same.  Rows are never deleted.                                          *)
(***************************************************************************)
EXTENDS Naturals, Sequences, FiniteSets

CONSTANTS
  Page,        \* pages, each loaded once
  Patient,     \* those whose users wait for answers: for the list of the documents before
               \* they do anything, for a rename before they rename the document again
  MaxRequests  \* bound: requests of all pages together

ASSUME CatalogAssumption == Patient \subseteq Page /\ MaxRequests \in Nat

VARIABLES
  rows,       \* the table: the name of each document
  documents,  \* per page, the list it shows
  requests,   \* requests on their way, at work, or answered
  issued,     \* how many there have been
  mounted,    \* pages that have asked for the list
  listed,     \* pages that have got it
  created,    \* history: the documents that a page knows to have created
  renamed     \* history: per page, the renames it knows to have made

vars == <<rows, documents, requests, issued, mounted, listed, created, renamed>>
history == <<created, renamed>>

Entry(id) == [id |-> id, name |-> rows[id]]

Init ==
  /\ rows = <<>>
  /\ documents = [p \in Page |-> <<>>]
  /\ requests = {} /\ issued = 0
  /\ mounted = {} /\ listed = {}
  /\ created = [p \in Page |-> {}] /\ renamed = [p \in Page |-> {}]

-----------------------------------------------------------------------------
\* The page asks.

Unused == CHOOSE n \in 1..MaxRequests : \A r \in requests : r.number # n

Send(p, method, id) ==
  /\ issued < MaxRequests
  /\ issued' = issued + 1
  /\ requests' = requests \union
       {[number |-> Unused, page |-> p, method |-> method, id |-> id,
         stage |-> "sent", name |-> 0, answer |-> <<>>]}
  /\ UNCHANGED <<rows, documents, listed, history>>

\* getDocuments, once, when the page is mounted
GetDocuments(p) ==
  /\ p \notin mounted
  /\ mounted' = mounted \union {p}
  /\ Send(p, "GET", 0)

PostDocument(p) ==
  /\ p \in mounted /\ (p \in Patient => p \in listed)
  /\ Send(p, "POST", 0)
  /\ UNCHANGED mounted

PatchDocument(p, id) ==
  /\ \E k \in DOMAIN documents[p] : documents[p][k].id = id
  /\ p \in Patient =>
       /\ p \in listed
       /\ ~ \E r \in requests : r.page = p /\ r.method = "PATCH" /\ r.id = id
  /\ Send(p, "PATCH", id)
  /\ UNCHANGED mounted

-----------------------------------------------------------------------------
\* The handlers, statement by statement.

Proceed(r, next) == requests' = (requests \ {r}) \union {next}

Answered(r, entries) == Proceed(r, [r EXCEPT !.stage = "answered", !.answer = entries])

ListDocuments(r) ==
  /\ r.method = "GET" /\ r.stage = "sent"
  /\ Answered(r, [id \in DOMAIN rows |-> Entry(id)])
  /\ UNCHANGED <<rows, documents, issued, mounted, listed, history>>

CreateDocument(r) ==
  /\ r.method = "POST" /\ r.stage = "sent"
  /\ rows' = Append(rows, 0)
  /\ Answered(r, <<[id |-> Len(rows) + 1, name |-> 0]>>)
  /\ UNCHANGED <<documents, issued, mounted, listed, history>>

\* Mutant: the answer is read before the update.
RenameDocumentReadFirst(r) ==
  /\ r.method = "PATCH" /\ r.stage = "sent"
  /\ rows' = [rows EXCEPT ![r.id] = @ + 1]
  /\ Proceed(r, [r EXCEPT !.stage = "answered", !.name = rows'[r.id], !.answer = <<Entry(r.id)>>])
  /\ UNCHANGED <<documents, issued, mounted, listed, history>>

RenameDocument(r) ==
  /\ r.method = "PATCH" /\ r.stage = "sent"
  /\ rows' = [rows EXCEPT ![r.id] = @ + 1]
  /\ Proceed(r, [r EXCEPT !.stage = "renamed", !.name = rows'[r.id]])
  /\ UNCHANGED <<documents, issued, mounted, listed, history>>

\* the second statement of the same handler, which may find a later name
GetDocumentByID(r) ==
  /\ r.method = "PATCH" /\ r.stage = "renamed"
  /\ Answered(r, <<Entry(r.id)>>)
  /\ UNCHANGED <<rows, documents, issued, mounted, listed, history>>

-----------------------------------------------------------------------------
\* The answers, in any order.

Take(r, shown) ==
  /\ r.stage = "answered"
  /\ documents' = [documents EXCEPT ![r.page] = shown]
  /\ requests' = requests \ {r}
  /\ UNCHANGED <<rows, issued, mounted>>

OnList(r) ==
  /\ r.method = "GET"
  /\ Take(r, r.answer)
  /\ listed' = listed \union {r.page}
  /\ UNCHANGED history

OnCreated(r) ==
  /\ r.method = "POST"
  /\ Take(r, r.answer \o documents[r.page])
  /\ created' = [created EXCEPT ![r.page] = @ \union {r.answer[1].id}]
  /\ UNCHANGED <<listed, renamed>>

\* Mutant: the entry that is replaced is taken out, and the new one not put in.
OnRenamedDropped(r) ==
  /\ r.method = "PATCH"
  /\ Take(r, SelectSeq(documents[r.page], LAMBDA e : e.id # r.id))
  /\ renamed' = [renamed EXCEPT ![r.page] = @ \union {[id |-> r.id, name |-> r.name]}]
  /\ UNCHANGED <<listed, created>>

OnRenamed(r) ==
  /\ r.method = "PATCH"
  /\ LET shown == documents[r.page]
     IN  Take(r, [k \in DOMAIN shown |-> IF shown[k].id = r.id THEN r.answer[1] ELSE shown[k]])
  /\ renamed' = [renamed EXCEPT ![r.page] = @ \union {[id |-> r.id, name |-> r.name]}]
  /\ UNCHANGED <<listed, created>>

\* The request or its answer is lost, or the store fails: the page only logs it.
Lose(r) ==
  /\ requests' = requests \ {r}
  /\ UNCHANGED <<rows, documents, issued, mounted, listed, history>>

-----------------------------------------------------------------------------

Next ==
  \/ \E p \in Page :
       \/ GetDocuments(p) \/ PostDocument(p)
       \/ \E id \in DOMAIN rows : PatchDocument(p, id)
  \/ \E r \in requests :
       \/ ListDocuments(r) \/ CreateDocument(r) \/ RenameDocument(r) \/ GetDocumentByID(r)
       \/ OnList(r) \/ OnCreated(r) \/ OnRenamed(r)
       \/ Lose(r)

Spec == Init /\ [][Next]_vars

-----------------------------------------------------------------------------

\* A page whose user waits for the list shows every document it has created, and shows it
\* once, however the answers overtake each other.  (One that does not wait may lose it to
\* the list, or show it twice.)
CreatedShownOnce ==
  \A p \in Patient : \A id \in created[p] :
    Cardinality({k \in DOMAIN documents[p] : documents[p][k].id = id}) = 1

\* A page whose user renames a document once at a time shows a name that is at least as
\* new as his own last one, also when others rename it between the update and the read.
OwnRenamesShown ==
  \A p \in Patient : \A e \in renamed[p] : \A k \in DOMAIN documents[p] :
    documents[p][k].id = e.id => documents[p][k].name >= e.name

=============================================================================
