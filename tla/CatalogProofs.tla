----------------------------- MODULE CatalogProofs -----------------------------
(***************************************************************************)
(* The inductive invariant of Catalog, and what it shows of the lists that *)
(* patient users see, for every set of pages and every number of requests. *)
(***************************************************************************)
EXTENDS Catalog, FiniteSetTheorems, SequenceTheorems, TLAPS

EntryType == [id : Nat, name : Nat]

RequestType(r) ==
  r \in [number : {r.number}, page : Page, method : {"GET", "POST", "PATCH"}, id : Nat,
         stage : {"sent", "renamed", "answered"}, name : Nat, answer : Seq(EntryType)]

TypeInv ==
  /\ rows \in Seq(Nat) /\ documents \in [Page -> Seq(EntryType)]
  /\ mounted \subseteq Page /\ listed \subseteq mounted
  /\ created \in [Page -> SUBSET Nat] /\ renamed \in [Page -> SUBSET EntryType]
  /\ \A r \in requests : RequestType(r)

\* What an answer says of the table, then and now.
AnswerInv ==
  /\ \A r \in requests : r.method = "GET" /\ r.stage = "answered" =>
       \A k \in DOMAIN r.answer : r.answer[k].id = k /\ k \in DOMAIN rows
  /\ \A r \in requests : r.method = "POST" /\ r.stage = "answered" =>
       Len(r.answer) = 1 /\ r.answer[1].id \in DOMAIN rows
  /\ \A r \in requests : r.method = "PATCH" =>
       /\ r.id \in DOMAIN rows
       /\ r.stage # "sent" => r.name <= rows[r.id]
       /\ r.stage = "answered" =>
            Len(r.answer) = 1 /\ r.answer[1].id = r.id /\ r.name <= r.answer[1].name

\* Every creation has a row of its own.
FreshInv ==
  \A r, s \in requests :
    /\ r.method = "POST" /\ r.stage = "answered"
    /\ s.method = "POST" /\ s.stage = "answered"
    /\ r.answer[1].id = s.answer[1].id
    => r = s

ShownInv == \A p \in Page : \A k \in DOMAIN documents[p] : documents[p][k].id \in DOMAIN rows

\* The list is asked for once, and a patient user does nothing before it is there.
MountInv ==
  /\ \A r \in requests : r.page \in mounted
  /\ \A p \in Page \ mounted : documents[p] = <<>>
  /\ \A r, s \in requests : r.page = s.page /\ r.method = "GET" /\ s.method = "GET" => r = s
  /\ \A p \in Patient : \A r \in requests : r.page = p => (r.method = "GET" <=> p \notin listed)
  /\ \A p \in Patient \ listed : created[p] = {} /\ renamed[p] = {} /\ documents[p] = <<>>

Shown(p) == {documents[p][k].id : k \in DOMAIN documents[p]}

CreatedInv ==
  \A p \in Patient :
    /\ \A j, k \in DOMAIN documents[p] : documents[p][j].id = documents[p][k].id => j = k
    /\ created[p] \subseteq Shown(p)
    /\ \A r \in requests : r.page = p /\ r.method = "POST" /\ r.stage = "answered" =>
         r.answer[1].id \notin Shown(p)

RenamedInv ==
  \A p \in Patient :
    /\ \A e \in renamed[p] : e.id \in Shown(p) /\ e.id \in DOMAIN rows /\ e.name <= rows[e.id]
    /\ \A r \in requests : r.page = p /\ r.method = "PATCH" =>
         /\ r.id \in Shown(p)
         /\ r.stage # "sent" => \A e \in renamed[p] : e.id = r.id => e.name <= r.name
    /\ \A r, s \in requests :
         r.page = p /\ s.page = p /\ r.method = "PATCH" /\ s.method = "PATCH" /\ r.id = s.id => r = s

Inv ==
  /\ TypeInv /\ AnswerInv /\ FreshInv /\ ShownInv
  /\ MountInv /\ CreatedInv /\ RenamedInv /\ OwnRenamesShown

-----------------------------------------------------------------------------
\* Requests are sent.

\* A request that has just been sent has all its fields.
LEMMA SentType ==
  ASSUME NEW p \in Page, NEW m \in {"GET", "POST", "PATCH"}, NEW id \in Nat, NEW u,
         NEW r, r = [number |-> u, page |-> p, method |-> m, id |-> id,
                     stage |-> "sent", name |-> 0, answer |-> <<>>]
  PROVE  /\ RequestType(r)
         /\ r.page = p /\ r.method = m /\ r.id = id /\ r.stage = "sent"
<1>1. <<>> \in Seq(EntryType)
  OBVIOUS
<1> QED
  BY <1>1 DEF RequestType

\* Sending a request leaves the table and the lists alone and adds the request.
LEMMA Sent ==
  ASSUME NEW p \in Page, NEW m \in {"GET", "POST", "PATCH"}, NEW id \in Nat, Send(p, m, id)
  PROVE  \E r :
           /\ requests' = requests \union {r} /\ RequestType(r)
           /\ r.page = p /\ r.method = m /\ r.id = id /\ r.stage = "sent"
           /\ UNCHANGED <<rows, documents, listed, created, renamed>>
<1> DEFINE n == [number |-> Unused, page |-> p, method |-> m, id |-> id,
                 stage |-> "sent", name |-> 0, answer |-> <<>>]
<1>1. requests' = requests \union {n} /\ UNCHANGED <<rows, documents, listed, created, renamed>>
  BY DEF Send, history
<1>2. RequestType(n) /\ n.page = p /\ n.method = m /\ n.id = id /\ n.stage = "sent"
  BY SentType
<1> QED
  BY <1>1, <1>2

\* What a new request of page p needs to keep the invariant, whatever it asks for.
LEMMA SendStep ==
  ASSUME Inv, NEW p \in Page, NEW n, RequestType(n), n.page = p, n.stage = "sent",
         requests' = requests \union {n}, UNCHANGED <<rows, documents, listed, created, renamed>>,
         mounted' = mounted \union {p},
         n.method = "GET" => p \notin mounted,
         n.method # "GET" /\ p \in Patient => p \in listed,
         n.method = "PATCH" =>
           /\ n.id \in Shown(p)
           /\ p \in Patient => ~ \E r \in requests : r.page = p /\ r.method = "PATCH" /\ r.id = n.id
  PROVE  Inv'
<1>1. TypeInv'
  BY DEF Inv, TypeInv, RequestType
<1>2. AnswerInv'
  <2>1. n.method = "PATCH" => n.id \in DOMAIN rows
    BY DEF Inv, ShownInv, Shown
  <2> QED
    BY <2>1 DEF Inv, AnswerInv
<1>3. FreshInv'
  BY DEF Inv, FreshInv
<1>4. ShownInv'
  BY DEF Inv, ShownInv
<1>5. MountInv'
  BY CatalogAssumption DEF Inv, TypeInv, MountInv
<1>6. CreatedInv'
  BY DEF Inv, CreatedInv, Shown
<1>7. RenamedInv'
  BY DEF Inv, RenamedInv, Shown
<1>8. OwnRenamesShown'
  BY DEF Inv, OwnRenamesShown
<1> QED
  BY <1>1, <1>2, <1>3, <1>4, <1>5, <1>6, <1>7, <1>8 DEF Inv

LEMMA GetStep == ASSUME Inv, NEW p \in Page, GetDocuments(p) PROVE Inv'
<1>1. Send(p, "GET", 0) /\ p \notin mounted /\ mounted' = mounted \union {p}
  BY DEF GetDocuments
<1> QED
  BY <1>1, Sent, SendStep

LEMMA PostStep == ASSUME Inv, NEW p \in Page, PostDocument(p) PROVE Inv'
<1>1. Send(p, "POST", 0) /\ mounted' = mounted \union {p} /\ (p \in Patient => p \in listed)
  BY DEF PostDocument
<1> QED
  BY <1>1, Sent, SendStep

LEMMA PatchStep ==
  ASSUME Inv, NEW p \in Page, NEW id \in DOMAIN rows, PatchDocument(p, id) PROVE Inv'
<1>1. /\ Send(p, "PATCH", id) /\ mounted' = mounted /\ id \in Shown(p)
      /\ p \in Patient =>
           /\ p \in listed
           /\ ~ \E r \in requests : r.page = p /\ r.method = "PATCH" /\ r.id = id
  BY DEF PatchDocument, Shown
<1>2. id \in Nat
  BY DEF Inv, TypeInv
<1>3. p \in mounted
  BY <1>1 DEF Inv, MountInv, Shown
<1> QED
  BY <1>1, <1>2, <1>3, Sent, SendStep

-----------------------------------------------------------------------------
\* Handlers work.

\* A request that goes on to another stage is the same request to everybody else.
LEMMA Proceeds ==
  ASSUME Inv, NEW r \in requests, NEW next, RequestType(next), Proceed(r, next),
         next.page = r.page, next.method = r.method, next.id = r.id,
         UNCHANGED <<documents, mounted, listed, created, renamed>>
  PROVE  /\ \A q \in requests' : RequestType(q)
         /\ MountInv'
<1>1. requests' = (requests \ {r}) \union {next}
  BY DEF Proceed
<1>2. \A q \in requests' : RequestType(q)
  BY <1>1 DEF Inv, TypeInv
<1>3. MountInv'
  BY <1>1 DEF Inv, MountInv
<1> QED
  BY <1>2, <1>3

LEMMA ListStep == ASSUME Inv, NEW r \in requests, ListDocuments(r) PROVE Inv'
<1> DEFINE entries == [id \in DOMAIN rows |-> Entry(id)]
           next == [r EXCEPT !.stage = "answered", !.answer = entries]
<1>1. /\ r.method = "GET" /\ r.stage = "sent" /\ Proceed(r, next)
      /\ requests' = (requests \ {r}) \union {next}
      /\ UNCHANGED <<rows, documents, mounted, listed, created, renamed>>
  BY DEF ListDocuments, Answered, Proceed, history
<1>2. entries \in Seq(EntryType) /\ \A k \in DOMAIN entries : entries[k].id = k /\ k \in DOMAIN rows
  <2>1. rows \in Seq(Nat)
    BY DEF Inv, TypeInv
  <2>2. \A k \in DOMAIN rows : Entry(k) \in EntryType /\ Entry(k).id = k
    BY <2>1 DEF Entry, EntryType
  <2> QED
    BY <2>1, <2>2
<1>3. /\ RequestType(next) /\ next.page = r.page /\ next.method = "GET" /\ next.id = r.id
      /\ next.stage = "answered" /\ next.answer = entries
  <2>1. RequestType(r)
    BY DEF Inv, TypeInv
  <2> HIDE DEF entries
  <2> QED
    BY <1>1, <1>2, <2>1 DEF RequestType
<1> HIDE DEF next, entries
<1>4. TypeInv' /\ MountInv'
  BY <1>1, <1>3, Proceeds DEF Inv, TypeInv
<1>5. AnswerInv'
  BY <1>1, <1>2, <1>3 DEF Inv, AnswerInv
<1>6. FreshInv' /\ ShownInv'
  BY <1>1, <1>3 DEF Inv, FreshInv, ShownInv
<1>7. CreatedInv' /\ OwnRenamesShown'
  BY <1>1, <1>3 DEF Inv, CreatedInv, Shown, OwnRenamesShown
<1>8. RenamedInv'
  BY <1>1, <1>3 DEF Inv, RenamedInv, Shown
<1> QED
  BY <1>4, <1>5, <1>6, <1>7, <1>8 DEF Inv

LEMMA CreateStep == ASSUME Inv, NEW r \in requests, CreateDocument(r) PROVE Inv'
<1> DEFINE entry == [id |-> Len(rows) + 1, name |-> 0]
           next == [r EXCEPT !.stage = "answered", !.answer = <<entry>>]
<1>1. /\ r.method = "POST" /\ r.stage = "sent" /\ Proceed(r, next)
      /\ requests' = (requests \ {r}) \union {next} /\ rows' = Append(rows, 0)
      /\ UNCHANGED <<documents, mounted, listed, created, renamed>>
  BY DEF CreateDocument, Answered, Proceed, history
<1>2. /\ rows \in Seq(Nat) /\ rows' \in Seq(Nat)
      /\ DOMAIN rows \subseteq DOMAIN rows' /\ \A k \in DOMAIN rows : rows'[k] = rows[k]
      /\ Len(rows) + 1 \in DOMAIN rows' /\ Len(rows) + 1 \notin DOMAIN rows
      /\ Len(rows) + 1 \in Nat
  BY <1>1 DEF Inv, TypeInv
<1>3. /\ RequestType(next) /\ next.page = r.page /\ next.method = "POST" /\ next.id = r.id
      /\ next.stage = "answered" /\ Len(next.answer) = 1 /\ next.answer[1].id = Len(rows) + 1
  <2>1. RequestType(r)
    BY DEF Inv, TypeInv
  <2>2. <<entry>> \in Seq(EntryType) /\ Len(<<entry>>) = 1 /\ <<entry>>[1].id = Len(rows) + 1
    BY <1>2 DEF EntryType
  <2> HIDE DEF entry
  <2> QED
    BY <1>1, <2>1, <2>2 DEF RequestType
<1> HIDE DEF next, entry
<1>4. TypeInv' /\ MountInv'
  BY <1>1, <1>2, <1>3, Proceeds DEF Inv, TypeInv
<1>5. AnswerInv'
  BY <1>1, <1>2, <1>3 DEF Inv, AnswerInv
<1>6. FreshInv'
  BY <1>1, <1>2, <1>3 DEF Inv, FreshInv, AnswerInv
<1>7. ShownInv'
  BY <1>1, <1>2 DEF Inv, ShownInv
<1>8. CreatedInv'
  <2>1. \A p \in Page : Len(rows) + 1 \notin Shown(p)
    BY <1>2 DEF Inv, ShownInv, Shown
  <2>2. Patient \subseteq Page
    BY CatalogAssumption
  <2> QED
    BY <1>1, <1>3, <2>1, <2>2 DEF Inv, CreatedInv, Shown
<1>9. RenamedInv'
  BY <1>1, <1>2, <1>3 DEF Inv, RenamedInv, Shown
<1>10. OwnRenamesShown'
  BY <1>1 DEF Inv, OwnRenamesShown
<1> QED
  BY <1>4, <1>5, <1>6, <1>7, <1>8, <1>9, <1>10 DEF Inv

LEMMA RenameStep == ASSUME Inv, NEW r \in requests, RenameDocument(r) PROVE Inv'
<1> DEFINE next == [r EXCEPT !.stage = "renamed", !.name = rows'[r.id]]
<1>1. /\ r.method = "PATCH" /\ r.stage = "sent" /\ Proceed(r, next)
      /\ requests' = (requests \ {r}) \union {next} /\ rows' = [rows EXCEPT ![r.id] = @ + 1]
      /\ UNCHANGED <<documents, mounted, listed, created, renamed>>
  BY DEF RenameDocument, Proceed, history
<1>2. /\ rows \in Seq(Nat) /\ r.id \in DOMAIN rows /\ RequestType(r)
  BY <1>1 DEF Inv, TypeInv, AnswerInv
<1>3. /\ rows' \in Seq(Nat) /\ DOMAIN rows' = DOMAIN rows
      /\ \A k \in DOMAIN rows : rows[k] \in Nat /\ rows'[k] \in Nat /\ rows[k] <= rows'[k]
  BY <1>1, <1>2
<1>4. /\ RequestType(next) /\ next.page = r.page /\ next.method = "PATCH" /\ next.id = r.id
      /\ next.stage = "renamed" /\ next.name = rows'[r.id]
  BY <1>1, <1>2, <1>3 DEF RequestType
<1> HIDE DEF next
<1>5. TypeInv' /\ MountInv'
  BY <1>1, <1>3, <1>4, Proceeds DEF Inv, TypeInv
<1>6. AnswerInv'
  <2>1. \A q \in requests : q.name \in Nat
    BY DEF Inv, TypeInv, RequestType
  <2> QED
    BY <1>1, <1>2, <1>3, <1>4, <2>1 DEF Inv, AnswerInv
<1>7. FreshInv' /\ ShownInv'
  BY <1>1, <1>3, <1>4 DEF Inv, FreshInv, ShownInv
<1>8. CreatedInv' /\ OwnRenamesShown'
  BY <1>1, <1>4 DEF Inv, CreatedInv, Shown, OwnRenamesShown
<1>9. RenamedInv'
  <2>1. \A p \in Patient : \A e \in renamed[p] :
          /\ e.id \in Shown(p) /\ e.id \in DOMAIN rows' /\ e.name <= rows'[e.id]
    <3> SUFFICES ASSUME NEW p \in Patient, NEW e \in renamed[p]
                 PROVE  e.id \in Shown(p) /\ e.id \in DOMAIN rows' /\ e.name <= rows'[e.id]
      OBVIOUS
    <3>1. e.id \in Shown(p) /\ e.id \in DOMAIN rows /\ e.name <= rows[e.id]
      BY DEF Inv, RenamedInv
    <3>2. e.name \in Nat
      BY CatalogAssumption DEF Inv, TypeInv, EntryType
    <3> QED
      BY <1>3, <3>1, <3>2
  <2>2. \A p \in Patient : \A q \in requests' : q.page = p /\ q.method = "PATCH" =>
          /\ q.id \in Shown(p)
          /\ q.stage # "sent" => \A e \in renamed[p] : e.id = q.id => e.name <= q.name
    BY <1>1, <1>4, <2>1 DEF Inv, RenamedInv
  <2>3. \A p \in Patient : \A q, t \in requests' :
          q.page = p /\ t.page = p /\ q.method = "PATCH" /\ t.method = "PATCH" /\ q.id = t.id => q = t
    BY <1>1, <1>4 DEF Inv, RenamedInv
  <2>4. \A p \in Patient : Shown(p)' = Shown(p)
    BY <1>1 DEF Shown
  <2> QED
    BY <1>1, <2>1, <2>2, <2>3, <2>4 DEF RenamedInv
<1> QED
  BY <1>5, <1>6, <1>7, <1>8, <1>9 DEF Inv

LEMMA ReadBackStep == ASSUME Inv, NEW r \in requests, GetDocumentByID(r) PROVE Inv'
<1> DEFINE next == [r EXCEPT !.stage = "answered", !.answer = <<Entry(r.id)>>]
<1>1. /\ r.method = "PATCH" /\ r.stage = "renamed" /\ Proceed(r, next)
      /\ requests' = (requests \ {r}) \union {next}
      /\ UNCHANGED <<rows, documents, mounted, listed, created, renamed>>
  BY DEF GetDocumentByID, Answered, Proceed, history
<1>2. /\ rows \in Seq(Nat) /\ r.id \in DOMAIN rows /\ RequestType(r) /\ r.name <= rows[r.id]
  BY <1>1 DEF Inv, TypeInv, AnswerInv
<1>3. /\ RequestType(next) /\ next.page = r.page /\ next.method = "PATCH" /\ next.id = r.id
      /\ next.stage = "answered" /\ next.name = r.name
      /\ Len(next.answer) = 1 /\ next.answer[1] = Entry(r.id)
  <2>1. <<Entry(r.id)>> \in Seq(EntryType) /\ Len(<<Entry(r.id)>>) = 1 /\ <<Entry(r.id)>>[1] = Entry(r.id)
    BY <1>2 DEF Entry, EntryType
  <2> QED
    BY <1>1, <1>2, <2>1 DEF RequestType
<1>4. Entry(r.id).id = r.id /\ Entry(r.id).name = rows[r.id]
  BY DEF Entry
<1> HIDE DEF next
<1>5. TypeInv' /\ MountInv'
  BY <1>1, <1>3, Proceeds DEF Inv, TypeInv
<1>6. AnswerInv'
  BY <1>1, <1>2, <1>3, <1>4 DEF Inv, AnswerInv
<1>7. FreshInv' /\ ShownInv'
  BY <1>1, <1>3 DEF Inv, FreshInv, ShownInv
<1>8. CreatedInv' /\ OwnRenamesShown'
  BY <1>1, <1>3 DEF Inv, CreatedInv, Shown, OwnRenamesShown
<1>9. RenamedInv'
  BY <1>1, <1>3 DEF Inv, RenamedInv, Shown
<1> QED
  BY <1>5, <1>6, <1>7, <1>8, <1>9 DEF Inv

LEMMA LoseStep == ASSUME Inv, NEW r \in requests, Lose(r) PROVE Inv'
<1>1. /\ requests' \subseteq requests
      /\ UNCHANGED <<rows, documents, mounted, listed, created, renamed>>
  BY DEF Lose, history
<1>2. TypeInv' /\ AnswerInv' /\ FreshInv' /\ ShownInv' /\ MountInv'
  BY <1>1 DEF Inv, TypeInv, AnswerInv, FreshInv, ShownInv, MountInv
<1>3. CreatedInv' /\ RenamedInv' /\ OwnRenamesShown'
  BY <1>1 DEF Inv, CreatedInv, RenamedInv, Shown, OwnRenamesShown
<1> QED
  BY <1>2, <1>3 DEF Inv

-----------------------------------------------------------------------------
\* Answers are taken.

\* What no answer changes: the table, the other requests, and the lists of other pages.
LEMMA TakeKeeps ==
  ASSUME Inv, NEW r \in requests, NEW shown \in Seq(EntryType), Take(r, shown),
         \A k \in DOMAIN shown : shown[k].id \in DOMAIN rows
  PROVE  /\ r.page \in Page /\ requests' = requests \ {r} /\ rows' = rows /\ mounted' = mounted
         /\ documents' \in [Page -> Seq(EntryType)] /\ documents'[r.page] = shown
         /\ \A p \in Page \ {r.page} : documents'[p] = documents[p] /\ Shown(p)' = Shown(p)
         /\ AnswerInv' /\ FreshInv' /\ ShownInv'
<1>1. requests' = requests \ {r} /\ rows' = rows /\ mounted' = mounted
  BY DEF Take
<1>2. r.page \in Page /\ documents \in [Page -> Seq(EntryType)]
  BY DEF Inv, TypeInv, RequestType
<1>3. documents' = [documents EXCEPT ![r.page] = shown]
  BY DEF Take
<1>4. /\ documents' \in [Page -> Seq(EntryType)] /\ documents'[r.page] = shown
      /\ \A p \in Page \ {r.page} : documents'[p] = documents[p]
  BY <1>2, <1>3
<1>5. \A p \in Page \ {r.page} : Shown(p)' = Shown(p)
  BY <1>4 DEF Shown
<1>6. AnswerInv' /\ FreshInv'
  BY <1>1 DEF Inv, AnswerInv, FreshInv
<1>7. ShownInv'
  BY <1>1, <1>4 DEF Inv, ShownInv
<1> QED
  BY <1>1, <1>2, <1>4, <1>5, <1>6, <1>7

LEMMA OnListStep == ASSUME Inv, NEW r \in requests, OnList(r) PROVE Inv'
<1>1. /\ r.method = "GET" /\ r.stage = "answered" /\ Take(r, r.answer)
      /\ listed' = listed \union {r.page} /\ UNCHANGED <<created, renamed>>
  BY DEF OnList, Take, history
<1>2. /\ r.answer \in Seq(EntryType)
      /\ \A k \in DOMAIN r.answer : r.answer[k].id = k /\ k \in DOMAIN rows
  BY <1>1 DEF Inv, TypeInv, RequestType, AnswerInv
<1>3. /\ r.page \in Page /\ requests' = requests \ {r} /\ rows' = rows /\ mounted' = mounted
      /\ documents' \in [Page -> Seq(EntryType)] /\ documents'[r.page] = r.answer
      /\ \A p \in Page \ {r.page} : documents'[p] = documents[p] /\ Shown(p)' = Shown(p)
      /\ AnswerInv' /\ FreshInv' /\ ShownInv'
  BY <1>1, <1>2, TakeKeeps
<1>4. r.page \in mounted
  BY DEF Inv, MountInv
<1>5. r.page \in Patient =>
        /\ created[r.page] = {} /\ renamed[r.page] = {}
        /\ \A q \in requests : q.page # r.page \/ q = r
  BY <1>1 DEF Inv, MountInv
<1>6. TypeInv'
  BY <1>1, <1>3, <1>4 DEF Inv, TypeInv
<1>7. MountInv'
  BY <1>1, <1>3, <1>4, <1>5, CatalogAssumption DEF Inv, MountInv
<1>8. CreatedInv'
  <2> SUFFICES ASSUME NEW p \in Patient
               PROVE  /\ \A j, k \in DOMAIN documents'[p] : documents'[p][j].id = documents'[p][k].id => j = k
                      /\ created[p] \subseteq Shown(p)'
                      /\ \A q \in requests' : q.page = p /\ q.method = "POST" /\ q.stage = "answered" =>
                           q.answer[1].id \notin Shown(p)'
    BY <1>1 DEF CreatedInv
  <2>1. CASE p = r.page
    BY <1>2, <1>3, <1>5, <2>1
  <2>2. CASE p # r.page
    BY <1>3, <2>2, CatalogAssumption DEF Inv, CreatedInv
  <2> QED
    BY <2>1, <2>2
<1>9. RenamedInv'
  BY <1>1, <1>3, <1>5, CatalogAssumption DEF Inv, RenamedInv
<1>10. OwnRenamesShown'
  BY <1>1, <1>3, <1>5, CatalogAssumption DEF Inv, OwnRenamesShown
<1> QED
  BY <1>3, <1>6, <1>7, <1>8, <1>9, <1>10 DEF Inv

\* A document put in front of a list is shown first, and the others one place later.
LEMMA InFront ==
  ASSUME NEW a \in Seq(EntryType), Len(a) = 1, NEW s \in Seq(EntryType)
  PROVE  /\ a \o s \in Seq(EntryType) /\ (a \o s)[1] = a[1] /\ 1 \in DOMAIN (a \o s)
         /\ \A k \in DOMAIN s : k + 1 \in DOMAIN (a \o s) /\ (a \o s)[k + 1] = s[k]
         /\ \A k \in DOMAIN (a \o s) : k = 1 \/ (k - 1 \in DOMAIN s /\ (a \o s)[k] = s[k - 1])
<1> DEFINE t == a \o s
<1>1. /\ t \in Seq(EntryType) /\ Len(t) = 1 + Len(s)
      /\ \A k \in 1..(1 + Len(s)) : t[k] = IF k <= 1 THEN a[k] ELSE s[k - 1]
  <2>1. /\ t \in Seq(EntryType) /\ Len(t) = Len(a) + Len(s)
        /\ \A k \in 1..Len(a) + Len(s) : t[k] = IF k <= Len(a) THEN a[k] ELSE s[k - Len(a)]
    BY ConcatProperties, Zenon
  <2> HIDE DEF t
  <2> QED
    BY <2>1
<1> HIDE DEF t
<1>2. Len(s) \in Nat /\ DOMAIN s = 1..Len(s) /\ DOMAIN t = 1..Len(t)
  BY <1>1
<1>3. \A k \in DOMAIN s : k + 1 \in DOMAIN t /\ t[k + 1] = s[k]
  BY <1>1, <1>2
<1>4. \A k \in DOMAIN t : k = 1 \/ (k - 1 \in DOMAIN s /\ t[k] = s[k - 1])
  BY <1>1, <1>2
<1>5. t[1] = a[1] /\ 1 \in DOMAIN t
  BY <1>1, <1>2
<1> QED
  BY <1>1, <1>3, <1>4, <1>5 DEF t

LEMMA OnCreatedStep == ASSUME Inv, NEW r \in requests, OnCreated(r) PROVE Inv'
<1> DEFINE old == documents[r.page]
           new == r.answer[1].id
           shown == r.answer \o old
<1>1. /\ r.method = "POST" /\ r.stage = "answered" /\ Take(r, shown)
      /\ created' = [created EXCEPT ![r.page] = @ \union {new}]
      /\ UNCHANGED <<listed, renamed>>
  BY DEF OnCreated, Take
<1>2. /\ r.page \in Page /\ r.answer \in Seq(EntryType) /\ Len(r.answer) = 1
      /\ old \in Seq(EntryType) /\ new \in DOMAIN rows /\ new \in Nat
  <2>1. /\ r.page \in Page /\ r.answer \in Seq(EntryType) /\ Len(r.answer) = 1
        /\ new \in DOMAIN rows
    BY <1>1 DEF Inv, TypeInv, RequestType, AnswerInv
  <2>2. old \in Seq(EntryType) /\ rows \in Seq(Nat)
    BY <2>1 DEF Inv, TypeInv
  <2> QED
    BY <2>1, <2>2
<1>3. /\ shown \in Seq(EntryType) /\ shown[1] = r.answer[1] /\ 1 \in DOMAIN shown
      /\ \A k \in DOMAIN old : k + 1 \in DOMAIN shown /\ shown[k + 1] = old[k]
      /\ \A k \in DOMAIN shown : k = 1 \/ (k - 1 \in DOMAIN old /\ shown[k] = old[k - 1])
  BY <1>2, InFront
<1>4. \A k \in DOMAIN old : old[k].id \in DOMAIN rows
  BY <1>2 DEF Inv, ShownInv
<1>5. \A k \in DOMAIN shown : shown[k].id \in DOMAIN rows
  BY <1>2, <1>3, <1>4
<1> HIDE DEF shown
<1>6. /\ requests' = requests \ {r} /\ rows' = rows /\ mounted' = mounted
      /\ documents' \in [Page -> Seq(EntryType)] /\ documents'[r.page] = shown
      /\ \A p \in Page \ {r.page} : documents'[p] = documents[p] /\ Shown(p)' = Shown(p)
      /\ AnswerInv' /\ FreshInv' /\ ShownInv'
  BY <1>1, <1>3, <1>5, TakeKeeps
<1>7. Shown(r.page)' = Shown(r.page) \union {new}
  <2>1. Shown(r.page)' = {shown[k].id : k \in DOMAIN shown}
    BY <1>6 DEF Shown
  <2>2. Shown(r.page) = {old[k].id : k \in DOMAIN old}
    BY DEF Shown
  <2>3. shown[1].id = new
    BY <1>3
  <2> HIDE DEF old, new
  <2> QED
    BY <1>3, <2>1, <2>2, <2>3
<1>8. created \in [Page -> SUBSET Nat] /\ created' \in [Page -> SUBSET Nat]
  BY <1>1, <1>2 DEF Inv, TypeInv
<1>9. TypeInv'
  BY <1>1, <1>6, <1>8 DEF Inv, TypeInv
<1>10. MountInv'
  <2>1. r.page \in mounted /\ (r.page \in Patient => r.page \in listed)
    BY <1>1 DEF Inv, MountInv
  <2>2. \A p \in Page \ {r.page} : created'[p] = created[p]
    BY <1>1, <1>8
  <2> QED
    BY <1>1, <1>2, <1>6, <2>1, <2>2, CatalogAssumption DEF Inv, MountInv
<1>11. CreatedInv'
  <2> SUFFICES ASSUME NEW p \in Patient
               PROVE  /\ \A j, k \in DOMAIN documents'[p] : documents'[p][j].id = documents'[p][k].id => j = k
                      /\ created'[p] \subseteq Shown(p)'
                      /\ \A q \in requests' : q.page = p /\ q.method = "POST" /\ q.stage = "answered" =>
                           q.answer[1].id \notin Shown(p)'
    BY DEF CreatedInv
  <2>1. p \in Page
    BY CatalogAssumption
  <2>2. CASE p = r.page
    <3>1. new \notin Shown(p) /\ created[p] \subseteq Shown(p)
      BY <1>1, <2>2 DEF Inv, CreatedInv
    <3>2. \A k \in DOMAIN old : old[k].id # new
      BY <2>2, <3>1 DEF Shown
    <3>3. \A j, k \in DOMAIN old : old[j].id = old[k].id => j = k
      BY <2>2 DEF Inv, CreatedInv
    <3>4. \A j, k \in DOMAIN shown : shown[j].id = shown[k].id => j = k
      <4> SUFFICES ASSUME NEW j \in DOMAIN shown, NEW k \in DOMAIN shown, shown[j].id = shown[k].id
                   PROVE  j = k
        OBVIOUS
      <4>1. j \in Nat /\ k \in Nat
        BY <1>3
      <4> QED
        BY <1>3, <3>2, <3>3, <4>1
    <3>5. created'[p] = created[p] \union {new}
      BY <1>1, <1>8, <2>1, <2>2
    <3>6. \A q \in requests' : q.page = p /\ q.method = "POST" /\ q.stage = "answered" =>
            q.answer[1].id \notin Shown(p) /\ q.answer[1].id # new
      BY <1>1, <1>6, <2>2 DEF Inv, CreatedInv, FreshInv
    <3> QED
      BY <1>6, <1>7, <2>2, <3>1, <3>4, <3>5, <3>6
  <2>3. CASE p # r.page
    <3>1. created'[p] = created[p]
      BY <1>1, <1>8, <2>1, <2>3
    <3> QED
      BY <1>6, <2>1, <2>3, <3>1 DEF Inv, CreatedInv
  <2> QED
    BY <2>2, <2>3
<1>12. RenamedInv'
  <2>1. \A p \in Patient : Shown(p) \subseteq Shown(p)'
    BY <1>6, <1>7, CatalogAssumption
  <2>2. UNCHANGED <<rows, renamed>> /\ requests' \subseteq requests
    BY <1>1, <1>6
  <2> HIDE DEF old, new
  <2> QED
    BY <2>1, <2>2 DEF Inv, RenamedInv
<1>13. OwnRenamesShown'
  <2> SUFFICES ASSUME NEW p \in Patient, NEW e \in renamed[p], NEW k \in DOMAIN documents'[p],
                      documents'[p][k].id = e.id
               PROVE  documents'[p][k].name >= e.name
    BY <1>1 DEF OwnRenamesShown
  <2>1. p \in Page
    BY CatalogAssumption
  <2>2. CASE p = r.page
    <3>1. new \notin Shown(p) /\ e.id \in Shown(p)
      BY <1>1, <2>2 DEF Inv, CreatedInv, RenamedInv
    <3>2. k # 1
      BY <1>3, <1>6, <2>2, <3>1
    <3>3. k - 1 \in DOMAIN old /\ documents'[p][k] = old[k - 1]
      BY <1>3, <1>6, <2>2, <3>2
    <3>4. \A j \in DOMAIN old : old[j].id = e.id => old[j].name >= e.name
      BY <2>2 DEF Inv, OwnRenamesShown
    <3> QED
      BY <3>3, <3>4
  <2>3. CASE p # r.page
    BY <1>6, <2>1, <2>3 DEF Inv, OwnRenamesShown
  <2> QED
    BY <2>2, <2>3
<1> QED
  BY <1>6, <1>9, <1>10, <1>11, <1>12, <1>13 DEF Inv

LEMMA OnRenamedStep == ASSUME Inv, NEW r \in requests, OnRenamed(r) PROVE Inv'
<1> DEFINE old == documents[r.page]
           shown == [k \in DOMAIN old |-> IF old[k].id = r.id THEN r.answer[1] ELSE old[k]]
           mine == [id |-> r.id, name |-> r.name]
<1>1. /\ r.method = "PATCH" /\ r.stage = "answered" /\ Take(r, shown)
      /\ renamed' = [renamed EXCEPT ![r.page] = @ \union {mine}]
      /\ UNCHANGED <<listed, created>>
  BY DEF OnRenamed, Take
<1>2. /\ r.page \in Page /\ r.answer[1] \in EntryType /\ r.answer[1].id = r.id
      /\ r.id \in Nat /\ r.name \in Nat /\ r.id \in DOMAIN rows /\ r.name <= rows[r.id]
      /\ r.name <= r.answer[1].name /\ old \in Seq(EntryType)
  <2>1. /\ r.page \in Page /\ r.answer \in Seq(EntryType) /\ Len(r.answer) = 1
        /\ r.answer[1].id = r.id /\ r.id \in Nat /\ r.name \in Nat /\ r.id \in DOMAIN rows
        /\ r.name <= rows[r.id] /\ r.name <= r.answer[1].name
    BY <1>1 DEF Inv, TypeInv, RequestType, AnswerInv
  <2>2. old \in Seq(EntryType) /\ r.answer[1] \in EntryType
    BY <2>1 DEF Inv, TypeInv
  <2> QED
    BY <2>1, <2>2
<1>3. /\ shown \in Seq(EntryType) /\ DOMAIN shown = DOMAIN old
      /\ \A k \in DOMAIN old : shown[k] = IF old[k].id = r.id THEN r.answer[1] ELSE old[k]
      /\ \A k \in DOMAIN old : shown[k].id = old[k].id
  BY <1>2
<1>4. \A k \in DOMAIN shown : shown[k].id \in DOMAIN rows
  BY <1>2, <1>3 DEF Inv, ShownInv
<1> HIDE DEF shown
<1>5. /\ requests' = requests \ {r} /\ rows' = rows /\ mounted' = mounted
      /\ documents' \in [Page -> Seq(EntryType)] /\ documents'[r.page] = shown
      /\ \A p \in Page \ {r.page} : documents'[p] = documents[p] /\ Shown(p)' = Shown(p)
      /\ AnswerInv' /\ FreshInv' /\ ShownInv'
  BY <1>1, <1>3, <1>4, TakeKeeps
<1>6. Shown(r.page)' = Shown(r.page)
  BY <1>3, <1>5 DEF Shown
<1>7. \A p \in Page : Shown(p)' = Shown(p)
  BY <1>5, <1>6
<1>8. renamed \in [Page -> SUBSET EntryType] /\ renamed' \in [Page -> SUBSET EntryType]
  BY <1>1, <1>2 DEF Inv, TypeInv, EntryType
<1>9. /\ renamed'[r.page] = renamed[r.page] \union {mine}
      /\ \A p \in Page \ {r.page} : renamed'[p] = renamed[p]
  BY <1>1, <1>2, <1>8
<1>10. TypeInv'
  BY <1>1, <1>5, <1>8 DEF Inv, TypeInv
<1>11. MountInv'
  <2>1. r.page \in mounted /\ (r.page \in Patient => r.page \in listed)
    BY <1>1 DEF Inv, MountInv
  <2>2. /\ \A p \in Page \ mounted : documents'[p] = documents[p]
        /\ \A p \in Patient \ listed : documents'[p] = documents[p] /\ renamed'[p] = renamed[p]
    BY <1>5, <1>9, <2>1, CatalogAssumption
  <2>3. requests' \subseteq requests /\ UNCHANGED <<mounted, listed, created>>
    BY <1>1, <1>5
  <2> HIDE DEF old, mine
  <2> QED
    BY <2>2, <2>3 DEF Inv, MountInv
<1>12. CreatedInv'
  <2>1. \A p \in Patient : \A j, k \in DOMAIN documents'[p] :
          documents'[p][j].id = documents'[p][k].id => j = k
    <3> SUFFICES ASSUME NEW p \in Patient
                 PROVE  \A j, k \in DOMAIN documents'[p] :
                          documents'[p][j].id = documents'[p][k].id => j = k
      OBVIOUS
    <3>1. CASE p = r.page
      BY <1>3, <1>5, <3>1 DEF Inv, CreatedInv
    <3>2. CASE p # r.page
      BY <1>5, <3>2, CatalogAssumption DEF Inv, CreatedInv
    <3> QED
      BY <3>1, <3>2
  <2>2. UNCHANGED created /\ requests' \subseteq requests
    BY <1>1, <1>5
  <2> QED
    BY <1>7, <2>1, <2>2, CatalogAssumption DEF Inv, CreatedInv
<1>13. RenamedInv'
  <2> SUFFICES ASSUME NEW p \in Patient
               PROVE  /\ \A e \in renamed'[p] : e.id \in Shown(p) /\ e.id \in DOMAIN rows /\ e.name <= rows[e.id]
                      /\ \A q \in requests' : q.page = p /\ q.method = "PATCH" =>
                           /\ q.id \in Shown(p)
                           /\ q.stage # "sent" => \A e \in renamed'[p] : e.id = q.id => e.name <= q.name
                      /\ \A q, t \in requests' :
                           q.page = p /\ t.page = p /\ q.method = "PATCH" /\ t.method = "PATCH" /\ q.id = t.id => q = t
    BY <1>5, <1>7, CatalogAssumption DEF RenamedInv
  <2>1. p \in Page
    BY CatalogAssumption
  <2>2. CASE p = r.page
    <3>1. r.id \in Shown(p) /\ \A q \in requests' : q.page = p /\ q.method = "PATCH" => q.id # r.id
      BY <1>1, <1>5, <2>2 DEF Inv, RenamedInv
    <3>2. mine.id = r.id /\ mine.name = r.name
      OBVIOUS
    <3> QED
      BY <1>2, <1>5, <1>9, <2>2, <3>1, <3>2 DEF Inv, RenamedInv
  <2>3. CASE p # r.page
    BY <1>5, <1>9, <2>1, <2>3 DEF Inv, RenamedInv
  <2> QED
    BY <2>2, <2>3
<1>14. OwnRenamesShown'
  <2> SUFFICES ASSUME NEW p \in Patient, NEW e \in renamed'[p], NEW k \in DOMAIN documents'[p],
                      documents'[p][k].id = e.id
               PROVE  documents'[p][k].name >= e.name
    BY DEF OwnRenamesShown
  <2>1. p \in Page
    BY CatalogAssumption
  <2>2. CASE p = r.page
    <3>1. k \in DOMAIN old /\ old[k].id = e.id
          /\ documents'[p][k] = IF e.id = r.id THEN r.answer[1] ELSE old[k]
      BY <1>3, <1>5, <2>2
    <3>2. CASE e.id = r.id
      <4>1. e.name \in Nat /\ r.answer[1].name \in Nat
        BY <1>2, <1>8, <2>1 DEF EntryType
      <4>2. e.name <= r.name
        <5>1. CASE e = mine
          BY <1>2, <5>1
        <5>2. CASE e \in renamed[p]
          BY <1>1, <2>2, <3>2, <5>2 DEF Inv, RenamedInv
        <5> QED
          BY <1>9, <2>2, <5>1, <5>2
      <4> QED
        BY <1>2, <3>1, <3>2, <4>1, <4>2
    <3>3. CASE e.id # r.id
      <4>1. e \in renamed[p]
        BY <1>9, <2>2, <3>3
      <4>2. old[k].name >= e.name
        BY <2>2, <3>1, <4>1 DEF Inv, OwnRenamesShown
      <4> QED
        BY <3>1, <3>3, <4>2
    <3> QED
      BY <3>2, <3>3
  <2>3. CASE p # r.page
    BY <1>5, <1>9, <2>1, <2>3 DEF Inv, OwnRenamesShown
  <2> QED
    BY <2>2, <2>3
<1> QED
  BY <1>5, <1>10, <1>11, <1>12, <1>13, <1>14 DEF Inv

-----------------------------------------------------------------------------
\* The theorems.

LEMMA Initially == Init => Inv
<1> SUFFICES ASSUME Init PROVE Inv
  OBVIOUS
<1>1. <<>> \in Seq(Nat) /\ <<>> \in Seq(EntryType)
  OBVIOUS
<1>2. TypeInv
  BY <1>1 DEF Init, TypeInv
<1>3. AnswerInv /\ FreshInv
  BY DEF Init, AnswerInv, FreshInv
<1>4. ShownInv /\ MountInv
  BY CatalogAssumption DEF Init, ShownInv, MountInv
<1>5. CreatedInv /\ RenamedInv /\ OwnRenamesShown
  BY CatalogAssumption DEF Init, CreatedInv, RenamedInv, OwnRenamesShown
<1> QED
  BY <1>2, <1>3, <1>4, <1>5 DEF Inv

LEMMA Consecution == Inv /\ [Next]_vars => Inv'
<1> SUFFICES ASSUME Inv, [Next]_vars PROVE Inv'
  OBVIOUS
<1>1. CASE UNCHANGED vars
  <2>1. UNCHANGED <<rows, documents, requests, issued, mounted, listed, created, renamed>>
    BY <1>1 DEF vars
  <2>2. TypeInv' /\ AnswerInv' /\ FreshInv' /\ ShownInv' /\ MountInv'
    BY <2>1 DEF Inv, TypeInv, AnswerInv, FreshInv, ShownInv, MountInv
  <2>3. CreatedInv' /\ RenamedInv' /\ OwnRenamesShown'
    BY <2>1 DEF Inv, CreatedInv, RenamedInv, Shown, OwnRenamesShown
  <2> QED
    BY <2>2, <2>3 DEF Inv
<1>2. ASSUME NEW p \in Page, GetDocuments(p) \/ PostDocument(p) PROVE Inv'
  BY <1>2, GetStep, PostStep
<1>3. ASSUME NEW p \in Page, NEW id \in DOMAIN rows, PatchDocument(p, id) PROVE Inv'
  BY <1>3, PatchStep
<1>4. ASSUME NEW r \in requests,
             \/ ListDocuments(r) \/ CreateDocument(r) \/ RenameDocument(r) \/ GetDocumentByID(r)
      PROVE  Inv'
  BY <1>4, ListStep, CreateStep, RenameStep, ReadBackStep
<1>5. ASSUME NEW r \in requests, OnList(r) \/ OnCreated(r) \/ OnRenamed(r) \/ Lose(r) PROVE Inv'
  BY <1>5, OnListStep, OnCreatedStep, OnRenamedStep, LoseStep
<1> QED
  BY <1>1, <1>2, <1>3, <1>4, <1>5 DEF Next

\* Whatever the answers overtake, Inv holds: no two creations share a row, a patient page
\* shows what it created and renamed, and its list is not replaced behind its back.
THEOREM CatalogInvariance == Spec => []Inv
<1>1. Init => Inv
  BY Initially
<1>2. Inv /\ [Next]_vars => Inv'
  BY Consecution
<1> QED
  BY <1>1, <1>2, PTL DEF Spec

\* A page whose user waits for the list shows each document it created exactly once
\* (the answers of createDocument and getDocuments in App.jsx).
THEOREM CreationsAreShown == Spec => []CreatedShownOnce
<1>1. Inv => CreatedShownOnce
  <2> SUFFICES ASSUME Inv, NEW p \in Patient, NEW id \in created[p]
               PROVE  Cardinality({k \in DOMAIN documents[p] : documents[p][k].id = id}) = 1
    BY DEF CreatedShownOnce
  <2>1. PICK k \in DOMAIN documents[p] : documents[p][k].id = id
    BY DEF Inv, CreatedInv, Shown
  <2>2. {j \in DOMAIN documents[p] : documents[p][j].id = id} = {k}
    BY <2>1 DEF Inv, CreatedInv
  <2> QED
    BY <2>2, FS_Singleton
<1> QED
  BY <1>1, CatalogInvariance, PTL

\* A page whose user renames a document once at a time never shows an older name than his
\* own, although patchDocument reads the row again after others may have renamed it.
THEOREM RenamesAreShown == Spec => []OwnRenamesShown
<1>1. Inv => OwnRenamesShown
  BY DEF Inv
<1> QED
  BY <1>1, CatalogInvariance, PTL

=============================================================================
