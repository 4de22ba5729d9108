-------------------------- MODULE DirectoryProofs --------------------------
(* The directory of a workspace: the dictionary, the mailboxes, the contact  *)
(* persons and the clients, who reads jobs and submissions, the candidates   *)
(* and the mail campaigns to them, for any number of members, rows and       *)
(* overlapping requests and any permissions.                                 *)
EXTENDS ClientContacts, Dictionary, Mailboxes, SubmissionReaders, Candidates, Campaigns,
        FiniteSetTheorems, SequenceTheorems, WellFoundedInduction, TLAPS

(* The dictionary *)

\* Every alias stands for a canonical term that exists.
DictionaryInv ==
    /\ \A t \in DOMAIN aliases : aliases[t] \in masters
    /\ settledTerms \subseteq DOMAIN aliases

\* Approvals, additions and deletions keep the aliases and their terms together.
LEMMA DictionaryStep == DictionaryInv /\ [DictionaryNext]_dictionaryVars => DictionaryInv'
<1> SUFFICES ASSUME DictionaryInv, [DictionaryNext]_dictionaryVars
             PROVE  DictionaryInv'
  OBVIOUS
<1>1. CASE Detect \/ UNCHANGED dictionaryVars
  BY <1>1 DEF Detect, DictionaryInv, dictionaryVars
<1>2. ASSUME NEW t, NEW master \in masters', aliases' = WithAlias(t, master), masters \subseteq masters',
             settledTerms' \subseteq settledTerms \cup {t}
      PROVE  DictionaryInv'
  <2>1. /\ DOMAIN aliases' = DOMAIN aliases \cup {t}
        /\ \A x \in DOMAIN aliases : aliases'[x] = aliases[x]
        /\ t \notin DOMAIN aliases => aliases'[t] = master
    BY <1>2 DEF WithAlias
  <2> QED
    BY <1>2, <2>1 DEF DictionaryInv
<1>3. CASE ApproveCanonical \/ AddCanonical
  BY <1>2, <1>3 DEF ApproveCanonical, AddCanonical, CanonicalAlias, TermApproved
<1>4. CASE ApproveAlias \/ AddAlias
  BY <1>2, <1>4 DEF ApproveAlias, AddAlias, TermApproved
<1>5. CASE DeleteAlias
  BY <1>5 DEF DeleteAlias, DictionaryInv, Restrict
<1>6. CASE DeleteCanonical
  BY <1>6 DEF DeleteCanonical, DictionaryInv, Restrict
<1> QED
  BY <1>1, <1>3, <1>4, <1>5, <1>6 DEF DictionaryNext

\* A term whose approval was answered resolves to an existing canonical term
\* until its alias is deleted, in a dictionary of any size.
THEOREM ApprovedTermsResolveHolds == DictionarySpec => []ApprovedTermsResolve
<1>1. DictionaryInit => DictionaryInv
  BY DEF DictionaryInit, DictionaryInv
<1>2. DictionaryInv => ApprovedTermsResolve
  BY DEF DictionaryInv, ApprovedTermsResolve
<1> QED
  BY <1>1, <1>2, DictionaryStep, PTL DEF DictionarySpec

-----------------------------------------------------------------------------
(* Mailboxes *)

BoxRows == [owner : Owners, default : BOOLEAN, shared : BOOLEAN]

Default(b) == boxes[b] # NoBox /\ boxes[b].default

BoxesInv ==
    /\ boxes \in [Boxes -> {NoBox} \cup BoxRows]
    /\ \A x \in exchanges : x.by \in Owners
    /\ \A a, b \in Boxes : Default(a) /\ Default(b) => a = b

\* A mailbox that is written without a new mark keeps the marks of the others.
LEMMA BoxWritten ==
    ASSUME BoxesInv, NEW b \in Boxes, NEW row \in {NoBox} \cup BoxRows,
           boxes' = [boxes EXCEPT ![b] = row], row # NoBox /\ row.default => Default(b),
           \A x \in exchanges' : x.by \in Owners
    PROVE  BoxesInv'
<1>1. \A a \in Boxes : boxes'[a] = IF a = b THEN row ELSE boxes[a]
  BY DEF BoxesInv
<1>2. boxes' \in [Boxes -> {NoBox} \cup BoxRows]
  BY DEF BoxesInv
<1>3. \A a \in Boxes : Default(a)' => Default(a)
  BY <1>1 DEF Default
<1> QED
  BY <1>2, <1>3 DEF BoxesInv

\* Connecting, adding, sharing and deleting mailboxes moves no mark, and the
\* transaction of setDefaultAccount leaves one.
LEMMA BoxesStep == BoxesInv /\ [BoxesNext]_boxVars => BoxesInv'
<1> SUFFICES ASSUME BoxesInv, [BoxesNext]_boxVars
             PROVE  BoxesInv'
  OBVIOUS
<1>1. ASSUME UNCHANGED boxes, \A x \in exchanges' : x.by \in Owners
      PROVE  BoxesInv'
  BY <1>1 DEF BoxesInv, Default
<1>2. CASE Expire \/ UNCHANGED boxVars
  BY <1>1, <1>2 DEF Expire, boxVars, BoxesInv
<1>3. CASE ConsumeMicrosoftConnection
  BY <1>1, <1>3 DEF ConsumeMicrosoftConnection, BoxesInv
<1>4. CASE HandleMicrosoftCallback
  <2>1. PICK x \in exchanges :
           /\ exchanges' = exchanges \ {x}
           /\ \/ UNCHANGED boxes
              \/ \E b \in Boxes : boxes' = [boxes EXCEPT ![b] =
                    IF boxes[b] = NoBox THEN [owner |-> x.by, default |-> FALSE, shared |-> FALSE]
                    ELSE [boxes[b] EXCEPT !.owner = x.by]]
    BY <1>4 DEF HandleMicrosoftCallback
  <2>2. x.by \in Owners /\ \A y \in exchanges' : y.by \in Owners
    BY <2>1 DEF BoxesInv
  <2>3. ASSUME NEW b \in Boxes, NEW row,
               row = IF boxes[b] = NoBox THEN [owner |-> x.by, default |-> FALSE, shared |-> FALSE]
                     ELSE [boxes[b] EXCEPT !.owner = x.by],
               boxes' = [boxes EXCEPT ![b] = row]
        PROVE  BoxesInv'
    <3>1. boxes[b] \in {NoBox} \cup BoxRows
      BY DEF BoxesInv
    <3>2. row \in BoxRows /\ (row.default => Default(b))
      BY <2>2, <2>3, <3>1 DEF BoxRows, Default
    <3> QED
      BY <2>2, <2>3, <3>2, BoxWritten
  <2> QED
    BY <1>1, <2>1, <2>2, <2>3
<1>5. ASSUME NEW u \in Owners, AddCustomAccount(u)
      PROVE  BoxesInv'
  <2>1. PICK b \in Boxes : boxes' = [boxes EXCEPT ![b] = [owner |-> u, default |-> FALSE, shared |-> FALSE]]
    BY <1>5 DEF AddCustomAccount
  <2>2. PICK row \in BoxRows : row = [owner |-> u, default |-> FALSE, shared |-> FALSE]
    BY DEF BoxRows
  <2>3. \A x \in exchanges' : x.by \in Owners
    BY <1>5 DEF AddCustomAccount, BoxesInv
  <2> QED
    BY <2>1, <2>2, <2>3, BoxWritten
<1>6. ASSUME NEW u \in Owners, DeleteAccount(u)
      PROVE  BoxesInv'
  <2>1. PICK b \in Boxes : boxes' = [boxes EXCEPT ![b] = NoBox]
    BY <1>6 DEF DeleteAccount
  <2>2. \A x \in exchanges' : x.by \in Owners
    BY <1>6 DEF DeleteAccount, BoxesInv
  <2> QED
    BY <2>1, <2>2, BoxWritten
<1>7. ASSUME NEW u \in Owners, ShareAccount(u)
      PROVE  BoxesInv'
  <2>1. PICK b \in Boxes : boxes[b] # NoBox /\ boxes' = [boxes EXCEPT ![b].shared = ~@]
    BY <1>7 DEF ShareAccount, MayManage
  <2>2. boxes[b] \in BoxRows /\ boxes \in [Boxes -> {NoBox} \cup BoxRows]
    BY <2>1 DEF BoxesInv
  <2>3. PICK row : row = [boxes[b] EXCEPT !.shared = ~@]
    OBVIOUS
  <2>4. row \in BoxRows /\ (row.default => Default(b))
    BY <2>1, <2>2, <2>3 DEF BoxRows, Default
  <2>5. boxes' = [boxes EXCEPT ![b] = row]
    BY <2>1, <2>2, <2>3
  <2>6. \A x \in exchanges' : x.by \in Owners
    BY <1>7 DEF ShareAccount, BoxesInv
  <2> QED
    BY <2>4, <2>5, <2>6, BoxWritten
<1>8. ASSUME NEW u \in Owners, SetDefaultWrite(u)
      PROVE  BoxesInv'
  <2>1. \A x \in exchanges' : x.by \in Owners
    BY <1>8 DEF SetDefaultWrite, BoxesInv
  <2>2. CASE boxes' = boxes
    BY <1>1, <2>1, <2>2
  <2>3. ASSUME NEW b, boxes' = Marked(u, b)
        PROVE  BoxesInv'
    <3>1. \A o \in Boxes : boxes[o] \in {NoBox} \cup BoxRows
      BY DEF BoxesInv
    <3>2. ASSUME NEW o \in Boxes
          PROVE  /\ boxes'[o] = IF boxes[o] = NoBox THEN NoBox ELSE [boxes[o] EXCEPT !.default = (o = b)]
                 /\ boxes'[o] \in {NoBox} \cup BoxRows
                 /\ Default(o)' => o = b
      <4>1. boxes'[o] = IF boxes[o] = NoBox THEN NoBox ELSE [boxes[o] EXCEPT !.default = (o = b)]
        BY <2>3 DEF Marked
      <4>2. PICK mark \in BOOLEAN : mark = (o = b)
        OBVIOUS
      <4>3. boxes[o] # NoBox => [boxes[o] EXCEPT !.default = mark] \in BoxRows /\ [boxes[o] EXCEPT !.default = mark].default = mark
        BY <3>1 DEF BoxRows
      <4> QED
        BY <4>1, <4>2, <4>3 DEF Default
    <3>3. boxes' \in [Boxes -> {NoBox} \cup BoxRows]
      BY <2>3, <3>2 DEF Marked
    <3> QED
      BY <2>1, <3>2, <3>3 DEF BoxesInv
  <2> QED
    BY <1>8, <2>2, <2>3 DEF SetDefaultWrite
<1>9. ASSUME NEW u \in Owners, BeginMicrosoftConnection(u) \/ SetDefaultRead(u) \/ SetDefaultLock(u)
      PROVE  BoxesInv'
  BY <1>1, <1>9 DEF BeginMicrosoftConnection, SetDefaultRead, SetDefaultLock, BoxesInv
<1> QED
  BY <1>2, <1>3, <1>4, <1>5, <1>6, <1>7, <1>8, <1>9 DEF BoxesNext

\* At most one mailbox is the default, for any number of mailboxes and members
\* who choose, delete and reconnect them at the same time.
THEOREM OneDefaultMailboxHolds == BoxesSpec => []OneDefaultMailbox
<1>1. BoxesInit => BoxesInv
  BY DEF BoxesInit, BoxesInv, Default
<1>2. BoxesInv => OneDefaultMailbox
  <2> SUFFICES ASSUME BoxesInv PROVE OneDefaultMailbox
    OBVIOUS
  <2> DEFINE marked == {b \in Boxes : boxes[b] # NoBox /\ boxes[b].default}
  <2>1. CASE marked = {}
    BY <2>1, FS_EmptySet DEF OneDefaultMailbox
  <2>2. ASSUME NEW b \in marked PROVE OneDefaultMailbox
    <3>1. marked = {b}
      BY DEF BoxesInv, Default
    <3>2. Cardinality(marked) = 1
      BY <3>1, FS_Singleton, Zenon
    <3> QED
      BY <3>2 DEF OneDefaultMailbox
  <2> QED
    BY <2>1, <2>2
<1> QED
  BY <1>1, <1>2, BoxesStep, PTL DEF BoxesSpec

-----------------------------------------------------------------------------
(* Contact persons *)

PocRows == [client : Ids, by : Staff, primary : BOOLEAN]
PocRequests == [op : {"insert", "update"}, id : Pocs, client : Ids, primary : BOOLEAN]

Primary(k) == pocs[k] # Nobody /\ pocs[k].primary

\* A request about a contact is about the client it has, and the contact that a
\* request inserts is nobody else's.
PocsTypeOK ==
    /\ pocs \in [Pocs -> {Nobody} \cup PocRows]
    /\ pocClerk \in [Staff -> {NoRequest} \cup PocRequests]
    /\ \A m \in Staff : pocClerk[m].op = "update" =>
          pocs[pocClerk[m].id] = Nobody \/ pocs[pocClerk[m].id].client = pocClerk[m].client
    /\ \A m \in Staff : pocClerk[m].op = "insert" =>
          /\ pocs[pocClerk[m].id] = Nobody
          /\ \A o \in Staff \ {m} : pocClerk[o] # NoRequest => pocClerk[o].id # pocClerk[m].id

\* While no two requests that mark a contact overlap, there is one of them at a
\* time, and between its statements the other contacts are unmarked.
MarkingInv ==
    /\ \A m, o \in Staff : Marking(m) /\ Marking(o) => m = o
    /\ \A m \in Staff, k \in Pocs :
          Marking(m) /\ Primary(k) /\ pocs[k].client = pocClerk[m].client => k = pocClerk[m].id
    /\ \A k, o \in Pocs : Primary(k) /\ Primary(o) /\ pocs[k].client = pocs[o].client => k = o

PocsInv == PocsTypeOK /\ (~pocOverlap => MarkingInv)

\* create() and update(), up to the statement that unmarks the other contacts.
LEMMA BeginStep ==
    ASSUME PocsInv, NEW m \in Staff, NEW op \in {"insert", "update"}, NEW k \in Pocs, NEW c \in Ids,
           NEW primary \in BOOLEAN, pocClerk[m] = NoRequest, Begin(m, op, k, c, primary),
           op = "update" => pocs[k] # Nobody /\ pocs[k].client = c,
           op = "insert" => pocs[k] = Nobody /\ ~\E o \in Staff : pocClerk[o] # NoRequest /\ pocClerk[o].id = k
    PROVE  PocsInv'
<1>1. PICK w \in PocRequests : w = [op |-> op, id |-> k, client |-> c, primary |-> primary]
  BY DEF PocRequests
<1>2. /\ pocClerk' = [pocClerk EXCEPT ![m] = w] /\ pocClerk \in [Staff -> {NoRequest} \cup PocRequests]
      /\ \A o \in Staff : pocClerk'[o] = IF o = m THEN w ELSE pocClerk[o]
  BY <1>1 DEF Begin, PocsInv, PocsTypeOK
<1>3. w # NoRequest /\ w.op = op /\ w.id = k /\ w.client = c /\ w.primary = primary
  BY <1>1 DEF NoRequest
<1>4. ASSUME NEW o \in Pocs
      PROVE  /\ pocs'[o] \in {Nobody} \cup PocRows
             /\ pocs[o] = Nobody => pocs'[o] = Nobody
             /\ pocs[o] # Nobody => pocs'[o].client = pocs[o].client
             /\ Primary(o)' => Primary(o)
             /\ primary /\ o # k /\ Primary(o) /\ pocs[o].client = c => ~Primary(o)'
  <2>1. pocs[o] \in {Nobody} \cup PocRows
    BY DEF PocsInv, PocsTypeOK
  <2>2. PICK row : row = [pocs[o] EXCEPT !.primary = FALSE]
    OBVIOUS
  <2>3. pocs'[o] = IF primary /\ pocs[o] # Nobody /\ o # k /\ pocs[o].client = c THEN row ELSE pocs[o]
    BY <2>2 DEF Begin, Unmark
  <2>4. pocs[o] # Nobody => row \in PocRows /\ row.client = pocs[o].client /\ ~row.primary
    BY <2>1, <2>2 DEF PocRows
  <2> QED
    BY <2>1, <2>3, <2>4 DEF Primary
<1>5. pocs' \in [Pocs -> {Nobody} \cup PocRows]
  BY <1>4 DEF Begin, Unmark, PocsInv, PocsTypeOK
<1>6. PocsTypeOK'
  <2>1. pocClerk' \in [Staff -> {NoRequest} \cup PocRequests]
    BY <1>2
  <2>2. ASSUME NEW o \in Staff, pocClerk'[o].op = "update"
        PROVE  pocs'[pocClerk'[o].id] = Nobody \/ pocs'[pocClerk'[o].id].client = pocClerk'[o].client
    <3>1. CASE o = m
      BY <1>2, <1>3, <1>4, <2>2, <3>1
    <3>2. CASE o # m
      BY <1>2, <1>4, <2>2, <3>2 DEF PocsInv, PocsTypeOK, PocRequests, NoRequest
    <3> QED
      BY <3>1, <3>2
  <2>3. ASSUME NEW o \in Staff, pocClerk'[o].op = "insert"
        PROVE  pocs'[pocClerk'[o].id] = Nobody
    <3>1. CASE o = m
      BY <1>2, <1>3, <1>4, <2>3, <3>1
    <3>2. CASE o # m
      BY <1>2, <1>4, <2>3, <3>2 DEF PocsInv, PocsTypeOK, PocRequests, NoRequest
    <3> QED
      BY <3>1, <3>2
  <2>4. ASSUME NEW o \in Staff, pocClerk'[o].op = "insert",
               NEW n \in Staff \ {o}, pocClerk'[n] # NoRequest
        PROVE  pocClerk'[n].id # pocClerk'[o].id
    <3>1. CASE o = m
      BY <1>2, <1>3, <2>4, <3>1
    <3>2. CASE o # m /\ n = m
      <4>1. pocClerk[o].op = "insert" /\ pocClerk[o] # NoRequest /\ pocs[pocClerk[o].id] = Nobody
        BY <1>2, <2>4, <3>2 DEF PocsInv, PocsTypeOK, NoRequest
      <4> QED
        BY <1>2, <1>3, <3>2, <4>1
    <3>3. CASE o # m /\ n # m
      BY <1>2, <2>4, <3>3 DEF PocsInv, PocsTypeOK
    <3> QED
      BY <3>1, <3>2, <3>3
  <2> QED
    BY <1>5, <2>1, <2>2, <2>3, <2>4 DEF PocsTypeOK
<1>7. ASSUME ~pocOverlap'
      PROVE  MarkingInv'
  <2>1. /\ ~pocOverlap /\ MarkingInv
        /\ primary => \A o \in Staff : ~Marking(o)
    BY <1>7 DEF Begin, PocsInv
  <2>2. \A o \in Staff : /\ o # m => (Marking(o)' <=> Marking(o))
                         /\ o = m => (Marking(o)' <=> primary)
    BY <1>2, <1>3 DEF Marking
  <2>3. \A o \in Pocs : Primary(o)' => Primary(o) /\ pocs'[o].client = pocs[o].client
    BY <1>4 DEF Primary
  <2>4. \A n, o \in Staff : Marking(n)' /\ Marking(o)' => n = o
    BY <2>1, <2>2 DEF MarkingInv
  <2>5. ASSUME NEW n \in Staff, NEW o \in Pocs,
               Marking(n)', Primary(o)', pocs'[o].client = pocClerk'[n].client
        PROVE  o = pocClerk'[n].id
    <3>1. CASE n = m
      BY <1>2, <1>3, <1>4, <2>2, <2>3, <2>5, <3>1
    <3>2. CASE n # m
      BY <1>2, <2>1, <2>2, <2>3, <2>5, <3>2 DEF MarkingInv
    <3> QED
      BY <3>1, <3>2
  <2>6. \A n, o \in Pocs : Primary(n)' /\ Primary(o)' /\ pocs'[n].client = pocs'[o].client => n = o
    BY <2>1, <2>3 DEF MarkingInv
  <2> QED
    BY <2>4, <2>5, <2>6 DEF MarkingInv
<1> QED
  BY <1>6, <1>7 DEF PocsInv

\* A step that ends a request and writes at most its contact.
LEMMA ContactWritten ==
    ASSUME PocsInv, NEW m \in Staff, pocClerk[m] # NoRequest, UNCHANGED pocOverlap,
           pocClerk' = [pocClerk EXCEPT ![m] = NoRequest],
           NEW row \in {Nobody} \cup PocRows, pocs' = [pocs EXCEPT ![pocClerk[m].id] = row],
           row # Nobody => /\ row.client = pocClerk[m].client
                           /\ row.primary => pocClerk[m].primary \/ Primary(pocClerk[m].id),
           pocClerk[m].op = "update" /\ pocs[pocClerk[m].id] = Nobody => row = Nobody
    PROVE  PocsInv'
<1>1. PICK w \in PocRequests : w = pocClerk[m] /\ w # NoRequest
  BY DEF PocsInv, PocsTypeOK
<1>2. w.id \in Pocs /\ w.op \in {"insert", "update"}
  BY <1>1 DEF PocRequests
<1>3. /\ \A o \in Staff : pocClerk'[o] = IF o = m THEN NoRequest ELSE pocClerk[o]
      /\ \A o \in Pocs : pocs'[o] = IF o = w.id THEN row ELSE pocs[o]
  BY <1>1, <1>2 DEF PocsInv, PocsTypeOK
<1>4. \A o \in Staff : Marking(o)' => Marking(o) /\ o # m /\ pocClerk'[o] = pocClerk[o]
  BY <1>3 DEF Marking, NoRequest
<1>5. PocsTypeOK'
  <2>1. pocClerk' \in [Staff -> {NoRequest} \cup PocRequests] /\ pocs' \in [Pocs -> {Nobody} \cup PocRows]
    BY DEF PocsInv, PocsTypeOK
  <2>2. ASSUME NEW o \in Staff, pocClerk'[o].op \in {"insert", "update"}
        PROVE  o # m /\ pocClerk'[o] = pocClerk[o] /\ pocClerk[o] # NoRequest /\ pocClerk[o].id \in Pocs
    BY <1>3, <2>2 DEF NoRequest, PocsInv, PocsTypeOK, PocRequests
  <2>3. ASSUME NEW o \in Staff, pocClerk'[o].op = "update"
        PROVE  pocs'[pocClerk'[o].id] = Nobody \/ pocs'[pocClerk'[o].id].client = pocClerk'[o].client
    <3>1. CASE pocClerk[o].id = w.id
      <4>1. w.op = "update"
        BY <1>1, <1>2, <2>2, <2>3, <3>1 DEF PocsInv, PocsTypeOK
      <4>2. row # Nobody => pocs[w.id] # Nobody /\ pocs[w.id].client = w.client /\ pocs[w.id].client = pocClerk[o].client
        BY <1>1, <2>2, <2>3, <3>1, <4>1 DEF PocsInv, PocsTypeOK
      <4> QED
        BY <1>1, <1>3, <2>2, <2>3, <3>1, <4>2
    <3>2. CASE pocClerk[o].id # w.id
      BY <1>3, <2>2, <2>3, <3>2 DEF PocsInv, PocsTypeOK
    <3> QED
      BY <3>1, <3>2
  <2>4. ASSUME NEW o \in Staff, pocClerk'[o].op = "insert"
        PROVE  pocs'[pocClerk'[o].id] = Nobody
    BY <1>1, <1>3, <2>2, <2>4 DEF PocsInv, PocsTypeOK
  <2>5. ASSUME NEW o \in Staff, pocClerk'[o].op = "insert", NEW n \in Staff \ {o}, pocClerk'[n] # NoRequest
        PROVE  pocClerk'[n].id # pocClerk'[o].id
    BY <1>3, <2>2, <2>5 DEF PocsInv, PocsTypeOK
  <2> QED
    BY <2>1, <2>3, <2>4, <2>5 DEF PocsTypeOK
<1>6. ASSUME ~pocOverlap'
      PROVE  MarkingInv'
  <2>1. MarkingInv
    BY <1>6 DEF PocsInv
  <2>2. \A o \in Pocs : Primary(o)' /\ o # w.id => Primary(o) /\ pocs'[o] = pocs[o]
    BY <1>3 DEF Primary
  <2>3. ASSUME NEW k \in Pocs, k = w.id, Primary(k)'
        PROVE  /\ pocs'[k].client = w.client
               /\ Marking(m) \/ (Primary(k) /\ pocs[k].client = w.client)
    <3>1. row # Nobody /\ row.client = w.client /\ pocs'[k] = row
      BY <1>1, <1>3, <2>3 DEF Primary
    <3>2. SUFFICES ASSUME ~Marking(m)
                   PROVE  Primary(k) /\ pocs[k].client = w.client
      BY <3>1
    <3>3. Primary(k)
      BY <1>1, <2>3, <3>1, <3>2 DEF Primary, Marking
    <3>4. w.op = "update"
      BY <1>1, <1>2, <2>3, <3>3 DEF PocsInv, PocsTypeOK, Primary
    <3> QED
      BY <1>1, <2>3, <3>3, <3>4 DEF PocsInv, PocsTypeOK, Primary
  <2>4. \A n, o \in Staff : Marking(n)' /\ Marking(o)' => n = o
    BY <1>4, <2>1 DEF MarkingInv
  <2>5. ASSUME NEW n \in Staff, NEW o \in Pocs,
               Marking(n)', Primary(o)', pocs'[o].client = pocClerk'[n].client
        PROVE  o = pocClerk'[n].id
    <3>1. CASE o # w.id
      BY <1>4, <2>1, <2>2, <2>5, <3>1 DEF MarkingInv
    <3>2. CASE o = w.id
      <4>1. ~Marking(m)
        BY <1>4, <2>1, <2>5 DEF MarkingInv
      <4> QED
        BY <1>2, <1>4, <2>1, <2>3, <2>5, <3>2, <4>1 DEF MarkingInv
    <3> QED
      BY <3>1, <3>2
  <2>6. ASSUME NEW n \in Pocs, NEW o \in Pocs, Primary(n)', Primary(o)', pocs'[n].client = pocs'[o].client,
               o # w.id
        PROVE  n = o
    <3>1. CASE n # w.id
      BY <2>1, <2>2, <2>6, <3>1 DEF MarkingInv
    <3>2. CASE n = w.id
      BY <1>1, <1>2, <2>1, <2>2, <2>3, <2>6, <3>2 DEF MarkingInv
    <3> QED
      BY <3>1, <3>2
  <2>7. \A n, o \in Pocs : Primary(n)' /\ Primary(o)' /\ pocs'[n].client = pocs'[o].client => n = o
    BY <2>6
  <2> QED
    BY <2>4, <2>5, <2>7 DEF MarkingInv
<1> QED
  BY <1>5, <1>6 DEF PocsInv

\* The operations of ClientContactsService.
LEMMA PocsStep == PocsInv /\ [PocsNext]_pocVars => PocsInv'
<1> SUFFICES ASSUME PocsInv, [PocsNext]_pocVars
             PROVE  PocsInv'
  OBVIOUS
<1>1. /\ pocs \in [Pocs -> {Nobody} \cup PocRows]
      /\ pocClerk \in [Staff -> {NoRequest} \cup PocRequests]
  BY DEF PocsInv, PocsTypeOK
<1>2. ASSUME UNCHANGED <<pocs, pocClerk, pocOverlap>>
      PROVE  PocsInv'
  BY <1>2 DEF PocsInv, PocsTypeOK, MarkingInv, Marking, Primary
<1>3. ASSUME NEW m \in Staff, CreateContact(m)
      PROVE  PocsInv'
  <2>1. PICK k \in Pocs, c \in Rows, primary \in BOOLEAN :
           /\ pocs[k] = Nobody /\ ~\E o \in Staff : pocClerk[o] # NoRequest /\ pocClerk[o].id = k
           /\ Begin(m, "insert", k, c, primary)
    BY <1>3 DEF CreateContact
  <2>2. c \in Ids /\ pocClerk[m] = NoRequest
    BY <1>3 DEF CreateContact, Rows
  <2> QED
    BY <2>1, <2>2, BeginStep
<1>4. ASSUME NEW m \in Staff, UpdateContact(m)
      PROVE  PocsInv'
  <2>1. PICK k \in Pocs, primary \in BOOLEAN : pocs[k] # Nobody /\ Begin(m, "update", k, pocs[k].client, primary)
    BY <1>4 DEF UpdateContact
  <2>2. pocs[k].client \in Ids /\ pocClerk[m] = NoRequest
    BY <1>1, <1>4, <2>1 DEF UpdateContact, PocRows
  <2>3. PICK c \in Ids : c = pocs[k].client
    BY <2>2
  <2> QED
    BY <2>1, <2>2, <2>3, BeginStep
<1>5. ASSUME NEW m \in Staff, InsertContact(m)
      PROVE  PocsInv'
  <2>1. pocClerk[m] \in PocRequests /\ pocClerk[m] # NoRequest /\ pocClerk[m].op = "insert"
    BY <1>1, <1>5 DEF InsertContact, NoRequest
  <2>2. PICK row \in PocRows : row = [client |-> pocClerk[m].client, by |-> m, primary |-> pocClerk[m].primary]
    BY <2>1 DEF PocRows, PocRequests
  <2>3. /\ pocs' = [pocs EXCEPT ![pocClerk[m].id] = row] /\ UNCHANGED pocOverlap
        /\ pocClerk' = [pocClerk EXCEPT ![m] = NoRequest]
    BY <1>5, <2>2 DEF InsertContact
  <2>4. row.client = pocClerk[m].client /\ row.primary = pocClerk[m].primary
    BY <2>2
  <2> QED
    BY <2>1, <2>3, <2>4, ContactWritten
<1>6. ASSUME NEW m \in Staff, WriteContact(m)
      PROVE  PocsInv'
  <2>1. pocClerk[m] \in PocRequests /\ pocClerk[m] # NoRequest /\ pocClerk[m].op = "update"
    BY <1>1, <1>6 DEF WriteContact, NoRequest
  <2>2. PICK k \in Pocs : k = pocClerk[m].id
    BY <2>1 DEF PocRequests
  <2>3. UNCHANGED pocOverlap /\ pocClerk' = [pocClerk EXCEPT ![m] = NoRequest]
    BY <1>6 DEF WriteContact
  <2>4. CASE pocs[k] = Nobody
    <3>1. pocs' = [pocs EXCEPT ![pocClerk[m].id] = Nobody]
      BY <1>1, <1>6, <2>2, <2>4 DEF WriteContact
    <3> QED
      BY <2>1, <2>3, <3>1, ContactWritten
  <2>5. CASE pocs[k] # Nobody
    <3>1. PICK mark \in IF pocClerk[m].primary THEN {TRUE} ELSE {FALSE, pocs[k].primary} :
             pocs' = [pocs EXCEPT ![k].primary = mark]
      BY <1>6, <2>2, <2>5 DEF WriteContact
    <3>2. pocs[k] \in PocRows /\ pocs[k].client = pocClerk[m].client
      BY <1>1, <2>1, <2>2, <2>5 DEF PocsInv, PocsTypeOK
    <3>3. mark \in BOOLEAN /\ (mark => pocClerk[m].primary \/ pocs[k].primary)
      BY <3>1, <3>2 DEF PocRows
    <3>4. PICK row : row = [pocs[k] EXCEPT !.primary = mark]
      OBVIOUS
    <3>5. row \in PocRows /\ row.client = pocs[k].client /\ row.primary = mark
      BY <3>2, <3>3, <3>4 DEF PocRows
    <3>6. pocs' = [pocs EXCEPT ![pocClerk[m].id] = row]
      BY <1>1, <2>2, <3>1, <3>4
    <3>7. row.primary => pocClerk[m].primary \/ Primary(pocClerk[m].id)
      BY <2>2, <2>5, <3>3, <3>5 DEF Primary
    <3> QED
      BY <2>1, <2>2, <2>3, <2>5, <3>2, <3>5, <3>6, <3>7, ContactWritten
  <2> QED
    BY <2>4, <2>5
<1>7. ASSUME NEW m \in Staff, RemoveContact(m)
      PROVE  PocsInv'
  <2>1. PICK k \in Pocs : pocs' = [pocs EXCEPT ![k] = Nobody]
    BY <1>7 DEF RemoveContact
  <2>2. pocClerk' = pocClerk /\ pocOverlap' = pocOverlap /\ \A o \in Pocs : pocs'[o] = IF o = k THEN Nobody ELSE pocs[o]
    BY <1>1, <1>7, <2>1 DEF RemoveContact
  <2>3. \A o \in Pocs : Primary(o)' => Primary(o) /\ pocs'[o] = pocs[o]
    BY <2>2 DEF Primary
  <2>4. \A o \in Staff : pocClerk[o].op \in {"insert", "update"} => pocClerk[o].id \in Pocs
    BY <1>1 DEF NoRequest, PocRequests
  <2>5. PocsTypeOK'
    BY <1>1, <2>1, <2>2, <2>4 DEF PocsInv, PocsTypeOK
  <2>6. MarkingInv => MarkingInv'
    BY <2>2, <2>3 DEF MarkingInv, Marking
  <2> QED
    BY <2>2, <2>5, <2>6 DEF PocsInv
<1>8. ASSUME NEW m \in Staff, SetPocPolicy(m)
      PROVE  PocsInv'
  BY <1>2, <1>8 DEF SetPocPolicy
<1>9. CASE UNCHANGED pocVars
  BY <1>2, <1>9 DEF pocVars
<1> QED
  BY <1>3, <1>4, <1>5, <1>6, <1>7, <1>8, <1>9 DEF PocsNext

\* A client has at most one primary contact as long as no two requests that mark
\* one overlap, whoever creates, edits and removes contacts and clients beside
\* them.
THEOREM OnePrimaryContactHolds == ContactsSpec => []OnePrimaryContact
<1> DEFINE Step == (ClientsNext /\ UNCHANGED pocVars) \/ (PocsNext /\ UNCHANGED clientVars)
<1>1. ClientsInit /\ PocsInit => PocsInv
  BY DEF PocsInit, PocsInv, PocsTypeOK, MarkingInv, Marking, Primary, NoRequest
<1>2. PocsInv /\ [Step]_<<clientVars, pocVars>> => PocsInv'
  BY PocsStep
<1>3. PocsInv => OnePrimaryContact
  BY DEF PocsInv, MarkingInv, OnePrimaryContact, Primary
<1> QED
  BY <1>1, <1>2, <1>3, PTL DEF ContactsSpec

-----------------------------------------------------------------------------
(* Who reads a client, a job, a submission *)

\* A superior reads the client of a member, by the branch or the unit they share.
LEMMA SuperiorReads ==
    ASSUME NEW a \in Staff, NEW m \in Staff, Above(a, m), NEW row, CanRead(m, row)
    PROVE  CanRead(a, row)
<1>1. CASE ReadsAll(m)
  BY <1>1 DEF ReadsAll, CanRead, Above
<1>2. CASE ~ReadsAll(m)
  <2>1. /\ Placed[m].branch # Nobody /\ Placed[a].branch = Placed[m].branch /\ "client:view" \in May[a]
        /\ InBranch(m, row)
        /\ "branch_admin:manage" \in May[m] \/ (Placed[m].unit # Nobody /\ UnitReads(m, row))
    BY <1>2 DEF CanRead, Above
  <2>2. m \in Colleagues[a] /\ Colleagues[m] \subseteq Colleagues[a]
    BY DEF Colleagues, Above
  <2>3. InBranch(a, row)
    BY <2>1, <2>2 DEF InBranch, OwnedBy
  <2>4. "branch_admin:manage" \notin May[a] =>
          "unit_admin:manage" \in May[a] /\ Placed[a].unit = Placed[m].unit /\ "branch_admin:manage" \notin May[m]
    BY DEF Above
  <2>5. "branch_admin:manage" \notin May[a] => Placed[a].unit # Nobody /\ UnitReads(a, row)
    BY <2>1, <2>2, <2>4 DEF UnitReads, OwnedBy
  <2> QED
    BY <2>1, <2>3, <2>5 DEF CanRead
<1> QED
  BY <1>1, <1>2

\* Whatever a member lists or opens, the administrators of his unit and of his
\* branch list and open as well, in a workspace of any size with any permissions.
THEOREM ReadersNestHolds == ClientsSpec => []ReadersNest
<1>1. ReadersNest
  BY SuperiorReads DEF ReadersNest, Superiors, Listed, Opened
<1> QED
  BY <1>1, PTL

\* Every list and the dashboard show a member what he can open, and the form is
\* offered exactly when it is accepted, for members with any permissions.
THEOREM JobViewsAgreeHolds == ReadersSpec => []JobViewsAgree
<1>1. ASSUME reader \in ReaderProfiles
      PROVE  JobViewsAgree
  <2>1. reader.branch \in {Home, Unset} /\ reader.unit \in {Home, Unset}
    BY <1>1, ReaderProfilesAssumption
  <2>2. ASSUME NEW j \in JobsRead, NEW header, NEW filter, JobListed(j, header, filter)
        PROVE  JobOpened(j)
    BY <2>2 DEF JobListed, JobOpened, OpensAssigned, Tenant
  <2>3. ASSUME NEW j \in JobsRead, JobOnDashboard(j)
        PROVE  JobOpened(j)
    <3>1. reader.branch = j.branch /\ reader.unit = j.unit /\ reader.branch # Unset /\ reader.unit # Unset
      BY <2>3 DEF JobOnDashboard, SameUnit
    <3>2. ~OutsideUnit(j)
      BY <3>1 DEF OutsideUnit
    <3>3. AssignedTo(j)
      BY <2>3, <3>1 DEF JobOnDashboard, AssignedTo, PodsEnabled, ReadsPods
    <3> QED
      BY <2>3, <3>2, <3>3 DEF JobOpened, OpensAssigned, JobOnDashboard
  <2>4. ASSUME NEW j \in JobsRead
        PROVE  SubmissionOffered(j) <=> SubmissionAccepted(j)
    BY DEF SubmissionOffered, SubmissionAccepted, SameUnit, PodsEnabled
  <2> QED
    BY <2>2, <2>3, <2>4 DEF JobViewsAgree
<1>2. ReadersInit => reader \in ReaderProfiles
  BY DEF ReadersInit
<1>3. reader \in ReaderProfiles /\ [FALSE]_reader => (reader \in ReaderProfiles)'
  OBVIOUS
<1> QED
  BY <1>1, <1>2, <1>3, PTL DEF ReadersSpec

\* The view of findOne is the widest of the tracker's.
LEMMA WidestView ==
    ASSUME NEW s \in SubmissionsRead, NEW header, NEW view \in {"my", "all"}, Tracked(s, header, view)
    PROVE  SubmissionOpened(s, header)
<1>1. InView(s, IF CanViewAll THEN "all" ELSE DefaultView)
  BY DEF Tracked, InView, CreatedBy, DefaultView
<1> QED
  BY <1>1 DEF Tracked, SubmissionOpened

\* A submission in his scope, of the branch the request is for, is open to a
\* member who views all, manages its job as his portfolio or submitted or reviews it.
LEMMA OpenToMember ==
    ASSUME NEW s \in SubmissionsRead, NEW header, Has("submission:view"),
           ~BranchRefused(header), InAdminScope(s, header),
           RequestBranch(header) \in {Unset, s.branch}, ~ForeignBranch(header),
           \/ CanViewAll
           \/ Portfolio /\ "am" \in s.mine
           \/ ~Portfolio /\ s.mine \cap {"recruiter", "reviewer"} # {}
    PROVE  SubmissionOpened(s, header)
<1>1. InView(s, IF CanViewAll THEN "all" ELSE DefaultView)
  BY DEF InView, DefaultView
<1> QED
  BY <1>1 DEF SubmissionOpened, Tracked

\* The tracker, the list of eligible submissions, the calendar and the dashboard
\* agree with the page of one submission, and what is offered with what update()
\* accepts, for members with any permissions whose role and permissions agree on
\* whether they are account managers.
THEOREM SubmissionViewsAgreeHolds == ReadersSpec => []SubmissionViewsAgree
<1>1. SubmissionViewsAgree
  <2> SUFFICES ASSUME reader.manager = Portfolio, Has("submission:view"),
                      NEW s \in SubmissionsRead, NEW header \in {Home, Away, Unset}
               PROVE  LET ofBranch == RequestBranch(header) \in {Unset, s.branch} /\ ~ForeignBranch(header)
                          opened == SubmissionOpened(s, header)
                      IN /\ ~opened /\ ofBranch =>
                               /\ \A view \in {"my", "all"} : ~Tracked(s, header, view) /\ ~EligibleListed(s, header, view)
                               /\ ~OnCalendar(s, header)
                               /\ Portfolio \/ BranchRefused(header) \/ ~InterviewOnDashboard(s)
                         /\ opened => \A field \in Fields : Pertains(s, field) =>
                               (Offered(s, field) <=> UpdateAccepted(s, header, field))
                         /\ opened /\ ~s.review => (CanManageEvent(s) <=> UpdateAccepted(s, header, "schedule"))
    BY DEF SubmissionViewsAgree
  <2> DEFINE ofBranch == RequestBranch(header) \in {Unset, s.branch} /\ ~ForeignBranch(header)
             opened == SubmissionOpened(s, header)
  <2>1. ASSUME NEW view \in {"my", "all"}, ofBranch, EligibleListed(s, header, view)
        PROVE  opened
    <3>1. \/ CanViewAll
          \/ Portfolio /\ "am" \in s.mine
          \/ ~Portfolio /\ s.mine \cap {"recruiter", "reviewer"} # {}
      BY <2>1 DEF EligibleListed, EligibleInView
    <3> QED
      BY <2>1, <3>1, OpenToMember DEF EligibleListed
  <2>2. ASSUME ofBranch, OnCalendar(s, header)
        PROVE  opened
    <3>1. \/ CanViewAll
          \/ Portfolio /\ "am" \in s.mine
          \/ ~Portfolio /\ s.mine \cap {"recruiter", "reviewer"} # {}
      BY <2>2 DEF OnCalendar
    <3> QED
      BY <2>2, <3>1, OpenToMember DEF OnCalendar
  <2>3. ASSUME ofBranch, ~Portfolio, ~BranchRefused(header), InterviewOnDashboard(s)
        PROVE  opened
    <3>1. InAdminScope(s, header)
      BY <2>3 DEF InterviewOnDashboard, InAdminScope, InOwnUnit, InOwnBranch
    <3> QED
      BY <2>3, <3>1, OpenToMember DEF InterviewOnDashboard
  <2>4. ASSUME opened, NEW field \in Fields, Pertains(s, field)
        PROVE  Offered(s, field) <=> UpdateAccepted(s, header, field)
    <3>1. field = "review" => s.review
      BY <2>4 DEF Pertains, SubmissionsRead
    <3>2. Portfolio => ~Tenant
      BY DEF Portfolio
    <3> QED
      BY <2>4, <3>1, <3>2 DEF Offered, UpdateAccepted, OtherManagersJob, CreatorDecision
  <2>5. ASSUME opened
        PROVE  CanManageEvent(s) <=> UpdateAccepted(s, header, "schedule")
    <3>1. Portfolio => ~Tenant
      BY DEF Portfolio
    <3>2. Capability(s, "schedule") <=> ~s.paused /\ Has("submission:schedule_interview")
      BY DEF Capability
    <3> QED
      BY <2>5, <3>1, <3>2 DEF CanManageEvent, UpdateAccepted, CreatorDecision
  <2> QED
    BY <2>1, <2>2, <2>3, <2>4, <2>5, WidestView
<1> QED
  BY <1>1, PTL

-----------------------------------------------------------------------------
(* Clients *)

Decisions == {"update", "approve", "reject", "delete", "restore"}

ClientForms == [op : {"ask", "named", "checked", "numbered"}, id : Requests, name : ClientNames,
                branch : Offices \cup {Nobody}]
ClientsOfJobs == [op : {"ensure"}, name : ClientNames] \cup [op : {"ensured"}, name : ClientNames, number : Int]
ClientDecisions == [op : Decisions, id : Ids, edit : Edits \cup {NoRequest}]
ClientRequests == {NoRequest} \cup ClientForms \cup ClientsOfJobs \cup ClientDecisions

Locking(k) == k.op \in {"checked", "numbered"}
Original(row) == row # Nobody /\ row.live /\ row.original

\* An approval that was vouched for is that of a member who may approve.
Vouched(row) == row.approval = "APPROVED" /\ row.vouched =>
    (IF row.decidedBy = "System" THEN row.creator ELSE row.decidedBy) \in {m \in Staff : DirectAdd(m)}

\* A decision is about a client that exists; who holds the lock on a name has
\* found no client that was created with it.
ClerkInv(m, k, rows) ==
    /\ k.op \in Decisions => /\ rows[k.id] # Nobody
                             /\ k.op = "update" => k.edit \in Edits
                             /\ k.op = "approve" => DirectAdd(m)
    /\ Locking(k) => \A q \in Ids : Original(rows[q]) => rows[q].name # k.name

ClientsInv ==
    /\ clients \in [Ids -> {Nobody} \cup ClientRow]
    /\ clerk \in [Staff -> ClientRequests]
    /\ clientCounter \in Int
    /\ \A m \in Staff : ClerkInv(m, clerk[m], clients)
    /\ \A m, o \in Staff : Locking(clerk[m]) /\ Locking(clerk[o]) /\ clerk[m].name = clerk[o].name => m = o
    /\ \A p, q \in Ids : Original(clients[p]) /\ Original(clients[q]) /\ clients[p].name = clients[q].name => p = q
    /\ \A q \in Ids : clients[q] # Nobody => Vouched(clients[q])

\* updateClient changes one of four fields, and a new name is not the one the
\* client was created with.
LEMMA MergedRow ==
    ASSUME NEW row \in ClientRow, NEW edit \in Edits
    PROVE  LET to == Merged(row, edit)
           IN /\ to \in ClientRow /\ to.live = row.live
              /\ to.original => row.original /\ to.name = row.name
              /\ to.approval = row.approval /\ to.vouched = row.vouched
              /\ to.decidedBy = row.decidedBy /\ to.creator = row.creator
<1> DEFINE to == Merged(row, edit)
           fields == {"name", "code", "creator", "owner", "branch", "status", "approval", "decidedBy",
                      "live", "original", "vouched"}
<1>1. DOMAIN row = fields
  BY DEF ClientRow
<1>2. /\ DOMAIN edit \in {{"name"}, {"owner"}, {"status"}, {"code"}}
      /\ "name" \in DOMAIN edit => edit.name \in ClientNames
      /\ "owner" \in DOMAIN edit => edit.owner \in Staff \cup {Nobody}
      /\ "status" \in DOMAIN edit => edit.status \in Statuses
      /\ "code" \in DOMAIN edit => edit.code \in Int
  BY StaffAssumption, FS_CardinalityType DEF Edits
<1>3. to = [f \in fields |-> IF f = "original" THEN row.original /\ "name" \notin DOMAIN edit
                            ELSE IF f \in DOMAIN edit THEN edit[f] ELSE row[f]]
  BY <1>1 DEF Merged
<1>4. /\ to.original = (row.original /\ "name" \notin DOMAIN edit)
      /\ to.name = IF "name" \in DOMAIN edit THEN edit.name ELSE row.name
      /\ to.owner = IF "owner" \in DOMAIN edit THEN edit.owner ELSE row.owner
      /\ to.status = IF "status" \in DOMAIN edit THEN edit.status ELSE row.status
      /\ to.code = IF "code" \in DOMAIN edit THEN edit.code ELSE row.code
      /\ to.live = row.live /\ to.vouched = row.vouched /\ to.approval = row.approval
      /\ to.decidedBy = row.decidedBy /\ to.creator = row.creator /\ to.branch = row.branch
  BY <1>2, <1>3
<1> HIDE DEF to
<1>5. to = [name |-> to.name, code |-> to.code, creator |-> to.creator, owner |-> to.owner,
            branch |-> to.branch, status |-> to.status, approval |-> to.approval,
            decidedBy |-> to.decidedBy, live |-> to.live, original |-> to.original, vouched |-> to.vouched]
  BY <1>3
<1>6. to \in ClientRow
  BY <1>2, <1>4, <1>5 DEF ClientRow
<1> QED
  BY <1>4, <1>6 DEF to

\* A decision that is written keeps the row a client of its name, and only an
\* approver approves.
LEMMA DecidedRow ==
    ASSUME NEW row \in ClientRow, NEW m \in Staff, NEW op \in Decisions, NEW edit,
           op = "update" => edit \in Edits, op = "approve" => DirectAdd(m), Vouched(row)
    PROVE  LET to == Decided(m, op, row, edit)
           IN /\ to \in ClientRow /\ Vouched(to)
              /\ to.live /\ to.original => row.live /\ row.original /\ to.name = row.name
<1>1. CASE op = "update"
  <2>1. Decided(m, op, row, edit) = Merged(row, edit)
    BY <1>1 DEF Decided
  <2>2. PICK to : to = Merged(row, edit)
    OBVIOUS
  <2>3. /\ to \in ClientRow /\ to.live = row.live
        /\ to.original => row.original /\ to.name = row.name
        /\ to.approval = row.approval /\ to.vouched = row.vouched
        /\ to.decidedBy = row.decidedBy /\ to.creator = row.creator
    BY <1>1, <2>2, MergedRow
  <2> QED
    BY <2>1, <2>2, <2>3 DEF Vouched
<1>2. CASE op = "approve"
  <2>1. Decided(m, op, row, edit) = Approved(m, row)
    BY <1>2 DEF Decided
  <2>2. Approved(m, row) \in ClientRow
    BY DEF Approved, ClientRow, Statuses
  <2>3. m # "System" /\ DirectAdd(m) /\ Approved(m, row).decidedBy = m
    BY <1>2, StaffAssumption DEF Approved, ClientRow
  <2>4. Vouched(Approved(m, row))
    BY <2>3 DEF Vouched
  <2>5. Approved(m, row).live = row.live /\ Approved(m, row).original = row.original /\ Approved(m, row).name = row.name
    BY DEF Approved, ClientRow
  <2> QED
    BY <2>1, <2>2, <2>4, <2>5
<1>3. CASE op = "reject"
  <2>1. Decided(m, op, row, edit) = Rejected(m, row)
    BY <1>3 DEF Decided
  <2> QED
    BY <2>1 DEF Rejected, ClientRow, Statuses, Vouched
<1>4. CASE op = "delete"
  <2>1. Decided(m, op, row, edit) = Deleted(row)
    BY <1>4 DEF Decided
  <2>2. PICK to : to = Deleted(row)
    OBVIOUS
  <2>3. to \in ClientRow /\ ~to.live /\ to.approval = row.approval /\ to.vouched = row.vouched
        /\ to.decidedBy = row.decidedBy /\ to.creator = row.creator
    BY <2>2 DEF Deleted, ClientRow
  <2> QED
    BY <2>1, <2>2, <2>3 DEF Vouched
<1>5. CASE op = "restore"
  <2>1. Decided(m, op, row, edit) = Restored(row)
    BY <1>5 DEF Decided
  <2>2. PICK to : to = Restored(row)
    OBVIOUS
  <2>3. to \in ClientRow /\ ~to.original /\ to.approval = row.approval /\ to.vouched = row.vouched
        /\ to.decidedBy = row.decidedBy /\ to.creator = row.creator
    BY <2>2 DEF Restored, ClientRow
  <2> QED
    BY <2>1, <2>2, <2>3 DEF Vouched
<1> QED
  BY <1>1, <1>2, <1>3, <1>4, <1>5 DEF Decisions

\* A request moves on, and the clients stay as they are.
LEMMA ClerkMoves ==
    ASSUME ClientsInv, NEW m \in Staff, NEW k \in ClientRequests, clerk' = [clerk EXCEPT ![m] = k],
           UNCHANGED clients, clientCounter' \in Int, ClerkInv(m, k, clients),
           Locking(k) => \A o \in Staff \ {m} : Locking(clerk[o]) => clerk[o].name # k.name
    PROVE  ClientsInv'
<1>1. clerk' \in [Staff -> ClientRequests] /\ \A o \in Staff : clerk'[o] = IF o = m THEN k ELSE clerk[o]
  BY DEF ClientsInv
<1>2. \A o \in Staff : ClerkInv(o, clerk'[o], clients')
  BY <1>1 DEF ClientsInv
<1>3. \A n, o \in Staff : Locking(clerk'[n]) /\ Locking(clerk'[o]) /\ clerk'[n].name = clerk'[o].name => n = o
  BY <1>1 DEF ClientsInv
<1> QED
  BY <1>1, <1>2, <1>3 DEF ClientsInv

\* A request ends and writes a client: one that has its name from a form has it
\* for itself, and nobody holds the lock on that name.
LEMMA ClientWritten ==
    ASSUME ClientsInv, NEW m \in Staff, clerk' = [clerk EXCEPT ![m] = NoRequest], clientCounter' \in Int,
           NEW q \in Ids, NEW row \in ClientRow, clients' = [clients EXCEPT ![q] = row], Vouched(row),
           row.live /\ row.original =>
              /\ \A p \in Ids \ {q} : Original(clients[p]) => clients[p].name # row.name
              /\ \A o \in Staff \ {m} : Locking(clerk[o]) => clerk[o].name # row.name
    PROVE  ClientsInv'
<1>1. /\ clerk' \in [Staff -> ClientRequests] /\ clients' \in [Ids -> {Nobody} \cup ClientRow]
      /\ \A o \in Staff : clerk'[o] = IF o = m THEN NoRequest ELSE clerk[o]
      /\ \A p \in Ids : clients'[p] = IF p = q THEN row ELSE clients[p]
      /\ row # Nobody
  BY NullAssumption DEF ClientsInv, ClientRequests
<1>2. ASSUME NEW o \in Staff
      PROVE  ClerkInv(o, clerk'[o], clients')
  <2>1. CASE o = m
    BY <1>1, <2>1 DEF ClerkInv, Locking, NoRequest, Decisions
  <2>2. CASE o # m
    <3>1. clerk'[o] = clerk[o] /\ ClerkInv(o, clerk[o], clients) /\ clerk[o] \in ClientRequests
      BY <1>1, <2>2 DEF ClientsInv
    <3>2. clerk[o].op \in Decisions => clerk[o].id \in Ids
      BY <3>1 DEF ClientRequests, NoRequest, ClientForms, ClientsOfJobs, ClientDecisions, Decisions
    <3>3. Locking(clerk[o]) => \A p \in Ids : Original(clients'[p]) => clients'[p].name # clerk[o].name
      BY <1>1, <2>2, <3>1 DEF ClerkInv, Original
    <3> QED
      BY <1>1, <3>1, <3>2, <3>3 DEF ClerkInv
  <2> QED
    BY <2>1, <2>2
<1>3. \A n, o \in Staff : Locking(clerk'[n]) /\ Locking(clerk'[o]) /\ clerk'[n].name = clerk'[o].name => n = o
  BY <1>1 DEF ClientsInv, Locking, NoRequest
<1>4. \A p, r \in Ids : Original(clients'[p]) /\ Original(clients'[r]) /\ clients'[p].name = clients'[r].name => p = r
  BY <1>1 DEF ClientsInv, Original
<1>5. \A p \in Ids : clients'[p] # Nobody => Vouched(clients'[p])
  BY <1>1 DEF ClientsInv
<1> QED
  BY <1>1, <1>2, <1>3, <1>4, <1>5 DEF ClientsInv

\* createClient, from its form to its insert.
LEMMA CreateClientSteps ==
    ASSUME ClientsInv, NEW m \in Staff,
           CreateAsk(m) \/ CreateLock(m) \/ CreateCheck(m) \/ CreateNumber(m) \/ CreateInsert(m)
    PROVE  ClientsInv'
<1>1. clerk \in [Staff -> ClientRequests] /\ clientCounter \in Int /\ clerk[m] \in ClientRequests
  BY DEF ClientsInv
<1>2. ASSUME clerk' = [clerk EXCEPT ![m] = NoRequest], UNCHANGED <<clients, clientCounter>>
      PROVE  ClientsInv'
  <2>1. NoRequest \in ClientRequests /\ ~Locking(NoRequest) /\ ClerkInv(m, NoRequest, clients)
    BY DEF ClientRequests, ClerkInv, Locking, NoRequest, Decisions
  <2> QED
    BY <1>1, <1>2, <2>1, ClerkMoves
<1>3. CASE CreateAsk(m)
  <2>1. PICK q \in Requests, n \in ClientNames, b \in CreationBranches(m) :
           clerk' = [clerk EXCEPT ![m] = [op |-> "ask", id |-> q, name |-> n, branch |-> b]]
    BY <1>3 DEF CreateAsk
  <2>2. PICK k : k = [op |-> "ask", id |-> q, name |-> n, branch |-> b]
    OBVIOUS
  <2>3. b \in Offices \cup {Nobody}
    BY StaffAssumption DEF CreationBranches
  <2>4. k \in ClientForms /\ k.op = "ask"
    BY <2>2, <2>3 DEF ClientForms
  <2>5. k \in ClientRequests /\ ~Locking(k) /\ ClerkInv(m, k, clients)
    BY <2>4 DEF ClientRequests, ClerkInv, Locking, Decisions
  <2> QED
    BY <1>1, <1>3, <2>1, <2>2, <2>5, ClerkMoves DEF CreateAsk
<1>4. ASSUME NEW from \in {"ask", "named", "checked", "numbered"}, NEW op \in {"named", "checked", "numbered"},
             clerk[m].op = from
      PROVE  /\ clerk[m] \in ClientForms
             /\ [clerk EXCEPT ![m].op = op] = [clerk EXCEPT ![m] = [clerk[m] EXCEPT !.op = op]]
             /\ [clerk[m] EXCEPT !.op = op] \in ClientRequests
             /\ [clerk[m] EXCEPT !.op = op].op = op /\ [clerk[m] EXCEPT !.op = op].name = clerk[m].name
  <2>1. clerk[m] \in ClientForms
    BY <1>1, <1>4 DEF ClientRequests, NoRequest, ClientsOfJobs, ClientDecisions, Decisions
  <2>2. [clerk[m] EXCEPT !.op = op] \in ClientForms
    BY <2>1 DEF ClientForms
  <2> QED
    BY <1>1, <2>1, <2>2 DEF ClientRequests, ClientForms
<1>5. CASE CreateLock(m)
  <2>1. clerk[m].op = "ask" /\ UNCHANGED <<clients, clientCounter>>
    BY <1>5 DEF CreateLock
  <2>2. PICK k : k = [clerk[m] EXCEPT !.op = "named"]
    OBVIOUS
  <2>3. k \in ClientRequests /\ k.op = "named" /\ [clerk EXCEPT ![m].op = "named"] = [clerk EXCEPT ![m] = k]
    BY <1>4, <2>1, <2>2
  <2>4. ~Locking(k) /\ ClerkInv(m, k, clients)
    BY <2>3 DEF Locking, ClerkInv, Decisions
  <2>5. CASE clerk' = [clerk EXCEPT ![m].op = "named"]
    BY <1>1, <2>1, <2>3, <2>4, <2>5, ClerkMoves
  <2> QED
    BY <1>2, <1>5, <2>1, <2>5 DEF CreateLock
<1>6. CASE CreateCheck(m)
  <2>1. clerk[m].op = "named" /\ UNCHANGED <<clients, clientCounter>>
    BY <1>6 DEF CreateCheck
  <2>2. PICK k : k = [clerk[m] EXCEPT !.op = "checked"]
    OBVIOUS
  <2>3. /\ k \in ClientRequests /\ k.op = "checked" /\ k.name = clerk[m].name
        /\ [clerk EXCEPT ![m].op = "checked"] = [clerk EXCEPT ![m] = k]
    BY <1>4, <2>1, <2>2
  <2>4. CASE NameFree(m) /\ clerk' = [clerk EXCEPT ![m].op = "checked"]
    <3>1. \A q \in Ids : Original(clients[q]) => clients[q].name # k.name
      BY <2>3, <2>4 DEF NameFree, Live, Rows, Original
    <3>2. \A o \in Staff \ {m} : Locking(clerk[o]) => clerk[o].name # k.name
      BY <2>3, <2>4 DEF NameFree, NameLocked, Locking
    <3>3. ClerkInv(m, k, clients)
      BY <2>3, <3>1 DEF ClerkInv, Decisions
    <3> QED
      BY <1>1, <2>1, <2>3, <2>4, <3>2, <3>3, ClerkMoves
  <2> QED
    BY <1>2, <1>6, <2>1, <2>4 DEF CreateCheck
<1>7. CASE CreateNumber(m)
  <2>1. clerk[m].op = "checked" /\ UNCHANGED <<clients, clientCounter>> /\ clerk' = [clerk EXCEPT ![m].op = "numbered"]
    BY <1>7 DEF CreateNumber
  <2>2. PICK k : k = [clerk[m] EXCEPT !.op = "numbered"]
    OBVIOUS
  <2>3. /\ k \in ClientRequests /\ k.op = "numbered" /\ k.name = clerk[m].name
        /\ [clerk EXCEPT ![m].op = "numbered"] = [clerk EXCEPT ![m] = k]
    BY <1>4, <2>1, <2>2
  <2>4. Locking(clerk[m]) /\ ClerkInv(m, clerk[m], clients)
    BY <2>1 DEF Locking, ClientsInv
  <2>5. \A o \in Staff \ {m} : Locking(clerk[o]) => clerk[o].name # k.name
    BY <2>3, <2>4 DEF ClientsInv
  <2>6. ClerkInv(m, k, clients)
    BY <2>3, <2>4 DEF ClerkInv, Decisions
  <2> QED
    BY <1>1, <2>1, <2>3, <2>5, <2>6, ClerkMoves
<1>8. CASE CreateInsert(m)
  <2>1. clerk[m].op = "numbered" /\ clerk' = [clerk EXCEPT ![m] = NoRequest]
    BY <1>8 DEF CreateInsert
  <2>2. clerk[m] \in ClientForms
    BY <1>4, <2>1
  <2>3. CASE clients' = [clients EXCEPT ![clerk[m].id] = NewRow(m)] /\ clientCounter' = clientCounter + 1
    <3>1. PICK q \in Ids : q = clerk[m].id
      BY <2>2 DEF ClientForms, Ids
    <3>2. PICK n \in Int : n = clientCounter + 1
      BY <1>1
    <3>3. PICK row : row = NewRow(m)
      OBVIOUS
    <3>4. row \in ClientRow /\ row.name = clerk[m].name
      BY <2>2, <3>2, <3>3 DEF NewRow, ClientForms, ClientRow, Statuses
    <3>5. Vouched(row)
      BY <3>3, StaffAssumption DEF NewRow, Vouched
    <3>6. Locking(clerk[m]) /\ ClerkInv(m, clerk[m], clients)
      BY <2>1 DEF Locking, ClientsInv
    <3>7. /\ \A p \in Ids \ {q} : Original(clients[p]) => clients[p].name # row.name
          /\ \A o \in Staff \ {m} : Locking(clerk[o]) => clerk[o].name # row.name
      BY <3>4, <3>6 DEF ClerkInv, ClientsInv
    <3>8. clients' = [clients EXCEPT ![q] = row] /\ clientCounter' \in Int
      BY <2>3, <3>1, <3>2, <3>3
    <3> QED
      BY <2>1, <3>4, <3>5, <3>7, <3>8, ClientWritten
  <2> QED
    BY <1>2, <1>8, <2>1, <2>3 DEF CreateInsert
<1> QED
  BY <1>3, <1>5, <1>6, <1>7, <1>8

\* ensureClientExists
LEMMA EnsureClientSteps ==
    ASSUME ClientsInv, NEW m \in Staff, EnsureClient(m) \/ EnsureNumber(m) \/ EnsureInsert(m)
    PROVE  ClientsInv'
<1>1. clerk \in [Staff -> ClientRequests] /\ clientCounter \in Int /\ clerk[m] \in ClientRequests
  BY DEF ClientsInv
<1>2. ASSUME NEW k \in ClientsOfJobs \cup {NoRequest}
      PROVE  k \in ClientRequests /\ ~Locking(k) /\ ClerkInv(m, k, clients)
  BY DEF ClientsOfJobs, ClientRequests, NoRequest, Locking, ClerkInv, Decisions
<1>3. CASE EnsureClient(m)
  <2>1. PICK n \in ClientNames : clerk' = [clerk EXCEPT ![m] = [op |-> "ensure", name |-> n]]
    BY <1>3 DEF EnsureClient
  <2>2. PICK k \in ClientsOfJobs : k = [op |-> "ensure", name |-> n]
    BY DEF ClientsOfJobs
  <2> QED
    BY <1>1, <1>2, <1>3, <2>1, <2>2, ClerkMoves DEF EnsureClient
<1>4. CASE EnsureNumber(m)
  <2>1. clerk[m].op = "ensure" /\ UNCHANGED clients
    BY <1>4 DEF EnsureNumber
  <2>2. clerk[m].name \in ClientNames
    BY <1>1, <2>1 DEF ClientRequests, NoRequest, ClientForms, ClientsOfJobs, ClientDecisions, Decisions
  <2>3. PICK n \in Int : n = clientCounter + 1
    BY <1>1
  <2>4. PICK k \in ClientsOfJobs : k = [op |-> "ensured", name |-> clerk[m].name, number |-> n]
    BY <2>2 DEF ClientsOfJobs
  <2>5. clientCounter' \in Int /\ clerk' = [clerk EXCEPT ![m] = k]
    BY <1>4, <2>3, <2>4 DEF EnsureNumber
  <2> QED
    BY <1>2, <2>1, <2>5, ClerkMoves
<1>5. CASE EnsureInsert(m)
  <2>1. clerk[m].op = "ensured" /\ clerk' = [clerk EXCEPT ![m] = NoRequest] /\ clientCounter' = clientCounter
    BY <1>5 DEF EnsureInsert
  <2>2. clerk[m].name \in ClientNames /\ clerk[m].number \in Int
    BY <1>1, <2>1 DEF ClientRequests, NoRequest, ClientForms, ClientsOfJobs, ClientDecisions, Decisions
  <2>3. CASE UNCHANGED clients
    BY <1>1, <1>2, <2>1, <2>3, ClerkMoves
  <2>4. ASSUME NEW answered \in BOOLEAN, NEW approved \in BOOLEAN, approved = (answered => DirectAdd(m)), NEW row,
               row = [name |-> clerk[m].name, code |-> clerk[m].number,
                      creator |-> m, owner |-> m, branch |-> Nobody,
                      status |-> IF approved THEN "Active" ELSE "Pending Approval",
                      approval |-> IF approved THEN "APPROVED" ELSE "PENDING_APPROVAL",
                      decidedBy |-> IF approved THEN "System" ELSE Nobody,
                      live |-> TRUE, original |-> FALSE, vouched |-> answered],
               NEW g \in GeneratedIds, clients' = [clients EXCEPT ![g] = row]
        PROVE  ClientsInv'
    <3>1. row \in ClientRow /\ ~row.original
      BY <2>2, <2>4 DEF ClientRow, Statuses
    <3>2. Vouched(row)
      BY <2>4 DEF Vouched
    <3>3. g \in Ids /\ clientCounter' \in Int
      BY <1>1, <2>1 DEF Ids
    <3> QED
      BY <2>1, <2>4, <3>1, <3>2, <3>3, ClientWritten
  <2> QED
    BY <1>5, <2>3, <2>4 DEF EnsureInsert
<1> QED
  BY <1>3, <1>4, <1>5

\* Edits, decisions, deletions and restorations, read in one step and written in
\* another.
LEMMA DecisionSteps ==
    ASSUME ClientsInv, NEW m \in Staff, DecisionRead(m) \/ DecisionWrite(m)
    PROVE  ClientsInv'
<1>1. clerk \in [Staff -> ClientRequests] /\ clientCounter \in Int /\ clerk[m] \in ClientRequests
  BY DEF ClientsInv
<1>2. CASE DecisionRead(m)
  <2>1. PICK q \in Rows, op \in Decisions :
           /\ Accepts(m, op, clients[q])
           /\ \E e \in IF op = "update" THEN Edits ELSE {NoRequest} :
                 clerk' = [clerk EXCEPT ![m] = [op |-> op, id |-> q, edit |-> e]]
    BY <1>2 DEF DecisionRead, Decisions
  <2>2. PICK e \in IF op = "update" THEN Edits ELSE {NoRequest} :
           clerk' = [clerk EXCEPT ![m] = [op |-> op, id |-> q, edit |-> e]]
    BY <2>1
  <2>3. PICK k : k = [op |-> op, id |-> q, edit |-> e]
    OBVIOUS
  <2>4. k \in ClientRequests /\ k.op = op /\ k.id = q /\ k.edit = e /\ clients[q] # Nobody
    BY <2>2, <2>3 DEF ClientRequests, ClientDecisions, Rows
  <2>5. op = "approve" => DirectAdd(m)
    BY <2>1 DEF Accepts, DirectAdd, Holds
  <2>6. ~Locking(k) /\ ClerkInv(m, k, clients)
    BY <2>2, <2>4, <2>5 DEF Locking, ClerkInv, Decisions
  <2> QED
    BY <1>1, <1>2, <2>2, <2>3, <2>4, <2>6, ClerkMoves DEF DecisionRead
<1>3. CASE DecisionWrite(m)
  <2>1. clerk[m].op \in Decisions /\ clerk' = [clerk EXCEPT ![m] = NoRequest] /\ clientCounter' \in Int
    BY <1>1, <1>3 DEF DecisionWrite, Decisions
  <2>2. clerk[m] \in ClientDecisions /\ ~Locking(clerk[m]) /\ ClerkInv(m, clerk[m], clients)
    BY <1>1, <2>1 DEF ClientRequests, NoRequest, ClientForms, ClientsOfJobs, Decisions, Locking, ClientsInv
  <2>3. PICK q \in Ids : q = clerk[m].id
    BY <2>2 DEF ClientDecisions
  <2>4. clients[q] \in ClientRow /\ clients[q] # Nobody /\ Vouched(clients[q])
    BY <2>1, <2>2, <2>3 DEF ClerkInv, ClientsInv
  <2>5. PICK row : row = Decided(m, clerk[m].op, clients[q], clerk[m].edit)
    OBVIOUS
  <2>6. /\ row \in ClientRow /\ Vouched(row)
        /\ row.live /\ row.original => clients[q].live /\ clients[q].original /\ row.name = clients[q].name
    BY <2>1, <2>2, <2>4, <2>5, DecidedRow DEF ClerkInv
  <2>7. clients' = clients \/ clients' = [clients EXCEPT ![q] = row]
    BY <1>3, <2>3, <2>5 DEF DecisionWrite
  <2>8. CASE clients' = clients
    <3>1. NoRequest \in ClientRequests /\ ~Locking(NoRequest) /\ ClerkInv(m, NoRequest, clients)
      BY DEF ClientRequests, ClerkInv, Locking, NoRequest, Decisions
    <3> QED
      BY <2>1, <2>8, <3>1, ClerkMoves
  <2>9. CASE clients' = [clients EXCEPT ![q] = row]
    <3>1. row.live /\ row.original => Original(clients[q]) /\ row.name = clients[q].name
      BY <2>4, <2>6 DEF Original
    <3>2. row.live /\ row.original =>
             /\ \A p \in Ids \ {q} : Original(clients[p]) => clients[p].name # row.name
             /\ \A o \in Staff \ {m} : Locking(clerk[o]) => clerk[o].name # row.name
      BY <3>1 DEF ClientsInv, ClerkInv
    <3> QED
      BY <2>1, <2>6, <2>9, <3>2, ClientWritten
  <2> QED
    BY <2>7, <2>8, <2>9
<1> QED
  BY <1>2, <1>3

\* Every handler of ClientsService keeps the invariant.
LEMMA ClientsStep == ClientsInv /\ [ClientsNext]_clientVars => ClientsInv'
<1> SUFFICES ASSUME ClientsInv, [ClientsNext]_clientVars
             PROVE  ClientsInv'
  OBVIOUS
<1>1. ASSUME UNCHANGED <<clients, clientCounter, clerk>>
      PROVE  ClientsInv'
  BY <1>1 DEF ClientsInv
<1>2. ASSUME NEW m \in Staff, SetVisibilityPolicy(m)
      PROVE  ClientsInv'
  BY <1>1, <1>2 DEF SetVisibilityPolicy
<1>3. CASE UNCHANGED clientVars
  BY <1>1, <1>3 DEF clientVars
<1> QED
  BY <1>2, <1>3, CreateClientSteps, EnsureClientSteps, DecisionSteps DEF ClientsNext

\* The locks, the clients and the decisions in progress, in every reachable state.
THEOREM ClientsInvariant == ClientsSpec => []ClientsInv
<1>1. ClientsInit => ClientsInv
  BY NullAssumption DEF ClientsInit, ClientsInv, ClientRequests, ClerkInv, Locking, Original, NoRequest, Decisions
<1> QED
  BY <1>1, ClientsStep, PTL DEF ClientsSpec

\* Two live clients that keep the names they were created with have different
\* names, for any number of requests that overlap and are retried.
THEOREM NoTwinClientsHolds == ClientsSpec => []NoTwinClients
<1>1. ClientsInv => NoTwinClients
  BY DEF ClientsInv, NoTwinClients, Live, Rows, Original
<1> QED
  BY <1>1, ClientsInvariant, PTL

\* Whom isClientApproved lets through, a member who may approve has let through,
\* whatever edits, deletions, restorations and late writes come between.
THEOREM ApprovedByApproverHolds == ClientsSpec => []ApprovedByApprover
<1>1. ClientsInv => ApprovedByApprover
  BY DEF ClientsInv, ApprovedByApprover, Rows, Vouched, IsClientApproved
<1> QED
  BY <1>1, ClientsInvariant, PTL

(* Candidates *)

Mails == Addresses \cup {NoAddress} \cup {Placeholder[f] : f \in Cvs}
ProfileRows == [mail : Mails, resume : Nat, item : Nat, alone : BOOLEAN, origin : {"cv", "other"},
                live : BOOLEAN, deleted : BOOLEAN, replaced : BOOLEAN, version : Nat]
ResumeRows == [cv : Cvs \cup {NoAddress}, found : Mails, mail : Mails, kept : BOOLEAN]
SaveSteps == {"parse", "lookup", "attach", "create", "update", "insert", "done", "failed"}
Saves == [step : SaveSteps, cv : Cvs, form : Forms, item : Nat, met : BOOLEAN, id : Nat,
          resume : Nat, mail : Mails, found : Mails]
Drafts == [step : {"edit"}, id : Profiles, mail : Addresses, version : Nat]
BatchItems == 1..Len(Files)
ItemStates == {"queued", "processing", "completed", "failed"}

PoolTypeOK ==
    /\ people \in Seq(ProfileRows)
    /\ resumes \in Seq(ResumeRows)
    /\ save \in [Callers -> {NoSave} \cup Saves]
    /\ draft \in [Uploaders -> {NoSave} \cup Drafts]

BulkTypeOK ==
    /\ batch \in [loop : {"item", "job", "over", "lost"}, done : Nat, failed : Nat, status : {"processing", "completed"}]
    /\ items \in Seq(ItemStates) /\ Len(items) <= Len(Files)
    /\ batch.loop = "job" => items # <<>>
    /\ jobs \in Seq(BatchItems)
    /\ \/ worker = NoJob
       \/ worker \in [step : {"read", "save", "unlink", "count"}, item : BatchItems]
       \/ worker \in [step : {"write"}, item : BatchItems, done : Nat, failed : Nat, status : {"processing", "completed"}]

\* A profile has the CV of its item until it is given another one, which only
\* happens to one with a real address.
ProfileInv(p) ==
    /\ p.resume \in DOMAIN resumes
    /\ p.live \/ p.deleted
    /\ p.item # 0 /\ ~p.replaced => resumes[p.resume].cv = Files[p.item]
    /\ p.replaced /\ p.origin = "cv" => p.mail \in Addresses

\* Who is not met by another save of his address is the only one at work on it,
\* and has no profile from a CV.
SaveInv(c) ==
    LET s == save[c]
    IN /\ s.step \in {"attach", "update"} =>
             s.id \in Profiles /\ (people[s.id].origin = "cv" => people[s.id].mail \in Addresses)
       /\ s.step \in {"update", "insert"} => s.resume \in DOMAIN resumes /\ resumes[s.resume].cv = s.cv
       /\ s.step \in {"create", "insert"} /\ ~s.met /\ s.mail \in Addresses =>
             /\ \A i \in Profiles : people[i].origin = "cv" => people[i].mail # s.mail
             /\ Meets(s.mail) = {c}
       /\ s # NoSave /\ c # Worker => s.item = 0

\* The worker saves an item again only if the profile of that item was deleted or given
\* another CV, and makes a second one only under another address.
WorkerSaveInv ==
    LET s == save[Worker]
        Made == {i \in Profiles : people[i].item = s.item /\ people[i].origin = "cv" /\ ~people[i].deleted}
    IN /\ s # NoSave => s.item \in BatchItems /\ s.cv = Files[s.item]
       /\ s.step \in {"parse", "lookup"} => \A i \in Made : people[i].replaced
       /\ s.step \in {"create", "insert"} => \A i \in Made : people[i].replaced /\ people[i].mail # s.mail

PoolInv ==
    /\ PoolTypeOK
    /\ \A i \in Profiles : ProfileInv(people[i])
    /\ \A c \in Callers : SaveInv(c)
    /\ WorkerSaveInv
    /\ ProfilesNotDoubled

\* The files of a bulk upload are CVs.
LEMMA FilesAreCvs == Files \in Seq(Cvs)
<1>1. Cardinality(Cvs) \in Nat /\ ExistsBijection(1..Cardinality(Cvs), Cvs)
  BY FS_CardinalityType, CvsAssumption
<1>2. PICK f \in Bijection(1..Cardinality(Cvs), Cvs) : TRUE
  BY <1>1 DEF ExistsBijection
<1>3. f \in [1..Cardinality(Cvs) -> Cvs] /\ IsInjective(f)
  BY <1>2 DEF Bijection, Injection
<1>4. Files \in [1..Cardinality(Cvs) -> Cvs]
  BY <1>3 DEF Files, SetToSeq
<1> QED
  BY <1>1, <1>4

\* Resumes are only added, and keep their CVs.
ResumesKept ==
    /\ resumes' \in Seq(ResumeRows)
    /\ Len(resumes) <= Len(resumes')
    /\ \A r \in 1..Len(resumes) : resumes'[r].cv = resumes[r].cv

\* A save comes to a step that is not between look-up and insert, or stays there.
LEMMA SaveMoves ==
    ASSUME PoolInv, NEW c \in Callers, NEW s \in {NoSave} \cup Saves,
           people' = people, ResumesKept, save' = [save EXCEPT ![c] = s],
           draft' \in [Uploaders -> {NoSave} \cup Drafts],
           s.step \in {"create", "insert"} =>
              save[c].step \in {"create", "insert"} /\ s.mail = save[c].mail /\ s.met = save[c].met,
           s.step \in {"attach", "update"} =>
              s.id \in Profiles /\ (people[s.id].origin = "cv" => people[s.id].mail \in Addresses),
           s.step \in {"update", "insert"} => s.resume \in DOMAIN resumes' /\ resumes'[s.resume].cv = s.cv,
           s # NoSave /\ c # Worker => s.item = 0,
           c = Worker => WorkerSaveInv'
    PROVE  PoolInv'
<1>1. /\ save' \in [Callers -> {NoSave} \cup Saves] /\ save'[c] = s
      /\ \A o \in Callers : o # c => save'[o] = save[o]
  BY DEF PoolInv, PoolTypeOK
<1>2. DOMAIN resumes = 1..Len(resumes) /\ DOMAIN resumes' = 1..Len(resumes') /\ DOMAIN resumes \subseteq DOMAIN resumes'
  BY DEF PoolInv, PoolTypeOK, ResumesKept
<1>3. \A i \in Profiles' : ProfileInv(people[i])'
  BY <1>2 DEF PoolInv, ProfileInv, ResumesKept, Profiles
<1>4. ASSUME NEW o \in Callers
      PROVE  SaveInv(o)'
  <2>1. \A mail : Meets(mail)' \subseteq Meets(mail)
    BY <1>1 DEF Meets
  <2>2. CASE o = c
    <3>1. ASSUME s.step \in {"create", "insert"}, ~s.met, s.mail \in Addresses
          PROVE  /\ \A i \in Profiles : people[i].origin = "cv" => people[i].mail # s.mail
                 /\ Meets(s.mail)' = {c}
      <4>1. c \in Meets(s.mail)' /\ Meets(s.mail) = {c}
        BY <1>1, <3>1 DEF Meets, PoolInv, SaveInv
      <4> QED
        BY <2>1, <3>1, <4>1 DEF PoolInv, SaveInv
    <3> QED
      BY <1>1, <2>2, <3>1 DEF SaveInv, Profiles
  <2>3. CASE o # c
    <3>1. Meets(save[o].mail) = {o} => Meets(save[o].mail)' = {o}
      BY <1>1, <2>1, <2>3 DEF Meets
    <3> QED
      BY <1>1, <1>2, <2>3, <3>1 DEF PoolInv, SaveInv, ResumesKept, Profiles
  <2> QED
    BY <2>2, <2>3
<1>5. c # Worker => WorkerSaveInv'
  BY <1>1 DEF Callers, PoolInv, WorkerSaveInv, Profiles
<1>6. ProfilesNotDoubled'
  BY DEF PoolInv, ProfilesNotDoubled, Profiles
<1> QED
  BY <1>1, <1>3, <1>4, <1>5, <1>6 DEF PoolInv, PoolTypeOK, ResumesKept, Drafts, Profiles

\* A save is left alone, or done.
SavesKept ==
    /\ save' \in [Callers -> {NoSave} \cup Saves]
    /\ \A o \in Callers : \/ save'[o] = save[o]
                          \/ /\ save[o] # NoSave /\ save'[o].step = "done"
                             /\ save'[o].item = save[o].item /\ save'[o].cv = save[o].cv

\* A row is written: it keeps its item and, unless readdressed by hand, its address.
LEMMA ProfileWritten ==
    ASSUME PoolInv, SavesKept, resumes' = resumes,
           draft' \in [Uploaders -> {NoSave} \cup Drafts],
           NEW x \in Profiles, NEW p \in ProfileRows, people' = [people EXCEPT ![x] = p],
           ProfileInv(p), p.item = people[x].item, p.alone = people[x].alone,
           p.origin = "cv" => people[x].origin = "cv" /\ p.mail = people[x].mail,
           people[x].deleted => p.deleted,
           people[x].replaced => p.replaced
    PROVE  PoolInv'
<1>1. /\ people \in Seq(ProfileRows) /\ Profiles = 1..Len(people)
      /\ people' \in Seq(ProfileRows) /\ Profiles' = Profiles /\ people'[x] = p
      /\ \A i \in Profiles : i # x => people'[i] = people[i]
  BY DEF PoolInv, PoolTypeOK, Profiles
<1>2. \A i \in Profiles : /\ people'[i].item = people[i].item /\ people'[i].alone = people[i].alone
                          /\ people'[i].origin = "cv" => people[i].origin = "cv" /\ people'[i].mail = people[i].mail
                          /\ people[i].deleted => people'[i].deleted
                          /\ people[i].replaced => people'[i].replaced
  BY <1>1
<1>3. \A i \in Profiles' : ProfileInv(people[i])'
  BY <1>1 DEF PoolInv, ProfileInv
<1>4. ASSUME NEW c \in Callers
      PROVE  SaveInv(c)'
  <2>1. \A mail : Meets(mail)' \subseteq Meets(mail)
    BY DEF Meets, SavesKept
  <2>2. CASE save'[c] = save[c]
    <3>1. Meets(save[c].mail) = {c} /\ save[c].step \in {"create", "insert"} => Meets(save[c].mail)' = {c}
      BY <2>1, <2>2 DEF Meets
    <3>2. save[c].step \in {"create", "insert"} /\ ~save[c].met /\ save[c].mail \in Addresses =>
            \A i \in Profiles' : people'[i].origin = "cv" => people'[i].mail # save[c].mail
      BY <1>1, <1>2 DEF PoolInv, SaveInv
    <3>3. save[c].step \in {"attach", "update"} =>
            save[c].id \in Profiles' /\ (people'[save[c].id].origin = "cv" => people'[save[c].id].mail \in Addresses)
      BY <1>1, <1>2 DEF PoolInv, SaveInv
    <3>4. SaveInv(c)
      BY DEF PoolInv
    <3> QED
      BY <2>2, <3>1, <3>2, <3>3, <3>4 DEF SaveInv
  <2>3. CASE save[c] # NoSave /\ save'[c].step = "done" /\ save'[c].item = save[c].item
    BY <2>3 DEF PoolInv, SaveInv
  <2> QED
    BY <2>2, <2>3 DEF SavesKept
<1>5. WorkerSaveInv'
  <2>1. CASE save'[Worker] = save[Worker]
    BY <1>1, <1>2, <2>1 DEF PoolInv, WorkerSaveInv
  <2>2. CASE /\ save[Worker] # NoSave /\ save'[Worker].step = "done"
             /\ save'[Worker].item = save[Worker].item /\ save'[Worker].cv = save[Worker].cv
    BY <2>2 DEF PoolInv, WorkerSaveInv
  <2> QED
    BY <2>1, <2>2 DEF SavesKept, Callers
<1>6. ProfilesNotDoubled'
  BY <1>1, <1>2 DEF PoolInv, ProfilesNotDoubled
<1> QED
  BY <1>1, <1>3, <1>4, <1>5, <1>6 DEF PoolInv, PoolTypeOK, SavesKept, Drafts

\* A row is added: one from a CV meets no other of its address, if it was not met by a
\* save, and none of its item, unless that one was given another CV and address.
LEMMA ProfileAdded ==
    ASSUME PoolInv, SavesKept, ResumesKept, draft' = draft,
           NEW p \in ProfileRows, people' = Append(people, p), ProfileInv(p)',
           p.item # 0 => save'[Worker].step = "done",
           p.origin = "cv" =>
              /\ p.alone /\ p.mail \in Addresses => \A i \in Profiles : people[i].origin = "cv" => people[i].mail # p.mail
              /\ \A i \in Profiles : people[i].origin = "cv" /\ p.item # 0 /\ people[i].item = p.item =>
                    people[i].deleted \/ (people[i].replaced /\ people[i].mail # p.mail)
              /\ \A c \in Callers : save'[c].step \in {"create", "insert"} /\ ~save'[c].met /\ save'[c].mail \in Addresses
                    => save'[c].mail # p.mail
    PROVE  PoolInv'
<1>1. /\ people \in Seq(ProfileRows) /\ Profiles = 1..Len(people) /\ Len(people) \in Nat
      /\ people' \in Seq(ProfileRows) /\ Profiles' = 1..Len(people) + 1 /\ people'[Len(people) + 1] = p
      /\ \A i \in Profiles : people'[i] = people[i]
  BY DEF PoolInv, PoolTypeOK, Profiles
<1>2. DOMAIN resumes = 1..Len(resumes) /\ DOMAIN resumes' = 1..Len(resumes') /\ DOMAIN resumes \subseteq DOMAIN resumes'
  BY DEF PoolInv, PoolTypeOK, ResumesKept
<1>3. \A i \in Profiles' : ProfileInv(people[i])'
  <2>1. ASSUME NEW i \in Profiles
        PROVE  ProfileInv(people[i])'
    BY <1>1, <1>2 DEF PoolInv, ProfileInv, ResumesKept
  <2> QED
    BY <1>1, <2>1 DEF ProfileInv
<1>4. ASSUME NEW c \in Callers
      PROVE  SaveInv(c)'
  <2>1. \A mail : Meets(mail)' \subseteq Meets(mail)
    BY DEF Meets, SavesKept
  <2>2. CASE save'[c] = save[c]
    <3>1. Meets(save[c].mail) = {c} /\ save[c].step \in {"create", "insert"} => Meets(save[c].mail)' = {c}
      BY <2>1, <2>2 DEF Meets
    <3>2. save[c].step \in {"create", "insert"} /\ ~save[c].met /\ save[c].mail \in Addresses =>
            \A i \in Profiles' : people'[i].origin = "cv" => people'[i].mail # save[c].mail
      BY <1>1, <2>2 DEF PoolInv, SaveInv
    <3>3. save[c].step \in {"attach", "update"} =>
            save[c].id \in Profiles' /\ (people'[save[c].id].origin = "cv" => people'[save[c].id].mail \in Addresses)
      BY <1>1 DEF PoolInv, SaveInv
    <3>4. save[c].step \in {"update", "insert"} => save[c].resume \in DOMAIN resumes' /\ resumes'[save[c].resume].cv = save[c].cv
      BY <1>2 DEF PoolInv, SaveInv, ResumesKept
    <3> QED
      BY <2>2, <3>1, <3>2, <3>3, <3>4 DEF PoolInv, SaveInv
  <2>3. CASE save[c] # NoSave /\ save'[c].step = "done" /\ save'[c].item = save[c].item
    BY <2>3 DEF PoolInv, SaveInv
  <2> QED
    BY <2>2, <2>3 DEF SavesKept
<1>5. WorkerSaveInv'
  <2>1. CASE save'[Worker].step = "done"
    BY <2>1 DEF PoolInv, WorkerSaveInv, SavesKept, Callers, NoSave
  <2>2. CASE save'[Worker] = save[Worker] /\ p.item = 0
    <3>1. ASSUME save[Worker] # NoSave, NEW i \in Profiles', people'[i].item = save[Worker].item
          PROVE  i \in Profiles /\ people'[i] = people[i]
      BY <1>1, <2>2, <3>1 DEF PoolInv, WorkerSaveInv, BatchItems
    <3>2. save[Worker].step \in {"parse", "lookup", "create", "insert"} => save[Worker] # NoSave
      BY DEF NoSave
    <3> QED
      BY <1>1, <2>2, <3>1, <3>2 DEF PoolInv, WorkerSaveInv
  <2> QED
    BY <2>1, <2>2 DEF SavesKept, Callers
<1>6. ProfilesNotDoubled'
  BY <1>1 DEF PoolInv, ProfilesNotDoubled
<1>7. draft' \in [Uploaders -> {NoSave} \cup Drafts']
  <2>1. Drafts \subseteq Drafts'
    BY <1>1 DEF Drafts
  <2> QED
    BY <2>1 DEF PoolInv, PoolTypeOK
<1> QED
  BY <1>1, <1>3, <1>4, <1>5, <1>6, <1>7 DEF PoolInv, PoolTypeOK, SavesKept, ResumesKept

\* What the first check finds, the worker leaves alone.
LEMMA SaveBeginStep ==
    ASSUME PoolInv, NEW c \in Callers, NEW f \in Cvs, NEW form \in Forms, NEW item \in Nat,
           SaveBegin(c, f, form, item), draft' = draft,
           c # Worker => item = 0,
           c = Worker => item \in BatchItems /\ f = Files[item] /\ form = WorkerForm
    PROVE  PoolInv'
<1> DEFINE start == [step |-> "parse", cv |-> f, form |-> form, item |-> item, met |-> FALSE, id |-> 0,
                     resume |-> 0, mail |-> NoAddress, found |-> NoAddress]
<1>1. people' = people /\ resumes' = resumes /\ ResumesKept /\ draft' \in [Uploaders -> {NoSave} \cup Drafts]
  <2>1. people' = people /\ resumes' = resumes
    BY DEF SaveBegin
  <2> QED
    BY <2>1 DEF PoolInv, PoolTypeOK, ResumesKept
<1>2. start \in Saves
  BY DEF Saves, SaveSteps, Mails
<1>3. CASE FindByHash(f) = {}
  <2>1. save' = [save EXCEPT ![c] = start]
    BY <1>3 DEF SaveBegin
  <2>2. ASSUME c = Worker
        PROVE  WorkerSaveInv'
    <3>1. save'[Worker] = start
      BY <2>1, <2>2 DEF PoolInv, PoolTypeOK
    <3>2. ASSUME NEW i \in Profiles, people[i].item = item, people[i].origin = "cv", ~people[i].deleted
          PROVE  people[i].replaced
      <4>1. 0 \notin BatchItems
        BY DEF BatchItems
      <4>2. people[i].live
        BY <3>2 DEF PoolInv, ProfileInv
      <4>3. resumes[people[i].resume].cv # f
        BY <1>3, <4>2 DEF FindByHash
      <4> QED
        BY <2>2, <3>2, <4>1, <4>3 DEF PoolInv, ProfileInv
    <3> QED
      BY <1>1, <2>2, <3>1, <3>2 DEF WorkerSaveInv, Profiles
  <2> QED
    BY <1>1, <1>2, <2>1, <2>2, SaveMoves
<1>4. ASSUME NEW i \in FindByHash(f), ~OtherIdentity(form, i), ~form.fields,
             save' = [save EXCEPT ![c] = [start EXCEPT !.step = "done", !.id = i]]
      PROVE  PoolInv'
  <2>1. i \in Nat
    BY <1>4 DEF FindByHash, Profiles, PoolInv, PoolTypeOK
  <2>2. /\ [start EXCEPT !.step = "done", !.id = i] \in Saves
        /\ [start EXCEPT !.step = "done", !.id = i].step = "done"
        /\ [start EXCEPT !.step = "done", !.id = i].item = item
        /\ [start EXCEPT !.step = "done", !.id = i].cv = f
    BY <1>2, <2>1 DEF Saves, SaveSteps
  <2>3. c = Worker => WorkerSaveInv'
    BY <1>4, <2>2 DEF PoolInv, PoolTypeOK, WorkerSaveInv
  <2> QED
    BY <1>1, <1>4, <2>2, <2>3, SaveMoves
<1>5. ASSUME NEW i \in FindByHash(f), OtherIdentity(form, i) \/ form.fields,
             save' = [save EXCEPT ![c] = [start EXCEPT !.step = "lookup", !.found = resumes[people[i].resume].found]]
      PROVE  PoolInv'
  <2>1. i \in Profiles /\ resumes[people[i].resume] \in ResumeRows
    BY <1>5 DEF FindByHash, PoolInv, PoolTypeOK, ProfileInv
  <2>2. resumes[people[i].resume].found \in Mails
    BY <2>1 DEF ResumeRows
  <2> DEFINE found == [start EXCEPT !.step = "lookup", !.found = resumes[people[i].resume].found]
  <2>3. found \in Saves /\ found.step = "lookup" /\ found.item = item
    BY <1>2, <2>2 DEF Saves, SaveSteps
  <2>4. c # Worker
    BY <1>5 DEF OtherIdentity, WorkerForm
  <2> HIDE DEF found
  <2>5. save' = [save EXCEPT ![c] = found]
    BY <1>5 DEF found
  <2> QED
    BY <1>1, <2>3, <2>4, <2>5, SaveMoves
<1> QED
  BY <1>3, <1>4, <1>5 DEF SaveBegin

\* findFirst in descending order: some rows have a last one.
LEMMA LastExists ==
    ASSUME NEW n \in Nat, NEW S \in SUBSET (1..n), S # {}
    PROVE  \E r \in S : \A s \in S : s <= r
<1> DEFINE Less == {ss \in Nat \X Nat : ss[1] < ss[2]}
           Bounds == {b \in Nat : \A s \in S : s <= b}
<1>1. PICK b \in Bounds : \A y \in Bounds : ~(<<y, b>> \in Less)
  <2>1. IsWellFoundedOn(Less, Nat)
    BY NatLessThanWellFounded, Zenon DEF OpToRel
  <2>2. n \in Bounds /\ Bounds \subseteq Nat
    OBVIOUS
  <2> HIDE DEF Less, Bounds
  <2> QED
    BY <2>1, <2>2, WFMin
<1>2. b \in S
  <2> SUFFICES ASSUME b \notin S PROVE FALSE
    OBVIOUS
  <2>0. PICK s \in S : s <= b
    OBVIOUS
  <2>1. b # 0
    BY <2>0
  <2>3. \A x \in S : x <= b - 1
    OBVIOUS
  <2>4. b - 1 \in Bounds
    BY <2>1, <2>3
  <2>2. <<b - 1, b>> \in Nat \X Nat
    BY <2>1
  <2> QED
    BY <1>1, <2>1, <2>2, <2>4
<1> QED
  BY <1>2

\* The parser, or the latest resume of the file.
LEMMA ParseStep ==
    ASSUME PoolInv, NEW c \in Callers, SaveParse(c)
    PROVE  PoolInv'
<1>1. save[c] \in Saves /\ save[c].step = "parse" /\ ResumesKept /\ draft' \in [Uploaders -> {NoSave} \cup Drafts]
  BY DEF SaveParse, NoSave, PoolInv, PoolTypeOK, ResumesKept
<1>2. PICK found \in Mails : save' = [save EXCEPT ![c].step = "lookup", ![c].found = found]
  <2> DEFINE last == CHOOSE r \in Cached(save[c].cv) : \A s \in Cached(save[c].cv) : s <= r
             known == IF resumes[last].found # NoAddress THEN resumes[last].found ELSE resumes[last].mail
  <2>1. PICK found \in IF Cached(save[c].cv) # {} THEN {known} ELSE {Address[save[c].cv], NoAddress} :
           save' = [save EXCEPT ![c].step = "lookup", ![c].found = found]
    BY DEF SaveParse
  <2>2. CASE Cached(save[c].cv) = {}
    <3>1. Address[save[c].cv] \in Mails
      BY <1>1, AddressAssumption DEF Saves, Mails
    <3> QED
      BY <2>1, <2>2, <3>1 DEF Mails
  <2>3. CASE Cached(save[c].cv) # {}
    <3>1. \E r \in Cached(save[c].cv) : \A s \in Cached(save[c].cv) : s <= r
      <4>1. Len(resumes) \in Nat /\ Cached(save[c].cv) \in SUBSET (1..Len(resumes))
        BY DEF Cached, PoolInv, PoolTypeOK
      <4> QED
        BY <2>3, <4>1, LastExists
    <3>2. last \in Cached(save[c].cv)
      BY <3>1
    <3>3. resumes[last] \in ResumeRows
      BY <3>2 DEF Cached, PoolInv, PoolTypeOK
    <3>4. known \in Mails
      BY <3>3 DEF ResumeRows
    <3> HIDE DEF known
    <3> QED
      BY <2>1, <2>3, <3>4
  <2> QED
    BY <2>2, <2>3
<1> DEFINE s == [save[c] EXCEPT !.step = "lookup", !.found = found]
<1>3. s \in Saves /\ s.step = "lookup" /\ s.item = save[c].item /\ s.cv = save[c].cv
  BY <1>1 DEF Saves, SaveSteps
<1>4. save' = [save EXCEPT ![c] = s]
  BY <1>2
<1>5. people' = people /\ s # NoSave /\ save[c] # NoSave
  <2>1. people' = people
    BY DEF SaveParse
  <2>2. save[c] # NoSave
    BY <1>1 DEF NoSave
  <2>3. s # NoSave
    <3> HIDE DEF s
    <3> QED
      BY <1>3 DEF NoSave
  <2> QED
    BY <2>1, <2>2, <2>3
<1> HIDE DEF s
<1>6. ASSUME c = Worker
      PROVE  WorkerSaveInv'
  <2>1. save'[Worker] = s
    BY <1>4, <1>6 DEF PoolInv, PoolTypeOK
  <2> QED
    BY <1>1, <1>3, <1>5, <1>6, <2>1 DEF PoolInv, WorkerSaveInv, Profiles
<1>7. c # Worker => s.item = 0
  BY <1>3, <1>5 DEF PoolInv, SaveInv
<1> QED
  BY <1>1, <1>3, <1>4, <1>5, <1>6, <1>7, SaveMoves

\* The look-up of the address.
LEMMA LookupStep ==
    ASSUME PoolInv, NEW c \in Callers, SaveLookup(c)
    PROVE  PoolInv'
<1>1. /\ people' = people /\ resumes' = resumes /\ draft' = draft
      /\ save[c].step = "lookup"
  BY DEF SaveLookup
<1>2. save[c] \in Saves /\ save[c] # NoSave
  BY <1>1 DEF NoSave, PoolInv, PoolTypeOK
<1>3. PICK mail \in Mails : mail = MailOf(save[c])
  BY <1>2 DEF MailOf, Saves, Forms, Mails
<1> DEFINE next == [save[c] EXCEPT !.mail = mail]
<1>4. /\ next \in Saves /\ next.mail = mail /\ next.item = save[c].item /\ next.cv = save[c].cv /\ next.step = "lookup"
  BY <1>1, <1>2, <1>3 DEF Saves
<1>5. c # Worker => save[c].item = 0
  BY <1>2 DEF PoolInv, SaveInv
<1>6. ASSUME mail \in Addresses, NEW i \in FindByMail(mail),
             save' = [save EXCEPT ![c] = [next EXCEPT !.step = "attach", !.id = i]]
      PROVE  PoolInv'
  <2> DEFINE s == [next EXCEPT !.step = "attach", !.id = i]
  <2>1. i \in Nat /\ i \in Profiles /\ people[i].mail = mail
    BY <1>6 DEF FindByMail, Profiles, PoolInv, PoolTypeOK
  <2>2. s \in Saves /\ s.step = "attach" /\ s.id = i /\ s.item = save[c].item /\ s.cv = save[c].cv
    BY <1>4, <2>1 DEF Saves, SaveSteps
  <2>3. save' = [save EXCEPT ![c] = s]
    BY <1>6
  <2> HIDE DEF s, next
  <2>4. c = Worker => WorkerSaveInv'
    BY <1>2, <2>2, <2>3 DEF PoolInv, PoolTypeOK, WorkerSaveInv
  <2>5. ResumesKept /\ draft' \in [Uploaders -> {NoSave} \cup Drafts]
    BY <1>1 DEF PoolInv, PoolTypeOK, ResumesKept
  <2> QED
    BY <1>1, <1>5, <1>6, <2>1, <2>2, <2>3, <2>4, <2>5, SaveMoves
<1>7. ASSUME ~(mail \in Addresses /\ FindByMail(mail) # {}),
             save' = [o \in Callers |->
                 IF o = c THEN [next EXCEPT !.step = "create", !.met = Meets(mail) # {}]
                 ELSE IF o \in Meets(mail) THEN [save[o] EXCEPT !.met = TRUE] ELSE save[o]]
      PROVE  PoolInv'
  <2> DEFINE s == [next EXCEPT !.step = "create", !.met = Meets(mail) # {}]
  <2>1. /\ s \in Saves /\ s.step = "create" /\ s.mail = mail /\ s.met = (Meets(mail) # {})
        /\ s.item = save[c].item /\ s.cv = save[c].cv
    BY <1>4 DEF Saves, SaveSteps
  <2>2. save'[c] = s
    BY <1>7
  <2> HIDE DEF s, next
  <2>3. ASSUME NEW o \in Callers, o # c, o \in Meets(mail)
        PROVE  /\ save'[o] \in Saves /\ save[o] # NoSave /\ save'[o].met
               /\ save'[o].step = save[o].step /\ save'[o].id = save[o].id /\ save'[o].resume = save[o].resume
               /\ save'[o].cv = save[o].cv /\ save'[o].item = save[o].item /\ save'[o].mail = save[o].mail
    <3>1. save'[o] = [save[o] EXCEPT !.met = TRUE]
      BY <1>7, <2>3
    <3>2. save[o] \in Saves
      BY <2>3 DEF Meets, NoSave, PoolInv, PoolTypeOK
    <3>3. save[o].step \in {"create", "insert"}
      BY <2>3 DEF Meets
    <3>4. save[o] # NoSave
      BY <3>3 DEF NoSave
    <3> QED
      BY <3>1, <3>2, <3>4 DEF Saves
  <2>4. \A o \in Callers : o # c /\ o \notin Meets(mail) => save'[o] = save[o]
    BY <1>7
  <2>5. save' \in [Callers -> {NoSave} \cup Saves]
    <3>1. \A o \in Callers : save'[o] \in {NoSave} \cup Saves
      BY <2>1, <2>2, <2>3, <2>4 DEF PoolInv, PoolTypeOK
    <3> QED
      BY <1>7, <3>1
  <2>6. c \notin Meets(mail)
    BY <1>1 DEF Meets
  <2>7. \A i \in Profiles : mail \in Addresses => people[i].mail # mail
    BY <1>7 DEF FindByMail
  <2>8. ASSUME NEW o \in Callers
        PROVE  SaveInv(o)'
    <3>1. CASE o = c
      <4>1. Meets(mail) = {} => Meets(mail)' = {c}
        BY <2>1, <2>2, <2>4 DEF Meets
      <4> QED
        BY <1>1, <1>5, <2>1, <2>2, <2>7, <3>1, <4>1 DEF SaveInv, Profiles
    <3>2. CASE o # c /\ o \in Meets(mail)
      <4>1. /\ save[o] # NoSave /\ save'[o].met /\ save'[o].step = save[o].step /\ save'[o].id = save[o].id
            /\ save'[o].resume = save[o].resume /\ save'[o].cv = save[o].cv /\ save'[o].item = save[o].item
        BY <2>3, <3>2
      <4>2. SaveInv(o)
        BY DEF PoolInv
      <4> QED
        BY <1>1, <4>1, <4>2 DEF SaveInv, Profiles
    <3>3. CASE o # c /\ o \notin Meets(mail)
      <4>1. save'[o] = save[o]
        BY <2>4, <3>3
      <4>2. save[o].step \in {"create", "insert"} => save[o].mail # mail
        BY <3>3 DEF Meets
      <4>3. save[o].step \in {"create", "insert"} /\ Meets(save[o].mail) = {o} => Meets(save[o].mail)' = {o}
        <5> SUFFICES ASSUME save[o].step \in {"create", "insert"}, Meets(save[o].mail) = {o}, NEW q \in Callers
                     PROVE  q \in Meets(save[o].mail)' <=> q = o
          BY DEF Meets
        <5>1. CASE q = c
          BY <2>1, <2>2, <3>3, <4>1, <4>2, <5>1 DEF Meets
        <5>2. CASE q # c
          <6>1. save'[q].step = save[q].step /\ (save[q].step \in {"create", "insert"} => save'[q].mail = save[q].mail)
            BY <2>3, <2>4, <5>2
          <6> QED
            BY <4>1, <6>1 DEF Meets
        <5> QED
          BY <5>1, <5>2
      <4> QED
        BY <1>1, <4>1, <4>3 DEF PoolInv, SaveInv, Profiles
    <3> QED
      BY <3>1, <3>2, <3>3
  <2>9. WorkerSaveInv'
    <3>1. CASE c = Worker
      <4>1. ASSUME NEW i \in Profiles, people[i].item = save[c].item, people[i].origin = "cv", ~people[i].deleted
            PROVE  people[i].replaced /\ people[i].mail # mail
        <5>1. people[i].replaced
          BY <1>1, <3>1, <4>1 DEF PoolInv, WorkerSaveInv
        <5>2. people[i].mail \in Addresses
          BY <4>1, <5>1 DEF PoolInv, ProfileInv
        <5> QED
          BY <2>7, <5>1, <5>2
      <4> QED
        BY <1>1, <1>2, <2>1, <2>2, <3>1, <4>1 DEF PoolInv, WorkerSaveInv, Profiles
    <3>2. CASE c # Worker /\ Worker \in Meets(mail)
      <4>1. /\ save[Worker] # NoSave /\ save'[Worker].step = save[Worker].step /\ save'[Worker].cv = save[Worker].cv
            /\ save'[Worker].item = save[Worker].item /\ save'[Worker].mail = save[Worker].mail
        BY <2>3, <3>2 DEF Callers
      <4>2. WorkerSaveInv
        BY DEF PoolInv
      <4> QED
        BY <1>1, <4>1, <4>2 DEF WorkerSaveInv, Profiles
    <3>3. CASE c # Worker /\ Worker \notin Meets(mail)
      BY <1>1, <2>4, <3>3 DEF PoolInv, WorkerSaveInv, Profiles, Callers
    <3> QED
      BY <3>1, <3>2, <3>3
  <2> QED
    BY <1>1, <2>5, <2>8, <2>9 DEF PoolInv, PoolTypeOK, ProfileInv, ProfilesNotDoubled, Profiles, Drafts
<1> QED
  BY <1>3, <1>6, <1>7 DEF SaveLookup

\* The resume of a save, and what becomes of it when the insert fails.
LEMMA ResumeSteps ==
    ASSUME PoolInv, NEW c \in Callers, SaveResume(c) \/ SaveFails(c)
    PROVE  PoolInv'
<1>1. /\ people' = people /\ draft' \in [Uploaders -> {NoSave} \cup Drafts]
      /\ save[c].step \in {"attach", "create", "insert"}
  BY DEF SaveResume, SaveFails, PoolInv, PoolTypeOK
<1>2. save[c] \in Saves /\ save[c] # NoSave
  BY <1>1 DEF NoSave, PoolInv, PoolTypeOK
<1>3. c # Worker => save[c].item = 0
  BY <1>2 DEF PoolInv, SaveInv
<1>4. resumes \in Seq(ResumeRows) /\ Len(resumes) \in Nat /\ DOMAIN resumes = 1..Len(resumes)
  BY DEF PoolInv, PoolTypeOK
<1>5. ASSUME SaveResume(c), NEW step \in {"update", "insert"},
             step = IF save[c].step = "attach" THEN "update" ELSE "insert"
      PROVE  PoolInv'
  <2>0. PICK n \in Nat : n = Len(resumes) + 1
    BY <1>4
  <2> DEFINE s == [save[c] EXCEPT !.step = step, !.resume = n]
  <2>1. /\ s \in Saves /\ s.step = step /\ s.resume = n /\ s.item = save[c].item
        /\ s.cv = save[c].cv /\ s.mail = save[c].mail /\ s.met = save[c].met /\ s.id = save[c].id
    BY <1>2 DEF Saves, SaveSteps
  <2>2. save' = [save EXCEPT ![c] = s]
    BY <1>5, <2>0 DEF SaveResume
  <2> HIDE DEF s
  <2>3. Resume(save[c]) \in ResumeRows /\ Resume(save[c]).cv = save[c].cv
    BY <1>2 DEF Resume, Saves, ResumeRows
  <2>4. /\ resumes' \in Seq(ResumeRows) /\ Len(resumes') = Len(resumes) + 1
        /\ \A r \in 1..Len(resumes) : resumes'[r] = resumes[r]
        /\ resumes'[Len(resumes) + 1] = Resume(save[c])
        /\ DOMAIN resumes' = 1..Len(resumes) + 1
    BY <1>4, <1>5, <2>3 DEF SaveResume
  <2>5. ResumesKept
    BY <1>4, <2>4 DEF ResumesKept
  <2>6. s.resume \in DOMAIN resumes' /\ resumes'[s.resume].cv = s.cv
    BY <1>4, <2>0, <2>1, <2>3, <2>4
  <2>7. s.step = "update" => save[c].step = "attach"
    BY <1>5, <2>1
  <2>8. s.step = "insert" => save[c].step \in {"create", "insert"}
    BY <1>1, <1>5, <2>1
  <2>9. ASSUME c = Worker
        PROVE  WorkerSaveInv'
    <3>1. save'[Worker] = s
      BY <2>2, <2>9 DEF PoolInv, PoolTypeOK
    <3> QED
      BY <1>1, <1>2, <2>1, <2>8, <2>9, <3>1 DEF PoolInv, WorkerSaveInv, Profiles
  <2>10. s.step = "update" => s.id \in Profiles /\ (people[s.id].origin = "cv" => people[s.id].mail \in Addresses)
    BY <2>1, <2>7 DEF PoolInv, SaveInv
  <2> QED
    BY <1>1, <1>3, <2>1, <2>2, <2>5, <2>6, <2>8, <2>9, <2>10, SaveMoves
<1>6. ASSUME SaveFails(c)
      PROVE  PoolInv'
  <2> DEFINE s == [save[c] EXCEPT !.step = "failed"]
  <2>1. s \in Saves /\ s.step = "failed" /\ s.item = save[c].item /\ s.cv = save[c].cv
    BY <1>2 DEF Saves, SaveSteps
  <2>2. save' = [save EXCEPT ![c] = s]
    BY <1>6 DEF SaveFails
  <2> HIDE DEF s
  <2>3. save[c].resume \in 1..Len(resumes)
    BY <1>4, <1>6 DEF SaveFails, PoolInv, SaveInv
  <2> DEFINE row == [resumes[save[c].resume] EXCEPT !.kept = FALSE]
  <2>4. resumes' = [resumes EXCEPT ![save[c].resume] = row]
    BY <1>6 DEF SaveFails
  <2>5. row \in ResumeRows /\ row.cv = resumes[save[c].resume].cv
    <3>1. resumes[save[c].resume] \in ResumeRows
      BY <1>4, <2>3
    <3> QED
      BY <3>1 DEF ResumeRows
  <2> HIDE DEF row
  <2>6. ResumesKept
    <3>1. /\ resumes' \in Seq(ResumeRows) /\ Len(resumes') = Len(resumes)
          /\ \A r \in 1..Len(resumes) : resumes'[r] = IF r = save[c].resume THEN row ELSE resumes[r]
      BY <1>4, <2>3, <2>4, <2>5, ExceptSeq
    <3> QED
      BY <1>4, <2>5, <3>1 DEF ResumesKept
  <2>7. c = Worker => WorkerSaveInv'
    BY <1>2, <2>1, <2>2 DEF PoolInv, PoolTypeOK, WorkerSaveInv
  <2> QED
    BY <1>1, <1>3, <2>1, <2>2, <2>6, <2>7, SaveMoves
<1> QED
  BY <1>1, <1>5, <1>6 DEF SaveResume

\* A save comes to its end, by a write of the profile or an insert.
LEMMA SaveEnds ==
    ASSUME PoolInv, NEW c \in Callers, save[c] # NoSave, NEW s \in Saves,
           s.step = "done", s.item = save[c].item, s.cv = save[c].cv, save' = [save EXCEPT ![c] = s]
    PROVE  SavesKept /\ save'[c] = s
BY DEF PoolInv, PoolTypeOK, SavesKept

\* A candidate that is found is given the resume.
LEMMA UpdateStep ==
    ASSUME PoolInv, NEW c \in Callers, SaveUpdate(c)
    PROVE  PoolInv'
<1>1. /\ save[c].step = "update" /\ resumes' = resumes /\ draft' \in [Uploaders -> {NoSave} \cup Drafts]
  BY DEF SaveUpdate, PoolInv, PoolTypeOK
<1>2. save[c] \in Saves /\ save[c] # NoSave
  BY <1>1 DEF NoSave, PoolInv, PoolTypeOK
<1>3. /\ save[c].id \in Profiles
      /\ people[save[c].id].origin = "cv" => people[save[c].id].mail \in Addresses
      /\ save[c].resume \in DOMAIN resumes /\ save[c].resume \in Nat
  BY <1>1, <1>2 DEF PoolInv, SaveInv, Saves
<1> DEFINE s == [save[c] EXCEPT !.step = "done"]
           row == people[save[c].id]
<1>4. s \in Saves /\ s.step = "done" /\ s.item = save[c].item /\ s.cv = save[c].cv
  BY <1>2 DEF Saves, SaveSteps
<1>6. row \in ProfileRows
  BY <1>3 DEF PoolInv, PoolTypeOK, Profiles
<1>10. PICK v \in Nat : v = row.version + 1
  BY <1>6 DEF ProfileRows
<1> DEFINE p == [row EXCEPT !.resume = save[c].resume, !.live = TRUE, !.replaced = TRUE, !.version = v]
<1>5. save' = [save EXCEPT ![c] = s] /\ people' = [people EXCEPT ![save[c].id] = p]
  BY <1>10 DEF SaveUpdate
<1>7. /\ p \in ProfileRows /\ p.resume = save[c].resume /\ p.live /\ p.replaced /\ p.item = row.item
      /\ p.alone = row.alone /\ p.origin = row.origin /\ p.mail = row.mail /\ p.deleted = row.deleted
  BY <1>3, <1>6 DEF ProfileRows
<1> HIDE DEF s, p
<1>8. SavesKept
  BY <1>2, <1>4, <1>5, SaveEnds
<1>9. ProfileInv(p)
  BY <1>3, <1>7 DEF ProfileInv
<1> QED
  BY <1>1, <1>3, <1>5, <1>7, <1>8, <1>9, ProfileWritten

\* A candidate is made.
LEMMA InsertStep ==
    ASSUME PoolInv, NEW c \in Callers, SaveInsert(c)
    PROVE  PoolInv'
<1>1. save[c].step = "insert" /\ resumes' = resumes /\ draft' = draft
  BY DEF SaveInsert
<1>2. save[c] \in Saves /\ save[c] # NoSave /\ Len(people) \in Nat
  BY <1>1 DEF NoSave, PoolInv, PoolTypeOK
<1>15. PICK n \in Nat : n = Len(people) + 1
  BY <1>2
<1>16. PICK p : p = Person(save[c].mail, save[c].resume, save[c].item, ~save[c].met, "cv")
  OBVIOUS
<1> DEFINE s == [save[c] EXCEPT !.step = "done", !.id = n]
<1>3. s \in Saves /\ s.step = "done" /\ s.item = save[c].item /\ s.cv = save[c].cv
  BY <1>2 DEF Saves, SaveSteps
<1>4. save' = [save EXCEPT ![c] = s] /\ people' = Append(people, p)
  BY <1>15, <1>16 DEF SaveInsert
<1>5. /\ p \in ProfileRows /\ p.resume = save[c].resume /\ p.live /\ ~p.replaced /\ p.item = save[c].item
      /\ p.alone = ~save[c].met /\ p.mail = save[c].mail /\ p.origin = "cv"
  BY <1>2, <1>16 DEF Person, ProfileRows, Saves
<1> HIDE DEF s
<1>6. SavesKept /\ save'[c] = s
  BY <1>2, <1>3, <1>4, SaveEnds
<1>7. ResumesKept
  BY <1>1 DEF PoolInv, PoolTypeOK, ResumesKept
<1>8. /\ save[c].resume \in DOMAIN resumes /\ resumes[save[c].resume].cv = save[c].cv
      /\ c # Worker => save[c].item = 0
      /\ ~save[c].met /\ save[c].mail \in Addresses =>
            /\ \A i \in Profiles : people[i].origin = "cv" => people[i].mail # save[c].mail
            /\ Meets(save[c].mail) = {c}
  BY <1>1, <1>2 DEF PoolInv, SaveInv
<1>9. /\ c = Worker => save[c].cv = Files[save[c].item]
      /\ c = Worker => \A i \in Profiles : people[i].item = save[c].item /\ people[i].origin = "cv" /\ ~people[i].deleted
                           => people[i].replaced /\ people[i].mail # save[c].mail
  BY <1>1, <1>2 DEF PoolInv, WorkerSaveInv
<1>10. ProfileInv(p)'
  <2>1. p.resume \in DOMAIN resumes' /\ (p.item # 0 => resumes'[p.resume].cv = Files[p.item])
    BY <1>1, <1>5, <1>8, <1>9
  <2> QED
    BY <1>5, <2>1 DEF ProfileInv
<1>11. p.item # 0 => save'[Worker].step = "done"
  BY <1>3, <1>5, <1>6, <1>8
<1>12. \A i \in Profiles : p.alone /\ p.mail \in Addresses /\ people[i].origin = "cv" => people[i].mail # p.mail
  BY <1>5, <1>8
<1>13. \A i \in Profiles : people[i].origin = "cv" /\ p.item # 0 /\ people[i].item = p.item =>
          people[i].deleted \/ (people[i].replaced /\ people[i].mail # p.mail)
  BY <1>5, <1>8, <1>9
<1>14. ASSUME NEW o \in Callers, save'[o].step \in {"create", "insert"}, ~save'[o].met, save'[o].mail \in Addresses
       PROVE  save'[o].mail # p.mail
  <2>1. o # c /\ save'[o] = save[o]
    BY <1>3, <1>6, <1>14 DEF SavesKept
  <2>2. Meets(save[o].mail) = {o}
    BY <1>14, <2>1 DEF PoolInv, SaveInv
  <2>3. c \in Meets(save[c].mail)
    BY <1>1 DEF Meets
  <2> QED
    BY <1>5, <2>1, <2>2, <2>3
<1> QED
  BY <1>1, <1>4, <1>5, <1>6, <1>7, <1>10, <1>11, <1>12, <1>13, <1>14, ProfileAdded

\* Profiles from elsewhere, deletions, restorations and edits.
LEMMA RequestSteps ==
    ASSUME PoolInv, MemberRequest
    PROVE  PoolInv'
<1>1. CASE CreateCandidate
  <2>1. PICK mail \in Addresses :
           /\ resumes' = Append(resumes, [cv |-> NoAddress, found |-> mail, mail |-> mail, kept |-> TRUE])
           /\ people' = Append(people, Person(mail, Len(resumes) + 1, 0, FALSE, "other"))
    BY <1>1 DEF CreateCandidate
  <2>2. PICK n \in Nat : n = Len(resumes) + 1
    BY DEF PoolInv, PoolTypeOK
  <2>3. PICK p : p = Person(mail, n, 0, FALSE, "other")
    OBVIOUS
  <2>4. p \in ProfileRows /\ p.item = 0 /\ p.origin = "other" /\ p.resume = n /\ p.live
    BY <2>3 DEF Person, ProfileRows, Mails
  <2>5. ResumesKept /\ n \in DOMAIN resumes'
    BY <2>1, <2>2 DEF ResumesKept, ResumeRows, Mails, PoolInv, PoolTypeOK
  <2>6. ProfileInv(p)'
    BY <2>4, <2>5 DEF ProfileInv
  <2>7. SavesKept /\ draft' = draft
    BY <1>1 DEF CreateCandidate, Change, SavesKept, PoolInv, PoolTypeOK
  <2>8. people' = Append(people, p)
    BY <2>1, <2>2, <2>3
  <2> QED
    BY <2>4, <2>5, <2>6, <2>7, <2>8, ProfileAdded
<1>2. ASSUME NEW x \in Profiles, NEW live \in BOOLEAN, NEW deleted \in BOOLEAN,
             people[x].deleted => deleted, live \/ deleted,
             people' = [people EXCEPT ![x] = [people[x] EXCEPT !.live = live, !.deleted = deleted, !.version = @ + 1]],
             resumes' = resumes, draft' = draft, save' = save
      PROVE  PoolInv'
  <2>1. people[x] \in ProfileRows
    BY DEF PoolInv, PoolTypeOK, Profiles
  <2>2. PICK v \in Nat : v = people[x].version + 1
    BY <2>1 DEF ProfileRows
  <2> DEFINE p == [people[x] EXCEPT !.live = live, !.deleted = deleted, !.version = v]
  <2>3. /\ p \in ProfileRows /\ p.resume = people[x].resume /\ p.live = live /\ p.deleted = deleted
        /\ p.replaced = people[x].replaced /\ p.item = people[x].item /\ p.alone = people[x].alone
        /\ p.origin = people[x].origin /\ p.mail = people[x].mail
    BY <2>1 DEF ProfileRows
  <2>4. people' = [people EXCEPT ![x] = p]
    BY <1>2, <2>2
  <2> HIDE DEF p
  <2>5. ProfileInv(p)
    BY <1>2, <2>3 DEF PoolInv, ProfileInv
  <2>6. SavesKept /\ draft' \in [Uploaders -> {NoSave} \cup Drafts]
    BY <1>2 DEF SavesKept, PoolInv, PoolTypeOK
  <2> QED
    BY <1>2, <2>3, <2>4, <2>5, <2>6, ProfileWritten
<1>3. CASE DeleteCandidate
  <2>1. PICK x \in Profiles : people' = [people EXCEPT ![x].live = FALSE, ![x].version = @ + 1, ![x].deleted = TRUE]
    BY <1>3 DEF DeleteCandidate
  <2>2. people' = [people EXCEPT ![x] = [people[x] EXCEPT !.live = FALSE, !.deleted = TRUE, !.version = @ + 1]]
    BY <2>1
  <2> QED
    BY <1>2, <1>3, <2>2 DEF DeleteCandidate, Change
<1>4. CASE RestoreCandidate
  <2>1. PICK x \in Profiles : people' = [people EXCEPT ![x].live = TRUE, ![x].version = @ + 1]
    BY <1>4 DEF RestoreCandidate
  <2>2. people' = [people EXCEPT ![x] = [people[x] EXCEPT !.live = TRUE, !.deleted = people[x].deleted, !.version = @ + 1]]
    BY <2>1 DEF PoolInv, PoolTypeOK, ProfileRows, Profiles
  <2>3. people[x].deleted \in BOOLEAN
    <3>1. people[x] \in ProfileRows
      BY DEF PoolInv, PoolTypeOK, Profiles
    <3> QED
      BY <3>1 DEF ProfileRows
  <2> QED
    BY <1>2, <1>4, <2>2, <2>3 DEF RestoreCandidate, Change
<1>5. ASSUME people' = people, resumes' = resumes, save' = save, draft' \in [Uploaders -> {NoSave} \cup Drafts]
      PROVE  PoolInv'
  BY <1>5 DEF PoolInv, PoolTypeOK, ProfileInv, SaveInv, WorkerSaveInv, ProfilesNotDoubled, Profiles, Meets, Drafts
<1>6. ASSUME NEW u \in Uploaders, Upload(u)
      PROVE  PoolInv'
  <2>1. PICK f \in Cvs, form \in Forms : SaveBegin(u, f, form, 0)
    BY <1>6 DEF Upload
  <2> QED
    BY <1>6, <2>1, SaveBeginStep, WorkerAssumption DEF Upload, Callers
<1>7. ASSUME NEW u \in Uploaders, Answered(u)
      PROVE  PoolInv'
  <2>1. /\ ResumesKept /\ draft' \in [Uploaders -> {NoSave} \cup Drafts] /\ u \in Callers /\ u # Worker
        /\ save' = [save EXCEPT ![u] = NoSave] /\ people' = people
    BY <1>7, WorkerAssumption DEF Answered, PoolInv, PoolTypeOK, ResumesKept, Callers
  <2>2. NoSave.step = "none"
    BY DEF NoSave
  <2> QED
    BY <2>1, <2>2, SaveMoves
<1>8. ASSUME NEW u \in Uploaders, EditRead(u)
      PROVE  PoolInv'
  <2>1. PICK i \in Profiles, mail \in Addresses :
           draft' = [draft EXCEPT ![u] = [step |-> "edit", id |-> i, mail |-> mail, version |-> people[i].version]]
    BY <1>8 DEF EditRead
  <2>2. i \in Nat /\ people[i] \in ProfileRows
    BY DEF PoolInv, PoolTypeOK, Profiles
  <2>3. [step |-> "edit", id |-> i, mail |-> mail, version |-> people[i].version] \in Drafts
    BY <2>2 DEF Drafts, ProfileRows
  <2>4. draft' \in [Uploaders -> {NoSave} \cup Drafts]
    BY <2>1, <2>3 DEF PoolInv, PoolTypeOK
  <2> QED
    BY <1>5, <1>8, <2>4 DEF EditRead, Change
<1>9. ASSUME NEW u \in Uploaders, EditWrite(u)
      PROVE  PoolInv'
  <2>1. /\ draft[u].step = "edit" /\ resumes' = resumes /\ save' = save
        /\ draft' \in [Uploaders -> {NoSave} \cup Drafts]
    BY <1>9 DEF EditWrite, PoolInv, PoolTypeOK
  <2>2. draft[u] \in Drafts
    BY <2>1 DEF PoolInv, PoolTypeOK, NoSave
  <2>3. CASE people[draft[u].id].version # draft[u].version
    BY <1>5, <1>9, <2>1, <2>3 DEF EditWrite
  <2>4. CASE people[draft[u].id].version = draft[u].version
    <3> DEFINE x == draft[u].id
    <3>1. people' = [people EXCEPT ![x].mail = draft[u].mail, ![x].origin = "other", ![x].version = @ + 1]
      BY <1>9, <2>4 DEF EditWrite
    <3>2. x \in Profiles /\ draft[u].mail \in Addresses /\ people[x] \in ProfileRows
      BY <2>2 DEF Drafts, PoolInv, PoolTypeOK, Profiles
    <3>3. PICK v \in Nat : v = people[x].version + 1
      BY <3>2 DEF ProfileRows
    <3> DEFINE p == [people[x] EXCEPT !.mail = draft[u].mail, !.origin = "other", !.version = v]
    <3>4. people' = [people EXCEPT ![x] = p]
      BY <3>1, <3>3
    <3>5. /\ p \in ProfileRows /\ p.resume = people[x].resume /\ p.live = people[x].live
          /\ p.deleted = people[x].deleted /\ p.replaced = people[x].replaced /\ p.item = people[x].item
          /\ p.alone = people[x].alone /\ p.origin = "other"
      BY <3>2 DEF ProfileRows, Mails
    <3> HIDE DEF p, x
    <3>6. ProfileInv(p)
      BY <3>2, <3>5 DEF PoolInv, ProfileInv
    <3>7. SavesKept
      BY <2>1 DEF SavesKept, PoolInv, PoolTypeOK
    <3> QED
      BY <2>1, <3>2, <3>4, <3>5, <3>6, <3>7, ProfileWritten
  <2> QED
    BY <2>3, <2>4
<1> QED
  BY <1>1, <1>3, <1>4, <1>6, <1>7, <1>8, <1>9 DEF MemberRequest

\* A save of anybody.
LEMMA AnySaveStep ==
    ASSUME PoolInv, NEW c \in Callers, SaveStep(c)
    PROVE  PoolInv'
BY ParseStep, LookupStep, ResumeSteps, UpdateStep, InsertStep DEF SaveStep

\* A status is written over, if there is the item.
LEMMA StatusWritten ==
    ASSUME NEW S, NEW seq \in Seq(S), NEW k, NEW e \in S
    PROVE  [seq EXCEPT ![k] = e] \in Seq(S) /\ Len([seq EXCEPT ![k] = e]) = Len(seq)
<1>1. CASE k \in 1..Len(seq)
  BY <1>1, ExceptSeq
<1>2. CASE k \notin 1..Len(seq)
  <2>1. DOMAIN seq = 1..Len(seq) /\ seq = [j \in 1..Len(seq) |-> seq[j]]
    OBVIOUS
  <2>2. [seq EXCEPT ![k] = e] = seq
    BY <1>2, <2>1
  <2> QED
    BY <2>2
<1> QED
  BY <1>1, <1>2

\* The upload loop, the queue and the worker, which name items of the batch.
LEMMA BulkSteps ==
    ASSUME BulkTypeOK, BulkItem \/ BulkJob \/ WorkerStep \/ Crash
    PROVE  BulkTypeOK'
<1>1. Len(Files) \in Nat /\ Len(items) \in Nat /\ items \in Seq(ItemStates) /\ jobs \in Seq(BatchItems)
  BY FilesAreCvs DEF BulkTypeOK
<1>2. CASE BulkItem
  <2>1. items' \in Seq(ItemStates) /\ Len(items') = Len(items) + 1 /\ Len(items') <= Len(Files) /\ items' # <<>>
    BY <1>1, <1>2 DEF BulkItem, BulkTypeOK, ItemStates
  <2> QED
    BY <1>2, <2>1 DEF BulkItem, BulkTypeOK
<1>3. CASE BulkJob
  <2>1. Len(items) \in BatchItems
    BY <1>1, <1>3 DEF BulkJob, BulkTypeOK, BatchItems
  <2>2. jobs' \in Seq(BatchItems)
    BY <1>3, <2>1 DEF BulkJob, BulkTypeOK
  <2> QED
    BY <1>3, <2>2 DEF BulkJob, BulkTypeOK
<1>4. CASE WorkerTakes
  <2>1. Head(jobs) \in BatchItems /\ jobs' \in Seq(BatchItems)
    BY <1>4 DEF WorkerTakes, BulkTypeOK
  <2>2. items' \in Seq(ItemStates) /\ Len(items') = Len(items)
    <3>1. items' = [items EXCEPT ![Head(jobs)] = "processing"] /\ "processing" \in ItemStates
      BY <1>4 DEF WorkerTakes, ItemStates
    <3> QED
      BY <1>1, <3>1, StatusWritten
  <2> QED
    BY <1>4, <2>1, <2>2 DEF WorkerTakes, BulkTypeOK
<1>5. CASE FileMissing \/ ItemSettled
  <2>1. items' \in Seq(ItemStates) /\ Len(items') = Len(items)
    <3>1. PICK state \in ItemStates : items' = [items EXCEPT ![worker.item] = state]
      BY <1>5 DEF FileMissing, ItemSettled, ItemStates
    <3> QED
      BY <1>1, <3>1, StatusWritten
  <2> QED
    BY <1>5, <2>1 DEF FileMissing, ItemSettled, BulkTypeOK, NoJob
<1>6. CASE FileRead \/ Unlink
  BY <1>6 DEF FileRead, Unlink, BulkTypeOK, NoJob
<1>7. CASE UpdateBatchRead
  <2>1. \A status : Count(status) \in Nat
    <3> SUFFICES ASSUME NEW status PROVE Count(status) \in Nat
      OBVIOUS
    <3>1. IsFiniteSet(1..Len(items)) /\ DOMAIN items = 1..Len(items)
      BY <1>1, FS_Interval DEF BulkTypeOK
    <3>2. IsFiniteSet({k \in DOMAIN items : items[k] = status})
      BY <3>1, FS_Subset
    <3> QED
      BY <3>2, FS_CardinalityType DEF Count
  <2>2. worker.item \in BatchItems
    BY <1>7 DEF UpdateBatchRead, BulkTypeOK, NoJob
  <2>3. worker' \in [step : {"write"}, item : BatchItems, done : Nat, failed : Nat, status : {"processing", "completed"}]
    BY <1>7, <2>1, <2>2 DEF UpdateBatchRead
  <2> QED
    BY <1>7, <2>3 DEF UpdateBatchRead, BulkTypeOK
<1>8. CASE UpdateBatchWrite
  <2>1. worker \in [step : {"write"}, item : BatchItems, done : Nat, failed : Nat, status : {"processing", "completed"}]
    BY <1>8 DEF UpdateBatchWrite, BulkTypeOK, NoJob
  <2> QED
    BY <1>8, <2>1 DEF UpdateBatchWrite, BulkTypeOK
<1>9. CASE Crash
  <2>1. jobs' \in Seq(BatchItems)
    <3>1. jobs' = jobs \/ (worker # NoJob /\ jobs' = <<worker.item>> \o jobs)
      BY <1>9 DEF Crash
    <3>2. worker # NoJob => <<worker.item>> \in Seq(BatchItems)
      BY DEF BulkTypeOK
    <3> QED
      BY <1>1, <3>1, <3>2, ConcatProperties
  <2>2. /\ batch' \in [loop : {"over", "lost"}, done : Nat, failed : Nat, status : {"processing", "completed"}]
        /\ worker' = NoJob /\ items' = items
    BY <1>9 DEF Crash, BulkTypeOK
  <2> QED
    BY <2>1, <2>2 DEF BulkTypeOK
<1> QED
  BY <1>2, <1>3, <1>4, <1>5, <1>6, <1>7, <1>8, <1>9 DEF WorkerStep

\* What the worker and a crash do to the pool.
LEMMA BulkPoolSteps ==
    ASSUME PoolInv, BulkTypeOK, BulkItem \/ BulkJob \/ WorkerStep \/ Crash
    PROVE  PoolInv'
<1>1. ASSUME people' = people, resumes' = resumes, save' = save, draft' = draft
      PROVE  PoolInv'
  BY <1>1 DEF PoolInv, PoolTypeOK, ProfileInv, SaveInv, WorkerSaveInv, ProfilesNotDoubled, Profiles, Meets, Drafts
<1>2. CASE BulkItem \/ BulkJob \/ WorkerTakes \/ FileMissing \/ Unlink \/ UpdateBatchRead \/ UpdateBatchWrite
  <2>1. people' = people /\ resumes' = resumes /\ save' = save /\ draft' = draft
    BY <1>2 DEF BulkItem, BulkJob, WorkerTakes, FileMissing, Unlink, UpdateBatchRead, UpdateBatchWrite, poolVars
  <2> QED
    BY <1>1, <2>1
<1>3. CASE FileRead
  <2>1. /\ worker.item \in BatchItems /\ draft' = draft
        /\ SaveBegin(Worker, Files[worker.item], WorkerForm, worker.item)
    BY <1>3 DEF FileRead, BulkTypeOK, NoJob
  <2>2. worker.item \in Nat /\ Files[worker.item] \in Cvs
    BY <2>1, FilesAreCvs DEF BatchItems
  <2>3. WorkerForm \in Forms /\ Worker \in Callers
    BY DEF WorkerForm, Forms, Callers
  <2> QED
    BY <2>1, <2>2, <2>3, SaveBeginStep
<1>4. CASE ItemSettled
  <2>1. /\ people' = people /\ ResumesKept /\ draft' \in [Uploaders -> {NoSave} \cup Drafts]
        /\ save' = [save EXCEPT ![Worker] = NoSave]
    BY <1>4 DEF ItemSettled, PoolInv, PoolTypeOK, ResumesKept
  <2>2. NoSave.step = "none" /\ Worker \in Callers
    BY DEF NoSave, Callers
  <2>3. WorkerSaveInv'
    BY <2>1, <2>2 DEF WorkerSaveInv, PoolInv, PoolTypeOK
  <2> QED
    BY <2>1, <2>2, <2>3, SaveMoves
<1>5. CASE Crash
  <2>1. /\ people' = people /\ resumes' = resumes
        /\ save' = [c \in Callers |-> NoSave] /\ draft' = [u \in Uploaders |-> NoSave]
    BY <1>5 DEF Crash
  <2>2. \A c \in Callers : save'[c] = NoSave /\ save'[c].step = "none"
    BY <2>1 DEF NoSave
  <2>3. WorkerSaveInv' /\ \A c \in Callers : SaveInv(c)'
    BY <2>2 DEF WorkerSaveInv, SaveInv, Callers
  <2>4. PoolTypeOK'
    BY <2>1 DEF PoolInv, PoolTypeOK
  <2> QED
    BY <2>1, <2>3, <2>4 DEF PoolInv, ProfileInv, ProfilesNotDoubled, Profiles
<1> QED
  BY <1>2, <1>3, <1>4, <1>5 DEF WorkerStep

CandidatesInv == PoolInv /\ BulkTypeOK

\* Profiles, resumes, saves in progress and the bulk upload stay in step, in every
\* reachable state.
THEOREM CandidatesInvariant == CandidatesSpec => []CandidatesInv
<1>1. CandidatesInit => CandidatesInv
  <2> SUFFICES ASSUME CandidatesInit PROVE CandidatesInv
    OBVIOUS
  <2>1. \A c \in Callers : save[c] = NoSave /\ save[c].step = "none"
    BY DEF CandidatesInit, NoSave
  <2>2. Profiles = {} /\ PoolTypeOK
    BY DEF CandidatesInit, PoolTypeOK, Profiles
  <2>3. BulkTypeOK
    BY FilesAreCvs DEF CandidatesInit, BulkTypeOK
  <2>4. WorkerSaveInv /\ \A c \in Callers : SaveInv(c)
    BY <2>1 DEF WorkerSaveInv, SaveInv, Callers
  <2> QED
    BY <2>2, <2>3, <2>4 DEF CandidatesInv, PoolInv, ProfilesNotDoubled
<1>2. CandidatesInv /\ [CandidatesNext]_candidateVars => CandidatesInv'
  <2> SUFFICES ASSUME CandidatesInv, [CandidatesNext]_candidateVars
               PROVE  CandidatesInv'
    OBVIOUS
  <2>1. ASSUME UNCHANGED bulkVars
        PROVE  BulkTypeOK'
    BY <2>1 DEF CandidatesInv, BulkTypeOK, bulkVars
  <2>2. CASE UNCHANGED candidateVars
    <3>1. UNCHANGED bulkVars /\ UNCHANGED <<people, resumes, save, draft>>
      BY <2>2 DEF candidateVars, poolVars
    <3> QED
      BY <2>1, <3>1 DEF CandidatesInv, PoolInv, PoolTypeOK, ProfileInv, SaveInv, WorkerSaveInv, ProfilesNotDoubled,
                        Profiles, Meets, Drafts
  <2>3. CASE MemberRequest /\ UNCHANGED bulkVars
    BY <2>1, <2>3, RequestSteps DEF CandidatesInv
  <2>4. CASE \E c \in Callers : SaveStep(c) /\ UNCHANGED bulkVars
    BY <2>1, <2>4, AnySaveStep DEF CandidatesInv
  <2>5. CASE BulkItem \/ BulkJob \/ WorkerStep \/ Crash
    BY <2>5, BulkSteps, BulkPoolSteps DEF CandidatesInv
  <2> QED
    BY <2>2, <2>3, <2>4, <2>5 DEF CandidatesNext
<1> QED
  BY <1>1, <1>2, PTL DEF CandidatesSpec

\* Profiles are not doubled, for any number of CVs, members, requests and crashes.
THEOREM ProfilesNotDoubledHolds == CandidatesSpec => []ProfilesNotDoubled
<1>1. CandidatesInv => ProfilesNotDoubled
  BY DEF CandidatesInv, PoolInv
<1> QED
  BY <1>1, CandidatesInvariant, PTL

(* Campaigns *)

\* A recipient whose mail was stopped has had none since, is cancelled for good,
\* and the worker is not past its check for him.
StoppedInv(r) ==
    stopped[r] # NotStopped =>
        /\ stopped[r] = mails[r]
        /\ r \in 1..Len(addressed) /\ addressed[r] = "Cancelled"
        /\ ~InFlight(r)

\* Whom the queue and the worker name has been added.
CampaignInv ==
    /\ addressed \in Seq({"Pending", "Sent", "Failed", "Cancelled"}) /\ Len(addressed) <= Recipients
    /\ filling = "post" => addressed # <<>>
    /\ posts \subseteq 1..Len(addressed)
    /\ mailer \in {AtRest} \cup [step : {"check", "send", "sent", "failed"}, to : 1..Len(addressed)]
    /\ mails \in [1..Recipients -> Nat]
    /\ stopped \in [1..Recipients -> Int]
    /\ \A r \in 1..Recipients : StoppedInv(r)

\* The loop adds recipients and jobs.
LEMMA FillingSteps ==
    ASSUME CampaignInv, AddRecipient \/ AddPost
    PROVE  CampaignInv'
<1>1. CASE AddRecipient
  <2>1. /\ addressed' \in Seq({"Pending", "Sent", "Failed", "Cancelled"})
        /\ Len(addressed') = Len(addressed) + 1 /\ Len(addressed) \in Nat
        /\ \A r \in 1..Len(addressed) : addressed'[r] = addressed[r]
    BY <1>1 DEF AddRecipient, CampaignInv
  <2>2. Len(addressed') <= Recipients /\ addressed' # <<>> /\ 1..Len(addressed) \subseteq 1..Len(addressed')
    BY <1>1, <2>1, RecipientsAssumption DEF AddRecipient
  <2> QED
    BY <1>1, <2>1, <2>2 DEF AddRecipient, CampaignInv, StoppedInv, InFlight
<1>2. CASE AddPost
  <2>1. Len(addressed) \in 1..Len(addressed)
    BY <1>2 DEF AddPost, CampaignInv
  <2> QED
    BY <1>2, <2>1 DEF AddPost, CampaignInv, StoppedInv, InFlight
<1> QED
  BY <1>1, <1>2

\* The worker mails only whom it found not cancelled.
LEMMA MailerSteps ==
    ASSUME CampaignInv, MailerStep
    PROVE  CampaignInv'
<1>1. CASE TakePost
  BY <1>1 DEF TakePost, CampaignInv, StoppedInv, InFlight, AtRest
<1>2. CASE CheckRecipient
  BY <1>2 DEF CheckRecipient, Skips, CampaignInv, StoppedInv, InFlight, AtRest
<1>3. CASE SendMail
  <2> mailer.step = "send"
    BY <1>3 DEF SendMail
  <2>1. mailer \in [step : {"send"}, to : 1..Len(addressed)] /\ mailer.to \in 1..Recipients
    BY RecipientsAssumption DEF CampaignInv, AtRest
  <2>2. InFlight(mailer.to) /\ stopped[mailer.to] = NotStopped
    BY <1>3, <2>1 DEF SendMail, CampaignInv, StoppedInv, InFlight, AtRest
  <2>3. /\ mailer' \in [step : {"sent", "failed"}, to : 1..Len(addressed)]
        /\ mailer'.to = mailer.to
    BY <1>3, <2>1 DEF SendMail
  <2>4. /\ mails' \in [1..Recipients -> Nat]
        /\ \A r \in 1..Recipients : r # mailer.to => mails'[r] = mails[r]
    BY <1>3, <2>1 DEF SendMail, CampaignInv
  <2> QED
    BY <1>3, <2>1, <2>2, <2>3, <2>4 DEF SendMail, CampaignInv, StoppedInv, InFlight
<1>4. CASE SendFails
  BY <1>4 DEF SendFails, CampaignInv, StoppedInv, InFlight, AtRest
<1>5. CASE RecordResult
  <2>1. mailer.to \in 1..Len(addressed) /\ InFlight(mailer.to)
    BY <1>5 DEF RecordResult, CampaignInv, InFlight, AtRest
  <2>2. /\ addressed' \in Seq({"Pending", "Sent", "Failed", "Cancelled"})
        /\ Len(addressed') = Len(addressed)
        /\ \A r \in 1..Len(addressed) : r # mailer.to => addressed'[r] = addressed[r]
    BY <1>5, <2>1, ExceptSeq DEF RecordResult, Result, CampaignInv
  <2> QED
    BY <1>5, <2>1, <2>2 DEF RecordResult, CampaignInv, StoppedInv, InFlight
<1> QED
  BY <1>1, <1>2, <1>3, <1>4, <1>5 DEF MailerStep

\* A cancellation stops the pending mails that the worker has not begun.
LEMMA CancelStep ==
    ASSUME CampaignInv, CancelRecipients
    PROVE  CampaignInv'
<1>1. /\ Len(addressed) \in Nat /\ DOMAIN addressed = 1..Len(addressed)
      /\ \A r \in 1..Len(addressed) : addressed[r] \in {"Pending", "Sent", "Failed", "Cancelled"}
  BY DEF CampaignInv
<1>2. addressed' = [r \in 1..Len(addressed) |-> IF addressed[r] = "Pending" THEN "Cancelled" ELSE addressed[r]]
  BY <1>1 DEF CancelRecipients
<1>3. addressed' \in Seq({"Pending", "Sent", "Failed", "Cancelled"}) /\ Len(addressed') = Len(addressed)
  BY <1>1, <1>2
<1>4. \A r \in 1..Recipients :
        stopped'[r] = IF r \in 1..Len(addressed) /\ addressed[r] = "Pending" /\ ~InFlight(r) THEN mails[r] ELSE stopped[r]
  BY <1>1 DEF CancelRecipients
<1>5. stopped' \in [1..Recipients -> Int]
  BY <1>1 DEF CancelRecipients, CampaignInv
<1>6. ASSUME NEW r \in 1..Recipients
      PROVE  StoppedInv(r)'
  BY <1>1, <1>2, <1>3, <1>4, <1>6 DEF CancelRecipients, CampaignInv, StoppedInv, InFlight
<1> QED
  BY <1>3, <1>5, <1>6 DEF CancelRecipients, CampaignInv

\* A crash gives the job back to the queue and mails nobody.
LEMMA MailCrashStep ==
    ASSUME CampaignInv, MailCrash
    PROVE  CampaignInv'
<1>1. posts' \subseteq 1..Len(addressed)
  BY DEF MailCrash, CampaignInv, AtRest
<1> QED
  BY <1>1 DEF MailCrash, CampaignInv, StoppedInv, InFlight

\* The queue, the worker and what was stopped stay in step, in every reachable state.
THEOREM CampaignsInvariant == CampaignsSpec => []CampaignInv
<1>1. CampaignsInit => CampaignInv
  BY RecipientsAssumption DEF CampaignsInit, CampaignInv, StoppedInv, NotStopped
<1>2. CampaignInv /\ [CampaignsNext]_campaignVars => CampaignInv'
  <2> SUFFICES ASSUME CampaignInv, [CampaignsNext]_campaignVars
               PROVE  CampaignInv'
    OBVIOUS
  <2>1. CASE GetCampaignStatus \/ MarkCompleted \/ CancelCampaign
    BY <2>1 DEF GetCampaignStatus, MarkCompleted, CancelCampaign, CampaignInv, StoppedInv, InFlight
  <2>2. CASE UNCHANGED campaignVars
    BY <2>2 DEF campaignVars, CampaignInv, StoppedInv, InFlight
  <2> QED
    BY <2>1, <2>2, FillingSteps, MailerSteps, CancelStep, MailCrashStep DEF CampaignsNext
<1> QED
  BY <1>1, <1>2, PTL DEF CampaignsSpec

\* A recipient whose mail a cancellation stopped gets none after it, for any
\* number of recipients, cancellations and crashes.
THEOREM StoppedStaysUnmailedHolds == CampaignsSpec => []StoppedStaysUnmailed
<1>1. CampaignInv => StoppedStaysUnmailed
  BY DEF CampaignInv, StoppedInv, StoppedStaysUnmailed
<1> QED
  BY <1>1, CampaignsInvariant, PTL
=============================================================================
