-------------------------- MODULE SubmissionsProofs --------------------------
(* Concurrent requests about submissions, for any number of jobs, candidates, *)
(* submissions and clients and any saves.                                     *)
EXTENDS Submissions, FiniteSetTheorems, SequenceTheorems, WellFoundedInduction, TLAPS

\* What update() saves is a row.
LEMMA SavedRowType ==
    ASSUME NEW w \in Row, NEW dto \in Dto
    PROVE  SavedRow(w, dto) \in Row
<1> DEFINE m == RoundUpdate(w, dto)
<1>1. m \in Row
  BY DEF RoundUpdate, SentStatus, Row, Dto, RoundStatus, Dates, Remarks, Absent
<1>2. SavedOutcome(w, m, dto) \in Outcome
  BY <1>1 DEF SavedOutcome, Row, Dto, Outcome
<1> HIDE DEF m
<1>3. \A V : [status |-> [r \in Rounds |-> IF r \in V THEN "PENDING" ELSE m.status[r]],
              date |-> [r \in Rounds |-> IF r \in V THEN "none" ELSE m.date[r]],
              remarks |-> [r \in Rounds |-> IF r \in V THEN "none" ELSE m.remarks[r]],
              final |-> SavedOutcome(w, m, dto)] \in Row
  BY <1>1, <1>2 DEF Row, RoundStatus, Dates, Remarks
<1> QED
  BY <1>3 DEF SavedRow, m

\* A new submission has a row.
LEMMA NewRowType ==
    ASSUME NEW final \in Outcome
    PROVE  NewRow(final) \in Row
  BY DEF NewRow, Row, RoundStatus, Dates, Remarks

\* A save that validateTrackerUpdate accepts is one that a paused job refuses.
LEMMA ValidIsWorkflowChange ==
    ASSUME NEW w, NEW from, NEW dto, NEW caps, ValidateTrackerUpdate(w, from, dto, caps)
    PROVE  WorkflowChange(dto)
  BY DEF ValidateTrackerUpdate, WorkflowChange

Actors == {Actor[c] : c \in Clients}
Events == [kind : {"CREATED", "BASELINE", "UPDATE"}, request : Requests \cup {"created", "baseline"},
           dto : Dtos \cup {Absent}, actor : Actors \cup {"website", Absent}, before : Row, after : Row]

Rows == [state : {"live"}, job : Jobs, cand : Candidates, row : Row, version : Nat]
Openings == [status : Status, keepOpen : BOOLEAN, published : BOOLEAN, done : Int]

Creating == [op : {"create", "apply"}, job : Jobs, cand : Candidates]
Finding == [op : {"found"}, sub : Subs, dto : Dtos, request : Requests, expected : Int,
            rejectedFrom : Outcome \cup {Absent}, again : BOOLEAN]
Saving == [op : {"read", "checked", "refused"}, sub : Subs, dto : Dtos, request : Requests,
           expected : Int, rejectedFrom : Outcome \cup {Absent}, again : BOOLEAN,
           row : Row, version : Nat, paused : BOOLEAN]
Removing == [op : {"remove"}, sub : Subs, job : Jobs, history : BOOLEAN]
Changing == [op : {"status"}, job : Jobs, before : Status, after : Status, keepOpen : BOOLEAN]
Publishing == [op : {"publish"}, job : Jobs, publish : BOOLEAN]
Calls == {Idle} \cup Creating \cup Finding \cup Saving \cup Removing \cup Changing \cup Publishing

SubmissionsTypeOK ==
    /\ job \in [Jobs -> Openings]
    /\ sub \in [Subs -> {Unused, Deleted} \cup Rows]
    /\ events \in [Subs -> Seq(Events)]
    /\ call \in [Clients -> Calls]

\* The counter of a job counts its submissions, and only a closed job keeps them open.
JobsInv ==
    \A j \in Jobs : /\ job[j].done = Cardinality(SubsOf(j))
                    /\ job[j].keepOpen => job[j].status = "Closed"

\* One event per request.
SavedOnce ==
    \A s \in Subs : \A i, k \in DOMAIN events[s] :
        events[s][i].request \in Requests /\ events[s][i].request = events[s][k].request => i = k

\* What a request has read is about a submission that existed; an older version
\* of its row is an earlier one, and a save that was checked is of a request
\* that is not in the history of that version.
CallInv(c, u, subs, histories) ==
    LET live == subs[u.sub].state = "live"
        history == histories[u.sub]
        prior == {i \in DOMAIN history : history[i].request = u.request}
        saved == \E i \in prior : history[i].dto = u.dto /\ history[i].actor = Actor[c]
        uptodate == u.version = subs[u.sub].version
    IN /\ u.op \in {"found", "read", "checked", "refused"} =>
             subs[u.sub] # Unused /\ (u.again /\ live => saved)
       /\ u.op \in {"read", "checked"} /\ live =>
             u.version <= subs[u.sub].version /\ (uptodate => u.row = subs[u.sub].row)
       /\ u.op = "checked" =>
             /\ ValidateTrackerUpdate(u.row, u.rejectedFrom, u.dto, FullAccess)
             /\ live /\ uptodate => prior = {}
       /\ u.op \in {"checked", "refused"} /\ live => ~u.again
       /\ u.op = "remove" => subs[u.sub] # Unused /\ (live => u.job = subs[u.sub].job)
       /\ u.op = "status" /\ u.keepOpen => u.after = "Closed"

SubmissionsInv ==
    /\ SubmissionsTypeOK /\ JobsInv /\ SavedOnce /\ HistoryReplaysToRow /\ NoDuplicateSubmission
    /\ \A c \in Clients : CallInv(c, call[c], sub, events)

-----------------------------------------------------------------------------
(* Histories *)

\* A set of positions in a sequence has a last one.
LEMMA LastPosition ==
    ASSUME NEW n \in Nat, NEW T, T \subseteq 1..n, T # {}
    PROVE  \E i \in T : \A k \in T : k <= i
<1> DEFINE D == {n - i : i \in T}
<1>1. D \subseteq Nat /\ D # {}
  <2>1. \A i \in T : i \in 1..n /\ n - i \in Nat
    OBVIOUS
  <2> QED
    BY <2>1
<1> HIDE DEF D
<1>2. PICK m \in D : \A k \in D : <<k, m>> \notin OpToRel(<, Nat)
  BY <1>1, NatLessThanWellFounded, WFMin, Zenon
<1>3. \A k \in D : ~(k < m)
  BY <1>1, <1>2, Zenon DEF OpToRel
<1>4. PICK i \in T : m = n - i
  BY <1>2 DEF D
<1>5. ASSUME NEW k \in T PROVE k <= i
  <2>1. n - k \in D
    BY DEF D
  <2> QED
    BY <1>3, <1>4, <2>1
<1> QED
  BY <1>5

\* What update() appends to a history: a baseline if there is none, and the save.
LEMMA Grown ==
    ASSUME NEW S, NEW h \in Seq(S), NEW b \in Seq(S), NEW e \in S
    PROVE  LET g == h \o b \o <<e>>
           IN /\ g \in Seq(S) /\ Len(g) = Len(h) + Len(b) + 1
              /\ Len(h) \in Nat /\ Len(b) \in Nat /\ DOMAIN h = 1..Len(h) /\ DOMAIN g = 1..Len(g)
              /\ \A i \in 1..Len(h) : g[i] = h[i]
              /\ \A i \in 1..Len(b) : g[Len(h) + i] = b[i]
              /\ g[Len(g)] = e
<1>1. /\ h \o b \in Seq(S) /\ Len(h \o b) = Len(h) + Len(b)
      /\ Len(h) \in Nat /\ Len(b) \in Nat
      /\ \A i \in 1..(Len(h) + Len(b)) : (h \o b)[i] = IF i <= Len(h) THEN h[i] ELSE b[i - Len(h)]
  BY ConcatProperties, LenProperties
<1> DEFINE a == h \o b
           t == <<e>>
<1>2. t \in Seq(S) /\ Len(t) = 1 /\ t[1] = e
  OBVIOUS
<1>a. a \in Seq(S)
  BY <1>1
<1> HIDE DEF a, t
<1>3. /\ a \o t \in Seq(S) /\ Len(a \o t) = Len(a) + 1
      /\ \A i \in 1..(Len(a) + 1) : (a \o t)[i] = IF i <= Len(a) THEN a[i] ELSE t[i - Len(a)]
  <2>1. /\ a \o t \in Seq(S) /\ Len(a \o t) = Len(a) + Len(t)
        /\ \A i \in 1..(Len(a) + Len(t)) : (a \o t)[i] = IF i <= Len(a) THEN a[i] ELSE t[i - Len(a)]
    BY <1>2, <1>a, ConcatProperties
  <2> QED
    BY <1>2, <2>1
<1>4. Len(a) = Len(h) + Len(b) /\ Len(a) \in Nat
  BY <1>1 DEF a
<1>5. \A i \in 1..Len(a) : (a \o t)[i] = a[i]
  BY <1>3, <1>4
<1>6. \A i \in 1..Len(h) : (a \o t)[i] = h[i]
  BY <1>1, <1>4, <1>5 DEF a
<1>7. \A i \in 1..Len(b) : (a \o t)[Len(h) + i] = b[i]
  BY <1>1, <1>4, <1>5 DEF a
<1>8. (a \o t)[Len(a \o t)] = e
  BY <1>2, <1>3, <1>4
<1>9. DOMAIN h = 1..Len(h) /\ DOMAIN (a \o t) = 1..Len(a \o t)
  BY <1>3, LenProperties
<1> QED
  BY <1>1, <1>3, <1>4, <1>6, <1>7, <1>8, <1>9 DEF a, t

\* rejection_from_status is an outcome, if there is one.
LEMMA RejectedFromType ==
    ASSUME SubmissionsTypeOK, NEW s \in Subs
    PROVE  RejectedFrom(s) \in Outcome \cup {Absent}
<1> DEFINE into == {i \in DOMAIN events[s] : /\ events[s][i].after.final = "REJECTED"
                                             /\ events[s][i].before.final # "REJECTED"}
           last == CHOOSE i \in into : \A k \in into : k <= i
<1>1. events[s] \in Seq(Events) /\ Len(events[s]) \in Nat /\ DOMAIN events[s] = 1..Len(events[s])
  BY LenProperties DEF SubmissionsTypeOK
<1>2. CASE into = {}
  BY <1>2 DEF RejectedFrom
<1>3. CASE into # {}
  <2>1. last \in into
    BY <1>1, <1>3, LastPosition
  <2>2. events[s][last] \in Events
    BY <1>1, <2>1, ElementOfSeq
  <2>3. RejectedFrom(s) = events[s][last].before.final
    BY <1>3 DEF RejectedFrom
  <2> HIDE DEF last
  <2> QED
    BY <2>2, <2>3 DEF Events, Row
<1> QED
  BY <1>2, <1>3

-----------------------------------------------------------------------------

\* Submissions of earlier times are counted and differ, and nobody asks for anything.
LEMMA InitSubmissions == Init => SubmissionsInv
<1> SUFFICES ASSUME Init PROVE SubmissionsInv
  OBVIOUS
<1>1. \A s \in Legacy :
         /\ s \in Subs /\ LegacyOf[s][1] \in Jobs /\ LegacyOf[s][2] \in Candidates
         /\ LegacyOf[s] = <<LegacyOf[s][1], LegacyOf[s][2]>>
  BY SubsAssumption, LegacyAssumption
<1>2. \A s \in Subs :
         /\ Live(s) => s \in Legacy /\ sub[s].job = LegacyOf[s][1] /\ sub[s].cand = LegacyOf[s][2]
         /\ s \in Legacy => Live(s) /\ sub[s].job = LegacyOf[s][1]
  BY <1>1 DEF Init, Live, Unused
<1>3. \A j \in Jobs : SubsOf(j) = {s \in Legacy : LegacyOf[s][1] = j}
  <2> SUFFICES ASSUME NEW j \in Jobs, NEW s
               PROVE  s \in Subs /\ Live(s) /\ sub[s].job = j <=> s \in Legacy /\ LegacyOf[s][1] = j
    BY DEF SubsOf
  <2> QED
    BY <1>1, <1>2
<1>4. \A j \in Jobs : IsFiniteSet(SubsOf(j)) /\ Cardinality(SubsOf(j)) \in Nat
  BY SubsAssumption, FS_Subset, FS_CardinalityType DEF SubsOf
<1>5. SubmissionsTypeOK
  <2>1. NewRow("SUBMITTED") \in Row
    BY NewRowType DEF Outcome
  <2>2. job \in [Jobs -> Openings]
    BY <1>3, <1>4 DEF Init, Openings, Status
  <2>3. sub \in [Subs -> {Unused, Deleted} \cup Rows]
    BY <1>1, <2>1 DEF Init, Rows
  <2> QED
    BY <2>2, <2>3 DEF Init, SubmissionsTypeOK, Calls
<1>6. JobsInv /\ SavedOnce /\ HistoryReplaysToRow
  BY <1>3 DEF Init, JobsInv, SavedOnce, HistoryReplaysToRow
<1>7. NoDuplicateSubmission
  <2> SUFFICES ASSUME NEW s \in Subs, NEW t \in Subs, Live(s), Live(t),
                      <<sub[s].job, sub[s].cand>> = <<sub[t].job, sub[t].cand>>
               PROVE  s = t
    BY DEF NoDuplicateSubmission
  <2>1. LegacyOf[s][1] = LegacyOf[t][1] /\ LegacyOf[s][2] = LegacyOf[t][2]
    BY <1>2
  <2>2. LegacyOf[s] = LegacyOf[t]
    BY <1>1, <1>2, <2>1
  <2> QED
    BY <1>2, <2>2, UniqueLegacyAssumption
<1>8. \A c \in Clients : CallInv(c, call[c], sub, events)
  BY DEF Init, CallInv, Idle
<1> QED
  BY <1>5, <1>6, <1>7, <1>8 DEF SubmissionsInv

-----------------------------------------------------------------------------
(* Requests come, go on and end *)

\* A request that only reads: what it keeps is true of what it has read.
LEMMA Asking ==
    ASSUME SubmissionsInv, NEW c \in Clients, NEW k \in Calls, CallInv(c, k, sub, events),
           call' = [call EXCEPT ![c] = k], UNCHANGED <<job, sub, events>>
    PROVE  SubmissionsInv'
<1>1. SubmissionsTypeOK'
  BY DEF SubmissionsInv, SubmissionsTypeOK
<1>2. \A d \in Clients : call'[d] = IF d = c THEN k ELSE call[d]
  BY DEF SubmissionsInv, SubmissionsTypeOK
<1>3. \A d \in Clients : CallInv(d, call'[d], sub', events')
  BY <1>2 DEF SubmissionsInv
<1>4. JobsInv'
  BY DEF SubmissionsInv, JobsInv, SubsOf, Live
<1>5. SavedOnce' /\ HistoryReplaysToRow' /\ NoDuplicateSubmission'
  BY DEF SubmissionsInv, SavedOnce, HistoryReplaysToRow, NoDuplicateSubmission, Live
<1> QED
  BY <1>1, <1>3, <1>4, <1>5 DEF SubmissionsInv

\* Reads before a transaction
LEMMA ReadSteps ==
    ASSUME SubmissionsInv, NEW c \in Clients,
           \/ \E j \in Jobs, cand \in Candidates : CreateRead(c, j, cand) \/ ApplyRead(c, j, cand)
           \/ \E s \in Subs : RemoveRead(c, s)
           \/ \E j \in Jobs, status \in Status, keep \in BOOLEAN : StatusRead(c, j, status, keep)
           \/ \E j \in Jobs, publish \in BOOLEAN : PublishRead(c, j, publish)
           \/ Abandon(c)
    PROVE  SubmissionsInv'
<1>1. ASSUME NEW j \in Jobs, NEW cand \in Candidates, CreateRead(c, j, cand) \/ ApplyRead(c, j, cand)
      PROVE  SubmissionsInv'
  <2>1. PICK op \in {"create", "apply"} : /\ call' = [call EXCEPT ![c] = [op |-> op, job |-> j, cand |-> cand]]
                                          /\ UNCHANGED <<job, sub, events>>
    BY <1>1 DEF CreateRead, ApplyRead, Begin
  <2> DEFINE k == [op |-> op, job |-> j, cand |-> cand]
  <2>2. k \in Calls /\ CallInv(c, k, sub, events)
    BY DEF Calls, Creating, CallInv
  <2> QED
    BY <2>1, <2>2, Asking
<1>2. ASSUME NEW s \in Subs, RemoveRead(c, s)
      PROVE  SubmissionsInv'
  <2> DEFINE k == [op |-> "remove", sub |-> s, job |-> sub[s].job, history |-> events[s] # <<>>]
  <2>1. call' = [call EXCEPT ![c] = k] /\ UNCHANGED <<job, sub, events>> /\ Live(s)
    BY <1>2 DEF RemoveRead, Begin
  <2>2. sub[s] \in Rows
    BY <2>1 DEF Live, SubmissionsInv, SubmissionsTypeOK, Unused, Deleted
  <2>3. k \in Removing
    BY <2>2 DEF Removing, Rows
  <2>4. k \in Calls /\ CallInv(c, k, sub, events)
    BY <2>1, <2>3 DEF Calls, CallInv, Live, Unused
  <2> HIDE DEF k
  <2> QED
    BY <2>1, <2>4, Asking
<1>3. ASSUME NEW j \in Jobs, NEW status \in Status, NEW keep \in BOOLEAN, StatusRead(c, j, status, keep)
      PROVE  SubmissionsInv'
  <2> DEFINE k == [op |-> "status", job |-> j, before |-> job[j].status, after |-> status,
                   keepOpen |-> status = "Closed" /\ keep]
  <2>1. call' = [call EXCEPT ![c] = k] /\ UNCHANGED <<job, sub, events>>
    BY <1>3 DEF StatusRead, Begin
  <2>2. k \in Changing
    BY DEF Changing, SubmissionsInv, SubmissionsTypeOK, Openings
  <2>3. k \in Calls /\ CallInv(c, k, sub, events)
    BY <2>2 DEF Calls, CallInv
  <2> HIDE DEF k
  <2> QED
    BY <2>1, <2>3, Asking
<1>4. ASSUME NEW j \in Jobs, NEW publish \in BOOLEAN, PublishRead(c, j, publish)
      PROVE  SubmissionsInv'
  <2> DEFINE k == [op |-> "publish", job |-> j, publish |-> publish]
  <2>1. call' = [call EXCEPT ![c] = k] /\ UNCHANGED <<job, sub, events>>
    BY <1>4 DEF PublishRead, Begin
  <2>2. k \in Calls /\ CallInv(c, k, sub, events)
    BY DEF Calls, Publishing, CallInv
  <2> HIDE DEF k
  <2> QED
    BY <2>1, <2>2, Asking
<1>5. ASSUME Abandon(c)
      PROVE  SubmissionsInv'
  <2>1. Idle \in Calls /\ CallInv(c, Idle, sub, events)
    BY DEF Calls, CallInv, Idle
  <2> QED
    BY <1>5, <2>1, Asking DEF Abandon, End
<1> QED
  BY <1>1, <1>2, <1>3, <1>4, <1>5

\* update(), line 1364: whether the request is a retry is known from here on.
LEMMA FindStep ==
    ASSUME SubmissionsInv, NEW c \in Clients, NEW s \in Subs, NEW dto \in Dtos, NEW request \in Requests,
           NEW expected \in BOOLEAN, UpdateFindOne(c, s, dto, request, expected)
    PROVE  SubmissionsInv'
<1> DEFINE again == \E i \in Prior(s, request) : events[s][i].dto = dto /\ events[s][i].actor = Actor[c]
           k == [op |-> "found", sub |-> s, dto |-> dto, request |-> request,
                 expected |-> IF expected THEN sub[s].version ELSE AnyVersion,
                 rejectedFrom |-> RejectedFrom(s), again |-> again]
<1>1. call' = [call EXCEPT ![c] = k] /\ UNCHANGED <<job, sub, events>> /\ Live(s)
  BY DEF UpdateFindOne, Begin
<1>2. sub[s] \in Rows
  BY <1>1 DEF Live, SubmissionsInv, SubmissionsTypeOK, Unused, Deleted
<1>3. (IF expected THEN sub[s].version ELSE AnyVersion) \in Int
  BY <1>2 DEF Rows, AnyVersion
<1>4. RejectedFrom(s) \in Outcome \cup {Absent}
  BY RejectedFromType DEF SubmissionsInv
<1>5. again \in BOOLEAN
  OBVIOUS
<1>6. CallInv(c, k, sub, events)
  BY <1>1 DEF CallInv, Live, Unused, Prior
<1> HIDE DEF again
<1>7. k \in Finding
  BY <1>3, <1>4, <1>5 DEF Finding
<1>8. k \in Calls
  BY <1>7 DEF Calls
<1> HIDE DEF k
<1> QED
  BY <1>1, <1>6, <1>8, Asking

\* A request that is looking at a submission has the fields of one.
LEMMA OpenCalls ==
    ASSUME SubmissionsInv, NEW c \in Clients
    PROVE  /\ call[c] \in Calls /\ CallInv(c, call[c], sub, events)
           /\ call[c].op = "found" => call[c] \in Finding
           /\ call[c].op \in {"read", "checked", "refused"} => call[c] \in Saving
           /\ call[c].op \in {"create", "apply"} => call[c] \in Creating
           /\ call[c].op = "remove" => call[c] \in Removing
           /\ call[c].op = "status" => call[c] \in Changing
           /\ call[c].op = "publish" => call[c] \in Publishing
<1>1. call[c] \in Calls /\ CallInv(c, call[c], sub, events)
  BY DEF SubmissionsInv, SubmissionsTypeOK
<1> QED
  BY <1>1 DEF Calls, Idle, Finding, Saving, Creating, Removing, Changing, Publishing

\* update(), line 1367: the row that the save will be judged by.
LEMMA ReadStep ==
    ASSUME SubmissionsInv, NEW c \in Clients, UpdateRead(c)
    PROVE  SubmissionsInv'
<1> DEFINE u == call[c]
           k == [op |-> "read", sub |-> u.sub, dto |-> u.dto, request |-> u.request,
                 expected |-> u.expected, rejectedFrom |-> u.rejectedFrom, again |-> u.again,
                 row |-> sub[u.sub].row, version |-> sub[u.sub].version, paused |-> Paused(sub[u.sub].job)]
<1>1. u \in Finding /\ Live(u.sub) /\ CallInv(c, u, sub, events) /\ u.op = "found"
  BY OpenCalls DEF UpdateRead
<1>2. call' = [call EXCEPT ![c] = k] /\ UNCHANGED <<job, sub, events>>
  BY DEF UpdateRead
<1>3. u.sub \in Subs /\ sub[u.sub] \in Rows
  BY <1>1 DEF Finding, Live, SubmissionsInv, SubmissionsTypeOK, Unused, Deleted
<1>4. Paused(sub[u.sub].job) \in BOOLEAN
  BY DEF Paused
<1>5. k \in Saving
  BY <1>1, <1>3, <1>4 DEF Finding, Saving, Rows
<1>6. CallInv(c, k, sub, events)
  BY <1>1, <1>3 DEF CallInv, Live, Rows
<1>7. k \in Calls
  BY <1>5 DEF Calls
<1> HIDE DEF k
<1> QED
  BY <1>2, <1>6, <1>7, Asking

\* update(), lines 1391-1484: what was saved before is found, and only a valid
\* save of an open job gets further.
LEMMA CheckStep ==
    ASSUME SubmissionsInv, NEW c \in Clients, UpdateCheck(c)
    PROVE  SubmissionsInv'
<1> DEFINE u == call[c]
           prior == Prior(u.sub, u.request)
           same(i) == events[u.sub][i].dto = u.dto /\ events[u.sub][i].actor = Actor[c]
<1>1. u \in Saving /\ CallInv(c, u, sub, events) /\ u.op = "read" /\ UNCHANGED <<job, sub, events>>
  BY OpenCalls DEF UpdateCheck
<1>2. prior = {} => (u.again => ~Live(u.sub))
  BY <1>1 DEF CallInv, Prior, Live
<1>3. (\E i \in prior : same(i)) => \A i \in prior : same(i)
  <2> SUFFICES ASSUME NEW i \in prior, NEW k \in prior, same(i) PROVE same(k)
    OBVIOUS
  <2>1. i = k
    BY <1>1 DEF Prior, SubmissionsInv, SavedOnce, Saving
  <2> QED
    BY <2>1
<1>4. CASE End(c)
  <2>1. Idle \in Calls /\ CallInv(c, Idle, sub, events)
    BY DEF Calls, CallInv, Idle
  <2> QED
    BY <1>1, <1>4, <2>1, Asking DEF End
<1>5. CASE /\ Goto(c, "refused")
           /\ prior = {} \/ ~\A i \in prior : same(i)
  <2> DEFINE k == [u EXCEPT !.op = "refused"]
  <2>1. call' = [call EXCEPT ![c] = k]
    BY <1>5 DEF Goto, SubmissionsInv, SubmissionsTypeOK
  <2>2. /\ k \in Saving /\ k.op = "refused" /\ k.sub = u.sub /\ k.again = u.again
        /\ k.request = u.request /\ k.dto = u.dto
    BY <1>1 DEF Saving
  <2> HIDE DEF k
  <2>3. Live(u.sub) => ~u.again
    BY <1>1, <1>2, <1>3, <1>5 DEF CallInv, Prior, Live
  <2>4. k \in Calls /\ CallInv(c, k, sub, events)
    BY <1>1, <2>2, <2>3 DEF Calls, CallInv, Live
  <2> QED
    BY <1>1, <2>1, <2>4, Asking
<1>6. CASE Goto(c, "checked") /\ prior = {} /\ Acceptable(u)
  <2> DEFINE k == [u EXCEPT !.op = "checked"]
  <2>1. call' = [call EXCEPT ![c] = k]
    BY <1>6 DEF Goto, SubmissionsInv, SubmissionsTypeOK
  <2>2. /\ k \in Saving /\ k.op = "checked" /\ k.sub = u.sub /\ k.again = u.again
        /\ k.request = u.request /\ k.dto = u.dto /\ k.row = u.row /\ k.version = u.version
        /\ k.rejectedFrom = u.rejectedFrom
    BY <1>1 DEF Saving
  <2> HIDE DEF k
  <2>3. ValidateTrackerUpdate(u.row, u.rejectedFrom, u.dto, SubmissionCapabilities(FullAccess, u.paused))
        /\ ~(u.paused /\ WorkflowChange(u.dto))
    BY <1>6 DEF Acceptable
  <2>4. ~u.paused
    BY <2>3, ValidIsWorkflowChange
  <2>5. SubmissionCapabilities(FullAccess, u.paused) = FullAccess
    BY <2>4 DEF SubmissionCapabilities
  <2>6. ValidateTrackerUpdate(u.row, u.rejectedFrom, u.dto, FullAccess)
    BY <2>3, <2>5
  <2>7. k \in Calls /\ CallInv(c, k, sub, events)
    BY <1>1, <1>2, <1>6, <2>2, <2>6 DEF Calls, CallInv, Live, Prior
  <2> QED
    BY <1>1, <2>1, <2>7, Asking
<1> QED
  BY <1>4, <1>5, <1>6 DEF UpdateCheck

-----------------------------------------------------------------------------
(* Transactions *)

\* A transaction that ends its request, or belongs to none, leaves the others
\* what they know.
LEMMA Settling ==
    ASSUME SubmissionsInv, UNCHANGED call \/ \E c \in Clients : End(c),
           \A d \in Clients, u \in Calls : CallInv(d, u, sub, events) => CallInv(d, u, sub', events')
    PROVE  /\ call' \in [Clients -> Calls]
           /\ \A d \in Clients : CallInv(d, call'[d], sub', events')
<1>1. /\ call \in [Clients -> Calls] /\ Idle \in Calls
      /\ \A d \in Clients : call[d] \in Calls /\ CallInv(d, call[d], sub, events)
  BY DEF SubmissionsInv, SubmissionsTypeOK, Calls
<1>2. call' \in [Clients -> Calls] /\ \A d \in Clients : call'[d] \in {Idle, call[d]}
  BY <1>1 DEF End
<1>3. \A d \in Clients : CallInv(d, Idle, sub', events')
  BY DEF CallInv, Idle
<1> QED
  BY <1>1, <1>2, <1>3

\* The submissions of a job are finitely many.
LEMMA SubsOfFinite ==
    ASSUME NEW j
    PROVE  IsFiniteSet(SubsOf(j)) /\ Cardinality(SubsOf(j)) \in Nat
  BY SubsAssumption, FS_Subset, FS_CardinalityType DEF SubsOf

\* A new submission, which nobody has seen before
LEMMA InsertStep ==
    ASSUME SubmissionsInv, NEW c \in Clients, NEW s \in Subs, NEW j \in Jobs, NEW cand \in Candidates,
           NEW final \in {"SUBMITTED", "PENDING_APPROVAL"}, NEW actor \in Actors \cup {"website"},
           ~Duplicate(j, cand), Insert(s, j, cand, final, "created", actor), End(c)
    PROVE  SubmissionsInv'
<1> DEFINE new == [state |-> "live", job |-> j, cand |-> cand, row |-> NewRow(final), version |-> 0]
           e == Event("CREATED", "created", Absent, actor, NewRow(final), NewRow(final))
<1>1. /\ job \in [Jobs -> Openings] /\ sub \in [Subs -> {Unused, Deleted} \cup Rows]
      /\ events \in [Subs -> Seq(Events)] /\ sub[s] = Unused
  BY DEF SubmissionsInv, SubmissionsTypeOK, Insert
<1>2. /\ sub' = [sub EXCEPT ![s] = new] /\ events' = [events EXCEPT ![s] = <<e>>]
      /\ job' = [job EXCEPT ![j] = [job[j] EXCEPT !.done = job[j].done + 1]]
  BY <1>1 DEF Insert
<1>3. NewRow(final) \in Row
  BY NewRowType DEF Outcome
<1>4. new \in Rows /\ new.state = "live" /\ new.job = j /\ new.cand = cand
  BY <1>3 DEF Rows
<1>5. e \in Events /\ e.kind = "CREATED" /\ e.after = NewRow(final)
  BY <1>3 DEF Event, Events
<1>6. <<e>> \in Seq(Events) /\ Len(<<e>>) = 1 /\ <<e>>[1] = e /\ DOMAIN <<e>> = 1..1
  BY <1>5
<1>7. new.row = NewRow(final)
  OBVIOUS
<1> DEFINE h == <<e>>
<1> HIDE DEF e, new, h
<1>8. /\ \A t \in Subs : sub'[t] = IF t = s THEN new ELSE sub[t]
      /\ \A t \in Subs : events'[t] = IF t = s THEN h ELSE events[t]
  BY <1>1, <1>2 DEF h
<1>9. /\ sub' \in [Subs -> {Unused, Deleted} \cup Rows]
      /\ events' \in [Subs -> Seq(Events)] /\ job' \in [Jobs -> Openings]
  <2>1. job[j] \in Openings
    BY <1>1
  <2>2. [job[j] EXCEPT !.done = job[j].done + 1] \in Openings
    BY <2>1 DEF Openings
  <2> QED
    BY <1>1, <1>2, <1>4, <1>6, <2>2
<1>10. /\ call' \in [Clients -> Calls]
       /\ \A d \in Clients : CallInv(d, call'[d], sub', events')
  <2>1. ASSUME NEW d \in Clients, NEW u \in Calls, CallInv(d, u, sub, events)
        PROVE  CallInv(d, u, sub', events')
    <3>1. u.op \in {"found", "read", "checked", "refused", "remove"} => u.sub \in Subs
      BY DEF Calls, Idle, Finding, Saving, Creating, Removing, Changing, Publishing
    <3>2. u.op \in {"found", "read", "checked", "refused", "remove"} =>
             sub'[u.sub] = sub[u.sub] /\ events'[u.sub] = events[u.sub]
      BY <1>1, <1>8, <2>1, <3>1 DEF CallInv
    <3> QED
      BY <2>1, <3>2 DEF CallInv
  <2> QED
    BY <2>1, Settling
<1>11. JobsInv'
  <2>1. j = new.job /\ s \notin SubsOf(j) /\ SubsOf(j)' = SubsOf(j) \cup {s}
    BY <1>1, <1>4, <1>8 DEF SubsOf, Live, Unused
  <2>2. Cardinality(SubsOf(j)') = Cardinality(SubsOf(j)) + 1
    BY <2>1, SubsOfFinite, FS_AddElement
  <2>3. ASSUME NEW i \in Jobs \ {j} PROVE SubsOf(i)' = SubsOf(i)
    <3>1. \A t \in Subs : Live(t)' /\ sub'[t].job = i <=> Live(t) /\ sub[t].job = i
      BY <1>1, <1>4, <1>8 DEF Live, Unused
    <3> QED
      BY <3>1 DEF SubsOf
  <2>4. /\ job'[j].done = job[j].done + 1 /\ job'[j].keepOpen = job[j].keepOpen /\ job'[j].status = job[j].status
        /\ \A i \in Jobs \ {j} : job'[i] = job[i]
    BY <1>1, <1>2 DEF Openings
  <2> QED
    BY <2>2, <2>3, <2>4 DEF SubmissionsInv, JobsInv
<1>12. SavedOnce'
  BY <1>6, <1>8 DEF SubmissionsInv, SavedOnce, h
<1>13. HistoryReplaysToRow'
  <2> SUFFICES ASSUME NEW t \in Subs, Live(t)', events'[t] # <<>>
               PROVE  /\ events'[t][1].kind \in {"CREATED", "BASELINE"}
                      /\ \A i \in 2..Len(events'[t]) :
                            events'[t][i].kind = "UPDATE" /\ events'[t][i].before = events'[t][i - 1].after
                      /\ events'[t][Len(events'[t])].after = sub'[t].row
    BY DEF HistoryReplaysToRow
  <2>1. CASE t = s
    BY <1>5, <1>6, <1>7, <1>8, <2>1 DEF h
  <2>2. CASE t # s
    BY <1>8, <2>2 DEF SubmissionsInv, HistoryReplaysToRow, Live
  <2> QED
    BY <2>1, <2>2
<1>14. NoDuplicateSubmission'
  BY <1>4, <1>8 DEF SubmissionsInv, NoDuplicateSubmission, Duplicate, SubsOf, Live
<1> QED
  BY <1>9, <1>10, <1>11, <1>12, <1>13, <1>14 DEF SubmissionsInv, SubmissionsTypeOK

\* create() and apply(), their transactions
LEMMA CreateSteps ==
    ASSUME SubmissionsInv, NEW c \in Clients, CreateCommit(c) \/ ApplyCommit(c)
    PROVE  SubmissionsInv'
<1>1. call[c] \in Creating
  BY OpenCalls DEF CreateCommit, ApplyCommit
<1>2. call[c].job \in Jobs /\ call[c].cand \in Candidates /\ Actor[c] \in Actors
  BY <1>1 DEF Creating, Actors
<1>3. CASE End(c) /\ UNCHANGED <<job, sub, events>>
  <2>1. Idle \in Calls /\ CallInv(c, Idle, sub, events)
    BY DEF Calls, CallInv, Idle
  <2> QED
    BY <1>3, <2>1, Asking DEF End
<1>4. CASE /\ ~Duplicate(call[c].job, call[c].cand) /\ End(c)
           /\ \E s \in Subs, final \in {"SUBMITTED", "PENDING_APPROVAL"}, actor \in Actors \cup {"website"} :
                 Insert(s, call[c].job, call[c].cand, final, "created", actor)
  BY <1>2, <1>4, InsertStep
<1> QED
  BY <1>2, <1>3, <1>4 DEF CreateCommit, ApplyCommit

\* A submission is gone, with its history, and is no longer counted.
LEMMA DeleteStep ==
    ASSUME SubmissionsInv, NEW s \in Subs, Live(s), UNCHANGED call \/ \E c \in Clients : End(c),
           sub' = [sub EXCEPT ![s] = Deleted], events' = [events EXCEPT ![s] = <<>>],
           job' = [job EXCEPT ![sub[s].job].done = @ - 1]
    PROVE  SubmissionsInv'
<1>1. /\ job \in [Jobs -> Openings] /\ sub \in [Subs -> {Unused, Deleted} \cup Rows]
      /\ events \in [Subs -> Seq(Events)] /\ sub[s] \in Rows
  BY DEF SubmissionsInv, SubmissionsTypeOK, Live, Unused, Deleted
<1>2. PICK j \in Jobs : j = sub[s].job /\ job[j] \in Openings
  BY <1>1 DEF Rows
<1>3. /\ \A t \in Subs : sub'[t] = IF t = s THEN Deleted ELSE sub[t]
      /\ \A t \in Subs : events'[t] = IF t = s THEN <<>> ELSE events[t]
      /\ job' = [job EXCEPT ![j] = [job[j] EXCEPT !.done = job[j].done - 1]]
  BY <1>1, <1>2
<1>4. /\ sub' \in [Subs -> {Unused, Deleted} \cup Rows]
      /\ events' \in [Subs -> Seq(Events)] /\ job' \in [Jobs -> Openings]
  <2>1. [job[j] EXCEPT !.done = job[j].done - 1] \in Openings
    BY <1>2 DEF Openings
  <2>2. <<>> \in Seq(Events)
    OBVIOUS
  <2> QED
    BY <1>1, <1>2, <1>3, <2>1, <2>2
<1>5. ~Live(s)' /\ \A t \in Subs \ {s} : (Live(t)' <=> Live(t)) /\ sub'[t] = sub[t]
  BY <1>3 DEF Live, Deleted
<1>6. /\ call' \in [Clients -> Calls]
      /\ \A d \in Clients : CallInv(d, call'[d], sub', events')
  <2>1. ASSUME NEW d \in Clients, NEW u \in Calls, CallInv(d, u, sub, events)
        PROVE  CallInv(d, u, sub', events')
    <3>1. u.op \in {"found", "read", "checked", "refused", "remove"} => u.sub \in Subs
      BY DEF Calls, Idle, Finding, Saving, Creating, Removing, Changing, Publishing
    <3>2. CASE u.op \in {"found", "read", "checked", "refused", "remove"} /\ u.sub = s
      <4>1. sub'[u.sub] = Deleted /\ Deleted # Unused /\ Deleted.state # "live"
        BY <1>3, <3>2 DEF Deleted, Unused
      <4> QED
        BY <2>1, <3>2, <4>1 DEF CallInv
    <3>3. CASE u.op \in {"found", "read", "checked", "refused", "remove"} /\ u.sub # s
      <4>1. sub'[u.sub] = sub[u.sub] /\ events'[u.sub] = events[u.sub]
        BY <1>3, <3>1, <3>3
      <4> QED
        BY <2>1, <4>1 DEF CallInv
    <3>4. CASE u.op \notin {"found", "read", "checked", "refused", "remove"}
      BY <2>1, <3>4 DEF CallInv
    <3> QED
      BY <3>2, <3>3, <3>4
  <2> QED
    BY <2>1, Settling
<1>7. JobsInv'
  <2>1. s \in SubsOf(j) /\ SubsOf(j)' = SubsOf(j) \ {s}
    BY <1>2, <1>3, <1>5 DEF SubsOf
  <2>2. Cardinality(SubsOf(j)') = Cardinality(SubsOf(j)) - 1
    BY <2>1, SubsOfFinite, FS_RemoveElement
  <2>3. \A i \in Jobs \ {j} : SubsOf(i)' = SubsOf(i)
    BY <1>2, <1>3, <1>5 DEF SubsOf
  <2>4. /\ job'[j].done = job[j].done - 1 /\ job'[j].keepOpen = job[j].keepOpen /\ job'[j].status = job[j].status
        /\ \A i \in Jobs \ {j} : job'[i] = job[i]
    BY <1>1, <1>2, <1>3 DEF Openings
  <2> QED
    BY <2>2, <2>3, <2>4 DEF SubmissionsInv, JobsInv
<1>8. SavedOnce'
  BY <1>3 DEF SubmissionsInv, SavedOnce
<1>9. HistoryReplaysToRow' /\ NoDuplicateSubmission'
  <2>1. HistoryReplaysToRow'
    BY <1>3, <1>5 DEF SubmissionsInv, HistoryReplaysToRow
  <2>2. NoDuplicateSubmission'
    BY <1>5 DEF SubmissionsInv, NoDuplicateSubmission
  <2> QED
    BY <2>1, <2>2
<1> QED
  BY <1>4, <1>6, <1>7, <1>8, <1>9 DEF SubmissionsInv, SubmissionsTypeOK

\* A submission that is there is counted, so that permanentlyRemove() always
\* takes one off.
LEMMA CountedOut ==
    ASSUME SubmissionsInv, NEW s \in Subs, PermanentlyRemove(s)
    PROVE  job' = [job EXCEPT ![sub[s].job].done = @ - 1]
<1>1. sub[s] \in Rows /\ Live(s)
  <2>1. Live(s) /\ sub \in [Subs -> {Unused, Deleted} \cup Rows]
    BY DEF PermanentlyRemove, SubmissionsInv, SubmissionsTypeOK
  <2> QED
    BY <2>1 DEF Live, Unused, Deleted
<1>2. PICK j \in Jobs : j = sub[s].job /\ job[j] \in Openings
  BY <1>1 DEF Rows, SubmissionsInv, SubmissionsTypeOK
<1>3. s \in SubsOf(j)
  BY <1>1, <1>2 DEF SubsOf
<1>4. job[j].done > 0
  <2>1. Cardinality(SubsOf(j)) # 0 /\ Cardinality(SubsOf(j)) \in Nat
    BY <1>3, SubsOfFinite, FS_EmptySet
  <2> QED
    BY <2>1 DEF SubmissionsInv, JobsInv
<1> QED
  BY <1>2, <1>4 DEF PermanentlyRemove

\* remove() and permanentlyRemove()
LEMMA RemoveSteps ==
    ASSUME SubmissionsInv,
           (\E c \in Clients : RemoveCommit(c)) \/ \E s \in Subs : PermanentlyRemove(s)
    PROVE  SubmissionsInv'
<1>1. ASSUME NEW c \in Clients, RemoveCommit(c)
      PROVE  SubmissionsInv'
  <2>1. call[c] \in Removing /\ CallInv(c, call[c], sub, events) /\ call[c].op = "remove" /\ Live(call[c].sub)
    BY <1>1, OpenCalls DEF RemoveCommit
  <2>2. PICK s \in Subs : s = call[c].sub
    BY <2>1 DEF Removing
  <2>3. call[c].job = sub[s].job
    BY <2>1, <2>2 DEF CallInv, Live
  <2>4. events' = [events EXCEPT ![s] = <<>>]
    BY <1>1, <2>2 DEF RemoveCommit, SubmissionsInv, SubmissionsTypeOK
  <2> QED
    BY <1>1, <2>1, <2>2, <2>3, <2>4, DeleteStep DEF RemoveCommit
<1>2. ASSUME NEW s \in Subs, PermanentlyRemove(s)
      PROVE  SubmissionsInv'
  <2>1. job' = [job EXCEPT ![sub[s].job].done = @ - 1]
    BY <1>2, CountedOut
  <2> QED
    BY <1>2, <2>1, DeleteStep DEF PermanentlyRemove
<1> QED
  BY <1>1, <1>2

\* changeStatus() and setPublished()
LEMMA JobSteps ==
    ASSUME SubmissionsInv, NEW c \in Clients, StatusCommit(c) \/ PublishCommit(c)
    PROVE  SubmissionsInv'
<1>1. /\ job \in [Jobs -> Openings] /\ sub' = sub /\ events' = events /\ End(c)
      /\ \A j \in Jobs : job[j] \in Openings
  BY DEF SubmissionsInv, SubmissionsTypeOK, StatusCommit, PublishCommit
<1>2. PICK j \in Jobs, changed \in Openings :
         /\ job' = [job EXCEPT ![j] = changed]
         /\ changed.done = job[j].done /\ (changed.keepOpen => changed.status = "Closed")
  <2>1. CASE StatusCommit(c)
    <3>1. call[c] \in Changing /\ call[c].op = "status" /\ CallInv(c, call[c], sub, events)
      BY <2>1, OpenCalls DEF StatusCommit
    <3> DEFINE j == call[c].job
               changed == [job[j] EXCEPT !.status = call[c].after, !.keepOpen = call[c].keepOpen]
    <3>2. j \in Jobs /\ job[j] \in Openings
      BY <1>1, <3>1 DEF Changing
    <3>3. job' = [job EXCEPT ![j] = changed]
      BY <1>1, <2>1 DEF StatusCommit
    <3>4. changed \in Openings /\ changed.done = job[j].done /\ (changed.keepOpen => changed.status = "Closed")
      BY <3>1, <3>2 DEF Openings, Changing, CallInv
    <3> HIDE DEF changed
    <3> QED
      BY <3>2, <3>3, <3>4
  <2>2. CASE PublishCommit(c)
    <3>1. call[c] \in Publishing
      BY <2>2, OpenCalls DEF PublishCommit
    <3> DEFINE j == call[c].job
               changed == [job[j] EXCEPT !.published = call[c].publish]
    <3>2. j \in Jobs /\ job[j] \in Openings
      BY <1>1, <3>1 DEF Publishing
    <3>3. job' = [job EXCEPT ![j] = changed]
      BY <1>1, <2>2 DEF PublishCommit
    <3>4. changed \in Openings /\ changed.done = job[j].done /\ (changed.keepOpen => changed.status = "Closed")
      BY <3>1, <3>2 DEF Openings, Publishing, SubmissionsInv, JobsInv
    <3> HIDE DEF changed
    <3> QED
      BY <3>2, <3>3, <3>4
  <2> QED
    BY <2>1, <2>2
<1>3. call' \in [Clients -> Calls] /\ \A d \in Clients : CallInv(d, call'[d], sub', events')
  BY <1>1, Settling
<1>4. job' \in [Jobs -> Openings] /\ \A i \in Jobs : job'[i] = IF i = j THEN changed ELSE job[i]
  BY <1>1, <1>2
<1>5. \A i : SubsOf(i)' = SubsOf(i)
  BY <1>1 DEF SubsOf, Live
<1>6. JobsInv'
  BY <1>2, <1>4, <1>5 DEF SubmissionsInv, JobsInv
<1>7. SavedOnce' /\ HistoryReplaysToRow' /\ NoDuplicateSubmission'
  BY <1>1 DEF SubmissionsInv, SavedOnce, HistoryReplaysToRow, NoDuplicateSubmission, Live
<1> QED
  BY <1>1, <1>3, <1>4, <1>6, <1>7 DEF SubmissionsInv, SubmissionsTypeOK

\* What a committed save did, in terms of the submission it saved.
Written(c, s, u, base, e) ==
    /\ u = call[c] /\ s = u.sub /\ u \in Saving /\ End(c) /\ job' = job
    /\ Live(s) /\ sub[s] \in Rows /\ sub[s].version = u.version /\ sub[s].row = u.row
    /\ Prior(s, u.request) = {}
    /\ ValidateTrackerUpdate(u.row, u.rejectedFrom, u.dto, FullAccess)
    /\ ~(Paused(sub[s].job) /\ WorkflowChange(u.dto))
    /\ e = Event("UPDATE", u.request, u.dto, Actor[c], u.row, SavedRow(u.row, u.dto)) /\ e \in Events
    /\ base \in Seq(Events)
    /\ \/ events[s] # <<>> /\ base = <<>>
       \/ events[s] = <<>> /\ base = <<Event("BASELINE", "baseline", Absent, Absent, u.row, u.row)>>
    /\ events' = [events EXCEPT ![s] = events[s] \o base \o <<e>>]
    /\ sub' = [sub EXCEPT ![s] = [sub[s] EXCEPT !.row = SavedRow(u.row, u.dto), !.version = u.version + 1]]

\* The compare-and-set makes a save that of the row it was checked against.
LEMMA CommitWrites ==
    ASSUME SubmissionsInv, NEW c \in Clients, UpdateCommit(c)
    PROVE  \E s \in Subs, u \in Saving, base \in Seq(Events), e \in Events : Written(c, s, u, base, e)
<1> DEFINE u == call[c]
           s == u.sub
           base == IF events[s] # <<>> THEN <<>>
                   ELSE <<Event("BASELINE", "baseline", Absent, Absent, u.row, u.row)>>
           e == Event("UPDATE", u.request, u.dto, Actor[c], u.row, SavedRow(u.row, u.dto))
<1>1. u \in Saving /\ CallInv(c, u, sub, events) /\ u.op = "checked" /\ Live(s) /\ sub[s].version = u.version
  BY OpenCalls DEF UpdateCommit
<1>2. s \in Subs /\ u.row \in Row /\ u.dto \in Dtos /\ u.dto \in Dto /\ u.request \in Requests
  BY <1>1, SavesAssumption DEF Saving
<1>3. sub[s] \in Rows
  <2>1. sub[s] \in {Unused, Deleted} \cup Rows
    BY <1>2 DEF SubmissionsInv, SubmissionsTypeOK
  <2>2. sub[s] # Unused /\ sub[s] # Deleted
    BY <1>1 DEF Live, Unused, Deleted
  <2> QED
    BY <2>1, <2>2
<1>4. /\ sub[s].row = u.row /\ Prior(s, u.request) = {}
      /\ ValidateTrackerUpdate(u.row, u.rejectedFrom, u.dto, FullAccess)
  BY <1>1 DEF CallInv, Live, Prior
<1>5. SavedRow(u.row, u.dto) \in Row
  BY <1>2, SavedRowType
<1>6. e \in Events
  BY <1>2, <1>5 DEF Event, Events, Actors
<1>7. Event("BASELINE", "baseline", Absent, Absent, u.row, u.row) \in Events
  BY <1>2 DEF Event, Events
<1>8. base \in Seq(Events)
  BY <1>7
<1>9. /\ End(c) /\ job' = job /\ ~(Paused(sub[s].job) /\ WorkflowChange(u.dto))
      /\ events' = [events EXCEPT ![s] = events[s] \o base \o <<e>>]
      /\ sub' = [sub EXCEPT ![s].row = SavedRow(u.row, u.dto), ![s].version = u.version + 1]
  BY DEF UpdateCommit, Write
<1>10. sub' = [sub EXCEPT ![s] = [sub[s] EXCEPT !.row = SavedRow(u.row, u.dto), !.version = u.version + 1]]
  BY <1>2, <1>9 DEF SubmissionsInv, SubmissionsTypeOK
<1>11. Written(c, s, u, base, e)
  BY <1>1, <1>3, <1>4, <1>6, <1>8, <1>9, <1>10 DEF Written
<1> QED
  BY <1>1, <1>2, <1>6, <1>8, <1>11

\* update(), its transaction
LEMMA CommitStep ==
    ASSUME SubmissionsInv, NEW c \in Clients, UpdateCommit(c)
    PROVE  SubmissionsInv'
<1>1. PICK s \in Subs, u \in Saving, base \in Seq(Events), e \in Events : Written(c, s, u, base, e)
  BY CommitWrites
<1> DEFINE h == events[s]
           g == h \o base \o <<e>>
           new == [sub[s] EXCEPT !.row = SavedRow(u.row, u.dto), !.version = u.version + 1]
<1>2. /\ events \in [Subs -> Seq(Events)] /\ sub \in [Subs -> {Unused, Deleted} \cup Rows] /\ h \in Seq(Events)
  BY DEF SubmissionsInv, SubmissionsTypeOK
<1>3. /\ g \in Seq(Events) /\ Len(g) = Len(h) + Len(base) + 1 /\ Len(h) \in Nat /\ Len(base) \in Nat
      /\ DOMAIN h = 1..Len(h) /\ DOMAIN g = 1..Len(g)
      /\ \A i \in 1..Len(h) : g[i] = h[i]
      /\ \A i \in 1..Len(base) : g[Len(h) + i] = base[i]
      /\ g[Len(g)] = e
  BY <1>2, Grown
<1>4. /\ u.row \in Row /\ u.dto \in Dto /\ u.request \in Requests /\ u.version \in Nat
      /\ SavedRow(u.row, u.dto) \in Row
  BY SavesAssumption, SavedRowType DEF Saving
<1>a. sub[s].state = "live" /\ sub[s] \in Rows /\ sub[s].version = u.version
  BY <1>1 DEF Written, Live
<1>5. new \in Rows /\ new.state = "live" /\ new.job = sub[s].job /\ new.cand = sub[s].cand
      /\ new.row = SavedRow(u.row, u.dto) /\ new.version = u.version + 1
  <2>1. PICK n \in Nat : n = u.version + 1
    BY <1>4
  <2>2. PICK w \in Row : w = SavedRow(u.row, u.dto)
    BY <1>4
  <2>3. new = [sub[s] EXCEPT !.row = w, !.version = n]
    BY <2>1, <2>2
  <2> HIDE DEF new
  <2>4. /\ new \in Rows /\ new.state = "live" /\ new.job = sub[s].job /\ new.cand = sub[s].cand
        /\ new.row = w /\ new.version = n
    BY <1>a, <2>3 DEF Rows
  <2> QED
    BY <2>1, <2>2, <2>4
<1> HIDE DEF g, new
<1>6. /\ \A t \in Subs : sub'[t] = IF t = s THEN new ELSE sub[t]
      /\ \A t \in Subs : events'[t] = IF t = s THEN g ELSE events[t]
      /\ sub' \in [Subs -> {Unused, Deleted} \cup Rows] /\ events' \in [Subs -> Seq(Events)]
      /\ job' = job /\ End(c)
  BY <1>1, <1>2, <1>3, <1>5 DEF Written, g, new
<1>7. /\ \/ h # <<>> /\ Len(base) = 0 /\ Len(h) # 0
         \/ h = <<>> /\ Len(base) = 1 /\ Len(h) = 0 /\ base[1] = Event("BASELINE", "baseline", Absent, Absent, u.row, u.row)
  <2>1. CASE h # <<>> /\ base = <<>>
    BY <1>2, <2>1, EmptySeq
  <2>2. CASE h = <<>> /\ base = <<Event("BASELINE", "baseline", Absent, Absent, u.row, u.row)>>
    BY <2>2
  <2> QED
    BY <1>1, <2>1, <2>2 DEF Written
<1>8. e.kind = "UPDATE" /\ e.request = u.request /\ e.before = u.row /\ e.after = new.row
      /\ e.dto = u.dto /\ e.actor = Actor[c]
  BY <1>1, <1>5 DEF Written, Event
<1>9. /\ call' \in [Clients -> Calls]
      /\ \A d \in Clients : CallInv(d, call'[d], sub', events')
  <2>1. ASSUME NEW d \in Clients, NEW v \in Calls, CallInv(d, v, sub, events)
        PROVE  CallInv(d, v, sub', events')
    <3>1. /\ v.op \in {"found", "read", "checked", "refused", "remove"} => v.sub \in Subs
          /\ v.op \in {"read", "checked"} => v.version \in Nat
      BY DEF Calls, Idle, Finding, Saving, Creating, Removing, Changing, Publishing
    <3>2. CASE v.op \in {"found", "read", "checked", "refused", "remove"} /\ v.sub = s
      <4>1. sub'[v.sub] = new /\ events'[v.sub] = g /\ sub[v.sub].state = "live" /\ new # Unused
            /\ sub[v.sub].version = u.version /\ new.version = u.version + 1 /\ new.job = sub[v.sub].job
        BY <1>5, <1>6, <1>a, <3>2 DEF Unused
      <4>2. v.op \in {"read", "checked"} => v.version <= new.version /\ v.version # new.version
        BY <1>4, <2>1, <3>1, <4>1 DEF CallInv
      <4>3. ASSUME NEW i \in DOMAIN h, h[i].request = v.request, h[i].dto = v.dto, h[i].actor = Actor[d]
            PROVE  i \in DOMAIN g /\ g[i].request = v.request /\ g[i].dto = v.dto /\ g[i].actor = Actor[d]
        BY <1>3, <4>3
      <4> QED
        BY <2>1, <3>2, <4>1, <4>2, <4>3 DEF CallInv
    <3>3. CASE v.op \in {"found", "read", "checked", "refused", "remove"} /\ v.sub # s
      <4>1. sub'[v.sub] = sub[v.sub] /\ events'[v.sub] = events[v.sub]
        BY <1>6, <3>1, <3>3
      <4> QED
        BY <2>1, <4>1 DEF CallInv
    <3>4. CASE v.op \notin {"found", "read", "checked", "refused", "remove"}
      BY <2>1, <3>4 DEF CallInv
    <3> QED
      BY <3>2, <3>3, <3>4
  <2> QED
    BY <1>6, <2>1, Settling
<1>10. JobsInv' /\ NoDuplicateSubmission'
  <2>1. \A t \in Subs :
           /\ Live(t)' <=> Live(t)
           /\ sub'[t].job = sub[t].job /\ sub'[t].cand = sub[t].cand
    BY <1>5, <1>6, <1>a DEF Live
  <2>2. \A j : SubsOf(j)' = SubsOf(j)
    BY <2>1 DEF SubsOf
  <2>3. JobsInv'
    BY <1>6, <2>2 DEF SubmissionsInv, JobsInv
  <2>4. NoDuplicateSubmission'
    BY <2>1 DEF SubmissionsInv, NoDuplicateSubmission
  <2> QED
    BY <2>3, <2>4
<1>11. SavedOnce'
  <2> SUFFICES ASSUME NEW t \in Subs, NEW i \in DOMAIN events'[t], NEW k \in DOMAIN events'[t],
                      events'[t][i].request \in Requests, events'[t][i].request = events'[t][k].request
               PROVE  i = k
    BY DEF SavedOnce
  <2>1. CASE t # s
    BY <1>6, <2>1 DEF SubmissionsInv, SavedOnce
  <2>2. CASE t = s
    <3>1. events'[t] = g
      BY <1>6, <2>2
    <3>2. \A n \in 1..Len(g) : \/ n \in 1..Len(h) /\ g[n] = h[n]
                               \/ n = Len(g) /\ g[n] = e
                               \/ n = 1 /\ Len(h) = 0 /\ g[n].request = "baseline"
      <4>1. CASE h # <<>> /\ Len(base) = 0 /\ Len(h) # 0
        BY <1>3, <4>1
      <4>2. CASE h = <<>> /\ Len(base) = 1 /\ Len(h) = 0 /\ base[1] = Event("BASELINE", "baseline", Absent, Absent, u.row, u.row)
        BY <1>3, <4>2 DEF Event
      <4> QED
        BY <1>7, <4>1, <4>2
    <3>3. \A n \in 1..Len(h) : h[n].request # u.request
      BY <1>1, <1>3 DEF Written, Prior
    <3>4. \A n, o \in 1..Len(h) : h[n].request \in Requests /\ h[n].request = h[o].request => n = o
      BY <1>3 DEF SubmissionsInv, SavedOnce
    <3> QED
      BY <1>3, <1>8, <3>1, <3>2, <3>3, <3>4, RequestsAssumption
  <2> QED
    BY <2>1, <2>2
<1>12. HistoryReplaysToRow'
  <2> SUFFICES ASSUME NEW t \in Subs, Live(t)', events'[t] # <<>>
               PROVE  /\ events'[t][1].kind \in {"CREATED", "BASELINE"}
                      /\ \A i \in 2..Len(events'[t]) :
                            events'[t][i].kind = "UPDATE" /\ events'[t][i].before = events'[t][i - 1].after
                      /\ events'[t][Len(events'[t])].after = sub'[t].row
    BY DEF HistoryReplaysToRow
  <2>1. CASE t # s
    BY <1>6, <2>1 DEF SubmissionsInv, HistoryReplaysToRow, Live
  <2>2. CASE t = s
    <3>1. events'[t] = g /\ sub'[t].row = new.row
      BY <1>6, <2>2
    <3>2. CASE h # <<>> /\ Len(base) = 0 /\ Len(h) # 0
      <4>1. /\ h[1].kind \in {"CREATED", "BASELINE"}
            /\ \A i \in 2..Len(h) : h[i].kind = "UPDATE" /\ h[i].before = h[i - 1].after
            /\ h[Len(h)].after = u.row
        BY <1>1, <3>2 DEF SubmissionsInv, HistoryReplaysToRow, Written
      <4>2. Len(g) = Len(h) + 1 /\ g[1] = h[1] /\ g[Len(h)] = h[Len(h)]
        BY <1>3, <3>2
      <4>3. \A i \in 2..Len(g) : g[i].kind = "UPDATE" /\ g[i].before = g[i - 1].after
        <5> SUFFICES ASSUME NEW i \in 2..Len(g)
                     PROVE  g[i].kind = "UPDATE" /\ g[i].before = g[i - 1].after
          OBVIOUS
        <5>1. CASE i = Len(g)
          BY <1>3, <1>8, <4>1, <4>2, <5>1
        <5>2. CASE i # Len(g)
          <6>1. i \in 2..Len(h) /\ i \in 1..Len(h) /\ i - 1 \in 1..Len(h)
            BY <1>3, <4>2, <5>2
          <6>2. g[i] = h[i] /\ g[i - 1] = h[i - 1]
            BY <1>3, <6>1
          <6> QED
            BY <4>1, <6>1, <6>2
        <5> QED
          BY <5>1, <5>2
      <4> QED
        BY <1>3, <1>8, <3>1, <4>1, <4>2, <4>3
    <3>3. CASE h = <<>> /\ Len(base) = 1 /\ Len(h) = 0 /\ base[1] = Event("BASELINE", "baseline", Absent, Absent, u.row, u.row)
      <4>1. Len(g) = 2 /\ g[1] = base[1] /\ g[2] = e
        BY <1>3, <3>3
      <4> QED
        BY <1>8, <3>1, <3>3, <4>1 DEF Event
    <3> QED
      BY <1>7, <3>2, <3>3
  <2> QED
    BY <2>1, <2>2
<1> QED
  BY <1>6, <1>9, <1>10, <1>11, <1>12 DEF SubmissionsInv, SubmissionsTypeOK

-----------------------------------------------------------------------------

\* Every step of the service keeps the invariant.
LEMMA SubmissionsStep == SubmissionsInv /\ [Next]_vars => SubmissionsInv'
<1> SUFFICES ASSUME SubmissionsInv, [Next]_vars PROVE SubmissionsInv'
  OBVIOUS
<1>1. CASE UNCHANGED vars
  BY <1>1 DEF vars, SubmissionsInv, SubmissionsTypeOK, JobsInv, SubsOf, Live, SavedOnce,
              HistoryReplaysToRow, NoDuplicateSubmission
<1>2. CASE \E c \in Clients, s \in Subs, dto \in Dtos, request \in Requests, expected \in BOOLEAN :
             UpdateFindOne(c, s, dto, request, expected)
  BY <1>2, FindStep
<1>3. CASE \E c \in Clients : UpdateRead(c) \/ UpdateCheck(c) \/ UpdateCommit(c)
  BY <1>3, ReadStep, CheckStep, CommitStep
<1>4. CASE \E c \in Clients : CreateCommit(c) \/ ApplyCommit(c)
  BY <1>4, CreateSteps
<1>5. CASE (\E c \in Clients : RemoveCommit(c)) \/ \E s \in Subs : PermanentlyRemove(s)
  BY <1>5, RemoveSteps
<1>6. CASE \E c \in Clients : StatusCommit(c) \/ PublishCommit(c)
  BY <1>6, JobSteps
<1>7. CASE \E c \in Clients :
             \/ \E j \in Jobs, cand \in Candidates : CreateRead(c, j, cand) \/ ApplyRead(c, j, cand)
             \/ \E s \in Subs : RemoveRead(c, s)
             \/ \E j \in Jobs, status \in Status, keep \in BOOLEAN : StatusRead(c, j, status, keep)
             \/ \E j \in Jobs, publish \in BOOLEAN : PublishRead(c, j, publish)
             \/ Abandon(c)
  BY <1>7, ReadSteps
<1> QED
  BY <1>1, <1>2, <1>3, <1>4, <1>5, <1>6, <1>7, Zenon DEF Next

\* Rows, histories, counters and what requests remember of them fit together.
THEOREM SubmissionsInvariant == Spec => []SubmissionsInv
BY InitSubmissions, SubmissionsStep, PTL DEF Spec

\* Recruiters and the website never submit a candidate to a job twice.
THEOREM NoDuplicateSubmissionHolds == Spec => []NoDuplicateSubmission
<1>1. SubmissionsInv => NoDuplicateSubmission
  BY DEF SubmissionsInv
<1> QED
  BY <1>1, SubmissionsInvariant, PTL

\* The history of a submission replays to its row, however saves overlap.
THEOREM HistoryReplaysToRowHolds == Spec => []HistoryReplaysToRow
<1>1. SubmissionsInv => HistoryReplaysToRow
  BY DEF SubmissionsInv
<1> QED
  BY <1>1, SubmissionsInvariant, PTL

\* A repeated save is answered from the history: update() looks its request up
\* before it checks anything, and one event per request is ever written.
THEOREM RetryIsAnsweredHolds == Spec => []RetryIsAnswered
<1>1. SubmissionsInv => RetryIsAnswered
  BY DEF SubmissionsInv, RetryIsAnswered, CallInv, Live
<1> QED
  BY <1>1, SubmissionsInvariant, PTL

-----------------------------------------------------------------------------
(* The refinement *)

\* The operators of the rounds are the same in both specifications.
LEMMA SameRounds ==
    ASSUME NEW w, NEW dto, NEW from, NEW caps, NEW final
    PROVE  /\ Atomic!SavedRow(w, dto) = SavedRow(w, dto)
           /\ Atomic!NewRow(final) = NewRow(final)
           /\ Atomic!ValidateTrackerUpdate(w, from, dto, caps) <=> ValidateTrackerUpdate(w, from, dto, caps)
<1> USE DEF Atomic!RoundUpdate, RoundUpdate, Atomic!ResetRounds, ResetRounds, Atomic!Uncleared, Uncleared,
        Atomic!SentStatus, SentStatus, Atomic!Pristine, Pristine, Atomic!Rounds, Rounds, Atomic!Absent, Absent
<1>1. Atomic!SavedRow(w, dto) = SavedRow(w, dto) /\ Atomic!NewRow(final) = NewRow(final)
  BY DEF Atomic!SavedRow, SavedRow, Atomic!SavedOutcome, SavedOutcome, Atomic!SomeRejected, SomeRejected,
         Atomic!NewRow, NewRow
<1>2. Atomic!ValidateTrackerUpdate(w, from, dto, caps) <=> ValidateTrackerUpdate(w, from, dto, caps)
  BY DEF Atomic!ValidateTrackerUpdate, ValidateTrackerUpdate, Atomic!RoundUpdateAllowed,
         RoundUpdateAllowed, Atomic!ReviewRejectionKept, ReviewRejectionKept, Atomic!Touched,
         Touched, Atomic!RoundValid, RoundValid, Atomic!ChangedRound, ChangedRound,
         Atomic!SequenceValid, SequenceValid, Atomic!OutcomeValid, OutcomeValid,
         Atomic!SomeRejected, SomeRejected, Atomic!PlacementKept, PlacementKept,
         Atomic!NothingSent, NothingSent, Atomic!RoundPermitted, RoundPermitted,
         Atomic!AppointmentChange, AppointmentChange, Atomic!RoundsEditable, RoundsEditable,
         Atomic!ResultAllowed, ResultAllowed, Atomic!RecordingResult, RecordingResult,
         Atomic!RejectionAllowed, RejectionAllowed, Atomic!IsActiveRound, IsActiveRound,
         Atomic!SchedulingAllowed, SchedulingAllowed, Atomic!DateFitsStatus, DateFitsStatus,
         Atomic!DerivedRejection, DerivedRejection, Atomic!Progression, Progression,
         Atomic!PlacementAllowed, PlacementAllowed, Atomic!SkipsSteps, SkipsSteps, Atomic!Terminal,
         Terminal, Atomic!Placed, Placed
<1> QED
  BY <1>1, <1>2

\* create() and apply() add a submission at one instant.
LEMMA InsertIsAtomic ==
    ASSUME SubmissionsInv, NEW s \in Subs, NEW j \in Jobs, NEW cand \in Candidates, NEW website \in BOOLEAN,
           NEW final \in {"SUBMITTED", "PENDING_APPROVAL"}, NEW actor,
           job[j].status = "Active", website => job[j].published,
           ~Duplicate(j, cand), Insert(s, j, cand, final, "created", actor)
    PROVE  Atomic!Next
<1> DEFINE e == Event("CREATED", "created", Absent, actor, NewRow(final), NewRow(final))
<1>1. /\ events \in [Subs -> Seq(Events)] /\ sub[s] = Unused /\ events' = [events EXCEPT ![s] = <<e>>]
  BY DEF SubmissionsInv, SubmissionsTypeOK, Insert
<1>2. Len(events'[s]) = 1 /\ \A t \in Subs \ {s} : events'[t] = events[t]
  BY <1>1
<1>3. Atomic!Fresh(j, cand, final) = [state |-> "live", job |-> j, cand |-> cand, row |-> NewRow(final), version |-> 0]
  BY SameRounds DEF Atomic!Fresh
<1>4. \A t \in Subs : Atomic!Live(t) => <<sub[t].job, sub[t].cand>> # <<j, cand>>
  BY DEF Duplicate, SubsOf, Live, Atomic!Live
<1>5. Atomic!Create(s, j, cand, final, website)
  BY <1>1, <1>2, <1>3, <1>4 DEF Atomic!Create, Insert, Unused
<1> QED
  BY <1>5 DEF Atomic!Next

\* A committed save is one of the current row, valid and new.
LEMMA CommitIsAtomic ==
    ASSUME SubmissionsInv, NEW c \in Clients, UpdateCommit(c)
    PROVE  Atomic!Next
<1>1. PICK s \in Subs, u \in Saving, base \in Seq(Events), e \in Events : Written(c, s, u, base, e)
  BY CommitWrites
<1> DEFINE h == events[s]
           g == h \o base \o <<e>>
<1>2. events \in [Subs -> Seq(Events)] /\ h \in Seq(Events) /\ u.dto \in Dtos /\ u.request \in Requests
  BY DEF SubmissionsInv, SubmissionsTypeOK, Saving
<1>3. /\ g \in Seq(Events) /\ Len(g) = Len(h) + Len(base) + 1 /\ Len(h) \in Nat /\ Len(base) \in Nat
      /\ \A i \in 1..Len(h) : g[i] = h[i]
      /\ g[Len(g)] = e
  BY <1>2, Grown
<1> DEFINE r == [request |-> u.request, dto |-> u.dto, actor |-> Actor[c],
                 before |-> sub[s].row, after |-> Atomic!SavedRow(sub[s].row, u.dto)]
<1>4. Atomic!Recorded(s, r)
  <2>1. events'[s] = g /\ \A t \in Subs \ {s} : events'[t] = events[t]
    BY <1>1, <1>2 DEF Written
  <2> HIDE DEF g
  <2>2. g # h
    BY <1>3
  <2>3. SubSeq(g, 1, Len(h)) = h
    <3>1. \A i \in 1..Len(h) : g[i] \in Events
      BY <1>2, <1>3, ElementOfSeq
    <3>2. /\ SubSeq(g, 1, Len(h)) \in Seq(Events) /\ Len(SubSeq(g, 1, Len(h))) = Len(h)
          /\ \A i \in 1..Len(h) : SubSeq(g, 1, Len(h))[i] = g[i]
      BY <1>3, <3>1, SubSeqProperties
    <3> QED
      BY <1>2, <1>3, <3>2, SeqEqual
  <2>4. /\ e.request = r.request /\ e.dto = r.dto /\ e.actor = r.actor
        /\ e.before = r.before /\ e.after = r.after
    BY <1>1, SameRounds DEF Written, Event
  <2>5. \A f \in DOMAIN r : g[Len(g)][f] = r[f]
    BY <1>3, <2>4
  <2> HIDE DEF r
  <2> QED
    BY <2>1, <2>2, <2>3, <2>5 DEF Atomic!Recorded
<1>5. \E seen \in Outcome \cup {Absent} : ValidateTrackerUpdate(sub[s].row, seen, u.dto, FullAccess)
  BY <1>1 DEF Written, Saving
<1>6. ~(job[sub[s].job].status = "Closed" /\ ~job[sub[s].job].keepOpen)
  BY <1>1, ValidIsWorkflowChange DEF Written, Paused
<1>7. Atomic!Save(s, u.dto, u.request, Actor[c])
  <2>1. \E seen \in Atomic!Outcome \cup {Atomic!Absent} :
           Atomic!ValidateTrackerUpdate(sub[s].row, seen, u.dto, Atomic!FullAccess)
    BY <1>5, SameRounds DEF Atomic!Outcome, Outcome, Atomic!Absent, Absent, Atomic!FullAccess, FullAccess,
                            Atomic!Rounds, Rounds
  <2>2. sub' = [sub EXCEPT ![s].row = Atomic!SavedRow(@, u.dto), ![s].version = @ + 1]
    <3>1. PICK row : row = SavedRow(u.row, u.dto) /\ row = Atomic!SavedRow(sub[s].row, u.dto)
      BY <1>1, SameRounds DEF Written
    <3>2. PICK n : n = u.version + 1 /\ n = sub[s].version + 1
      BY <1>1 DEF Written
    <3>3. sub' = [sub EXCEPT ![s] = [sub[s] EXCEPT !.row = row, !.version = n]]
      BY <1>1, <3>1, <3>2, Zenon DEF Written
    <3>4. sub \in [Subs -> {Unused, Deleted} \cup Rows]
      BY DEF SubmissionsInv, SubmissionsTypeOK
    <3>5. sub' = [sub EXCEPT ![s].row = row, ![s].version = n]
      BY <3>3, <3>4
    <3> QED
      BY <3>1, <3>2, <3>4, <3>5
  <2>3. Atomic!Live(s) /\ job' = job /\ \A i \in DOMAIN events[s] : events[s][i].request # u.request
    BY <1>1 DEF Written, Atomic!Live, Live, Prior
  <2> QED
    BY <1>4, <1>6, <2>1, <2>2, <2>3 DEF Atomic!Save
<1> QED
  BY <1>2, <1>7 DEF Atomic!Next

\* Both ways to delete a submission take it out of the count.
LEMMA RemoveIsAtomic ==
    ASSUME SubmissionsInv,
           (\E c \in Clients : RemoveCommit(c)) \/ \E s \in Subs : PermanentlyRemove(s)
    PROVE  Atomic!Next
<1>1. ASSUME NEW c \in Clients, RemoveCommit(c)
      PROVE  Atomic!Next
  <2>1. call[c] \in Removing /\ CallInv(c, call[c], sub, events) /\ call[c].op = "remove" /\ Live(call[c].sub)
    BY <1>1, OpenCalls DEF RemoveCommit
  <2>2. PICK s \in Subs : s = call[c].sub
    BY <2>1 DEF Removing
  <2>3. call[c].job = sub[s].job
    BY <2>1, <2>2 DEF CallInv, Live
  <2>4. events' = [events EXCEPT ![s] = <<>>] /\ events[s] = <<>>
    BY <1>1, <2>2 DEF RemoveCommit, SubmissionsInv, SubmissionsTypeOK
  <2>5. Atomic!Delete(s, FALSE)
    BY <1>1, <2>1, <2>2, <2>3, <2>4 DEF RemoveCommit, Atomic!Delete, Atomic!Live, Live, Deleted
  <2> QED
    BY <2>5 DEF Atomic!Next
<1>2. ASSUME NEW s \in Subs, PermanentlyRemove(s)
      PROVE  Atomic!Next
  <2>1. job' = [job EXCEPT ![sub[s].job].done = @ - 1]
    BY <1>2, CountedOut
  <2>2. Atomic!Delete(s, TRUE)
    BY <1>2, <2>1 DEF PermanentlyRemove, Atomic!Delete, Atomic!Live, Live, Deleted
  <2> QED
    BY <2>2 DEF Atomic!Next
<1> QED
  BY <1>1, <1>2

\* A job changes its status, or its publication while it is active.
LEMMA JobIsAtomic ==
    ASSUME SubmissionsInv, NEW c \in Clients, StatusCommit(c) \/ PublishCommit(c)
    PROVE  Atomic!Next
<1>1. job \in [Jobs -> Openings] /\ UNCHANGED <<sub, events>>
  BY DEF SubmissionsInv, SubmissionsTypeOK, StatusCommit, PublishCommit
<1>2. CASE StatusCommit(c)
  <2>1. call[c] \in Changing /\ call[c].op = "status" /\ CallInv(c, call[c], sub, events)
    BY <1>2, OpenCalls DEF StatusCommit
  <2>2. PICK j \in Jobs, status \in Status, keep \in BOOLEAN :
           j = call[c].job /\ status = call[c].after /\ keep = call[c].keepOpen
    BY <2>1 DEF Changing
  <2>3. job[j] \in Openings /\ (keep => status = "Closed")
    BY <1>1, <2>1, <2>2 DEF CallInv
  <2>4. job' = [job EXCEPT ![j].status = status, ![j].keepOpen = keep]
    BY <1>2, <2>2 DEF StatusCommit
  <2>5. PICK publish \in BOOLEAN : publish = job[j].published
    BY <2>3 DEF Openings
  <2>6. job' = [job EXCEPT ![j].status = status, ![j].keepOpen = keep, ![j].published = publish]
    BY <1>1, <2>3, <2>4, <2>5 DEF Openings
  <2>7. Atomic!ChangeJob(j, status, keep, publish)
    BY <1>1, <2>3, <2>5, <2>6 DEF Atomic!ChangeJob
  <2> QED
    BY <2>7 DEF Atomic!Next, Status
<1>3. CASE PublishCommit(c)
  <2>1. call[c] \in Publishing
    BY <1>3, OpenCalls DEF PublishCommit
  <2>2. PICK j \in Jobs, publish \in BOOLEAN : j = call[c].job /\ publish = call[c].publish
    BY <2>1 DEF Publishing
  <2>3. job[j] \in Openings /\ job[j].status = "Active" /\ (job[j].keepOpen => job[j].status = "Closed")
    BY <1>1, <1>3, <2>2 DEF PublishCommit, SubmissionsInv, JobsInv
  <2>4. job' = [job EXCEPT ![j].published = publish]
    BY <1>3, <2>2 DEF PublishCommit
  <2>5. PICK keep \in BOOLEAN : keep = job[j].keepOpen
    BY <2>3 DEF Openings
  <2>6. job' = [job EXCEPT ![j].status = "Active", ![j].keepOpen = keep, ![j].published = publish]
    BY <1>1, <2>3, <2>4, <2>5 DEF Openings
  <2>7. Atomic!ChangeJob(j, "Active", keep, publish)
    BY <1>1, <2>3, <2>5, <2>6 DEF Atomic!ChangeJob
  <2> QED
    BY <2>7 DEF Atomic!Next
<1> QED
  BY <1>2, <1>3

\* A step of the service is an operation of the atomic specification, or reads,
\* checks, answers or gives up and leaves the data as it is.
LEMMA StepsAreAtomic == SubmissionsInv /\ [Next]_vars => [Atomic!Next]_(Atomic!vars)
<1> SUFFICES ASSUME SubmissionsInv, [Next]_vars
             PROVE  Atomic!Next \/ UNCHANGED <<job, sub, events>>
  BY DEF Atomic!vars
<1>1. CASE UNCHANGED vars
  BY <1>1 DEF vars
<1>2. ASSUME NEW c \in Clients, CreateCommit(c) \/ ApplyCommit(c)
      PROVE  Atomic!Next \/ UNCHANGED <<job, sub, events>>
  <2>1. call[c] \in Creating
    BY <1>2, OpenCalls DEF CreateCommit, ApplyCommit
  <2>2. PICK j \in Jobs, cand \in Candidates : j = call[c].job /\ cand = call[c].cand
    BY <2>1 DEF Creating
  <2>3. CASE CreateCommit(c)
    <3>1. job[j].status = "Active" /\ ~Duplicate(j, cand)
      BY <2>2, <2>3 DEF CreateCommit
    <3>2. PICK s \in Subs, final \in {"SUBMITTED", "PENDING_APPROVAL"} :
             Insert(s, j, cand, final, "created", Actor[c])
      BY <2>2, <2>3 DEF CreateCommit
    <3> QED
      BY <3>1, <3>2, InsertIsAtomic
  <2>4. CASE ApplyCommit(c)
    <3>1. job[j].status = "Active" /\ job[j].published
      BY <2>2, <2>4 DEF ApplyCommit
    <3>2. CASE Duplicate(j, cand)
      BY <2>2, <2>4, <3>2 DEF ApplyCommit
    <3>3. CASE ~Duplicate(j, cand)
      <4>1. PICK s \in Subs : Insert(s, j, cand, "PENDING_APPROVAL", "created", "website")
        BY <2>2, <2>4, <3>3 DEF ApplyCommit
      <4> QED
        BY <3>1, <3>3, <4>1, InsertIsAtomic
    <3> QED
      BY <3>2, <3>3
  <2> QED
    BY <1>2, <2>3, <2>4
<1>3. CASE Next
  <2>1. ASSUME NEW c \in Clients, UpdateCommit(c) PROVE Atomic!Next
    BY <2>1, CommitIsAtomic
  <2>2. ASSUME NEW c \in Clients, StatusCommit(c) \/ PublishCommit(c) PROVE Atomic!Next
    BY <2>2, JobIsAtomic
  <2>3. ASSUME NEW c \in Clients, UpdateRead(c) \/ UpdateCheck(c) \/ Abandon(c)
        PROVE  UNCHANGED <<job, sub, events>>
    BY <2>3 DEF UpdateRead, UpdateCheck, Abandon
  <2>4. ASSUME NEW c \in Clients
        PROVE  /\ \A j \in Jobs, cand \in Candidates :
                     CreateRead(c, j, cand) \/ ApplyRead(c, j, cand) => UNCHANGED <<job, sub, events>>
               /\ \A s \in Subs, dto \in Dtos, request \in Requests, expected \in BOOLEAN :
                     UpdateFindOne(c, s, dto, request, expected) => UNCHANGED <<job, sub, events>>
               /\ \A s \in Subs : RemoveRead(c, s) => UNCHANGED <<job, sub, events>>
               /\ \A j \in Jobs, status \in Status, keep \in BOOLEAN :
                     StatusRead(c, j, status, keep) => UNCHANGED <<job, sub, events>>
               /\ \A j \in Jobs, publish \in BOOLEAN :
                     PublishRead(c, j, publish) => UNCHANGED <<job, sub, events>>
    BY DEF CreateRead, ApplyRead, UpdateFindOne, RemoveRead, StatusRead, PublishRead
  <2> QED
    BY <1>2, <1>3, <2>1, <2>2, <2>3, <2>4, RemoveIsAtomic, Zenon DEF Next
<1> QED
  BY <1>1, <1>3

\* The service implements the atomic specification: whatever a request read
\* before another one committed, its effect is that of an operation which
\* happens at the instant of its transaction, or none.
THEOREM SubmissionsImplementAtomic == Spec => AtomicSpec
<1>1. Init => Atomic!Init
  <2>1. \A j \in Jobs, cand \in Candidates :
           Atomic!Fresh(j, cand, "SUBMITTED") =
              [state |-> "live", job |-> j, cand |-> cand, row |-> NewRow("SUBMITTED"), version |-> 0]
    BY SameRounds DEF Atomic!Fresh
  <2>2. \A s \in Legacy : LegacyOf[s][1] \in Jobs /\ LegacyOf[s][2] \in Candidates
    BY LegacyAssumption
  <2>3. \A S : Atomic!Cardinality(S) = Cardinality(S)
    BY Zenon DEF Atomic!Cardinality, Cardinality
  <2> SUFFICES ASSUME Init PROVE Atomic!Init
    OBVIOUS
  <2>4. job = [j \in Jobs |->
                 [status |-> "Active", keepOpen |-> FALSE, published |-> FALSE,
                  done |-> Atomic!Cardinality({s \in Legacy : LegacyOf[s][1] = j})]]
    BY <2>3 DEF Init
  <2>5. sub = [s \in Subs |-> IF s \in Legacy
                              THEN Atomic!Fresh(LegacyOf[s][1], LegacyOf[s][2], "SUBMITTED")
                              ELSE [state |-> "unused"]]
    BY <2>1, <2>2 DEF Init, Unused
  <2> QED
    BY <2>4, <2>5 DEF Init, Atomic!Init
<1> QED
  BY <1>1, StepsAreAtomic, SubmissionsInvariant, PTL DEF Spec, AtomicSpec, Atomic!Spec
=============================================================================
