---------------------------- MODULE Submissions ----------------------------
(***************************************************************************)
(* Submissions of candidates to jobs under concurrent requests:            *)
(* RecruiterSubmissionsService create, update, remove, permanentlyRemove,  *)
(* PublicJobsService apply and setPublished, JobsService changeStatus.     *)
(*                                                                         *)
(* A handler is split where it awaits the database: what it reads outside  *)
(* its transaction is kept in call[c] and may be stale when the            *)
(* transaction runs.  A transaction that takes the row locks it depends on *)
(* before it reads is one step.  A handler that fails, or whose client has *)
(* gone, ends in Abandon; the client may send the same request again.      *)
(*                                                                         *)
(* No interview time passes here (SubmissionEditor has that), so that a    *)
(* row can be compared with its history.  Every caller holds every         *)
(* permission.  The updatedAt precondition of changeStatus and             *)
(* setPublished only refuses more often, which Abandon stands for.         *)
(***************************************************************************)
EXTENDS SubmissionRounds, Sequences, FiniteSets

CONSTANTS
    Jobs, Candidates, Subs,
    Legacy,         \* submissions older than the history table
    LegacyOf,       \* LegacyOf[s]: the job and candidate of a legacy submission
    Clients,        \* requests that can be in flight at once
    Actor,          \* Actor[c]: the user behind c
    Requests,       \* requestIds of saves
    Dtos,           \* bodies of saves
    MaxVersion      \* bound on the saves of one submission

ASSUME SubsAssumption == IsFiniteSet(Subs) /\ Legacy \subseteq Subs
ASSUME LegacyAssumption == LegacyOf \in [Legacy -> Jobs \X Candidates]
ASSUME UniqueLegacyAssumption == \A s, t \in Legacy : LegacyOf[s] = LegacyOf[t] => s = t
ASSUME SavesAssumption == Dtos \subseteq Dto
\* A requestId is a UUID (validateTrackerUpdate), which that of a baseline is not.
ASSUME RequestsAssumption == "baseline" \notin Requests
ASSUME MaxVersionAssumption == MaxVersion \in Nat

VARIABLES
    job,     \* ats.jobs: status, keep_existing_submissions_open, publication, submission_done
    sub,     \* ats.recruiter_submissions: job, candidate, workflow row, updated_at
    events,  \* ats.submission_events of each submission, by sequence
    call     \* local variables of the request each client waits for

vars == <<job, sub, events, call>>

Status == {"Active", "On Hold", "Closed"}
Unused == [state |-> "unused"]
Deleted == [state |-> "deleted"]
Idle == [op |-> "idle"]
AnyVersion == -1
FullAccess == [review |-> TRUE, schedule |-> TRUE, outcome |-> TRUE,
               results |-> [r \in Rounds |-> TRUE]]

Live(s) == sub[s].state = "live"
SubsOf(j) == {s \in Subs : Live(s) /\ sub[s].job = j}

\* isClosedJob and keepExistingSubmissionsOpen: the job's workflow is paused.
Paused(j) == job[j].status = "Closed" /\ ~job[j].keepOpen

\* rejection_from_status: the outcome left by the last event into REJECTED.
RejectedFrom(s) ==
    LET into == {i \in DOMAIN events[s] : /\ events[s][i].after.final = "REJECTED"
                                          /\ events[s][i].before.final # "REJECTED"}
    IN IF into = {} THEN Absent
       ELSE events[s][CHOOSE i \in into : \A k \in into : k <= i].before.final

\* The event a request left, if it has been saved before.
Prior(s, request) == {i \in DOMAIN events[s] : events[s][i].request = request}

Event(kind, request, dto, actor, before, after) ==
    [kind |-> kind, request |-> request, dto |-> dto, actor |-> actor,
     before |-> before, after |-> after]

Init ==
    /\ job = [j \in Jobs |->
                [status |-> "Active", keepOpen |-> FALSE, published |-> FALSE,
                 done |-> Cardinality({s \in Legacy : LegacyOf[s][1] = j})]]
    /\ sub = [s \in Subs |->
                IF s \in Legacy
                THEN [state |-> "live", job |-> LegacyOf[s][1], cand |-> LegacyOf[s][2],
                      row |-> NewRow("SUBMITTED"), version |-> 0]
                ELSE Unused]
    /\ events = [s \in Subs |-> <<>>]
    /\ call = [c \in Clients |-> Idle]

Begin(c, request) == call[c] = Idle /\ call' = [call EXCEPT ![c] = request]
Goto(c, op) == call' = [call EXCEPT ![c].op = op]
End(c) == call' = [call EXCEPT ![c] = Idle]

-----------------------------------------------------------------------------
(* Creating submissions *)

\* create(), up to its transaction: the job must be active.
CreateRead(c, j, cand) ==
    /\ job[j].status = "Active"
    /\ Begin(c, [op |-> "create", job |-> j, cand |-> cand])
    /\ UNCHANGED <<job, sub, events>>

\* apply(), up to its transaction: the job must be active and published.
ApplyRead(c, j, cand) ==
    /\ job[j].status = "Active" /\ job[j].published
    /\ Begin(c, [op |-> "apply", job |-> j, cand |-> cand])
    /\ UNCHANGED <<job, sub, events>>

\* Insert, counter and CREATED event of one transaction.
Insert(s, j, cand, final, request, actor) ==
    /\ sub[s] = Unused
    /\ sub' = [sub EXCEPT ![s] = [state |-> "live", job |-> j, cand |-> cand,
                                  row |-> NewRow(final), version |-> 0]]
    /\ job' = [job EXCEPT ![j].done = @ + 1]
    /\ events' = [events EXCEPT ![s] =
                    <<Event("CREATED", request, Absent, actor, NewRow(final), NewRow(final))>>]

Duplicate(j, cand) == \E s \in SubsOf(j) : sub[s].cand = cand

\* Mutant: the duplicate check is left to the caller.
CreateCommitUnchecked(c) ==
    /\ call[c].op = "create"
    /\ job[call[c].job].status = "Active"
    /\ \E s \in Subs, final \in {"SUBMITTED", "PENDING_APPROVAL"} :
          Insert(s, call[c].job, call[c].cand, final, "created", Actor[c])
    /\ End(c)

\* create(): the job is locked and must still be active; the advisory lock on
\* job and candidate is held from the duplicate check to the insert.
CreateCommit(c) ==
    /\ call[c].op = "create"
    /\ job[call[c].job].status = "Active"
    /\ ~Duplicate(call[c].job, call[c].cand)
    /\ \E s \in Subs, final \in {"SUBMITTED", "PENDING_APPROVAL"} :
          Insert(s, call[c].job, call[c].cand, final, "created", Actor[c])
    /\ End(c)

\* Mutant: the job is not looked at again inside the transaction.
ApplyCommitStale(c) ==
    /\ call[c].op = "apply"
    /\ IF Duplicate(call[c].job, call[c].cand)
       THEN UNCHANGED <<job, sub, events>>
       ELSE \E s \in Subs :
              Insert(s, call[c].job, call[c].cand, "PENDING_APPROVAL", "created", "website")
    /\ End(c)

\* apply(): under the job lock the job must still accept applications; a
\* duplicate is answered with the receipt of the first application.
ApplyCommit(c) ==
    /\ call[c].op = "apply"
    /\ job[call[c].job].status = "Active" /\ job[call[c].job].published
    /\ IF Duplicate(call[c].job, call[c].cand)
       THEN UNCHANGED <<job, sub, events>>
       ELSE \E s \in Subs :
              Insert(s, call[c].job, call[c].cand, "PENDING_APPROVAL", "created", "website")
    /\ End(c)

-----------------------------------------------------------------------------
(* Saving a submission *)

\* update() line 1364: findOne.  The save may carry the version its sender saw.
UpdateFindOne(c, s, dto, request, expected) ==
    /\ Live(s)
    /\ Begin(c, [op |-> "found", sub |-> s, dto |-> dto, request |-> request,
                 expected |-> IF expected THEN sub[s].version ELSE AnyVersion,
                 rejectedFrom |-> RejectedFrom(s),
                 again |-> \E i \in Prior(s, request) :
                              events[s][i].dto = dto /\ events[s][i].actor = Actor[c]])
    /\ UNCHANGED <<job, sub, events>>

\* update() line 1367: the row and the job the save will be judged by.
UpdateRead(c) ==
    /\ call[c].op = "found"
    /\ Live(call[c].sub)
    /\ LET s == call[c].sub
       IN call' = [call EXCEPT ![c] =
                     [op |-> "read", sub |-> s, dto |-> call[c].dto,
                      request |-> call[c].request, expected |-> call[c].expected,
                      rejectedFrom |-> call[c].rejectedFrom, again |-> call[c].again,
                      row |-> sub[s].row, version |-> sub[s].version,
                      paused |-> Paused(sub[s].job)]]
    /\ UNCHANGED <<job, sub, events>>

\* The checks of update() on what it has read, lines 1402-1408.
Acceptable(u) ==
    /\ ~(u.paused /\ WorkflowChange(u.dto))
    /\ ValidateTrackerUpdate(u.row, u.rejectedFrom, u.dto,
                             SubmissionCapabilities(FullAccess, u.paused))
    /\ u.expected \in {AnyVersion, u.version}

\* Mutant: saved requests are not looked up.
UpdateCheckNoLookup(c) ==
    /\ call[c].op = "read"
    /\ \/ /\ Acceptable(call[c])
          /\ SavedRow(call[c].row, call[c].dto) # call[c].row \/ call[c].dto.bypass
          /\ Goto(c, "checked")
       \/ ~Acceptable(call[c]) /\ Goto(c, "refused")
    /\ UNCHANGED <<job, sub, events>>

\* update() lines 1391-1484, after its lookup of the requestId: a request that
\* was saved is answered, one that was another save is refused, and a save that
\* changes nothing and records no bypass ends here.
UpdateCheck(c) ==
    LET u == call[c]
        prior == Prior(u.sub, u.request)
        same(i) == events[u.sub][i].dto = u.dto /\ events[u.sub][i].actor = Actor[c]
        idle == SavedRow(u.row, u.dto) = u.row /\ ~u.dto.bypass
    IN /\ u.op = "read"
       /\ \/ prior # {} /\ (\A i \in prior : same(i)) /\ End(c)
          \/ prior # {} /\ ~(\A i \in prior : same(i)) /\ Goto(c, "refused")
          \/ prior = {} /\ ~Acceptable(u) /\ Goto(c, "refused")
          \/ prior = {} /\ Acceptable(u) /\ idle /\ End(c)
          \/ prior = {} /\ Acceptable(u) /\ ~idle /\ Goto(c, "checked")
       /\ UNCHANGED <<job, sub, events>>

\* Mutant: the BASELINE snapshot is taken of the row that is being saved.
WriteLateBaseline(c, s) ==
    LET u == call[c]
        saved == SavedRow(u.row, u.dto)
        base == IF events[s] # <<>> THEN <<>>
                ELSE <<Event("BASELINE", "baseline", Absent, Absent, saved, saved)>>
    IN /\ sub' = [sub EXCEPT ![s].row = saved, ![s].version = u.version + 1]
       /\ events' = [events EXCEPT ![s] = @ \o base \o
                       <<Event("UPDATE", u.request, u.dto, Actor[c], u.row, saved)>>]
       /\ End(c)
       /\ UNCHANGED job

\* The save of an accepted update: row, version and history, with a BASELINE
\* event first when the submission has no history.
Write(c, s) ==
    LET u == call[c]
        base == IF events[s] # <<>> THEN <<>>
                ELSE <<Event("BASELINE", "baseline", Absent, Absent, u.row, u.row)>>
    IN /\ sub' = [sub EXCEPT ![s].row = SavedRow(u.row, u.dto), ![s].version = u.version + 1]
       /\ events' = [events EXCEPT ![s] = @ \o base \o
                       <<Event("UPDATE", u.request, u.dto, Actor[c], u.row, SavedRow(u.row, u.dto))>>]
       /\ End(c)
       /\ UNCHANGED job

\* Mutant: no compare-and-set.
UpdateCommitBlind(c) ==
    /\ call[c].op = "checked"
    /\ sub[call[c].sub].state = "live" /\ call[c].version < MaxVersion
    /\ ~(Paused(sub[call[c].sub].job) /\ WorkflowChange(call[c].dto))
    /\ Write(c, call[c].sub)

\* update()'s transaction: with the job locked, the pause is checked again and
\* the row is written only if its version is the one that was read.
UpdateCommit(c) ==
    /\ call[c].op = "checked"
    /\ Live(call[c].sub) /\ sub[call[c].sub].version = call[c].version
    /\ call[c].version < MaxVersion
    /\ ~(Paused(sub[call[c].sub].job) /\ WorkflowChange(call[c].dto))
    /\ Write(c, call[c].sub)

-----------------------------------------------------------------------------
(* Deleting submissions *)

\* remove(), up to its transaction.
RemoveRead(c, s) ==
    /\ Live(s)
    /\ Begin(c, [op |-> "remove", sub |-> s, job |-> sub[s].job, history |-> events[s] # <<>>])
    /\ UNCHANGED <<job, sub, events>>

\* remove(): refused when there is history, at the latest by the trigger on the
\* cascaded delete; deleting a row that is gone fails the transaction.
RemoveCommit(c) ==
    /\ call[c].op = "remove"
    /\ Live(call[c].sub)
    /\ events[call[c].sub] = <<>>
    /\ sub' = [sub EXCEPT ![call[c].sub] = Deleted]
    /\ job' = [job EXCEPT ![call[c].job].done = @ - 1]
    /\ End(c)
    /\ UNCHANGED events

\* permanentlyRemove(): submission, history and counter in one transaction that
\* starts by locking the submission.
PermanentlyRemove(s) ==
    /\ Live(s)
    /\ sub' = [sub EXCEPT ![s] = Deleted]
    /\ events' = [events EXCEPT ![s] = <<>>]
    /\ job' = [job EXCEPT ![sub[s].job].done = IF @ > 0 THEN @ - 1 ELSE 0]
    /\ UNCHANGED call

-----------------------------------------------------------------------------
(* The job *)

\* changeStatus(), up to its transaction.
StatusRead(c, j, status, keep) ==
    /\ Begin(c, [op |-> "status", job |-> j, before |-> job[j].status, after |-> status,
                 keepOpen |-> status = "Closed" /\ keep])
    /\ UNCHANGED <<job, sub, events>>

StatusCommit(c) ==
    /\ call[c].op = "status"
    /\ job[call[c].job].status = call[c].before
    /\ job' = [job EXCEPT ![call[c].job].status = call[c].after,
                          ![call[c].job].keepOpen = call[c].keepOpen]
    /\ End(c)
    /\ UNCHANGED <<sub, events>>

\* setPublished(): an active job before and in the transaction.
PublishRead(c, j, publish) ==
    /\ job[j].status = "Active"
    /\ Begin(c, [op |-> "publish", job |-> j, publish |-> publish])
    /\ UNCHANGED <<job, sub, events>>

PublishCommit(c) ==
    /\ call[c].op = "publish"
    /\ job[call[c].job].status = "Active"
    /\ job' = [job EXCEPT ![call[c].job].published = call[c].publish]
    /\ End(c)
    /\ UNCHANGED <<sub, events>>

\* A request ends without effect: it is refused, it fails or its client is gone.
Abandon(c) ==
    /\ call[c] # Idle
    /\ End(c)
    /\ UNCHANGED <<job, sub, events>>

Next ==
    \/ \E c \in Clients, j \in Jobs, cand \in Candidates :
          CreateRead(c, j, cand) \/ ApplyRead(c, j, cand)
    \/ \E c \in Clients, s \in Subs, dto \in Dtos, request \in Requests, expected \in BOOLEAN :
          UpdateFindOne(c, s, dto, request, expected)
    \/ \E c \in Clients, s \in Subs : RemoveRead(c, s)
    \/ \E c \in Clients, j \in Jobs, status \in Status, keep \in BOOLEAN :
          StatusRead(c, j, status, keep)
    \/ \E c \in Clients, j \in Jobs, publish \in BOOLEAN : PublishRead(c, j, publish)
    \/ \E c \in Clients :
          \/ CreateCommit(c) \/ ApplyCommit(c)
          \/ UpdateRead(c) \/ UpdateCheck(c) \/ UpdateCommit(c)
          \/ RemoveCommit(c) \/ StatusCommit(c) \/ PublishCommit(c)
          \/ Abandon(c)
    \/ \E s \in Subs : PermanentlyRemove(s)

Spec == Init /\ [][Next]_vars

-----------------------------------------------------------------------------
(* Properties *)

\* A candidate is submitted to a job at most once, although recruiters and the
\* website take different advisory locks and no unique index backs them.
NoDuplicateSubmission ==
    \A s, t \in Subs : Live(s) /\ Live(t) /\ s # t =>
        <<sub[s].job, sub[s].cand>> # <<sub[t].job, sub[t].cand>>

\* The history replays to the row: it starts with a snapshot, each event starts
\* from what the one before it left, and the last one left the current row.
HistoryReplaysToRow ==
    \A s \in Subs : Live(s) /\ events[s] # <<>> =>
        /\ events[s][1].kind \in {"CREATED", "BASELINE"}
        /\ \A i \in 2..Len(events[s]) :
               events[s][i].kind = "UPDATE" /\ events[s][i].before = events[s][i - 1].after
        /\ events[s][Len(events[s])].after = sub[s].row

\* A retry of a save that is in the history is answered, never refused and
\* never written again, whatever happened to the row and the job since.
RetryIsAnswered ==
    \A c \in Clients : call[c].op \in {"checked", "refused"} /\ Live(call[c].sub)
        => ~call[c].again

\* The service implements the atomic specification: reads, lookups, checks and
\* transactions of concurrent requests, abandoned and repeated ones, add up to
\* operations that each happen at one instant.
Atomic == INSTANCE AtomicSubmissions WITH Actors <- {Actor[c] : c \in Clients}

AtomicSpec == Atomic!Spec
=============================================================================
