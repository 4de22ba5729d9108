-------------------------------- MODULE Jobs --------------------------------
(***************************************************************************)
(* Job requisitions of one account manager in a unit that distributes its  *)
(* jobs over pods automatically.  JobsService createJob, saveDraft,        *)
(* publishDraft, updateJob, changeStatus, approveJob, rejectJob,           *)
(* deleteJob, restoreJob, permanentlyDeleteJob and the grants by which the *)
(* manager lets a colleague create jobs, composed with PodRotation.        *)
(*                                                                         *)
(* "owner" stands for the account manager and for administrators who may   *)
(* act on every job, "delegate" for the colleague.  What a request asks    *)
(* for, whether its client is approved and whether its caller may publish  *)
(* directly are chosen where they are used.                                *)
(*                                                                         *)
(* A save reads the row, checks, and writes with WHERE status = .. AND     *)
(* updated_at = ..  Every write draws a new updated_at, so a copy is the   *)
(* current one until somebody writes the row: that is its flag fresh.      *)
(***************************************************************************)
EXTENDS PodRotation

CONSTANTS
    JobIds,           \* ids of jobs; one that was permanently deleted may be used again
    Clients,          \* requests in flight at once
    MaxJobs,          \* bound on the job limits of a grant
    MaxMade,          \* bound on the jobs inserted under one grant
    Operational       \* the statuses of changeStatus the model tells apart

ASSUME JobsAssumption == IsFiniteSet(JobIds)
ASSUME MaxJobsAssumption == MaxJobs \in Nat /\ MaxMade \in Nat
ASSUME OperationalAssumption == {"Draft", "Active"} \subseteq Operational

VARIABLES
    job,      \* ats.jobs
    grant,    \* ats.job_creation_grants: the row of this owner and this delegate
    call,     \* local variables of the requests in flight
    made      \* jobs inserted under the grant since it was given

vars == <<job, grant, call, made, rotation>>

Actors == {"owner", "delegate"}
NoLimit == 0

NewJob(by, status, approval) ==
    [state |-> "live", status |-> status, approval |-> approval, creator |-> by]
NoJob == [NewJob("owner", "Draft", "null") EXCEPT !.state = "none"]
Idle == [op |-> "idle"]

Exists(j) == job[j].state \in {"live", "deleted"}

Init ==
    /\ job = [j \in JobIds |-> NoJob]
    /\ grant = [state |-> "none", expires |-> "never", max |-> NoLimit, used |-> 0]
    /\ call = [c \in Clients |-> Idle]
    /\ made = 0
    /\ RotationInit

Begin(c, request) == call[c] = Idle /\ call' = [call EXCEPT ![c] = request]
End(c) == call' = [call EXCEPT ![c] = Idle]

\* A write of row j by request c, if by any: other copies of it are outdated.
Write(c, j, row) ==
    /\ job' = [job EXCEPT ![j] = row]
    /\ call' = [d \in Clients |->
                  IF d \in c THEN Idle
                  ELSE IF call[d].op \in {"save", "publish", "edit", "status"} /\ call[d].job = j
                  THEN [call[d] EXCEPT !.fresh = FALSE] ELSE call[d]]

-----------------------------------------------------------------------------
(* Creation access *)

LiveGrant == grant.state = "given" /\ grant.expires # "past"
QuotaLeft == grant.max = NoLimit \/ grant.used < grant.max

\* createJobCreationGrant: the upsert starts the count again.
CreateJobCreationGrant(expires, max) ==
    /\ grant' = [state |-> "given", expires |-> expires, max |-> max, used |-> 0]
    /\ made' = 0
    /\ UNCHANGED <<job, call, rotation>>

RevokeJobCreationGrant ==
    /\ grant.state = "given"
    /\ grant' = [grant EXCEPT !.state = "revoked"]
    /\ UNCHANGED <<job, call, made, rotation>>

\* updateJobCreationGrant, with the row locked: the limit is not lowered below the
\* jobs used, and the expiry is a future one or the one there is.
UpdateJobCreationGrant(expires, max) ==
    /\ grant.state = "given"
    /\ max = NoLimit \/ max >= grant.used
    /\ expires = "past" => grant.expires = "past"
    /\ grant' = [grant EXCEPT !.expires = expires, !.max = max]
    /\ UNCHANGED <<job, call, made, rotation>>

\* expires_at passes.
GrantExpires ==
    /\ grant.expires = "later"
    /\ grant' = [grant EXCEPT !.expires = "past"]
    /\ UNCHANGED <<job, call, made, rotation>>

\* The pod of a job that goes out: none for a job with direct recruiters.
Allocate == AllocateAutomaticPod \/ UNCHANGED rotation

-----------------------------------------------------------------------------
(* Creating jobs and drafts *)

\* createJob up to its transaction; assertCanCreateFor for the delegate.
CreateRead(c, by, draft, j) ==
    /\ job[j] = NoJob
    /\ by = "delegate" => LiveGrant /\ QuotaLeft /\ made < MaxMade
    /\ Begin(c, [op |-> "create", by |-> by, draft |-> draft, job |-> j,
                 max |-> IF by = "delegate" THEN grant.max ELSE NoLimit,
                 expires |-> IF by = "delegate" THEN grant.expires ELSE "never"])
    /\ UNCHANGED <<job, grant, made, rotation>>

\* What a new job starts as: what is created for somebody else is reviewed first.
Initially(c) ==
    IF call[c].draft THEN {NewJob(call[c].by, "Draft", "null")}
    ELSE {NewJob(call[c].by, "Pending Approval", "PENDING_APPROVAL")} \cup
         IF call[c].by = "delegate" THEN {}
         ELSE {NewJob("owner", status, approval) :
                 status \in Operational, approval \in {"APPROVED", "REJECTED"}}

\* Mutant: the limit was checked when the request came in.
ReservableUnlimited(c) ==
    /\ LiveGrant
    /\ grant.max = call[c].max /\ grant.expires = call[c].expires

\* The WHERE of the reservation: the grant as it was read, and still live.
Reservable(c) ==
    /\ LiveGrant /\ QuotaLeft
    /\ grant.max = call[c].max /\ grant.expires = call[c].expires

\* The delegate's new job is counted, with the grant locked.
Reserve(c, inserts) ==
    IF call[c].by = "delegate" /\ inserts
    THEN /\ Reservable(c)
         /\ grant' = [grant EXCEPT !.used = @ + 1]
         /\ made' = made + 1
    ELSE UNCHANGED <<grant, made>>

\* createJob's transaction.  The id of a draft comes from the client: a draft
\* that has been inserted meanwhile is left as it is.
CreateCommit(c) ==
    /\ call[c].op = "create"
    /\ LET j == call[c].job
           inserts == job[j] = NoJob
       IN /\ inserts \/ (call[c].draft /\ Exists(j))
          /\ Reserve(c, inserts)
          /\ IF call[c].draft THEN UNCHANGED rotation ELSE Allocate
          /\ IF inserts THEN \E row \in Initially(c) : Write({c}, j, row)
                        ELSE End(c) /\ UNCHANGED job

-----------------------------------------------------------------------------
(* Drafts: saveDraft of an existing draft, and publishDraft *)

\* assertDraftAccess and assertCanCreateFor for a draft that exists.
DraftAccess(by, j) ==
    /\ job[j].state = "live" /\ job[j].status = "Draft"
    /\ by = "delegate" => job[j].creator = "delegate" /\ LiveGrant

\* updateJob repeats the checks on the row it reads last, which is this read.
SaveRead(c, by, j) ==
    /\ DraftAccess(by, j)
    /\ Begin(c, [op |-> "save", job |-> j, fresh |-> TRUE])
    /\ UNCHANGED <<job, grant, made, rotation>>

PublishRead(c, by, j) ==
    /\ DraftAccess(by, j)
    /\ Begin(c, [op |-> "publish", job |-> j, by |-> by, fresh |-> TRUE])
    /\ UNCHANGED <<job, grant, made, rotation>>

\* WHERE status = 'Draft' AND updated_at = ..
DraftUnchanged(c) ==
    /\ Exists(call[c].job)
    /\ job[call[c].job].status = "Draft" /\ call[c].fresh

SaveCommit(c) ==
    /\ call[c].op = "save" /\ DraftUnchanged(c)
    /\ Write({c}, call[c].job, [job[call[c].job] EXCEPT !.status = "Draft"])
    /\ UNCHANGED <<grant, made, rotation>>

\* The pod is drawn in the transaction that publishes: a publication that fails
\* uses up nobody's turn.
PublishCommit(c, pending) ==
    /\ call[c].op = "publish" /\ DraftUnchanged(c)
    /\ Allocate
    /\ Write({c}, call[c].job,
             [job[call[c].job] EXCEPT
                !.status = IF pending THEN "Pending Approval" ELSE "Active",
                !.approval = IF pending THEN "PENDING_APPROVAL" ELSE "APPROVED"])
    /\ UNCHANGED <<grant, made>>

-----------------------------------------------------------------------------
(* Jobs: editing, status, approval, deletion *)

\* updateJob without a status: details of a job that is not closed.
EditRead(c, j) ==
    /\ Exists(j) /\ job[j].status # "Closed"
    /\ Begin(c, [op |-> "edit", job |-> j, status |-> job[j].status, fresh |-> TRUE])
    /\ UNCHANGED <<job, grant, made, rotation>>

EditCommit(c) ==
    /\ call[c].op = "edit"
    /\ Exists(call[c].job) /\ job[call[c].job].status = call[c].status /\ call[c].fresh
    /\ Write({c}, call[c].job, job[call[c].job])
    /\ UNCHANGED <<grant, made, rotation>>

\* changeStatus: jobs in the approval workflow are left to it.
StatusRead(c, j) ==
    /\ job[j].state = "live"
    /\ job[j].approval \in {"null", "APPROVED"} /\ job[j].status # "Pending Approval"
    /\ Begin(c, [op |-> "status", job |-> j, status |-> job[j].status, fresh |-> TRUE])
    /\ UNCHANGED <<job, grant, made, rotation>>

\* Mutant: only the previous status is compared.
StatusCommitByStatus(c, status) ==
    /\ call[c].op = "status"
    /\ Exists(call[c].job) /\ job[call[c].job].status = call[c].status
    /\ Write({c}, call[c].job, [job[call[c].job] EXCEPT !.status = status])
    /\ UNCHANGED <<grant, made, rotation>>

StatusCommit(c, status) ==
    /\ call[c].op = "status"
    /\ Exists(call[c].job) /\ job[call[c].job].status = call[c].status /\ call[c].fresh
    /\ Write({c}, call[c].job, [job[call[c].job] EXCEPT !.status = status])
    /\ UNCHANGED <<grant, made, rotation>>

\* approveJob and rejectJob look the job up and write, whatever its state.
ApproveJob(j) ==
    /\ Exists(j)
    /\ Write({}, j, [job[j] EXCEPT !.status = "Active", !.approval = "APPROVED"])
    /\ UNCHANGED <<grant, made, rotation>>

RejectJob(j) ==
    /\ Exists(j)
    /\ Write({}, j, [job[j] EXCEPT !.status = "Draft", !.approval = "REJECTED"])
    /\ UNCHANGED <<grant, made, rotation>>

DeleteJob(j) ==
    /\ job[j].state = "live"
    /\ Write({}, j, [job[j] EXCEPT !.state = "deleted"])
    /\ UNCHANGED <<grant, made, rotation>>

RestoreJob(j) ==
    /\ job[j].state = "deleted"
    /\ Write({}, j, [job[j] EXCEPT !.state = "live"])
    /\ UNCHANGED <<grant, made, rotation>>

PermanentlyDeleteJob(j) ==
    /\ Exists(j)
    /\ Write({}, j, NoJob)
    /\ UNCHANGED <<grant, made, rotation>>

\* Mutant: a publication draws its pod before its transaction.
AbandonTurnTaken(c) ==
    /\ call[c] # Idle
    /\ End(c)
    /\ available' = IF call[c].op = "publish" THEN available \ {First(Pods)} ELSE available
    /\ UNCHANGED <<job, grant, made, eligible, wait>>

\* A request is refused, fails or is cut off; a transaction rolls back.
Abandon(c) ==
    /\ call[c] # Idle
    /\ End(c)
    /\ UNCHANGED <<job, grant, made, rotation>>

Next ==
    \/ \E expires \in {"never", "later"}, max \in {NoLimit} \cup 1..MaxJobs :
         CreateJobCreationGrant(expires, max)
    \/ \E expires \in {"never", "later", "past"}, max \in {NoLimit} \cup 1..MaxJobs :
         UpdateJobCreationGrant(expires, max)
    \/ RevokeJobCreationGrant
    \/ GrantExpires
    \/ \E c \in Clients, by \in Actors, j \in JobIds :
         \/ \E draft \in BOOLEAN : CreateRead(c, by, draft, j)
         \/ SaveRead(c, by, j)
         \/ PublishRead(c, by, j)
    \/ \E c \in Clients, j \in JobIds : EditRead(c, j) \/ StatusRead(c, j)
    \/ \E c \in Clients :
         \/ CreateCommit(c)
         \/ SaveCommit(c)
         \/ \E pending \in BOOLEAN : PublishCommit(c, pending)
         \/ EditCommit(c)
         \/ \E status \in Operational : StatusCommit(c, status)
         \/ Abandon(c)
    \/ \E j \in JobIds :
         \/ ApproveJob(j)
         \/ RejectJob(j)
         \/ DeleteJob(j)
         \/ RestoreJob(j)
         \/ PermanentlyDeleteJob(j)
    \/ (\E p \in Pods : PodEligibility(p)) /\ UNCHANGED <<job, grant, call, made>>
    \/ ResetCycle /\ UNCHANGED <<job, grant, call, made>>

Spec == Init /\ [][Next]_vars

-----------------------------------------------------------------------------
(* Properties *)

\* jobs_used counts the jobs that were inserted under the grant, each once,
\* however often the same draft is sent.
QuotaCountsJobs == grant.used = made

\* assertCanCreateFor: "its job limit has been reached": concurrent requests,
\* new limits and repeated saves never use a grant for more jobs than it allows,
\* and the count that says so is the number of jobs there are.
QuotaRespected ==
    QuotaCountsJobs /\ (grant.max # NoLimit => grant.used <= grant.max)

\* changeStatus, publishDraft and approveJob together: an existing job goes live
\* only approved, or without an approval workflow, never while a reviewer's
\* rejection or a pending review stands.
GoesLiveApproved ==
    [][\A j \in JobIds :
         Exists(j) /\ job[j].status # "Active" /\ job'[j].status = "Active"
           => job'[j].approval \in {"null", "APPROVED"}]_vars

\* "Call inside the transaction that also persists the job": whatever becomes of
\* concurrent creations and publications, the pods see whole allocations only, so
\* what PodRotation says of the cycle holds here.
PublicationsKeepTheCycle == RotationSpec
=============================================================================
