---------------------------- MODULE RoleRequests ----------------------------
(***************************************************************************)
(* Role requests of pending members, the decisions on them and the leased  *)
(* delivery of the notices about them: RoleRequestsService, and            *)
(* approveTenantUser and rejectTenantUser of AuthUserService.              *)
(*                                                                         *)
(* Two tables are served by one worker per replica: the requests' notices  *)
(* to reviewers (email, in_app) and the emails about an approval           *)
(* (accountApproval, roleApprovals).  Their protocol is the same.          *)
(*                                                                         *)
(* Every claim draws a new lease_id and increments attempts, so the number *)
(* of the attempt stands for the lease of a delivery; 0 is NULL.  due says *)
(* that available_at has passed, after a backoff or a lease of five        *)
(* minutes; a slow worker may still be at work then (LeaseRunsOut).        *)
(***************************************************************************)
EXTENDS Naturals, FiniteSets

CONSTANTS
    Members,      \* pending members who ask for a role
    Reviewers,    \* people who may be asked to decide
    Roles,
    Replicas,     \* backend processes, each with a delivery worker
    Deciders,     \* approve and reject requests that can be in flight at once
    Channels,     \* the kinds of notices that are looked at; they do not interact
    MaxAttempts,  \* 5 in the code
    Batch,        \* 8 in the code
    MaxVersions,  \* bound on request versions
    MaxFailures   \* bound on crashes, lost jobs and overrun leases

ASSUME ReplicasAssumption == IsFiniteSet(Replicas)
ASSUME BoundsAssumption ==
    /\ MaxAttempts \in Nat \ {0} /\ Batch \in Nat \ {0}
    /\ MaxVersions \in Nat /\ MaxFailures \in Nat
ASSUME ChannelsAssumption ==
    Channels \subseteq {"email", "in_app", "accountApproval", "roleApprovals"}
ASSUME PeopleAssumption == Members \intersect Reviewers = {}

VARIABLES
    member,      \* ats.users of the members: approval, requested role, version, granted role
    reachable,   \* people the recipient queries find: active, approved, still permitted
    versions,    \* request versions drawn so far
    delivery,    \* ats.role_request_deliveries and ats.system_email_deliveries
    worker,      \* phase of each replica's worker and the jobs it has claimed
    decision,    \* local variables of the decisions in flight
    sent,        \* messages that reached the recipient, per delivery
    failures     \* crashes, lost jobs and overrun leases so far

vars == <<member, reachable, versions, delivery, worker, decision, sent, failures>>

NoRole == "none"
NoVersion == 0
Versions == 1..MaxVersions
RequestChannels == {"email", "in_app"}
ApprovalChannels == {"accountApproval", "roleApprovals"}
Ids == [member : Members, version : Versions, to : Members \union Reviewers,
        channel : Channels]

Open == {"pending", "sending"}
Closed == {"accepted", "cancelled", "failed", "disabled"}
NotQueued == [status |-> "none", attempts |-> 0, lease |-> 0, due |-> FALSE]
Queued == [status |-> "pending", attempts |-> 0, lease |-> 0, due |-> TRUE]
Resting == [phase |-> "idle", jobs |-> {}]
Undecided == [op |-> "idle"]

Init ==
    /\ member = [m \in Members |-> [approved |-> FALSE, role |-> NoRole,
                                    version |-> NoVersion, granted |-> NoRole]]
    /\ reachable = Reviewers
    /\ versions = 0
    /\ delivery = [d \in Ids |-> NotQueued]
    /\ worker = [w \in Replicas |-> Resting]
    /\ decision = [c \in Deciders |-> Undecided]
    /\ sent = [d \in Ids |-> 0]
    /\ failures = 0

\* INSERT ... ON CONFLICT DO NOTHING.
Enqueue(ids) ==
    delivery' = [d \in Ids |-> IF d \in ids /\ delivery[d] = NotQueued
                               THEN Queued ELSE delivery[d]]

RequestIds(m, v) == {d \in Ids : /\ d.member = m /\ d.version = v
                                 /\ d.to \in reachable \intersect Reviewers
                                 /\ d.channel \in RequestChannels}

ApprovalIds(m, v) == {d \in Ids : /\ d.member = m /\ d.version = v
                                  /\ \/ d.to = m /\ d.channel = "accountApproval"
                                     \/ /\ d.to \in reachable \intersect Reviewers
                                        /\ d.channel = "roleApprovals"}

-----------------------------------------------------------------------------
(* Requests and decisions *)

\* submit(), one transaction with the member locked: an identical request keeps
\* its version, any other draws a new one.
Submit(m, role) ==
    /\ ~member[m].approved
    /\ \/ /\ member[m].role = role /\ member[m].version # NoVersion
          /\ Enqueue(RequestIds(m, member[m].version))
          /\ UNCHANGED <<member, versions>>
       \/ /\ member[m].role # role \/ member[m].version = NoVersion
          /\ versions < MaxVersions
          /\ versions' = versions + 1
          /\ member' = [member EXCEPT ![m].role = role, ![m].version = versions']
          /\ Enqueue(RequestIds(m, versions'))
    /\ UNCHANGED <<reachable, worker, decision, sent, failures>>

\* approveTenantUser and rejectTenantUser up to their write: the decider's
\* version must be the current one, and the role to grant is chosen here.
DecideRead(c, m, op) ==
    /\ decision[c] = Undecided
    /\ ~member[m].approved /\ member[m].version # NoVersion
    /\ decision' = [decision EXCEPT ![c] =
                      [op |-> op, member |-> m, role |-> member[m].role,
                       version |-> member[m].version]]
    /\ UNCHANGED <<member, reachable, versions, delivery, worker, sent, failures>>

\* Mutant: only the approval state is compared.
StillPending(c) == ~member[decision[c].member].approved

\* The WHERE of both writes: the request is the one that was read.
StillRequested(c) ==
    LET m == decision[c].member
    IN /\ ~member[m].approved
       /\ member[m].role = decision[c].role /\ member[m].version = decision[c].version

\* approveTenantUser's transaction, with enqueueApproval.
ApproveCommit(c) ==
    /\ decision[c].op = "approve"
    /\ StillRequested(c)
    /\ member' = [member EXCEPT ![decision[c].member] =
                    [approved |-> TRUE, role |-> NoRole, version |-> NoVersion,
                     granted |-> decision[c].role]]
    /\ Enqueue(ApprovalIds(decision[c].member, decision[c].version))
    /\ reachable' = reachable \union {decision[c].member}
    /\ decision' = [decision EXCEPT ![c] = Undecided]
    /\ UNCHANGED <<versions, worker, sent, failures>>

RejectCommit(c) ==
    /\ decision[c].op = "reject"
    /\ StillRequested(c)
    /\ member' = [member EXCEPT ![decision[c].member].role = NoRole,
                                ![decision[c].member].version = NoVersion]
    /\ decision' = [decision EXCEPT ![c] = Undecided]
    /\ UNCHANGED <<reachable, versions, delivery, worker, sent, failures>>

\* The write finds no row, or the request fails before it.
DecideRefused(c) ==
    /\ decision[c] # Undecided
    /\ decision' = [decision EXCEPT ![c] = Undecided]
    /\ UNCHANGED <<member, reachable, versions, delivery, worker, sent, failures>>

\* Somebody is deactivated or loses the role that made them a recipient.
LoseEligibility(p) ==
    /\ p \in reachable
    /\ reachable' = reachable \ {p}
    /\ UNCHANGED <<member, versions, delivery, worker, decision, sent, failures>>

-----------------------------------------------------------------------------
(* Delivery *)

\* Mutant: a delivery in sending is never taken over.
ReadyIfPending(channels) ==
    {d \in Ids : d.channel \in channels /\ delivery[d].status = "pending" /\ delivery[d].due}

Ready(channels) ==
    {d \in Ids : d.channel \in channels /\ delivery[d].status \in Open /\ delivery[d].due}

\* Is the request this notice is about still the pending one?
Current(d) == ~member[d.member].approved /\ member[d.member].version = d.version

Job(d) == [id |-> d, attempts |-> delivery'[d].attempts, lease |-> delivery'[d].lease,
           stage |-> "claimed", current |-> Current(d)]

\* The claim of at most Batch due rows; SKIP LOCKED keeps claims apart.
Claim(w, channels, phase) ==
    /\ \E ids \in SUBSET Ready(channels) :
          /\ Cardinality(ids) = IF Cardinality(Ready(channels)) < Batch
                                THEN Cardinality(Ready(channels)) ELSE Batch
          /\ delivery' = [d \in Ids |->
                IF d \in ids
                THEN [status |-> "sending", attempts |-> delivery[d].attempts + 1,
                      lease |-> delivery[d].attempts + 1, due |-> FALSE]
                ELSE delivery[d]]
          /\ worker' = [worker EXCEPT ![w] = [phase |-> phase, jobs |-> {Job(d) : d \in ids}]]
    /\ UNCHANGED <<member, reachable, versions, decision, sent, failures>>

\* dispatchPending: skipped while processing, then the requests' notices.
DispatchPending(w) ==
    /\ worker[w].phase = "idle"
    /\ Ready(RequestChannels) \union Ready(ApprovalChannels) # {}
    /\ Claim(w, RequestChannels, "requests")

\* When every job has settled, dispatchApprovalEmails.
DispatchApprovalEmails(w) ==
    /\ worker[w].phase = "requests" /\ worker[w].jobs = {}
    /\ Claim(w, ApprovalChannels, "approvals")

DispatchDone(w) ==
    /\ worker[w].phase = "approvals" /\ worker[w].jobs = {}
    /\ worker' = [worker EXCEPT ![w] = Resting]
    /\ UNCHANGED <<member, reachable, versions, delivery, decision, sent, failures>>

Advance(w, j, stage) ==
    worker' = [worker EXCEPT ![w].jobs = (@ \ {j}) \union {[j EXCEPT !.stage = stage]}]

\* Mutant: one attempt more than the limit.
ExhaustedLate(j) == j.attempts > MaxAttempts + 1

\* A delivery claimed more often than this was lost by a worker each time.
Exhausted(j) == j.attempts > MaxAttempts

\* Mutant: a notice is sent as long as the member asks for some role.
WantedForAnyRequest(d) ==
    /\ d.channel \in RequestChannels => member[d.member].version # NoVersion
    /\ d.to \in reachable

\* The checks before sending: the request is still the pending one (for its
\* notices), and the recipient is still one.
Wanted(d) ==
    /\ d.channel \in RequestChannels => Current(d)
    /\ d.to \in reachable

\* deliver() and its counterpart for approvals, up to the message.
DeliverCheck(w, j) ==
    /\ j \in worker[w].jobs /\ j.stage = "claimed"
    /\ \/ Exhausted(j) /\ Advance(w, j, "failed")
       \/ ~Exhausted(j) /\ ~Wanted(j.id) /\ Advance(w, j, "cancelled")
       \/ ~Exhausted(j) /\ Wanted(j.id) /\ Advance(w, j, "send")
    /\ UNCHANGED <<member, reachable, versions, delivery, decision, sent, failures>>

\* An email is sent again by every attempt; an in-app notification is upserted
\* under the id of its delivery.
MessagesAfter(d) == IF d.channel = "in_app" THEN 1 ELSE sent[d] + 1

\* The message is handed over; the provider may fail after it took the message,
\* and workspaces can have their mail disabled.
DeliverSend(w, j) ==
    /\ j \in worker[w].jobs /\ j.stage = "send"
    /\ \/ /\ sent' = [sent EXCEPT ![j.id] = MessagesAfter(j.id)]
          /\ Advance(w, j, "accepted") \/ Advance(w, j, "retry")
       \/ UNCHANGED sent /\ Advance(w, j, "retry")
       \/ /\ j.id.channel \in {"email", "roleApprovals"}
          /\ UNCHANGED sent /\ Advance(w, j, "disabled")
    /\ UNCHANGED <<member, reachable, versions, delivery, decision, failures>>

\* Mutant: the outcome is written whoever holds the lease.
HoldsAnyLease(j) == delivery[j.id].status # "none"

HoldsLease(j) == delivery[j.id].lease = j.lease

\* finish() and the UPDATE of the catch block: written only under the lease.
DeliverFinish(w, j) ==
    /\ j \in worker[w].jobs /\ j.stage \in Closed \union {"retry"}
    /\ worker' = [worker EXCEPT ![w].jobs = @ \ {j}]
    /\ delivery' = IF ~HoldsLease(j) THEN delivery
                   ELSE [delivery EXCEPT ![j.id] =
                          [status |-> IF j.stage # "retry" THEN j.stage
                                      ELSE IF j.attempts >= MaxAttempts THEN "failed"
                                      ELSE "pending",
                           attempts |-> @.attempts, lease |-> 0, due |-> FALSE]]
    /\ UNCHANGED <<member, reachable, versions, decision, sent, failures>>

\* The database refuses the write: deliver() awaits finish('accepted'), so that
\* one goes through the catch block; anything else leaves the row to its lease.
FinishFails(w, j) ==
    /\ j \in worker[w].jobs /\ j.stage \in Closed \union {"retry"}
    /\ failures < MaxFailures /\ failures' = failures + 1
    /\ IF j.stage = "accepted" /\ j.id.channel \in RequestChannels
       THEN Advance(w, j, "retry")
       ELSE worker' = [worker EXCEPT ![w].jobs = @ \ {j}]
    /\ UNCHANGED <<member, reachable, versions, delivery, decision, sent>>

\* A replica stops with whatever it was doing and starts again.
Crash(w) ==
    /\ worker[w] # Resting
    /\ failures < MaxFailures /\ failures' = failures + 1
    /\ worker' = [worker EXCEPT ![w] = Resting]
    /\ UNCHANGED <<member, reachable, versions, delivery, decision, sent>>

Held(d) == \E w \in Replicas : \E j \in worker[w].jobs :
               j.id = d /\ j.lease = delivery[d].lease

\* available_at passes after a backoff, or for a lease nobody works under any more.
BecomesDue(d) ==
    /\ delivery[d].status \in Open /\ ~delivery[d].due
    /\ ~Held(d)
    /\ delivery' = [delivery EXCEPT ![d].due = TRUE]
    /\ UNCHANGED <<member, reachable, versions, worker, decision, sent, failures>>

\* A job takes longer than its lease.
LeaseRunsOut(d) ==
    /\ delivery[d].status = "sending" /\ ~delivery[d].due
    /\ Held(d)
    /\ failures < MaxFailures /\ failures' = failures + 1
    /\ delivery' = [delivery EXCEPT ![d].due = TRUE]
    /\ UNCHANGED <<member, reachable, versions, worker, decision, sent>>

WorkerStep(w) ==
    \/ DispatchPending(w) \/ DispatchApprovalEmails(w) \/ DispatchDone(w)
    \/ \E j \in worker[w].jobs : DeliverCheck(w, j) \/ DeliverSend(w, j) \/ DeliverFinish(w, j)

Next ==
    \/ \E m \in Members, role \in Roles : Submit(m, role)
    \/ \E c \in Deciders, m \in Members, op \in {"approve", "reject"} : DecideRead(c, m, op)
    \/ \E c \in Deciders : ApproveCommit(c) \/ RejectCommit(c) \/ DecideRefused(c)
    \/ \E p \in Members \union Reviewers : LoseEligibility(p)
    \/ \E w \in Replicas : WorkerStep(w) \/ Crash(w)
    \/ \E w \in Replicas : \E j \in worker[w].jobs : FinishFails(w, j)
    \/ \E d \in Ids : BecomesDue(d) \/ LeaseRunsOut(d)

Spec == Init /\ [][Next]_vars

\* The timer fires every 15 seconds on every replica, a claimed job runs until
\* it settles, and time passes.  Nobody has to submit or decide anything.
Fairness ==
    /\ \A w \in Replicas : WF_vars(WorkerStep(w))
    /\ \A d \in Ids : WF_vars(BecomesDue(d))

LiveSpec == Spec /\ Fairness

-----------------------------------------------------------------------------
(* Properties *)

\* "Only one competing decision wins", and it decides the request it was made
\* for: the member gets the role of the version the approver looked at, never
\* that of a request which replaced it in the meantime.
ApprovalGrantsRequestedRole ==
    [][\A m \in Members : member'[m].approved /\ ~member[m].approved =>
          /\ member[m].version # NoVersion
          /\ member'[m].granted = member[m].role]_vars

\* A delivery that has been settled stays settled: a worker that lost its lease,
\* by a crash of the clock or by being slow, cannot change what another wrote.
SettledStaysSettled ==
    [][\A d \in Ids : delivery[d].status \in Closed => delivery'[d] = delivery[d]]_vars

\* Retries, lost leases and crashes together never send a message more often
\* than the attempt limit, and an in-app notification never twice.
SentWithinLimit ==
    \A d \in Ids : sent[d] <= IF d.channel = "in_app" THEN 1 ELSE MaxAttempts

\* A notice whose request was decided or replaced before a worker claimed it is
\* never sent by that claim.
NoNoticeOfClosedRequest ==
    \A w \in Replicas : \A j \in worker[w].jobs :
        j.id.channel \in RequestChannels /\ j.stage = "send" => j.current

\* Every queued delivery is settled in the end, although workers crash while
\* they hold it.
QueuedIsSettled ==
    \A d \in Ids : delivery[d].status \in Open ~> delivery[d].status \in Closed
=============================================================================
