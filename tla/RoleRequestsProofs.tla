------------------------- MODULE RoleRequestsProofs -------------------------
(* Decisions and deliveries of role requests, for any number of members,     *)
(* reviewers, replicas and attempts.                                         *)
EXTENDS RoleRequests, FiniteSetTheorems, TLAPS

Stages == {"claimed", "send", "retry"} \cup Closed
Phases == {"idle", "requests", "approvals"}
Jobs == [id : Ids, attempts : Nat, lease : Nat, stage : Stages, current : BOOLEAN]
Rows == [status : {"none"} \cup Open \cup Closed, attempts : Nat, lease : Nat, due : BOOLEAN]
Requested == [approved : BOOLEAN, role : Roles \cup {NoRole}, version : Nat, granted : Roles \cup {NoRole}]
Decisions == [op : {"approve", "reject"}, member : Members, role : Roles \cup {NoRole}, version : Nat]

RequestsTypeOK ==
    /\ member \in [Members -> Requested]
    /\ reachable \subseteq Members \cup Reviewers
    /\ versions \in Nat
    /\ delivery \in [Ids -> Rows]
    /\ worker \in [Replicas -> [phase : Phases, jobs : SUBSET Jobs]]
    /\ decision \in [Deciders -> Decisions \cup {Undecided}]
    /\ sent \in [Ids -> Nat]
    /\ failures \in Nat

\* A lease stands while its row is being sent, and is that of the last attempt;
\* what is queued is about a version that has been drawn.
LeasesInv ==
    \A d \in Ids :
        /\ delivery[d].lease = IF delivery[d].status = "sending" THEN delivery[d].attempts ELSE 0
        /\ delivery[d].status = "sending" => delivery[d].attempts # 0
        /\ delivery[d].status # "none" => d.version <= versions

\* A job works under the lease of its own attempt, and one whose request was
\* closed when it was claimed finds it closed ever after.
JobInv(j) ==
    /\ j.lease = j.attempts /\ j.attempts # 0
    /\ j.attempts <= delivery[j.id].attempts
    /\ j.id.version <= versions
    /\ j.stage = "send" => j.attempts <= MaxAttempts
    /\ ~j.current => ~Current(j.id)
    /\ j.id.channel \in RequestChannels /\ j.stage = "send" => j.current

JobsInv == \A w \in Replicas : \A j \in worker[w].jobs : JobInv(j)

\* An attempt is made by one job.
OneJobPerAttempt ==
    \A v, w \in Replicas : \A j \in worker[v].jobs, k \in worker[w].jobs :
        j.id = k.id /\ j.attempts = k.attempts => v = w /\ j = k

\* The attempts at a delivery that may still send: those to come and those whose
\* job has not got there.
Awaited(d, n) ==
    \E w \in Replicas : \E j \in worker[w].jobs :
        j.id = d /\ j.attempts = n /\ j.stage \in {"claimed", "send"}
Unsent(d) == {n \in 1..MaxAttempts : n > delivery[d].attempts \/ Awaited(d, n)}

SentInv ==
    \A d \in Ids :
        /\ d.channel = "in_app" => sent[d] <= 1
        /\ d.channel # "in_app" => sent[d] + Cardinality(Unsent(d)) <= MaxAttempts

\* A request, and a decision about one, has a version that was drawn.
VersionsInv ==
    /\ \A m \in Members : member[m].version <= versions
    /\ \A c \in Deciders : decision[c] # Undecided =>
          decision[c].version # NoVersion /\ decision[c].version <= versions

RequestsInv ==
    /\ RequestsTypeOK /\ LeasesInv /\ JobsInv /\ OneJobPerAttempt /\ SentInv /\ VersionsInv

-----------------------------------------------------------------------------

\* The numbers of the attempts that may still send are finitely many.
LEMMA UnsentFinite ==
    ASSUME NEW d \in Ids
    PROVE  /\ IsFiniteSet(Unsent(d)) /\ Cardinality(Unsent(d)) \in Nat
           /\ Cardinality(Unsent(d)) <= MaxAttempts
<1>1. IsFiniteSet(1..MaxAttempts) /\ Cardinality(1..MaxAttempts) = MaxAttempts
  BY FS_Interval, BoundsAssumption
<1>2. Unsent(d) \subseteq 1..MaxAttempts
  BY DEF Unsent
<1> QED
  BY <1>1, <1>2, FS_Subset, FS_CardinalityType, BoundsAssumption

\* Nothing is queued, sent or decided in the beginning.
LEMMA InitRequests == Init => RequestsInv
<1> SUFFICES ASSUME Init PROVE RequestsInv
  OBVIOUS
<1> USE DEF Init
<1>1. RequestsTypeOK
  BY DEF RequestsTypeOK, Requested, Rows, NotQueued, Resting, Phases, NoVersion, NoRole
<1>2. LeasesInv /\ JobsInv /\ OneJobPerAttempt /\ VersionsInv
  BY DEF LeasesInv, JobsInv, OneJobPerAttempt, VersionsInv, NotQueued, Resting, NoVersion
<1>3. SentInv
  BY UnsentFinite, BoundsAssumption DEF SentInv
<1> QED
  BY <1>1, <1>2, <1>3 DEF RequestsInv

-----------------------------------------------------------------------------
(* Jobs in progress *)

\* Where a job may have come from within a step.
Follows(k, j) ==
    /\ k.id = j.id /\ k.attempts = j.attempts /\ k.lease = j.lease /\ k.current = j.current
    /\ \/ k.stage = j.stage
       \/ k.stage \notin {"claimed", "send"}
       \/ /\ k.stage = "send" /\ j.stage = "claimed"
          /\ j.attempts <= MaxAttempts
          /\ j.id.channel \in RequestChannels => Current(j.id)

JobsFollow == \A v \in Replicas : \A k \in worker'[v].jobs : \E j \in worker[v].jobs : Follows(k, j)

\* Jobs that only move on keep their invariant, and no attempt gets to send again.
LEMMA Following ==
    ASSUME RequestsInv, RequestsTypeOK', JobsFollow, UNCHANGED <<member, versions>>,
           \A d \in Ids : delivery'[d].attempts = delivery[d].attempts
    PROVE  JobsInv' /\ \A d \in Ids : Unsent(d)' \subseteq Unsent(d)
<1>1. ASSUME NEW v \in Replicas, NEW k \in worker'[v].jobs
      PROVE  JobInv(k)'
  <2>1. PICK j \in worker[v].jobs : Follows(k, j)
    BY <1>1 DEF JobsFollow
  <2>2. JobInv(j) /\ j \in Jobs /\ k \in Jobs
    BY <1>1, <2>1 DEF RequestsInv, JobsInv, RequestsTypeOK
  <2>3. Current(k.id)' <=> Current(k.id)
    BY DEF Current
  <2> QED
    BY <2>1, <2>2, <2>3 DEF Follows, JobInv, Jobs
<1>2. ASSUME NEW d \in Ids, NEW n \in Unsent(d)'
      PROVE  n \in Unsent(d)
  <2>1. CASE Awaited(d, n)'
    <3>0. PICK v \in Replicas : \E k \in worker'[v].jobs :
             k.id = d /\ k.attempts = n /\ k.stage \in {"claimed", "send"}
      BY <2>1 DEF Awaited
    <3>1. PICK k \in worker'[v].jobs : k.id = d /\ k.attempts = n /\ k.stage \in {"claimed", "send"}
      BY <3>0
    <3>2. PICK j \in worker[v].jobs : Follows(k, j)
      BY <3>1 DEF JobsFollow
    <3>3. j.id = d /\ j.attempts = n /\ j.stage \in {"claimed", "send"}
      BY <3>1, <3>2 DEF Follows
    <3> QED
      BY <1>2, <3>3 DEF Unsent, Awaited
  <2>2. CASE n > delivery'[d].attempts
    BY <1>2, <2>2 DEF Unsent
  <2> QED
    BY <1>2, <2>1, <2>2 DEF Unsent
<1> QED
  BY <1>1, <1>2 DEF JobsInv

\* One job moves on and the others stay.
LEMMA Advancing ==
    ASSUME RequestsInv, NEW w \in Replicas, NEW j \in worker[w].jobs,
           NEW stage \in Stages, Advance(w, j, stage)
    PROVE  /\ worker' \in [Replicas -> [phase : Phases, jobs : SUBSET Jobs]]
           /\ OneJobPerAttempt'
           /\ Follows([j EXCEPT !.stage = stage], j) => JobsFollow
<1> DEFINE k == [j EXCEPT !.stage = stage]
<1>1. j \in Jobs /\ worker \in [Replicas -> [phase : Phases, jobs : SUBSET Jobs]]
  BY DEF RequestsInv, RequestsTypeOK
<1>2. k \in Jobs /\ k.id = j.id /\ k.attempts = j.attempts
  BY <1>1 DEF Jobs
<1>3. /\ worker' = [worker EXCEPT ![w] = [worker[w] EXCEPT !.jobs = (worker[w].jobs \ {j}) \cup {k}]]
      /\ worker'[w].jobs = (worker[w].jobs \ {j}) \cup {k}
      /\ \A v \in Replicas \ {w} : worker'[v] = worker[v]
  BY <1>1 DEF Advance
<1>4. worker' \in [Replicas -> [phase : Phases, jobs : SUBSET Jobs]]
  BY <1>1, <1>2, <1>3
<1>5. OneJobPerAttempt'
  <2> SUFFICES ASSUME NEW u \in Replicas, NEW v \in Replicas,
                      NEW a \in worker'[u].jobs, NEW b \in worker'[v].jobs,
                      a.id = b.id, a.attempts = b.attempts
               PROVE  u = v /\ a = b
    BY DEF OneJobPerAttempt
  <2>1. PICK a0 \in worker[u].jobs : /\ a0.id = a.id /\ a0.attempts = a.attempts
                                     /\ (a = a0 /\ (u # w \/ a0 # j)) \/ (u = w /\ a0 = j /\ a = k)
    BY <1>2, <1>3
  <2>2. PICK b0 \in worker[v].jobs : /\ b0.id = b.id /\ b0.attempts = b.attempts
                                     /\ (b = b0 /\ (v # w \/ b0 # j)) \/ (v = w /\ b0 = j /\ b = k)
    BY <1>2, <1>3
  <2>3. u = v /\ a0 = b0
    BY <2>1, <2>2 DEF RequestsInv, OneJobPerAttempt
  <2> QED
    BY <2>1, <2>2, <2>3
<1>6. ASSUME Follows(k, j), NEW v \in Replicas, NEW a \in worker'[v].jobs
      PROVE  \E b \in worker[v].jobs : Follows(a, b)
  <2>1. a \in worker[v].jobs \/ (v = w /\ a = k)
    BY <1>3, <1>6
  <2> QED
    BY <1>6, <2>1 DEF Follows
<1> QED
  BY <1>4, <1>5, <1>6 DEF JobsFollow

\* Jobs are given up and the others stay.
LEMMA Dropping ==
    ASSUME RequestsInv, worker' \in [Replicas -> [phase : Phases, jobs : SUBSET Jobs]],
           \A v \in Replicas : worker'[v].jobs \subseteq worker[v].jobs
    PROVE  OneJobPerAttempt' /\ JobsFollow
<1>1. OneJobPerAttempt'
  BY DEF RequestsInv, OneJobPerAttempt
<1>2. JobsFollow
  BY DEF JobsFollow, Follows
<1> QED
  BY <1>1, <1>2

\* Where fewer attempts may still send and none has sent, the bound stands.
LEMMA SendingLess ==
    ASSUME RequestsInv, sent' = sent, \A d \in Ids : Unsent(d)' \subseteq Unsent(d)
    PROVE  SentInv'
<1> SUFFICES ASSUME NEW d \in Ids
             PROVE  /\ d.channel = "in_app" => sent[d] <= 1
                    /\ d.channel # "in_app" => sent[d] + Cardinality(Unsent(d)') <= MaxAttempts
  BY DEF SentInv
<1>1. IsFiniteSet(Unsent(d)) /\ Cardinality(Unsent(d)) \in Nat
  BY UnsentFinite
<1>2. /\ Cardinality(Unsent(d)') <= Cardinality(Unsent(d))
      /\ Cardinality(Unsent(d)') \in Nat
  BY <1>1, FS_Subset, FS_CardinalityType
<1> QED
  BY <1>1, <1>2, BoundsAssumption DEF RequestsInv, SentInv, RequestsTypeOK

-----------------------------------------------------------------------------
(* Requests and decisions *)

\* Nothing but the rows that were not there changes.
LEMMA Enqueuing ==
    ASSUME RequestsInv, versions' \in Nat, versions <= versions', UNCHANGED <<worker, sent>>,
           NEW ids, \A d \in ids : d \in Ids => d.version <= versions', Enqueue(ids)
    PROVE  /\ delivery' \in [Ids -> Rows] /\ LeasesInv'
           /\ \A d \in Ids : delivery'[d].attempts = delivery[d].attempts
           /\ SentInv' /\ OneJobPerAttempt'
<1>1. delivery \in [Ids -> Rows] /\ versions \in Nat
  BY DEF RequestsInv, RequestsTypeOK
<1>2. Queued \in Rows /\ Queued.attempts = 0 /\ NotQueued.attempts = 0
  BY DEF Queued, NotQueued, Rows, Open
<1>3. delivery' \in [Ids -> Rows]
  BY <1>1, <1>2 DEF Enqueue
<1>4. \A d \in Ids : delivery'[d].attempts = delivery[d].attempts
  BY <1>1, <1>2 DEF Enqueue
<1>5. LeasesInv'
  <2> SUFFICES ASSUME NEW d \in Ids
               PROVE  /\ delivery'[d].lease = IF delivery'[d].status = "sending" THEN delivery'[d].attempts ELSE 0
                      /\ delivery'[d].status = "sending" => delivery'[d].attempts # 0
                      /\ delivery'[d].status # "none" => d.version <= versions'
    BY DEF LeasesInv
  <2>1. CASE delivery'[d] = delivery[d]
    <3>1. delivery[d].status # "none" => d.version <= versions
      BY DEF RequestsInv, LeasesInv
    <3>2. d.version \in Nat
      BY BoundsAssumption DEF Ids, Versions
    <3> QED
      BY <1>1, <2>1, <3>1, <3>2 DEF RequestsInv, LeasesInv
  <2>2. CASE d \in ids /\ delivery'[d] = Queued
    BY <2>2 DEF Queued
  <2> QED
    BY <2>1, <2>2 DEF Enqueue
<1>6. SentInv'
  BY <1>4, SendingLess DEF Unsent, Awaited
<1>7. OneJobPerAttempt'
  BY DEF RequestsInv, OneJobPerAttempt
<1> QED
  BY <1>3, <1>4, <1>5, <1>6, <1>7

\* A version that was drawn and is not the pending one never will be.
ClosedForGood == \A d \in Ids : d.version <= versions /\ ~Current(d) => ~Current(d)'

\* Jobs that stay as they are keep their invariant while requests come and go.
LEMMA JobsStay ==
    ASSUME RequestsInv, ClosedForGood, UNCHANGED worker, versions' \in Nat, versions <= versions',
           \A d \in Ids : delivery'[d].attempts = delivery[d].attempts
    PROVE  JobsInv'
<1> SUFFICES ASSUME NEW w \in Replicas, NEW j \in worker[w].jobs
             PROVE  JobInv(j)'
  BY DEF JobsInv
<1>1. j \in Jobs /\ JobInv(j) /\ versions \in Nat
  BY DEF RequestsInv, RequestsTypeOK, JobsInv
<1>2. j.id \in Ids /\ j.id.version \in Nat
  BY <1>1, BoundsAssumption DEF Jobs, Ids, Versions
<1>3. ~Current(j.id) => ~Current(j.id)'
  BY <1>1, <1>2 DEF JobInv, ClosedForGood
<1> QED
  BY <1>1, <1>2, <1>3 DEF JobInv

\* submit
LEMMA SubmitStep ==
    ASSUME RequestsInv, NEW m \in Members, NEW role \in Roles, Submit(m, role)
    PROVE  RequestsInv'
<1>1. /\ member \in [Members -> Requested] /\ versions \in Nat /\ member[m] \in Requested
      /\ UNCHANGED <<reachable, worker, decision, sent, failures>>
  BY DEF RequestsInv, RequestsTypeOK, Submit
<1>2. /\ member' \in [Members -> Requested] /\ versions' \in Nat /\ versions <= versions'
      /\ \A d \in Ids : d.version <= versions /\ ~Current(d) => ~Current(d)'
      /\ \E ids : Enqueue(ids) /\ \A d \in ids : d \in Ids => d.version <= versions'
  <2>1. CASE /\ member[m].role = role /\ member[m].version # NoVersion
             /\ Enqueue(RequestIds(m, member[m].version))
             /\ UNCHANGED <<member, versions>>
    <3>1. \A d \in RequestIds(m, member[m].version) : d \in Ids => d.version <= versions'
      BY <2>1 DEF RequestIds, RequestsInv, VersionsInv
    <3> QED
      BY <1>1, <2>1, <3>1 DEF Current
  <2>2. CASE /\ versions' = versions + 1
             /\ member' = [member EXCEPT ![m].role = role, ![m].version = versions']
             /\ Enqueue(RequestIds(m, versions'))
    <3>1. member' = [member EXCEPT ![m] = [member[m] EXCEPT !.role = role, !.version = versions']]
      BY <1>1, <2>2
    <3>2. member' \in [Members -> Requested] /\ versions' \in Nat /\ versions <= versions'
      BY <1>1, <2>2, <3>1 DEF Requested
    <3>3. ASSUME NEW d \in Ids, d.version <= versions, ~Current(d)
          PROVE  ~Current(d)'
      <4>1. d.member \in Members /\ d.version \in Nat
        BY BoundsAssumption DEF Ids, Versions
      <4>2. d.member # m => member'[d.member] = member[d.member]
        BY <1>1, <3>1, <4>1
      <4>3. d.member = m => member'[d.member].version = versions + 1
        BY <1>1, <2>2, <3>1, <4>1 DEF Requested
      <4> QED
        BY <1>1, <3>3, <4>1, <4>2, <4>3 DEF Current
    <3>4. \A d \in RequestIds(m, versions') : d.version <= versions'
      BY <3>2 DEF RequestIds
    <3> QED
      BY <2>2, <3>2, <3>3, <3>4
  <2> QED
    BY <2>1, <2>2 DEF Submit
<1>3. PICK ids : Enqueue(ids) /\ \A d \in ids : d \in Ids => d.version <= versions'
  BY <1>2
<1>4. /\ delivery' \in [Ids -> Rows] /\ LeasesInv' /\ SentInv' /\ OneJobPerAttempt'
      /\ \A d \in Ids : delivery'[d].attempts = delivery[d].attempts
  BY <1>1, <1>2, <1>3, Enqueuing
<1>5. JobsInv'
  BY <1>1, <1>2, <1>4, JobsStay DEF ClosedForGood
<1>6. RequestsTypeOK'
  BY <1>1, <1>2, <1>4 DEF RequestsInv, RequestsTypeOK
<1>7. VersionsInv'
  <2>1. \A k \in Members : member'[k].version <= versions'
    BY <1>1, <1>2 DEF Submit, RequestsInv, VersionsInv, Requested
  <2>2. ASSUME NEW c \in Deciders, decision[c] # Undecided
        PROVE  decision[c].version # NoVersion /\ decision[c].version <= versions'
    <3>1. decision[c] \in Decisions
      BY <2>2 DEF RequestsInv, RequestsTypeOK
    <3> QED
      BY <1>1, <1>2, <2>2, <3>1 DEF RequestsInv, VersionsInv, Decisions
  <2> QED
    BY <1>1, <2>1, <2>2 DEF VersionsInv
<1> QED
  BY <1>4, <1>5, <1>6, <1>7 DEF RequestsInv

\* approveTenantUser, its write
LEMMA ApproveStep ==
    ASSUME RequestsInv, NEW c \in Deciders, ApproveCommit(c)
    PROVE  RequestsInv'
<1> DEFINE m == decision[c].member
           v == decision[c].version
<1>1. /\ decision[c] \in Decisions /\ decision[c] # Undecided
      /\ UNCHANGED <<versions, worker, sent, failures>>
      /\ decision' = [decision EXCEPT ![c] = Undecided]
  BY DEF RequestsInv, RequestsTypeOK, ApproveCommit, Undecided
<1>2. /\ member \in [Members -> Requested] /\ versions \in Nat /\ m \in Members /\ v \in Nat
      /\ decision \in [Deciders -> Decisions \cup {Undecided}]
  BY <1>1 DEF RequestsInv, RequestsTypeOK, Decisions
<1> DEFINE approved == [approved |-> TRUE, role |-> NoRole, version |-> NoVersion, granted |-> decision[c].role]
<1>3. member' = [member EXCEPT ![m] = approved] /\ reachable' = reachable \cup {m}
  BY DEF ApproveCommit
<1>4. approved \in Requested /\ approved.version = 0 /\ approved.approved
  BY <1>1 DEF Requested, Decisions, NoRole, NoVersion
<1>5. member' \in [Members -> Requested] /\ reachable' \subseteq Members \cup Reviewers
  BY <1>2, <1>3, <1>4 DEF RequestsInv, RequestsTypeOK
<1>6. Enqueue(ApprovalIds(m, v)) /\ \A d \in ApprovalIds(m, v) : d.version <= versions
  BY <1>1 DEF ApproveCommit, ApprovalIds, RequestsInv, VersionsInv
<1>7. ClosedForGood
  <2> SUFFICES ASSUME NEW d \in Ids, ~Current(d) PROVE ~Current(d)'
    BY DEF ClosedForGood
  <2>1. d.member \in Members
    BY DEF Ids
  <2> QED
    BY <1>2, <1>3, <1>4, <2>1 DEF Current
<1>8. /\ delivery' \in [Ids -> Rows] /\ LeasesInv' /\ SentInv' /\ OneJobPerAttempt'
      /\ \A d \in Ids : delivery'[d].attempts = delivery[d].attempts
  BY <1>1, <1>2, <1>6, Enqueuing
<1>9. JobsInv'
  BY <1>1, <1>2, <1>7, <1>8, JobsStay
<1>10. decision' \in [Deciders -> Decisions \cup {Undecided}]
  BY <1>1, <1>2
<1>11. RequestsTypeOK'
  BY <1>1, <1>5, <1>8, <1>10 DEF RequestsInv, RequestsTypeOK
<1>12. VersionsInv'
  BY <1>1, <1>2, <1>3, <1>4 DEF RequestsInv, VersionsInv
<1> QED
  BY <1>8, <1>9, <1>11, <1>12 DEF RequestsInv

\* rejectTenantUser, its write
LEMMA RejectStep ==
    ASSUME RequestsInv, NEW c \in Deciders, RejectCommit(c)
    PROVE  RequestsInv'
<1> DEFINE m == decision[c].member
<1>1. /\ decision[c] \in Decisions /\ decision[c] # Undecided
      /\ UNCHANGED <<reachable, versions, delivery, worker, sent, failures>>
      /\ decision' = [decision EXCEPT ![c] = Undecided]
  BY DEF RequestsInv, RequestsTypeOK, RejectCommit, Undecided
<1>2. /\ member \in [Members -> Requested] /\ versions \in Nat /\ m \in Members
      /\ decision \in [Deciders -> Decisions \cup {Undecided}]
  BY <1>1 DEF RequestsInv, RequestsTypeOK, Decisions
<1> DEFINE rejected == [member[m] EXCEPT !.role = NoRole, !.version = NoVersion]
<1>3. member' = [member EXCEPT ![m] = rejected] /\ member[m] \in Requested
  BY <1>2 DEF RejectCommit
<1>4. rejected \in Requested /\ rejected.version = 0
  BY <1>3 DEF Requested, NoRole, NoVersion
<1> HIDE DEF rejected
<1>5. ClosedForGood
  <2> SUFFICES ASSUME NEW d \in Ids, ~Current(d) PROVE ~Current(d)'
    BY DEF ClosedForGood
  <2>1. d.member \in Members /\ d.version # 0
    BY BoundsAssumption DEF Ids, Versions
  <2> QED
    BY <1>2, <1>3, <1>4, <2>1 DEF Current
<1>6. JobsInv' /\ SentInv' /\ OneJobPerAttempt' /\ LeasesInv'
  <2>1. JobsInv'
    BY <1>1, <1>2, <1>5, JobsStay
  <2>2. SentInv'
    BY <1>1, SendingLess DEF Unsent, Awaited
  <2> QED
    BY <1>1, <2>1, <2>2 DEF RequestsInv, OneJobPerAttempt, LeasesInv
<1>7. RequestsTypeOK'
  <2>1. member' \in [Members -> Requested]
    BY <1>2, <1>3, <1>4
  <2>2. decision' \in [Deciders -> Decisions \cup {Undecided}]
    BY <1>1, <1>2
  <2> QED
    BY <1>1, <2>1, <2>2 DEF RequestsInv, RequestsTypeOK
<1>8. VersionsInv'
  BY <1>1, <1>2, <1>3, <1>4 DEF RequestsInv, VersionsInv
<1> QED
  BY <1>6, <1>7, <1>8 DEF RequestsInv

\* A decision begins or is dropped, or somebody is no longer asked.
LEMMA OtherRequestSteps ==
    ASSUME RequestsInv,
           \/ \E c \in Deciders, m \in Members, op \in {"approve", "reject"} : DecideRead(c, m, op)
           \/ \E c \in Deciders : DecideRefused(c)
           \/ \E p \in Members \cup Reviewers : LoseEligibility(p)
    PROVE  RequestsInv'
<1>1. UNCHANGED <<member, versions, delivery, worker, sent, failures>>
  BY DEF DecideRead, DecideRefused, LoseEligibility
<1>2. /\ reachable' \subseteq Members \cup Reviewers
      /\ decision' \in [Deciders -> Decisions \cup {Undecided}] /\ VersionsInv'
  <2>0. /\ member \in [Members -> Requested] /\ reachable \subseteq Members \cup Reviewers
        /\ decision \in [Deciders -> Decisions \cup {Undecided}] /\ VersionsInv
    BY DEF RequestsInv, RequestsTypeOK
  <2>1. ASSUME NEW c \in Deciders, NEW m \in Members, NEW op \in {"approve", "reject"}, DecideRead(c, m, op)
        PROVE  /\ reachable' \subseteq Members \cup Reviewers
               /\ decision' \in [Deciders -> Decisions \cup {Undecided}] /\ VersionsInv'
    <3> DEFINE k == [op |-> op, member |-> m, role |-> member[m].role, version |-> member[m].version]
    <3>1. k \in Decisions /\ k.version # NoVersion /\ k.version <= versions
      BY <2>0, <2>1 DEF Decisions, Requested, DecideRead, VersionsInv
    <3>2. decision' = [decision EXCEPT ![c] = k] /\ UNCHANGED reachable
      BY <2>1 DEF DecideRead
    <3> HIDE DEF k
    <3> QED
      BY <1>1, <2>0, <3>1, <3>2 DEF VersionsInv
  <2>2. ASSUME NEW c \in Deciders, DecideRefused(c)
        PROVE  /\ reachable' \subseteq Members \cup Reviewers
               /\ decision' \in [Deciders -> Decisions \cup {Undecided}] /\ VersionsInv'
    BY <1>1, <2>0, <2>2 DEF DecideRefused, VersionsInv
  <2>3. ASSUME NEW p \in Members \cup Reviewers, LoseEligibility(p)
        PROVE  /\ reachable' \subseteq Members \cup Reviewers
               /\ decision' \in [Deciders -> Decisions \cup {Undecided}] /\ VersionsInv'
    BY <1>1, <2>0, <2>3 DEF LoseEligibility, VersionsInv
  <2> QED
    BY <2>1, <2>2, <2>3
<1>3. JobsInv' /\ SentInv' /\ OneJobPerAttempt' /\ LeasesInv'
  <2>1. JobsInv'
    BY <1>1, JobsStay DEF ClosedForGood, Current, RequestsInv, RequestsTypeOK
  <2>2. SentInv'
    BY <1>1, SendingLess DEF Unsent, Awaited
  <2> QED
    BY <1>1, <2>1, <2>2 DEF RequestsInv, OneJobPerAttempt, LeasesInv
<1>4. RequestsTypeOK'
  BY <1>1, <1>2 DEF RequestsInv, RequestsTypeOK
<1> QED
  BY <1>2, <1>3, <1>4 DEF RequestsInv

-----------------------------------------------------------------------------
(* Delivery *)

\* A claim makes an attempt nobody has made yet.
LEMMA ClaimStep ==
    ASSUME RequestsInv, NEW w \in Replicas, NEW channels, NEW phase \in Phases,
           Claim(w, channels, phase)
    PROVE  RequestsInv'
<1> DEFINE claimed(d) == [status |-> "sending", attempts |-> delivery[d].attempts + 1,
                          lease |-> delivery[d].attempts + 1, due |-> FALSE]
           job(d) == [id |-> d, attempts |-> delivery[d].attempts + 1,
                      lease |-> delivery[d].attempts + 1, stage |-> "claimed", current |-> Current(d)]
<1>1. /\ delivery \in [Ids -> Rows] /\ versions \in Nat
      /\ worker \in [Replicas -> [phase : Phases, jobs : SUBSET Jobs]]
      /\ UNCHANGED <<member, reachable, versions, decision, sent, failures>>
  BY DEF RequestsInv, RequestsTypeOK, Claim
<1>2. PICK ids \in SUBSET Ready(channels) :
         /\ delivery' = [d \in Ids |-> IF d \in ids THEN claimed(d) ELSE delivery[d]]
         /\ worker' = [worker EXCEPT ![w] = [phase |-> phase, jobs |-> {Job(d) : d \in ids}]]
  BY DEF Claim
<1>3. \A d \in ids : d \in Ids /\ delivery[d].status \in Open
  BY <1>2 DEF Ready
<1>4. \A d \in Ids : delivery[d] \in Rows /\ delivery[d].attempts \in Nat
  BY <1>1 DEF Rows
<1>5. \A d \in ids : claimed(d) \in Rows /\ Job(d) = job(d) /\ job(d) \in Jobs
  <2> SUFFICES ASSUME NEW d \in ids PROVE claimed(d) \in Rows /\ Job(d) = job(d) /\ job(d) \in Jobs
    OBVIOUS
  <2>1. d \in Ids /\ delivery[d].attempts \in Nat /\ Current(d) \in BOOLEAN
    BY <1>3, <1>4 DEF Current
  <2>2. claimed(d) \in Rows /\ job(d) \in Jobs
    BY <2>1 DEF Rows, Open, Jobs, Stages
  <2>3. delivery'[d].attempts = delivery[d].attempts + 1 /\ delivery'[d].lease = delivery[d].attempts + 1
    BY <1>2, <2>1
  <2> QED
    BY <2>2, <2>3 DEF Job
<1>6. delivery' \in [Ids -> Rows]
  BY <1>2, <1>4, <1>5
<1>7. /\ worker' \in [Replicas -> [phase : Phases, jobs : SUBSET Jobs]]
      /\ worker'[w].jobs = {job(d) : d \in ids}
      /\ \A v \in Replicas \ {w} : worker'[v] = worker[v]
  BY <1>1, <1>2, <1>5
<1>8. \A k \in worker'[w].jobs :
         /\ k.id \in ids /\ k.attempts = delivery[k.id].attempts + 1
         /\ k = job(k.id)
  BY <1>7
<1>9. \A d \in Ids : /\ delivery'[d].attempts \in Nat /\ delivery[d].attempts <= delivery'[d].attempts
                     /\ d \in ids => delivery'[d].attempts = delivery[d].attempts + 1
  BY <1>2, <1>4
<1>10. JobsInv'
  <2> SUFFICES ASSUME NEW v \in Replicas, NEW j \in worker'[v].jobs PROVE JobInv(j)'
    BY DEF JobsInv
  <2>1. CASE v = w
    <3>1. j.id \in Ids /\ j.id.version <= versions /\ j = job(j.id) /\ j.id \in ids
      BY <1>3, <1>8, <2>1 DEF RequestsInv, LeasesInv, Open
    <3>2. j.lease = j.attempts /\ j.attempts = delivery[j.id].attempts + 1 /\ j.stage = "claimed" /\ j.current = Current(j.id)
      BY <3>1
    <3>3. Current(j.id)' <=> Current(j.id)
      BY <1>1 DEF Current
    <3> QED
      BY <1>1, <1>4, <1>9, <3>1, <3>2, <3>3 DEF JobInv
  <2>2. CASE v # w
    <3>1. j \in worker[v].jobs /\ j \in Jobs /\ JobInv(j)
      BY <1>1, <1>7, <2>2 DEF RequestsInv, JobsInv
    <3>2. j.id \in Ids /\ j.attempts \in Nat
      BY <3>1 DEF Jobs
    <3>3. Current(j.id)' <=> Current(j.id)
      BY <1>1 DEF Current
    <3> QED
      BY <1>1, <1>4, <1>9, <3>1, <3>2, <3>3 DEF JobInv
  <2> QED
    BY <2>1, <2>2
<1>11. \A v \in Replicas \ {w} : \A j \in worker'[v].jobs :
          j \in worker[v].jobs /\ j.id \in Ids /\ j.attempts \in Nat /\ j.attempts <= delivery[j.id].attempts
  BY <1>1, <1>7 DEF RequestsInv, JobsInv, JobInv, Jobs
<1>12. OneJobPerAttempt'
  <2> SUFFICES ASSUME NEW u \in Replicas, NEW v \in Replicas,
                      NEW a \in worker'[u].jobs, NEW b \in worker'[v].jobs,
                      a.id = b.id, a.attempts = b.attempts
               PROVE  u = v /\ a = b
    BY DEF OneJobPerAttempt
  <2>1. CASE u = w /\ v = w
    BY <1>8, <2>1
  <2>2. CASE u # w /\ v # w
    BY <1>7, <2>2 DEF RequestsInv, OneJobPerAttempt
  <2>3. CASE u = w /\ v # w
    BY <1>3, <1>4, <1>8, <1>11, <2>3
  <2>4. CASE u # w /\ v = w
    BY <1>3, <1>4, <1>8, <1>11, <2>4
  <2> QED
    BY <2>1, <2>2, <2>3, <2>4
<1>13. ASSUME NEW d \in Ids, NEW n \in Unsent(d)'
       PROVE  n \in Unsent(d)
  <2>0. n \in 1..MaxAttempts /\ n \in Nat
    BY <1>13, BoundsAssumption DEF Unsent
  <2>1. CASE Awaited(d, n)'
    <3>0. PICK v \in Replicas : \E k \in worker'[v].jobs :
             k.id = d /\ k.attempts = n /\ k.stage \in {"claimed", "send"}
      BY <2>1 DEF Awaited
    <3>1. PICK k \in worker'[v].jobs : k.id = d /\ k.attempts = n /\ k.stage \in {"claimed", "send"}
      BY <3>0
    <3>2. CASE v = w
      BY <1>4, <1>8, <2>0, <3>1, <3>2 DEF Unsent
    <3>3. CASE v # w
      BY <1>11, <2>0, <3>1, <3>3 DEF Unsent, Awaited
    <3> QED
      BY <3>2, <3>3
  <2>2. CASE n > delivery'[d].attempts
    BY <1>4, <1>9, <2>0, <2>2 DEF Unsent
  <2> QED
    BY <1>13, <2>1, <2>2 DEF Unsent
<1>14. SentInv'
  BY <1>1, <1>13, SendingLess
<1>15. LeasesInv'
  <2> SUFFICES ASSUME NEW d \in Ids
               PROVE  /\ delivery'[d].lease = IF delivery'[d].status = "sending" THEN delivery'[d].attempts ELSE 0
                      /\ delivery'[d].status = "sending" => delivery'[d].attempts # 0
                      /\ delivery'[d].status # "none" => d.version <= versions'
    BY DEF LeasesInv
  <2>1. CASE d \in ids
    <3>1. delivery'[d] = claimed(d) /\ d.version <= versions
      BY <1>2, <1>3, <2>1 DEF RequestsInv, LeasesInv, Open
    <3> QED
      BY <1>1, <1>4, <3>1
  <2>2. CASE d \notin ids
    <3>1. delivery'[d] = delivery[d]
      BY <1>2, <2>2
    <3> QED
      BY <1>1, <3>1 DEF RequestsInv, LeasesInv
  <2> QED
    BY <2>1, <2>2
<1>16. RequestsTypeOK' /\ VersionsInv'
  BY <1>1, <1>6, <1>7 DEF RequestsInv, RequestsTypeOK, VersionsInv
<1> QED
  BY <1>10, <1>12, <1>14, <1>15, <1>16 DEF RequestsInv

\* Steps that send nothing and start no attempt.
LEMMA DeliveriesMove ==
    ASSUME RequestsInv, UNCHANGED <<member, reachable, versions, decision, sent>>, failures' \in Nat,
           delivery' \in [Ids -> Rows], LeasesInv',
           \A d \in Ids : delivery'[d].attempts = delivery[d].attempts,
           worker' \in [Replicas -> [phase : Phases, jobs : SUBSET Jobs]],
           OneJobPerAttempt', JobsFollow
    PROVE  RequestsInv'
<1>1. RequestsTypeOK' /\ VersionsInv'
  BY DEF RequestsInv, RequestsTypeOK, VersionsInv
<1>2. JobsInv' /\ \A d \in Ids : Unsent(d)' \subseteq Unsent(d)
  BY <1>1, Following
<1>3. SentInv'
  BY <1>2, SendingLess
<1> QED
  BY <1>1, <1>2, <1>3 DEF RequestsInv

\* Jobs move on or are dropped, and nothing else happens.
LEMMA WorkersMove ==
    ASSUME RequestsInv, UNCHANGED <<member, reachable, versions, delivery, decision, sent>>, failures' \in Nat,
           worker' \in [Replicas -> [phase : Phases, jobs : SUBSET Jobs]],
           OneJobPerAttempt', JobsFollow
    PROVE  RequestsInv'
<1>1. delivery' \in [Ids -> Rows] /\ LeasesInv' /\ \A d \in Ids : delivery'[d].attempts = delivery[d].attempts
  BY DEF RequestsInv, RequestsTypeOK, LeasesInv
<1> QED
  BY <1>1, DeliveriesMove

\* The checks before a message
LEMMA DeliverCheckStep ==
    ASSUME RequestsInv, NEW w \in Replicas, NEW j \in worker[w].jobs, DeliverCheck(w, j)
    PROVE  RequestsInv'
<1>1. PICK stage \in Stages :
         /\ Advance(w, j, stage)
         /\ stage \in {"failed", "cancelled"} \/ (stage = "send" /\ ~Exhausted(j) /\ Wanted(j.id))
  BY DEF DeliverCheck, Stages, Closed
<1>2. j \in Jobs /\ j.stage = "claimed" /\ failures \in Nat
      /\ UNCHANGED <<member, reachable, versions, delivery, decision, sent, failures>>
  BY DEF RequestsInv, RequestsTypeOK, DeliverCheck
<1>3. Follows([j EXCEPT !.stage = stage], j)
  BY <1>1, <1>2, BoundsAssumption DEF Follows, Exhausted, Wanted, Jobs
<1>4. /\ worker' \in [Replicas -> [phase : Phases, jobs : SUBSET Jobs]]
      /\ OneJobPerAttempt' /\ JobsFollow
  BY <1>1, <1>3, Advancing
<1> QED
  BY <1>2, <1>4, WorkersMove

\* The message, which the job's attempt has not sent before
LEMMA DeliverSendStep ==
    ASSUME RequestsInv, NEW w \in Replicas, NEW j \in worker[w].jobs, DeliverSend(w, j)
    PROVE  RequestsInv'
<1>1. PICK stage \in {"accepted", "retry", "disabled"} : Advance(w, j, stage)
  BY DEF DeliverSend
<1>2. /\ j \in Jobs /\ j.stage = "send" /\ JobInv(j) /\ failures \in Nat /\ sent \in [Ids -> Nat]
      /\ worker \in [Replicas -> [phase : Phases, jobs : SUBSET Jobs]]
      /\ UNCHANGED <<member, reachable, versions, delivery, decision, failures>>
  BY DEF RequestsInv, RequestsTypeOK, JobsInv, DeliverSend
<1> DEFINE k == [j EXCEPT !.stage = stage]
<1>3. Follows(k, j) /\ stage \in Stages /\ k.stage = stage
  BY <1>1, <1>2 DEF Follows, Jobs, Stages, Closed
<1>4. /\ worker' \in [Replicas -> [phase : Phases, jobs : SUBSET Jobs]]
      /\ OneJobPerAttempt' /\ JobsFollow
  BY <1>1, <1>3, Advancing
<1>5. CASE sent' = sent
  BY <1>2, <1>4, <1>5, WorkersMove
<1>6. CASE sent' = [sent EXCEPT ![j.id] = MessagesAfter(j.id)]
  <2>1. j.id \in Ids /\ MessagesAfter(j.id) \in Nat /\ j.attempts \in Nat
    BY <1>2 DEF MessagesAfter, Jobs
  <2>2. RequestsTypeOK' /\ VersionsInv' /\ LeasesInv'
    BY <1>2, <1>4, <1>6, <2>1 DEF RequestsInv, RequestsTypeOK, VersionsInv, LeasesInv
  <2>3. JobsInv' /\ \A d \in Ids : Unsent(d)' \subseteq Unsent(d)
    BY <1>2, <1>4, <2>2, Following
  <2>4. j.attempts \in Unsent(j.id)
    BY <1>2, <2>1, BoundsAssumption DEF JobInv, Unsent, Awaited
  <2>5. j.attempts \notin Unsent(j.id)'
    <3>1. ~Awaited(j.id, j.attempts)'
      <4> SUFFICES ASSUME NEW v \in Replicas, NEW a \in worker'[v].jobs,
                          a.id = j.id, a.attempts = j.attempts
                   PROVE  a.stage \notin {"claimed", "send"}
        BY DEF Awaited
      <4>1. k \in worker'[w].jobs /\ k.id = j.id /\ k.attempts = j.attempts
        BY <1>1, <1>2 DEF Advance, Jobs
      <4> HIDE DEF k
      <4>2. a = k
        BY <1>4, <4>1 DEF OneJobPerAttempt
      <4> QED
        BY <1>3, <4>2
    <3>2. ~(j.attempts > delivery'[j.id].attempts)
      BY <1>2, <2>1 DEF JobInv, RequestsInv, RequestsTypeOK, Rows
    <3> QED
      BY <3>1, <3>2 DEF Unsent
  <2>6. SentInv'
    <3> SUFFICES ASSUME NEW d \in Ids
                 PROVE  /\ d.channel = "in_app" => sent'[d] <= 1
                        /\ d.channel # "in_app" => sent'[d] + Cardinality(Unsent(d)') <= MaxAttempts
      BY DEF SentInv
    <3>1. /\ IsFiniteSet(Unsent(d)) /\ Cardinality(Unsent(d)) \in Nat
          /\ d.channel = "in_app" => sent[d] <= 1
          /\ d.channel # "in_app" => sent[d] + Cardinality(Unsent(d)) <= MaxAttempts
      BY UnsentFinite DEF RequestsInv, SentInv
    <3>2. CASE d # j.id
      <4>1. sent'[d] = sent[d] /\ Unsent(d)' \subseteq Unsent(d)
        BY <1>2, <1>6, <2>3, <3>2
      <4>2. Cardinality(Unsent(d)') <= Cardinality(Unsent(d)) /\ Cardinality(Unsent(d)') \in Nat
        BY <3>1, <4>1, FS_Subset, FS_CardinalityType
      <4> QED
        BY <1>2, <3>1, <4>1, <4>2, BoundsAssumption
    <3>3. CASE d = j.id
      <4>1. Unsent(d)' \subseteq Unsent(d) \ {j.attempts}
        BY <2>3, <2>5, <3>3
      <4>2. /\ IsFiniteSet(Unsent(d) \ {j.attempts})
            /\ Cardinality(Unsent(d) \ {j.attempts}) = Cardinality(Unsent(d)) - 1
        BY <2>4, <3>1, <3>3, FS_RemoveElement
      <4>3. /\ Cardinality(Unsent(d)') <= Cardinality(Unsent(d) \ {j.attempts})
            /\ Cardinality(Unsent(d)') \in Nat
        BY <4>1, <4>2, FS_Subset, FS_CardinalityType
      <4>4. sent'[d] = IF d.channel = "in_app" THEN 1 ELSE sent[d] + 1
        BY <1>2, <1>6, <3>3 DEF MessagesAfter
      <4> QED
        BY <1>2, <3>1, <4>2, <4>3, <4>4, BoundsAssumption
    <3> QED
      BY <3>2, <3>3
  <2> QED
    BY <1>4, <2>2, <2>3, <2>6 DEF RequestsInv
<1> QED
  BY <1>5, <1>6 DEF DeliverSend

\* A row that is written under its lease, or of which only the time passes,
\* keeps what its leases and attempts say.
LEMMA RowWritten ==
    ASSUME RequestsInv, NEW d \in Ids, UNCHANGED versions, NEW row \in Rows,
           row.attempts = delivery[d].attempts,
           row.status # "none" => delivery[d].status # "none",
           row.lease = IF row.status = "sending" THEN row.attempts ELSE 0,
           row.status = "sending" => row.attempts # 0,
           delivery' = [delivery EXCEPT ![d] = row]
    PROVE  /\ delivery' \in [Ids -> Rows] /\ LeasesInv'
           /\ \A e \in Ids : delivery'[e].attempts = delivery[e].attempts
<1>1. delivery \in [Ids -> Rows] /\ \A e \in Ids : delivery'[e] = IF e = d THEN row ELSE delivery[e]
  BY DEF RequestsInv, RequestsTypeOK
<1>2. delivery' \in [Ids -> Rows] /\ \A e \in Ids : delivery'[e].attempts = delivery[e].attempts
  BY <1>1
<1>3. LeasesInv'
  <2> SUFFICES ASSUME NEW e \in Ids
               PROVE  /\ delivery'[e].lease = IF delivery'[e].status = "sending" THEN delivery'[e].attempts ELSE 0
                      /\ delivery'[e].status = "sending" => delivery'[e].attempts # 0
                      /\ delivery'[e].status # "none" => e.version <= versions
    BY DEF LeasesInv
  <2>1. CASE e = d
    BY <1>1, <2>1 DEF RequestsInv, LeasesInv
  <2>2. CASE e # d
    BY <1>1, <2>2 DEF RequestsInv, LeasesInv
  <2> QED
    BY <2>1, <2>2
<1> QED
  BY <1>2, <1>3

\* The outcome
LEMMA DeliverFinishStep ==
    ASSUME RequestsInv, NEW w \in Replicas, NEW j \in worker[w].jobs, DeliverFinish(w, j)
    PROVE  RequestsInv'
<1>1. /\ j \in Jobs /\ j.stage \in Closed \cup {"retry"} /\ JobInv(j) /\ failures \in Nat
      /\ worker \in [Replicas -> [phase : Phases, jobs : SUBSET Jobs]]
      /\ delivery \in [Ids -> Rows]
      /\ UNCHANGED <<member, reachable, versions, decision, sent, failures>>
  BY DEF RequestsInv, RequestsTypeOK, JobsInv, DeliverFinish
<1>2. worker' = [worker EXCEPT ![w] = [worker[w] EXCEPT !.jobs = worker[w].jobs \ {j}]]
  BY <1>1 DEF DeliverFinish
<1>3. worker' \in [Replicas -> [phase : Phases, jobs : SUBSET Jobs]]
  BY <1>1, <1>2
<1>4. \A v \in Replicas : worker'[v].jobs \subseteq worker[v].jobs
  BY <1>1, <1>2
<1>5. OneJobPerAttempt' /\ JobsFollow
  BY <1>3, <1>4, Dropping
<1>6. CASE ~HoldsLease(j)
  BY <1>1, <1>3, <1>5, <1>6, WorkersMove DEF DeliverFinish
<1>7. CASE HoldsLease(j)
  <2> DEFINE row == [status |-> IF j.stage # "retry" THEN j.stage
                                ELSE IF j.attempts >= MaxAttempts THEN "failed" ELSE "pending",
                     attempts |-> delivery[j.id].attempts, lease |-> 0, due |-> FALSE]
  <2>1. j.id \in Ids /\ delivery[j.id] \in Rows
    BY <1>1 DEF Jobs
  <2>2. delivery' = [delivery EXCEPT ![j.id] = row]
    BY <1>7, <2>1 DEF DeliverFinish
  <2>3. row \in Rows /\ row.attempts = delivery[j.id].attempts /\ row.status # "sending" /\ row.lease = 0
    BY <1>1, <2>1 DEF Rows, Open, Closed
  <2>4. delivery[j.id].status = "sending"
    BY <1>1, <1>7, <2>1 DEF HoldsLease, JobInv, RequestsInv, LeasesInv
  <2> HIDE DEF row
  <2>5. /\ delivery' \in [Ids -> Rows] /\ LeasesInv'
        /\ \A e \in Ids : delivery'[e].attempts = delivery[e].attempts
    BY <1>1, <2>1, <2>2, <2>3, <2>4, RowWritten
  <2> QED
    BY <1>1, <1>3, <1>5, <2>5, DeliveriesMove
<1> QED
  BY <1>6, <1>7

\* What takes a job away: a failed write, a crash, the end of a round
LEMMA LossStep ==
    ASSUME RequestsInv, NEW w \in Replicas,
           \/ DispatchDone(w) \/ Crash(w)
           \/ \E j \in worker[w].jobs : FinishFails(w, j)
    PROVE  RequestsInv'
<1>1. /\ failures \in Nat /\ worker \in [Replicas -> [phase : Phases, jobs : SUBSET Jobs]]
      /\ UNCHANGED <<member, reachable, versions, delivery, decision, sent>>
  BY DEF RequestsInv, RequestsTypeOK, DispatchDone, Crash, FinishFails
<1>2. failures' \in Nat
  BY <1>1 DEF DispatchDone, Crash, FinishFails
<1>3. CASE worker' = [worker EXCEPT ![w] = Resting]
  <2>1. worker' \in [Replicas -> [phase : Phases, jobs : SUBSET Jobs]]
    BY <1>1, <1>3 DEF Resting, Phases
  <2>2. \A v \in Replicas : worker'[v].jobs \subseteq worker[v].jobs
    BY <1>1, <1>3 DEF Resting
  <2> QED
    BY <1>1, <1>2, <2>1, <2>2, Dropping, WorkersMove
<1>4. ASSUME NEW j \in worker[w].jobs, worker' = [worker EXCEPT ![w].jobs = @ \ {j}]
      PROVE  RequestsInv'
  <2>1. worker' = [worker EXCEPT ![w] = [worker[w] EXCEPT !.jobs = worker[w].jobs \ {j}]]
    BY <1>1, <1>4
  <2>2. worker' \in [Replicas -> [phase : Phases, jobs : SUBSET Jobs]]
    BY <1>1, <2>1
  <2>3. \A v \in Replicas : worker'[v].jobs \subseteq worker[v].jobs
    BY <1>1, <2>1
  <2> QED
    BY <1>1, <1>2, <2>2, <2>3, Dropping, WorkersMove
<1>5. ASSUME NEW j \in worker[w].jobs, Advance(w, j, "retry")
      PROVE  RequestsInv'
  <2>1. j \in Jobs /\ "retry" \in Stages
    BY <1>1 DEF Stages
  <2>2. Follows([j EXCEPT !.stage = "retry"], j)
    BY <2>1 DEF Follows, Jobs
  <2> QED
    BY <1>1, <1>2, <1>5, <2>1, <2>2, Advancing, WorkersMove
<1> QED
  BY <1>3, <1>4, <1>5 DEF DispatchDone, Crash, FinishFails

\* Time passes for a delivery
LEMMA DueStep ==
    ASSUME RequestsInv, NEW d \in Ids, BecomesDue(d) \/ LeaseRunsOut(d)
    PROVE  RequestsInv'
<1>1. /\ failures \in Nat /\ worker \in [Replicas -> [phase : Phases, jobs : SUBSET Jobs]]
      /\ delivery \in [Ids -> Rows] /\ delivery[d] \in Rows
      /\ UNCHANGED <<member, reachable, versions, worker, decision, sent>>
  BY DEF RequestsInv, RequestsTypeOK, BecomesDue, LeaseRunsOut
<1>2. failures' \in Nat
  BY <1>1 DEF BecomesDue, LeaseRunsOut
<1> DEFINE row == [delivery[d] EXCEPT !.due = TRUE]
<1>3. delivery' = [delivery EXCEPT ![d] = row]
  BY <1>1 DEF BecomesDue, LeaseRunsOut
<1>4. /\ row \in Rows /\ row.attempts = delivery[d].attempts
      /\ row.status = delivery[d].status /\ row.lease = delivery[d].lease
  BY <1>1 DEF Rows
<1> HIDE DEF row
<1>5. /\ delivery' \in [Ids -> Rows] /\ LeasesInv'
      /\ \A e \in Ids : delivery'[e].attempts = delivery[e].attempts
  <2>1. /\ row.lease = IF row.status = "sending" THEN row.attempts ELSE 0
        /\ row.status = "sending" => row.attempts # 0
    BY <1>4 DEF RequestsInv, LeasesInv
  <2> QED
    BY <1>1, <1>3, <1>4, <2>1, RowWritten
<1> QED
  BY <1>1, <1>2, <1>5, Dropping, DeliveriesMove

-----------------------------------------------------------------------------

\* Every step of the service keeps the invariant.
LEMMA RequestsStep == RequestsInv /\ [Next]_vars => RequestsInv'
<1> SUFFICES ASSUME RequestsInv, [Next]_vars PROVE RequestsInv'
  OBVIOUS
<1>1. CASE UNCHANGED vars
  BY <1>1 DEF vars, RequestsInv, RequestsTypeOK, LeasesInv, JobsInv, JobInv, Current,
              OneJobPerAttempt, SentInv, Unsent, Awaited, VersionsInv
<1>2. ASSUME NEW w \in Replicas, WorkerStep(w)
      PROVE  RequestsInv'
  <2>1. CASE DispatchPending(w)
    BY <2>1, ClaimStep DEF DispatchPending, Phases
  <2>2. CASE DispatchApprovalEmails(w)
    BY <2>2, ClaimStep DEF DispatchApprovalEmails, Phases
  <2>3. CASE DispatchDone(w)
    BY <2>3, LossStep
  <2>4. CASE \E j \in worker[w].jobs : DeliverCheck(w, j) \/ DeliverSend(w, j) \/ DeliverFinish(w, j)
    BY <2>4, DeliverCheckStep, DeliverSendStep, DeliverFinishStep
  <2> QED
    BY <1>2, <2>1, <2>2, <2>3, <2>4 DEF WorkerStep
<1>3. CASE \E m \in Members, role \in Roles : Submit(m, role)
  BY <1>3, SubmitStep
<1>4. CASE \E c \in Deciders : ApproveCommit(c) \/ RejectCommit(c)
  BY <1>4, ApproveStep, RejectStep
<1>5. CASE \/ \E c \in Deciders, m \in Members, op \in {"approve", "reject"} : DecideRead(c, m, op)
           \/ \E c \in Deciders : DecideRefused(c)
           \/ \E p \in Members \cup Reviewers : LoseEligibility(p)
  BY <1>5, OtherRequestSteps
<1>6. CASE \E w \in Replicas : Crash(w) \/ \E j \in worker[w].jobs : FinishFails(w, j)
  BY <1>6, LossStep
<1>7. CASE \E d \in Ids : BecomesDue(d) \/ LeaseRunsOut(d)
  BY <1>7, DueStep
<1> QED
  BY <1>1, <1>2, <1>3, <1>4, <1>5, <1>6, <1>7 DEF Next

\* The rows, the jobs and the attempts fit together in every reachable state.
THEOREM RequestsInvariant == Spec => []RequestsInv
BY InitRequests, RequestsStep, PTL DEF Spec

\* However often jobs are lost, repeated or overtaken by their leases, a message
\* is not sent more often than there are attempts, and a notification once.
THEOREM SentWithinLimitHolds == Spec => []SentWithinLimit
<1>1. RequestsInv => SentWithinLimit
  <2> SUFFICES ASSUME RequestsInv, NEW d \in Ids
               PROVE  sent[d] <= IF d.channel = "in_app" THEN 1 ELSE MaxAttempts
    BY DEF SentWithinLimit
  <2>1. Cardinality(Unsent(d)) \in Nat
    BY UnsentFinite
  <2> QED
    BY <2>1, BoundsAssumption DEF RequestsInv, RequestsTypeOK, SentInv
<1> QED
  BY <1>1, RequestsInvariant, PTL

\* A claim made after the request was decided or replaced sends no notice of it:
\* what was closed when the job was claimed is found closed by the check.
THEOREM NoNoticeOfClosedRequestHolds == Spec => []NoNoticeOfClosedRequest
<1>1. RequestsInv => NoNoticeOfClosedRequest
  BY DEF RequestsInv, JobsInv, JobInv, NoNoticeOfClosedRequest
<1> QED
  BY <1>1, RequestsInvariant, PTL

\* What a worker wrote when it settled a delivery is never written over: a
\* settled row has no lease, and a claim takes open rows only.
THEOREM SettledStaysSettledHolds == Spec => SettledStaysSettled
<1>1. RequestsInv /\ [Next]_vars =>
        [\A d \in Ids : delivery[d].status \in Closed => delivery'[d] = delivery[d]]_vars
  <2> SUFFICES ASSUME RequestsInv, Next, NEW d \in Ids, delivery[d].status \in Closed
               PROVE  delivery'[d] = delivery[d]
    BY DEF vars
  <2>0. /\ delivery \in [Ids -> Rows] /\ delivery[d].lease = 0
        /\ delivery[d].status \notin Open /\ delivery[d] # NotQueued
    BY DEF RequestsInv, RequestsTypeOK, LeasesInv, Closed, Open, NotQueued
  <2>1. ASSUME NEW ids, Enqueue(ids) PROVE delivery'[d] = delivery[d]
    BY <2>0, <2>1 DEF Enqueue
  <2>2. ASSUME NEW w \in Replicas, NEW channels, NEW phase, Claim(w, channels, phase)
        PROVE  delivery'[d] = delivery[d]
    BY <2>0, <2>2 DEF Claim, Ready
  <2>3. ASSUME NEW w \in Replicas, NEW j \in worker[w].jobs, DeliverFinish(w, j)
        PROVE  delivery'[d] = delivery[d]
    <3>1. JobInv(j) /\ j \in Jobs
      BY DEF RequestsInv, RequestsTypeOK, JobsInv
    <3>2. HoldsLease(j) => j.id # d
      BY <2>0, <3>1 DEF HoldsLease, JobInv
    <3> QED
      BY <2>0, <2>3, <3>2 DEF DeliverFinish
  <2>4. ASSUME NEW e \in Ids, BecomesDue(e) \/ LeaseRunsOut(e)
        PROVE  delivery'[d] = delivery[d]
    BY <2>0, <2>4 DEF BecomesDue, LeaseRunsOut, Open
  <2>5. ASSUME NEW w \in Replicas, WorkerStep(w)
        PROVE  delivery'[d] = delivery[d]
    BY <2>2, <2>3, <2>5 DEF WorkerStep, DispatchPending, DispatchApprovalEmails, DispatchDone,
                            DeliverCheck, DeliverSend
  <2>6. ASSUME NEW m \in Members, NEW role \in Roles, Submit(m, role)
        PROVE  delivery'[d] = delivery[d]
    BY <2>1, <2>6 DEF Submit
  <2>7. ASSUME NEW c \in Deciders, ApproveCommit(c) \/ RejectCommit(c) \/ DecideRefused(c)
        PROVE  delivery'[d] = delivery[d]
    BY <2>1, <2>7 DEF ApproveCommit, RejectCommit, DecideRefused
  <2> QED
    BY <2>4, <2>5, <2>6, <2>7 DEF Next, DecideRead, LoseEligibility, Crash, FinishFails
<1> QED
  BY <1>1, RequestsInvariant, PTL DEF Spec, SettledStaysSettled

\* Of the decisions about a member only one that read the pending request takes
\* effect, and it grants the role of that request.
THEOREM ApprovalGrantsRequestedRoleHolds == Spec => ApprovalGrantsRequestedRole
<1>1. RequestsInv /\ [Next]_vars =>
        [\A m \in Members : member'[m].approved /\ ~member[m].approved =>
            /\ member[m].version # NoVersion
            /\ member'[m].granted = member[m].role]_vars
  <2> SUFFICES ASSUME RequestsInv, Next, NEW m \in Members, member'[m].approved, ~member[m].approved
               PROVE  member[m].version # NoVersion /\ member'[m].granted = member[m].role
    BY DEF vars
  <2>0. member \in [Members -> Requested] /\ \A k \in Members : member[k] \in Requested
    BY DEF RequestsInv, RequestsTypeOK
  <2>1. ASSUME NEW k \in Members, NEW role \in Roles, Submit(k, role) PROVE FALSE
    BY <2>0, <2>1 DEF Submit, Requested
  <2>2. ASSUME NEW c \in Deciders, RejectCommit(c) PROVE FALSE
    BY <2>0, <2>2 DEF RejectCommit, Requested
  <2>3. ASSUME NEW c \in Deciders, ApproveCommit(c)
        PROVE  member[m].version # NoVersion /\ member'[m].granted = member[m].role
    <3>1. decision[c] # Undecided /\ StillRequested(c)
      BY <2>3 DEF ApproveCommit, Undecided
    <3>2. m = decision[c].member
      BY <2>0, <2>3 DEF ApproveCommit
    <3>3. member'[m].granted = decision[c].role
      BY <2>0, <2>3, <3>2 DEF ApproveCommit
    <3> QED
      BY <3>1, <3>2, <3>3 DEF StillRequested, RequestsInv, VersionsInv
  <2>4. CASE UNCHANGED member
    BY <2>4
  <2> QED
    BY <2>1, <2>2, <2>3, <2>4 DEF Next, DecideRead, DecideRefused, LoseEligibility, WorkerStep, Crash,
         FinishFails, BecomesDue, LeaseRunsOut, DispatchPending, DispatchApprovalEmails, DispatchDone,
         Claim, DeliverCheck, DeliverSend, DeliverFinish
<1> QED
  BY <1>1, RequestsInvariant, PTL DEF Spec, ApprovalGrantsRequestedRole
=============================================================================
