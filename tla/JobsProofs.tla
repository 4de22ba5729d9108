----------------------------- MODULE JobsProofs -----------------------------
(***************************************************************************)
(* The rotation of the pods, the quota of a job creation grant and the     *)
(* approval workflow, for any number of jobs, pods and concurrent          *)
(* requests.                                                               *)
(*                                                                         *)
(* That a pod is passed over at most twice is not inductive: a state in    *)
(* which it has been passed over twice and the other pod's turn is open    *)
(* would let it be passed over again.  FlagsAccountForWaiting excludes     *)
(* those states: it ties what a pod has waited to the two flags.  The job  *)
(* service needs no more: every step of it is a step of PodRotation.       *)
(*                                                                         *)
(* QuotaRespected is inductive together with the type of the grant.  Only  *)
(* the handlers of grants and the transaction of createJob write the       *)
(* grant; the other actions are shown to leave it alone.                   *)
(*                                                                         *)
(* That nothing goes live against a rejection needs ApprovalInv: what      *)
(* changeStatus has read is outside the workflow while its copy is fresh.  *)
(***************************************************************************)
EXTENDS Jobs, WellFoundedInduction, TLAPS

Inv == RotationTypeOK /\ FlagsAccountForWaiting

\* pods.find and pods[0] of allocateAutomaticPod: the first of some pods, in the
\* order of their creation, is one of them.
LEMMA FirstIsMember ==
    ASSUME NEW S \in SUBSET Nat, S # {}
    PROVE  First(S) \in S
<1> DEFINE R == {ss \in Nat \X Nat : ss[1] < ss[2]}
<1>1. PICK x \in S : \A y \in S : ~ (<<y, x>> \in R)
  <2>1. IsWellFoundedOn(R, Nat)  BY NatLessThanWellFounded, Zenon DEF OpToRel
  <2> HIDE DEF R
  <2> QED  BY <2>1, WFMin
<1>2. \A y \in S : x <= y
  <2> SUFFICES ASSUME NEW y \in S PROVE x <= y  OBVIOUS
  <2>1. <<y, x>> \in Nat \X Nat  OBVIOUS
  <2>2. ~ (y < x)  BY <1>1, <2>1 DEF OpToRel
  <2> QED  BY <2>2
<1> QED  BY <1>2 DEF First

\* allocateAutomaticPod gives the job to a pod that can take it, and to one
\* whose turn is open if there is any.
LEMMA ServedInTurn ==
    ASSUME Inv, eligible # {}
    PROVE  LET next == First(IF Open # {} THEN Open ELSE eligible)
           IN next \in eligible /\ (Open # {} => next \in Open)
<1> DEFINE candidates == IF Open # {} THEN Open ELSE eligible
<1>1. candidates \in SUBSET Nat /\ candidates # {} /\ candidates \subseteq eligible
  BY PodsAssumption DEF Open, Inv, RotationTypeOK
<1>2. First(candidates) \in candidates  BY <1>1, FirstIsMember
<1> QED  BY <1>1, <1>2

\* allocateAutomaticPod preserves the invariant: a pod that is passed over had
\* its turn open or opens it now, and the pod that is served closes its own.
LEMMA RotatePreserves ==
    ASSUME Inv, eligible # {}, Rotate
    PROVE  Inv'
<1> DEFINE next == First(IF Open # {} THEN Open ELSE eligible)
<1>1. next \in eligible /\ (Open # {} => next \in Open)  BY ServedInTurn
<1>2. /\ available' = (IF Open # {} THEN available ELSE available \cup eligible) \ {next}
      /\ eligible' = eligible
      /\ wait' = [q \in Pods |->
                    IF q = next THEN NobodyWaits
                    ELSE IF q \in eligible THEN [wait[q] EXCEPT ![next] = @ + 1]
                    ELSE wait[q]]
  BY DEF Rotate, Served
<1> HIDE DEF next
<1>3. next \in Pods  BY <1>1 DEF Inv, RotationTypeOK
<1>4. RotationTypeOK'
  <2>1. eligible' \subseteq Pods /\ available' \subseteq Pods
    BY <1>2 DEF Inv, RotationTypeOK
  <2>2. wait' \in [Pods -> [Pods -> Nat]]
    BY <1>2, <1>3 DEF Inv, RotationTypeOK, NobodyWaits
  <2> QED  BY <2>1, <2>2 DEF RotationTypeOK
<1>5. FlagsAccountForWaiting'
  <2> SUFFICES ASSUME NEW p \in Pods, NEW q \in Pods
               PROVE  wait'[q][p] <= IF p = q \/ q \notin eligible' THEN 0 ELSE OpenTurns(q, p)'
    BY DEF FlagsAccountForWaiting
  <2>1. /\ wait[q][p] \in Nat
        /\ wait[q][p] <= IF p = q \/ q \notin eligible THEN 0 ELSE OpenTurns(q, p)
    BY DEF Inv, RotationTypeOK, FlagsAccountForWaiting
  <2>2. /\ eligible' = eligible
        /\ q \in available' <=> q # next /\ (q \in available \/ (Open = {} /\ q \in eligible))
        /\ p \in available' <=> p # next /\ (p \in available \/ (Open = {} /\ p \in eligible))
    BY <1>2
  <2>3. CASE q = next
    BY <1>2, <2>2, <2>3 DEF NobodyWaits, OpenTurns
  <2>4. CASE q # next /\ q \notin eligible
    BY <1>2, <2>1, <2>2, <2>4
  <2>5. CASE q # next /\ q \in eligible /\ p = next
    <3>1. wait'[q][p] = wait[q][p] + 1
      BY <1>2, <1>3, <2>5 DEF Inv, RotationTypeOK
    <3>2. wait[q][p] <= OpenTurns(q, p) /\ q \in eligible' /\ p \notin available'
      BY <2>1, <2>2, <2>5
    <3>3. CASE Open = {}
      <4>1. q \in available' /\ q \notin available
        BY <2>2, <2>5, <3>3 DEF Open
      <4> QED  BY <2>1, <2>5, <3>1, <3>2, <4>1 DEF OpenTurns
    <3>4. CASE Open # {}
      <4>1. p \in available /\ (q \in available' <=> q \in available)
        BY <1>1, <2>2, <2>5, <3>4 DEF Open, Inv, RotationTypeOK
      <4> QED  BY <2>1, <2>5, <3>1, <3>2, <4>1 DEF OpenTurns
    <3> QED  BY <3>3, <3>4
  <2>6. CASE q # next /\ q \in eligible /\ p # next
    <3>1. wait'[q][p] = wait[q][p]
      BY <1>2, <1>3, <2>6 DEF Inv, RotationTypeOK
    <3>2. q \in eligible /\ q \in eligible'
      BY <2>2, <2>6
    <3>3. CASE Open = {}
      <4>1. q \in available' /\ q \notin available
        BY <2>2, <2>6, <3>3 DEF Open
      <4>2. p = q \/ wait[q][p] <= 1
        BY <2>1, <3>2, <4>1 DEF OpenTurns
      <4>3. p # q => OpenTurns(q, p)' >= 1
        BY <4>1 DEF OpenTurns
      <4>4. OpenTurns(q, p)' \in Int
        BY DEF OpenTurns
      <4> QED  BY <2>1, <3>1, <3>2, <4>2, <4>3, <4>4
    <3>4. CASE Open # {}
      <4>1. /\ p \in available' <=> p \in available
            /\ (q \in available' <=> q \in available)
        BY <2>2, <2>6, <3>4 DEF Inv, RotationTypeOK
      <4> QED  BY <2>1, <3>1, <3>2, <4>1 DEF OpenTurns
    <3> QED  BY <3>3, <3>4
  <2> QED  BY <2>3, <2>4, <2>5, <2>6
<1> QED  BY <1>4, <1>5 DEF Inv

\* Pods that come and go, and resetCycle, preserve it: nobody has waited then.
LEMMA NextPreserves ==
    ASSUME Inv, [RotationNext]_rotation
    PROVE  Inv'
<1>1. CASE AllocateAutomaticPod
  <2>1. CASE eligible # {} /\ Rotate  BY <2>1, RotatePreserves
  <2>2. CASE UNCHANGED rotation
    BY <2>2 DEF rotation, Inv, RotationTypeOK, FlagsAccountForWaiting, OpenTurns
  <2> QED  BY <1>1, <2>1, <2>2 DEF AllocateAutomaticPod
<1>2. ASSUME NEW r \in Pods, PodEligibility(r)
      PROVE  Inv'
  <2>1. /\ eligible' = IF r \in eligible THEN eligible \ {r} ELSE eligible \cup {r}
        /\ available' = available
        /\ wait' = [wait EXCEPT ![r] = NobodyWaits]
    BY <1>2 DEF PodEligibility
  <2>2. RotationTypeOK'
    BY <1>2, <2>1 DEF Inv, RotationTypeOK, NobodyWaits
  <2>3. FlagsAccountForWaiting'
    <3> SUFFICES ASSUME NEW p \in Pods, NEW q \in Pods
                 PROVE  wait'[q][p] <= IF p = q \/ q \notin eligible' THEN 0 ELSE OpenTurns(q, p)'
      BY DEF FlagsAccountForWaiting
    <3>1. OpenTurns(q, p)' = OpenTurns(q, p) /\ OpenTurns(q, p) \in Nat
      BY <1>2, <2>1 DEF OpenTurns, Inv, RotationTypeOK
    <3>2. CASE q = r
      BY <2>1, <3>1, <3>2 DEF NobodyWaits, Inv, RotationTypeOK
    <3>3. CASE q # r
      <4>1. wait'[q][p] = wait[q][p] /\ (q \in eligible' <=> q \in eligible)
        BY <1>2, <2>1, <3>3 DEF Inv, RotationTypeOK
      <4>2. wait[q][p] <= IF p = q \/ q \notin eligible THEN 0 ELSE OpenTurns(q, p)
        BY DEF Inv, FlagsAccountForWaiting
      <4> QED  BY <3>1, <4>1, <4>2
    <3> QED  BY <3>2, <3>3
  <2> QED  BY <2>2, <2>3 DEF Inv
<1>3. CASE ResetCycle
  <2>1. RotationTypeOK'
    BY <1>3 DEF ResetCycle, Inv, RotationTypeOK, NobodyWaits
  <2>2. FlagsAccountForWaiting'
    BY <1>3 DEF ResetCycle, FlagsAccountForWaiting, OpenTurns, NobodyWaits
  <2> QED  BY <2>1, <2>2 DEF Inv
<1>4. CASE UNCHANGED rotation
  BY <1>4 DEF rotation, Inv, RotationTypeOK, FlagsAccountForWaiting, OpenTurns
<1> QED  BY <1>1, <1>2, <1>3, <1>4 DEF RotationNext

\* The flags of the pods account for the jobs that went past a pod, in every unit.
THEOREM FlagsAccount == RotationSpec => []FlagsAccountForWaiting
<1>1. RotationInit => Inv
  BY DEF RotationInit, Inv, RotationTypeOK, FlagsAccountForWaiting, NobodyWaits, OpenTurns
<1>2. Inv /\ [RotationNext]_rotation => Inv'  BY NextPreserves
<1>3. Inv => FlagsAccountForWaiting  BY DEF Inv
<1> QED  BY <1>1, <1>2, <1>3, PTL DEF RotationSpec

\* allocateAutomaticPod is fair: with any number of pods that come and go, no pod
\* gets more than two jobs while another one that could take them gets none.
THEOREM RotationIsFair == RotationSpec => []TurnsComeRound
<1>1. RotationInit => Inv
  BY DEF RotationInit, Inv, RotationTypeOK, FlagsAccountForWaiting, NobodyWaits, OpenTurns
<1>2. Inv /\ [RotationNext]_rotation => Inv'  BY NextPreserves
<1>3. Inv => TurnsComeRound
  <2> SUFFICES ASSUME Inv, NEW p \in Pods, NEW q \in Pods
               PROVE  wait[q][p] <= 2
    BY DEF TurnsComeRound
  <2>1. /\ wait[q][p] \in Nat
        /\ wait[q][p] <= IF p = q \/ q \notin eligible THEN 0 ELSE OpenTurns(q, p)
    BY DEF Inv, RotationTypeOK, FlagsAccountForWaiting
  <2>2. OpenTurns(q, p) \in 0..2  BY DEF OpenTurns
  <2> QED  BY <2>1, <2>2
<1> QED  BY <1>1, <1>2, <1>3, PTL DEF RotationSpec

-----------------------------------------------------------------------------
(* The job service *)

GrantTypeOK ==
    /\ grant \in [state : {"none", "given", "revoked"}, expires : {"never", "later", "past"},
                  max : {NoLimit} \cup 1..MaxJobs, used : Nat]
    /\ made \in Nat

GrantInv == GrantTypeOK /\ QuotaRespected /\ QuotaCountsJobs

\* createJob's reservation: the WHERE of the update leaves room for the job that
\* it counts.
LEMMA ReservePreserves ==
    ASSUME GrantInv, NEW c, NEW inserts, Reserve(c, inserts)
    PROVE  GrantInv'
<1>1. CASE UNCHANGED <<grant, made>>
  BY <1>1 DEF GrantInv, GrantTypeOK, QuotaRespected, QuotaCountsJobs
<1>2. CASE /\ Reservable(c)
           /\ grant' = [grant EXCEPT !.used = @ + 1]
           /\ made' = made + 1
  <2>1. grant.max = NoLimit \/ grant.used < grant.max
    BY <1>2 DEF Reservable, QuotaLeft
  <2> QED
    BY <1>2, <2>1, MaxJobsAssumption
       DEF GrantInv, GrantTypeOK, QuotaRespected, QuotaCountsJobs, NoLimit
<1> QED  BY <1>1, <1>2 DEF Reserve

\* The handlers of grants: a new grant starts from nothing, and a changed limit
\* is not lowered below what was used.
LEMMA GrantStepPreserves ==
    ASSUME GrantInv,
           \/ \E expires \in {"never", "later"}, max \in {NoLimit} \cup 1..MaxJobs :
                CreateJobCreationGrant(expires, max)
           \/ \E expires \in {"never", "later", "past"}, max \in {NoLimit} \cup 1..MaxJobs :
                UpdateJobCreationGrant(expires, max)
           \/ RevokeJobCreationGrant
           \/ GrantExpires
    PROVE  GrantInv'
<1> USE MaxJobsAssumption
         DEF GrantInv, GrantTypeOK, QuotaRespected, QuotaCountsJobs, NoLimit
<1>1. ASSUME NEW expires \in {"never", "later"}, NEW max \in {NoLimit} \cup 1..MaxJobs,
             CreateJobCreationGrant(expires, max)
      PROVE  GrantInv'
  BY <1>1 DEF CreateJobCreationGrant
<1>2. ASSUME NEW expires \in {"never", "later", "past"}, NEW max \in {NoLimit} \cup 1..MaxJobs,
             UpdateJobCreationGrant(expires, max)
      PROVE  GrantInv'
  BY <1>2 DEF UpdateJobCreationGrant
<1>3. CASE RevokeJobCreationGrant
  BY <1>3 DEF RevokeJobCreationGrant
<1>4. CASE GrantExpires
  BY <1>4 DEF GrantExpires
<1> QED  BY <1>1, <1>2, <1>3, <1>4

\* Every step of the job service preserves the invariant.
LEMMA NextKeepsQuota ==
    ASSUME GrantInv, [Next]_vars
    PROVE  GrantInv'
<1>1. CASE UNCHANGED <<grant, made>>
  BY <1>1 DEF GrantInv, GrantTypeOK, QuotaRespected, QuotaCountsJobs
<1>2. ASSUME NEW c \in Clients, CreateCommit(c)
      PROVE  GrantInv'
  BY <1>2, ReservePreserves DEF CreateCommit
<1>3. ASSUME NEW c \in Clients, NEW by \in Actors, NEW j \in JobIds,
             \/ \E draft \in BOOLEAN : CreateRead(c, by, draft, j)
             \/ SaveRead(c, by, j)
             \/ PublishRead(c, by, j)
      PROVE  UNCHANGED <<grant, made>>
  BY <1>3 DEF CreateRead, SaveRead, PublishRead
<1>4. ASSUME NEW c \in Clients, NEW j \in JobIds, EditRead(c, j) \/ StatusRead(c, j)
      PROVE  UNCHANGED <<grant, made>>
  BY <1>4 DEF EditRead, StatusRead
<1>5. ASSUME NEW c \in Clients,
             \/ SaveCommit(c)
             \/ \E pending \in BOOLEAN : PublishCommit(c, pending)
             \/ EditCommit(c)
             \/ \E status \in Operational : StatusCommit(c, status)
             \/ Abandon(c)
      PROVE  UNCHANGED <<grant, made>>
  BY <1>5 DEF SaveCommit, PublishCommit, EditCommit, StatusCommit, Abandon
<1>6. ASSUME NEW j \in JobIds,
             \/ ApproveJob(j)
             \/ RejectJob(j)
             \/ DeleteJob(j)
             \/ RestoreJob(j)
             \/ PermanentlyDeleteJob(j)
      PROVE  UNCHANGED <<grant, made>>
  BY <1>6 DEF ApproveJob, RejectJob, DeleteJob, RestoreJob, PermanentlyDeleteJob
<1>7. ASSUME UNCHANGED vars
      PROVE  UNCHANGED <<grant, made>>
  BY <1>7 DEF vars
<1> QED
  BY <1>1, <1>2, <1>3, <1>4, <1>5, <1>6, <1>7, GrantStepPreserves DEF Next

\* However many requests run at once and whatever is done to the grant and to the
\* jobs meanwhile, a grant is never used for more jobs than its limit.
THEOREM QuotaIsRespected == Spec => []QuotaRespected
<1>1. Init => GrantInv
  BY MaxJobsAssumption
     DEF Init, GrantInv, GrantTypeOK, QuotaRespected, QuotaCountsJobs, NoLimit
<1>2. GrantInv /\ [Next]_vars => GrantInv'  BY NextKeepsQuota
<1>3. GrantInv => QuotaRespected  BY DEF GrantInv
<1> QED  BY <1>1, <1>2, <1>3, PTL DEF Spec

\* jobs_used is the number of jobs that were inserted under the grant.
THEOREM QuotaIsExact == Spec => []QuotaCountsJobs
<1>1. Init => GrantInv
  BY MaxJobsAssumption
     DEF Init, GrantInv, GrantTypeOK, QuotaRespected, QuotaCountsJobs, NoLimit
<1>2. GrantInv /\ [Next]_vars => GrantInv'  BY NextKeepsQuota
<1>3. GrantInv => QuotaCountsJobs  BY DEF GrantInv
<1> QED  BY <1>1, <1>2, <1>3, PTL DEF Spec

\* Every step of the job service leaves the pods alone or is one allocation, one
\* change of a pod, or one reset.
LEMMA StepsOfTheCycle ==
    ASSUME [Next]_vars
    PROVE  [RotationNext]_rotation
<1>1. ASSUME NEW c \in Clients, CreateCommit(c)
      PROVE  [RotationNext]_rotation
  BY <1>1 DEF CreateCommit, Allocate, RotationNext
<1>2. ASSUME NEW c \in Clients, NEW pending \in BOOLEAN, PublishCommit(c, pending)
      PROVE  [RotationNext]_rotation
  BY <1>2 DEF PublishCommit, Allocate, RotationNext
<1>3. ASSUME NEW p \in Pods, PodEligibility(p)
      PROVE  [RotationNext]_rotation
  BY <1>3 DEF RotationNext
<1>4. CASE ResetCycle
  BY <1>4 DEF RotationNext
<1>5. CASE UNCHANGED rotation
  BY <1>5
<1>6. ASSUME \/ \E expires \in {"never", "later"}, max \in {NoLimit} \cup 1..MaxJobs :
                  CreateJobCreationGrant(expires, max)
             \/ \E expires \in {"never", "later", "past"}, max \in {NoLimit} \cup 1..MaxJobs :
                  UpdateJobCreationGrant(expires, max)
             \/ RevokeJobCreationGrant
             \/ GrantExpires
      PROVE  UNCHANGED rotation
  BY <1>6 DEF CreateJobCreationGrant, UpdateJobCreationGrant, RevokeJobCreationGrant,
              GrantExpires
<1>7. ASSUME NEW c \in Clients, NEW by \in Actors, NEW j \in JobIds,
             \/ \E draft \in BOOLEAN : CreateRead(c, by, draft, j)
             \/ SaveRead(c, by, j)
             \/ PublishRead(c, by, j)
      PROVE  UNCHANGED rotation
  BY <1>7 DEF CreateRead, SaveRead, PublishRead
<1>8. ASSUME NEW c \in Clients, NEW j \in JobIds, EditRead(c, j) \/ StatusRead(c, j)
      PROVE  UNCHANGED rotation
  BY <1>8 DEF EditRead, StatusRead
<1>9. ASSUME NEW c \in Clients,
             \/ SaveCommit(c)
             \/ EditCommit(c)
             \/ \E status \in Operational : StatusCommit(c, status)
             \/ Abandon(c)
      PROVE  UNCHANGED rotation
  BY <1>9 DEF SaveCommit, EditCommit, StatusCommit, Abandon
<1>10. ASSUME NEW j \in JobIds,
              \/ ApproveJob(j)
              \/ RejectJob(j)
              \/ DeleteJob(j)
              \/ RestoreJob(j)
              \/ PermanentlyDeleteJob(j)
       PROVE  UNCHANGED rotation
  BY <1>10 DEF ApproveJob, RejectJob, DeleteJob, RestoreJob, PermanentlyDeleteJob
<1>11. ASSUME UNCHANGED vars
       PROVE  UNCHANGED rotation
  BY <1>11 DEF vars
<1> QED
  BY <1>1, <1>2, <1>3, <1>4, <1>5, <1>6, <1>7, <1>8, <1>9, <1>10, <1>11 DEF Next

\* The job service implements the rotation: concurrent, failing and repeated
\* publications add up to whole allocations.
THEOREM JobsImplementRotation == Spec => PublicationsKeepTheCycle
<1>1. Init => RotationInit  BY DEF Init
<1>2. [Next]_vars => [RotationNext]_rotation  BY StepsOfTheCycle
<1> QED  BY <1>1, <1>2, PTL DEF Spec, PublicationsKeepTheCycle, RotationSpec

\* So the rotation is fair in the job service too.
COROLLARY PodsTakeTurns == Spec => []TurnsComeRound
BY JobsImplementRotation, RotationIsFair, PTL DEF PublicationsKeepTheCycle
-----------------------------------------------------------------------------
(* The approval workflow *)

Rows == [state : {"none", "live", "deleted"}, status : Operational \cup {"Pending Approval"},
         approval : {"null", "PENDING_APPROVAL", "APPROVED", "REJECTED"}, creator : Actors]

\* The job that changeStatus read is outside the approval workflow for as long as
\* nobody writes the row.
ApprovalInv ==
    /\ job \in [JobIds -> Rows]
    /\ DOMAIN call = Clients
    /\ \A c \in Clients :
         /\ call[c].op = "create" => call[c].by \in Actors /\ call[c].job \in JobIds
         /\ call[c].op \in {"save", "publish", "edit", "status"} => call[c].job \in JobIds
         /\ call[c].op = "status" /\ call[c].fresh =>
              job[call[c].job].approval \in {"null", "APPROVED"}

\* A write of a row makes every copy of it old: nobody then relies on what it read.
LEMMA WriteKeepsApproval ==
    ASSUME ApprovalInv, NEW done \in SUBSET Clients, NEW j \in JobIds, NEW row \in Rows,
           Write(done, j, row)
    PROVE  ApprovalInv'
<1>1. job' = [job EXCEPT ![j] = row]  BY DEF Write
<1>2. call' = [d \in Clients |->
                 IF d \in done THEN Idle
                 ELSE IF call[d].op \in {"save", "publish", "edit", "status"} /\ call[d].job = j
                 THEN [call[d] EXCEPT !.fresh = FALSE] ELSE call[d]]
  BY DEF Write
<1>3. job' \in [JobIds -> Rows]  BY <1>1 DEF ApprovalInv
<1>4. DOMAIN call' = Clients  BY <1>2
<1> SUFFICES ASSUME NEW c \in Clients
             PROVE  /\ call'[c].op = "create" => call'[c].by \in Actors /\ call'[c].job \in JobIds
                    /\ call'[c].op \in {"save", "publish", "edit", "status"} => call'[c].job \in JobIds
                    /\ call'[c].op = "status" /\ call'[c].fresh =>
                         job'[call'[c].job].approval \in {"null", "APPROVED"}
  BY <1>3, <1>4 DEF ApprovalInv
<1>5. CASE c \in done
  BY <1>2, <1>5 DEF Idle
<1>6. CASE c \notin done /\ call[c].op \in {"save", "publish", "edit", "status"} /\ call[c].job = j
  BY <1>2, <1>6 DEF ApprovalInv
<1>7. CASE c \notin done /\ ~(call[c].op \in {"save", "publish", "edit", "status"} /\ call[c].job = j)
  <2>1. call'[c] = call[c]  BY <1>2, <1>7
  <2> QED  BY <1>1, <1>7, <2>1 DEF ApprovalInv
<1> QED  BY <1>5, <1>6, <1>7

\* A request that begins, ends or is refused changes no job.
LEMMA CallKeepsApproval ==
    ASSUME ApprovalInv, job' = job, NEW c \in Clients, NEW u, call' = [call EXCEPT ![c] = u],
           u.op = "create" => u.by \in Actors /\ u.job \in JobIds,
           u.op \in {"save", "publish", "edit", "status"} => u.job \in JobIds,
           u.op = "status" => job[u.job].approval \in {"null", "APPROVED"}
    PROVE  ApprovalInv'
<1> SUFFICES ASSUME NEW d \in Clients
             PROVE  /\ call'[d].op = "create" => call'[d].by \in Actors /\ call'[d].job \in JobIds
                    /\ call'[d].op \in {"save", "publish", "edit", "status"} => call'[d].job \in JobIds
                    /\ call'[d].op = "status" /\ call'[d].fresh =>
                         job'[call'[d].job].approval \in {"null", "APPROVED"}
  BY DEF ApprovalInv
<1>1. CASE d = c
  <2>1. call'[d] = u  BY <1>1 DEF ApprovalInv
  <2> QED  BY <2>1
<1>2. CASE d # c
  <2>1. call'[d] = call[d]  BY <1>2 DEF ApprovalInv
  <2> QED  BY <2>1 DEF ApprovalInv
<1> QED  BY <1>1, <1>2

\* No handler but changeStatus makes an existing job Active unless it approves it.
LiveApproved == \A j \in JobIds :
    Exists(j) /\ job[j].status # "Active" /\ job'[j].status = "Active"
      => job'[j].approval \in {"null", "APPROVED"}

\* A write to row j of an existing job that is not Active or is approved.
LEMMA WriteIsApproved ==
    ASSUME ApprovalInv, NEW done \in SUBSET Clients, NEW j \in JobIds, NEW row \in Rows,
           Write(done, j, row),
           Exists(j) /\ job[j].status # "Active" /\ row.status = "Active"
             => row.approval \in {"null", "APPROVED"}
    PROVE  ApprovalInv' /\ LiveApproved
<1>1. ApprovalInv'  BY WriteKeepsApproval
<1>2. job' = [job EXCEPT ![j] = row]  BY DEF Write
<1>3. ASSUME NEW k \in JobIds, Exists(k), job[k].status # "Active", job'[k].status = "Active"
      PROVE  job'[k].approval \in {"null", "APPROVED"}
  <2>1. CASE k = j
    <3>1. job'[k] = row  BY <1>2, <2>1 DEF ApprovalInv
    <3> QED  BY <1>3, <2>1, <3>1
  <2>2. CASE k # j
    <3>1. job'[k] = job[k]  BY <1>2, <2>2 DEF ApprovalInv
    <3> QED  BY <1>3, <3>1
  <2> QED  BY <2>1, <2>2
<1> QED  BY <1>1, <1>3 DEF LiveApproved

\* The rows createJob may insert.
LEMMA CreatedRows ==
    ASSUME NEW c \in Clients, call[c].by \in Actors
    PROVE  \A row \in Initially(c) : row \in Rows
<1>1. ASSUME NEW status \in Operational \cup {"Pending Approval"},
             NEW approval \in {"null", "PENDING_APPROVAL", "APPROVED", "REJECTED"}, NEW by \in Actors
      PROVE  NewJob(by, status, approval) \in Rows
  BY DEF NewJob, Rows
<1>2. "Draft" \in Operational /\ "owner" \in Actors  BY OperationalAssumption DEF Actors
<1>3. NewJob(call[c].by, "Draft", "null") \in Rows  BY <1>1, <1>2
<1>4. NewJob(call[c].by, "Pending Approval", "PENDING_APPROVAL") \in Rows  BY <1>1
<1> DEFINE mine == {NewJob("owner", status, approval) :
                      status \in Operational, approval \in {"APPROVED", "REJECTED"}}
           forDelegate == {NewJob(call[c].by, "Pending Approval", "PENDING_APPROVAL")}
<1>5. \A row \in mine : row \in Rows
  <2> SUFFICES ASSUME NEW status \in Operational, NEW approval \in {"APPROVED", "REJECTED"}
               PROVE  NewJob("owner", status, approval) \in Rows
    OBVIOUS
  <2> QED  BY <1>1, <1>2
<1>6. \A row \in forDelegate : row \in Rows  BY <1>4
<1>7. Initially(c) = IF call[c].draft THEN {NewJob(call[c].by, "Draft", "null")}
                     ELSE forDelegate \cup IF call[c].by = "delegate" THEN {} ELSE mine
  BY DEF Initially
<1> HIDE DEF mine, forDelegate
<1> QED  BY <1>3, <1>5, <1>6, <1>7

\* Every step of the job service keeps the invariant and makes nothing live that a
\* reviewer has not let through.
LEMMA NextIsApproved ==
    ASSUME ApprovalInv, [Next]_vars
    PROVE  ApprovalInv' /\ LiveApproved
<1>1. CASE UNCHANGED <<job, call>>
  BY <1>1 DEF ApprovalInv, LiveApproved
<1>2. ASSUME NEW c \in Clients, NEW u, job' = job, call' = [call EXCEPT ![c] = u],
             u.op = "create" => u.by \in Actors /\ u.job \in JobIds,
             u.op \in {"save", "publish", "edit", "status"} => u.job \in JobIds,
             u.op = "status" => job[u.job].approval \in {"null", "APPROVED"}
      PROVE  ApprovalInv' /\ LiveApproved
  BY <1>2, CallKeepsApproval DEF LiveApproved
<1>3. ASSUME NEW c \in Clients, NEW by \in Actors, NEW j \in JobIds,
             \/ \E draft \in BOOLEAN : CreateRead(c, by, draft, j)
             \/ SaveRead(c, by, j)
             \/ PublishRead(c, by, j)
      PROVE  ApprovalInv' /\ LiveApproved
  <2>1. ASSUME NEW draft \in BOOLEAN, CreateRead(c, by, draft, j)
        PROVE  ApprovalInv' /\ LiveApproved
    <3> DEFINE u == [op |-> "create", by |-> by, draft |-> draft, job |-> j,
                     max |-> IF by = "delegate" THEN grant.max ELSE NoLimit,
                     expires |-> IF by = "delegate" THEN grant.expires ELSE "never"]
    <3>1. job' = job /\ call' = [call EXCEPT ![c] = u]  BY <2>1 DEF CreateRead, Begin
    <3>2. u.op = "create" /\ u.by = by /\ u.job = j  OBVIOUS
    <3> HIDE DEF u
    <3> QED  BY <1>2, <3>1, <3>2
  <2>2. CASE SaveRead(c, by, j)
    <3> DEFINE u == [op |-> "save", job |-> j, fresh |-> TRUE]
    <3>1. job' = job /\ call' = [call EXCEPT ![c] = u]  BY <2>2 DEF SaveRead, Begin
    <3>2. u.op = "save" /\ u.job = j  OBVIOUS
    <3> HIDE DEF u
    <3> QED  BY <1>2, <3>1, <3>2
  <2>3. CASE PublishRead(c, by, j)
    <3> DEFINE u == [op |-> "publish", job |-> j, by |-> by, fresh |-> TRUE]
    <3>1. job' = job /\ call' = [call EXCEPT ![c] = u]  BY <2>3 DEF PublishRead, Begin
    <3>2. u.op = "publish" /\ u.job = j  OBVIOUS
    <3> HIDE DEF u
    <3> QED  BY <1>2, <3>1, <3>2
  <2> QED  BY <1>3, <2>1, <2>2, <2>3
<1>4. ASSUME NEW c \in Clients, NEW j \in JobIds, EditRead(c, j) \/ StatusRead(c, j)
      PROVE  ApprovalInv' /\ LiveApproved
  <2>1. CASE EditRead(c, j)
    <3> DEFINE u == [op |-> "edit", job |-> j, status |-> job[j].status, fresh |-> TRUE]
    <3>1. job' = job /\ call' = [call EXCEPT ![c] = u]  BY <2>1 DEF EditRead, Begin
    <3>2. u.op = "edit" /\ u.job = j  OBVIOUS
    <3> HIDE DEF u
    <3> QED  BY <1>2, <3>1, <3>2
  <2>2. CASE StatusRead(c, j)
    <3> DEFINE u == [op |-> "status", job |-> j, status |-> job[j].status, fresh |-> TRUE]
    <3>1. job' = job /\ call' = [call EXCEPT ![c] = u]  BY <2>2 DEF StatusRead, Begin
    <3>2. u.op = "status" /\ u.job = j /\ job[j].approval \in {"null", "APPROVED"}
      BY <2>2 DEF StatusRead
    <3> HIDE DEF u
    <3> QED  BY <1>2, <3>1, <3>2
  <2> QED  BY <1>4, <2>1, <2>2
<1>5. ASSUME NEW c \in Clients, CreateCommit(c)
      PROVE  ApprovalInv' /\ LiveApproved
  <2> DEFINE j == call[c].job
  <2>1. j \in JobIds /\ call[c].by \in Actors  BY <1>5 DEF CreateCommit, ApprovalInv
  <2>2. CASE job[j] = NoJob
    <3>1. PICK row \in Initially(c) : Write({c}, j, row)  BY <1>5, <2>2 DEF CreateCommit
    <3>2. row \in Rows  BY <2>1, CreatedRows
    <3>3. ~Exists(j)  BY <2>2 DEF Exists, NoJob, NewJob
    <3> QED  BY <2>1, <3>1, <3>2, <3>3, WriteIsApproved
  <2>3. CASE job[j] # NoJob
    <3>1. job' = job /\ call' = [call EXCEPT ![c] = Idle]  BY <1>5, <2>3 DEF CreateCommit, End
    <3> QED  BY <1>2, <3>1 DEF Idle
  <2> QED  BY <2>2, <2>3
<1>6. ASSUME NEW c \in Clients,
             \/ SaveCommit(c)
             \/ \E pending \in BOOLEAN : PublishCommit(c, pending)
             \/ EditCommit(c)
             \/ \E status \in Operational : StatusCommit(c, status)
             \/ Abandon(c)
      PROVE  ApprovalInv' /\ LiveApproved
  <2> DEFINE j == call[c].job
  <2>1. call[c].op \in {"save", "publish", "edit", "status"} => j \in JobIds /\ job[j] \in Rows
    BY DEF ApprovalInv
  <2>2. CASE SaveCommit(c)
    <3> DEFINE row == [job[j] EXCEPT !.status = "Draft"]
    <3>1. Write({c}, j, row) /\ call[c].op = "save"  BY <2>2 DEF SaveCommit
    <3>2. row \in Rows /\ row.status = "Draft"  BY <2>1, <3>1, OperationalAssumption DEF Rows
    <3> HIDE DEF row
    <3> QED  BY <2>1, <3>1, <3>2, WriteIsApproved
  <2>3. ASSUME NEW pending \in BOOLEAN, PublishCommit(c, pending)
        PROVE  ApprovalInv' /\ LiveApproved
    <3> DEFINE row == [job[j] EXCEPT
                         !.status = IF pending THEN "Pending Approval" ELSE "Active",
                         !.approval = IF pending THEN "PENDING_APPROVAL" ELSE "APPROVED"]
    <3>1. Write({c}, j, row) /\ call[c].op = "publish"  BY <2>3 DEF PublishCommit
    <3>2. row \in Rows /\ (row.status = "Active" => row.approval = "APPROVED")
      BY <2>1, <3>1, OperationalAssumption DEF Rows
    <3> HIDE DEF row
    <3> QED  BY <2>1, <3>1, <3>2, WriteIsApproved
  <2>4. CASE EditCommit(c)
    <3>1. Write({c}, j, job[j]) /\ call[c].op = "edit"  BY <2>4 DEF EditCommit
    <3> QED  BY <2>1, <3>1, WriteIsApproved
  <2>5. ASSUME NEW status \in Operational, StatusCommit(c, status)
        PROVE  ApprovalInv' /\ LiveApproved
    <3> DEFINE row == [job[j] EXCEPT !.status = status]
    <3>1. Write({c}, j, row) /\ call[c].op = "status" /\ call[c].fresh  BY <2>5 DEF StatusCommit
    <3>2. row \in Rows /\ row.approval = job[j].approval  BY <2>1, <3>1 DEF Rows
    <3>3. job[j].approval \in {"null", "APPROVED"}  BY <3>1 DEF ApprovalInv
    <3> HIDE DEF row
    <3> QED  BY <2>1, <3>1, <3>2, <3>3, WriteIsApproved
  <2>6. CASE Abandon(c)
    <3>1. job' = job /\ call' = [call EXCEPT ![c] = Idle]  BY <2>6 DEF Abandon, End
    <3> QED  BY <1>2, <3>1 DEF Idle
  <2> QED  BY <1>6, <2>2, <2>3, <2>4, <2>5, <2>6
<1>7. ASSUME NEW j \in JobIds,
             \/ ApproveJob(j)
             \/ RejectJob(j)
             \/ DeleteJob(j)
             \/ RestoreJob(j)
             \/ PermanentlyDeleteJob(j)
      PROVE  ApprovalInv' /\ LiveApproved
  <2>1. job[j] \in Rows  BY DEF ApprovalInv
  <2>2. PICK row \in Rows :
          /\ Write({}, j, row)
          /\ row.status = "Active" => row.status = job[j].status \/ row.approval = "APPROVED"
    <3>1. CASE ApproveJob(j)
      <4> DEFINE row == [job[j] EXCEPT !.status = "Active", !.approval = "APPROVED"]
      <4>1. Write({}, j, row)  BY <3>1 DEF ApproveJob
      <4>2. row \in Rows /\ row.approval = "APPROVED"  BY <2>1, OperationalAssumption DEF Rows
      <4> HIDE DEF row
      <4> QED  BY <4>1, <4>2
    <3>2. CASE RejectJob(j)
      <4> DEFINE row == [job[j] EXCEPT !.status = "Draft", !.approval = "REJECTED"]
      <4>1. Write({}, j, row)  BY <3>2 DEF RejectJob
      <4>2. row \in Rows /\ row.status = "Draft"  BY <2>1, OperationalAssumption DEF Rows
      <4> HIDE DEF row
      <4> QED  BY <4>1, <4>2
    <3>3. CASE DeleteJob(j)
      <4> DEFINE row == [job[j] EXCEPT !.state = "deleted"]
      <4>1. Write({}, j, row)  BY <3>3 DEF DeleteJob
      <4>2. row \in Rows /\ row.status = job[j].status  BY <2>1 DEF Rows
      <4> HIDE DEF row
      <4> QED  BY <4>1, <4>2
    <3>4. CASE RestoreJob(j)
      <4> DEFINE row == [job[j] EXCEPT !.state = "live"]
      <4>1. Write({}, j, row)  BY <3>4 DEF RestoreJob
      <4>2. row \in Rows /\ row.status = job[j].status  BY <2>1 DEF Rows
      <4> HIDE DEF row
      <4> QED  BY <4>1, <4>2
    <3>5. CASE PermanentlyDeleteJob(j)
      <4>1. Write({}, j, NoJob)  BY <3>5 DEF PermanentlyDeleteJob
      <4>2. NoJob \in Rows /\ NoJob.status = "Draft"
        BY OperationalAssumption DEF NoJob, NewJob, Rows, Actors
      <4> QED  BY <4>1, <4>2
    <3> QED  BY <1>7, <3>1, <3>2, <3>3, <3>4, <3>5
  <2> QED  BY <2>2, WriteIsApproved
<1>8. ASSUME \/ \E expires \in {"never", "later"}, max \in {NoLimit} \cup 1..MaxJobs :
                  CreateJobCreationGrant(expires, max)
             \/ \E expires \in {"never", "later", "past"}, max \in {NoLimit} \cup 1..MaxJobs :
                  UpdateJobCreationGrant(expires, max)
             \/ RevokeJobCreationGrant
             \/ GrantExpires
      PROVE  UNCHANGED <<job, call>>
  BY <1>8 DEF CreateJobCreationGrant, UpdateJobCreationGrant, RevokeJobCreationGrant,
              GrantExpires
<1>9. ASSUME UNCHANGED vars
      PROVE  UNCHANGED <<job, call>>
  BY <1>9 DEF vars
<1> QED
  BY <1>1, <1>3, <1>4, <1>5, <1>6, <1>7, <1>8, <1>9 DEF Next

\* changeStatus, publishDraft and approveJob, however they overlap: an existing job
\* goes live only approved or without an approval workflow.
THEOREM GoesLiveApprovedHolds == Spec => GoesLiveApproved
<1>1. Init => ApprovalInv
  <2>1. NoJob \in Rows
    BY OperationalAssumption DEF NoJob, NewJob, Rows, Actors
  <2>2. Idle.op = "idle"
    BY DEF Idle
  <2> HIDE DEF NoJob, Idle
  <2> QED  BY <2>1, <2>2 DEF Init, ApprovalInv
<1>2. ApprovalInv /\ [Next]_vars => ApprovalInv'  BY NextIsApproved
<1>3. ApprovalInv /\ [Next]_vars =>
        [\A j \in JobIds :
           Exists(j) /\ job[j].status # "Active" /\ job'[j].status = "Active"
             => job'[j].approval \in {"null", "APPROVED"}]_vars
  BY NextIsApproved DEF LiveApproved
<1> QED  BY <1>1, <1>2, <1>3, PTL DEF Spec, GoesLiveApproved
=============================================================================
