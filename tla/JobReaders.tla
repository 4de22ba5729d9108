----------------------------- MODULE JobReaders -----------------------------
(***************************************************************************)
(* Who sees a job.  The list (buildJobListQuery, behind the catalogue, the *)
(* export and the links of candidates), the page of one job (findOneJob)   *)
(* and the form that submits a candidate (jobCapabilities to offer it,     *)
(* assertJobSubmissionAccess to accept it) each decide on their own.       *)
(*                                                                         *)
(* One member reads, and the predicates are compared over all jobs; a      *)
(* job's branch, unit, pods and people are given relative to him.          *)
(* "tenant:manage" stands for tenant:settings too, "job:view_pod_jobs" for *)
(* job:submit_pod_jobs where the code accepts either.                      *)
(***************************************************************************)
EXTENDS FiniteSets

CONSTANTS ReaderProfiles     \* members: permissions, account manager role, branch, unit, pods switched on

Home == "home"      \* a branch or unit that is the member's, if he has one
Away == "away"      \* another
Unset == "unset"

ASSUME ReaderProfilesAssumption == \A r \in ReaderProfiles :
    {r.branch, r.unit} \subseteq {Home, Unset} /\ r.pods \in BOOLEAN /\ r.manager \in BOOLEAN

JobsRead == [branch : {Home, Away, Unset}, unit : {Home, Away, Unset},
             shared : SUBSET {Home},                     \* shared_branch_ids
             direct : BOOLEAN,                           \* he is one of its recruiters
             pods : SUBSET {"head", "member"},           \* it has a pod he heads, is in
             mine : SUBSET {"am", "creator", "approver"},  \* am: account or recruitment manager
             status : {"active", "pending"}]             \* active: and approved

VARIABLE reader     \* the member who reads, NoReader if nobody does

NoReader == [may |-> {}]

Has(p) == p \in reader.may
Tenant == Has("tenant:manage") \/ Has("platform:manage")

Manages == \/ Tenant \/ Has("branch_admin:manage") \/ Has("unit_admin:manage")
           \/ Has("job:create") \/ Has("job:override_assignment")

ManagesCurrentUnit == Has("unit_admin:manage") /\ ~Tenant /\ ~Has("branch_admin:manage")
OutsideUnit(j) == ManagesCurrentUnit /\ ~(reader.branch = j.branch /\ reader.unit = j.unit
                                          /\ Unset \notin {reader.branch, reader.unit})

\* loadJobActor: pods count for a member with a unit only.
PodsEnabled == reader.pods /\ reader.unit # Unset
ReadsPods == Has("job:view_pod_jobs") \/ Has("job:submit_pod_jobs")

\* Mutant: the head of a pod needs the permission of its members.
AssignedByPermission(j) == j.direct \/ (PodsEnabled /\ ReadsPods /\ j.pods # {})
AssignedTo(j) == j.direct \/ (PodsEnabled /\ ("head" \in j.pods \/ (ReadsPods /\ "member" \in j.pods)))

ViewsAllBranches == Has("job:view_all_branches") \/ Tenant
InTargetBranch(j, header) ==
    LET target == IF ViewsAllBranches THEN header ELSE reader.branch
    IN \/ target = Unset
       \/ j.branch \in {target, Unset} \/ target \in j.shared
       \/ PodsEnabled /\ j.pods # {}

OverseesBranch == \/ Tenant \/ Has("branch_admin:manage") \/ Has("unit_admin:manage")
                  \/ Has("job:view_all") \/ Has("job:view_all_branches")
AccountManager == ~OverseesBranch /\ (reader.manager \/ Has("job:create"))

\* Account managers read their unit, recruiters what is approved or theirs.
Isolated(j) ==
    CASE OverseesBranch -> TRUE
      [] AccountManager -> IF reader.unit # Unset THEN j.unit = reader.unit ELSE "am" \in j.mine
      [] OTHER          -> j.status = "active" \/ j.mine \cap {"approver", "creator"} # {}

\* filter=...: "catalogue" stands for none; nobody else's assignments are known here.
JobFilters == {"catalogue", "dashboard", "sourcing", "my", "direct", "pod", "unassigned"}
Filtered(j, filter) ==
    CASE filter = "catalogue"  -> TRUE
      [] filter = "dashboard"  -> "am" \in j.mine
      [] filter = "sourcing"   -> j.status = "active" /\
            (j.direct \/ (PodsEnabled /\ "member" \in j.pods /\ (ReadsPods \/ "head" \in j.pods)))
      [] filter = "my"         -> IF AccountManager THEN "am" \in j.mine ELSE j.direct
      [] filter = "direct"     -> j.direct
      [] filter = "pod"        -> PodsEnabled /\ ReadsPods /\ j.pods # {}
      [] filter = "unassigned" -> ~j.direct /\ j.pods = {}

\* The branch header names any branch.
JobListed(j, header, filter) ==
    /\ Has("job:view") \/ Has("platform:manage")
    /\ Manages \/ AssignedTo(j)
    /\ ViewsAllBranches \/ reader.branch # Unset
    /\ ~OutsideUnit(j) /\ (ManagesCurrentUnit \/ InTargetBranch(j, header))
    /\ Isolated(j) /\ Filtered(j, filter)

OpensAssigned(j) == AssignedTo(j)
JobOpened(j) ==
    /\ ~OutsideUnit(j)
    /\ Manages \/ OpensAssigned(j)
    /\ Tenant \/ Has("job:view") \/ Has("job:edit") \/ Has("job:view_all_branches")
       \/ j.mine \cap {"am", "creator"} # {}

SameUnit(j) == /\ reader.branch # Unset /\ reader.branch = j.branch
               /\ reader.unit # Unset /\ reader.unit = j.unit

\* recruiterDashboard, whose pods are those he submits for.
JobOnDashboard(j) ==
    /\ Has("job:view") /\ SameUnit(j) /\ j.status = "active"
    /\ j.direct \/ (reader.pods /\ Has("job:submit_pod_jobs") /\ "member" \in j.pods)

\* canSubmitToJob, shown with every job.
SubmissionOffered(j) ==
    /\ SameUnit(j) /\ Has("submission:create") /\ j.status = "active"
    /\ \/ Has("job:submit_unit_jobs")
       \/ Has("job:submit_owned_jobs") /\ "am" \in j.mine
       \/ j.direct
       \/ PodsEnabled /\ "member" \in j.pods /\ Has("job:submit_pod_jobs")

\* assertJobSubmissionAccess, step by step.
SubmissionAccepted(j) ==
    /\ Has("submission:create") /\ SameUnit(j) /\ j.status = "active"
    /\ \/ Has("job:submit_unit_jobs") \/ (Has("job:submit_owned_jobs") /\ "am" \in j.mine)
       \/ j.direct
       \/ Has("job:submit_pod_jobs") /\ reader.pods /\ "member" \in j.pods

ReadersInit == reader \in ReaderProfiles

\* The member stays as he is.
ReadersSpec == ReadersInit /\ [][FALSE]_reader

----------------------------------------------------------------------------
(* Every job a list or the dashboard shows can be opened by the member who *)
(* sees it, and the form to submit a candidate is offered exactly when the *)
(* submission is accepted, whatever his permissions, branch, unit and pods.*)
JobViewsAgree == reader # NoReader => \A j \in JobsRead :
    /\ ~JobOpened(j) => /\ ~JobOnDashboard(j)
                       /\ \A header \in {Home, Away, Unset}, filter \in JobFilters : ~JobListed(j, header, filter)
    /\ SubmissionOffered(j) <=> SubmissionAccepted(j)
=============================================================================
