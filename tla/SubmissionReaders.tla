-------------------------- MODULE SubmissionReaders --------------------------
(***************************************************************************)
(* Who sees a submission, and who is offered to change it.  The tracker    *)
(* (findAll), the page of one submission (findOne), the list of those      *)
(* eligible for an interview, the calendar and the recruiter's dashboard   *)
(* each decide who sees it; the tracker's capabilities, the calendar's     *)
(* canManage and update() each decide who changes it.                      *)
(*                                                                         *)
(* The member is that of JobReaders; a submission is given relative to     *)
(* him.  The job and the candidate are not deleted.                        *)
(***************************************************************************)
EXTENDS JobReaders

SubmissionsRead ==
    [branch : {Home, Away, Unset}, unit : {Home, Away, Unset},     \* of the job
     \* his part: podmate: the recruiter is in his pod; reviewer: he reviews the recruiter
     mine : SUBSET {"recruiter", "reviewer", "am", "creator", "podmate"},
     review : BOOLEAN,                                             \* PENDING_APPROVAL, else SUBMITTED
     paused : BOOLEAN]                                             \* the job is closed to changes

BranchAdmin == Has("branch_admin:manage") /\ ~Tenant
UnitAdmin == Has("unit_admin:manage") /\ ~Tenant /\ ~Has("branch_admin:manage")
CanViewAll == Tenant \/ Has("submission:view_all") \/ Has("branch_admin:manage") \/ Has("unit_admin:manage")

\* trackerFilterAccess: account managers by their permission.
Portfolio == Has("job:submit_owned_jobs") /\ ~Tenant /\ ~Has("branch_admin:manage") /\ ~Has("unit_admin:manage")
DefaultView == IF Portfolio THEN "my" ELSE "all"

\* resolveBranchId: the branch a request is for, if it is not refused.
BranchRefused(header) == ~ViewsAllBranches /\ (reader.branch = Unset \/ header \notin {Unset, reader.branch})
RequestBranch(header) == IF ViewsAllBranches THEN header ELSE reader.branch

InOwnBranch(s) == reader.branch # Unset /\ s.branch = reader.branch
InOwnUnit(s) == InOwnBranch(s) /\ reader.unit # Unset /\ s.unit = reader.unit

\* Administrators of a unit or a branch, in the tracker and among the eligible.
InAdminScope(s, header) ==
    /\ UnitAdmin => InOwnUnit(s)
    /\ BranchAdmin => InOwnBranch(s) /\ RequestBranch(header) \in {Unset, reader.branch}

\* Mutant: jobs he created count in his own list only.
CreatedByNotInAll(s, view) ==
    Has("submission:internal_screening_created_jobs") /\ "creator" \in s.mine /\ InOwnUnit(s) /\ view = "my"
CreatedBy(s, view) ==
    /\ Has("submission:internal_screening_created_jobs") /\ "creator" \in s.mine /\ InOwnUnit(s)
    /\ view = "my" \/ (view = "all" /\ ~CanViewAll)

InPodView(s) == PodsEnabled /\ Has("pod:view") /\ "podmate" \in s.mine

InView(s, view) ==
    CASE view = "my"  -> (IF Portfolio THEN "am" ELSE "recruiter") \in s.mine \/ CreatedBy(s, view)
      [] view = "pod" -> ~Portfolio /\ InPodView(s)
      [] view = "all" -> \/ CanViewAll
                         \/ ~Portfolio /\ (s.mine \cap {"recruiter", "reviewer"} # {} \/ CreatedBy(s, view))

\* Only administrators of the workspace look into other branches than their own.
ForeignBranch(header) == /\ RequestBranch(header) # Unset /\ ~Tenant
                         /\ reader.branch \notin {Unset, RequestBranch(header)}

\* findAll
Tracked(s, header, view) ==
    /\ ~BranchRefused(header)
    /\ Has("submission:view") \/ Has("submission:create")
    /\ InAdminScope(s, header)
    /\ InView(s, view)
    /\ RequestBranch(header) \in {Unset, s.branch} /\ ~ForeignBranch(header)

\* findOne is findAll with the widest view he has.
SubmissionOpened(s, header) == Tracked(s, header, IF CanViewAll THEN "all" ELSE DefaultView)

\* findEligibleForInterview: account managers by their role, jobs without a branch included.
EligibleInView(s, view) ==
    CASE view = "my"  -> (IF reader.manager THEN "am" ELSE "recruiter") \in s.mine
      [] view = "pod" -> ~reader.manager /\ InPodView(s)
      [] view = "all" -> CanViewAll \/ (~reader.manager /\ s.mine \cap {"recruiter", "reviewer"} # {})
EligibleListed(s, header, view) ==
    /\ ~BranchRefused(header) /\ Has("submission:schedule_interview")
    /\ ~s.review /\ ~s.paused
    /\ InAdminScope(s, header) /\ (UnitAdmin => RequestBranch(header) \in {Unset, reader.branch})
    /\ EligibleInView(s, view)
    /\ (RequestBranch(header) = Unset \/ UnitAdmin \/ BranchAdmin \/ s.branch \in {RequestBranch(header), Unset})

\* findCalendarEvents
OnCalendar(s, header) ==
    /\ ~BranchRefused(header) /\ ~s.review
    /\ Has("submission:view") \/ Has("submission:view_all") \/ Tenant
    /\ InAdminScope(s, header) /\ (UnitAdmin => RequestBranch(header) \in {Unset, reader.branch})
    /\ CanViewAll \/ (IF reader.manager THEN "am" \in s.mine ELSE s.mine \cap {"recruiter", "reviewer"} # {})

\* The interviews of recruiterDashboard.
InterviewOnDashboard(s) ==
    /\ Has("submission:view") \/ Has("submission:create")
    /\ InOwnUnit(s) /\ "recruiter" \in s.mine /\ ~s.review

Fields == {"review", "schedule", "results", "outcome"}
CreatorReview(s) == Has("submission:internal_screening_created_jobs") /\ InOwnUnit(s) /\ "creator" \in s.mine

\* submissionCapabilities
Capability(s, field) ==
    /\ ~s.paused
    /\ CASE field = "review"   -> /\ ~({"creator", "recruiter"} \subseteq s.mine)
                                  /\ Has("submission:internal_screening") \/ "reviewer" \in s.mine \/ CreatorReview(s)
         [] field = "schedule" -> Has("submission:schedule_interview")
         [] field = "results"  -> Has("submission:audit_rounds")
         [] field = "outcome"  -> Has("submission:final_status")

OtherManagersJob(s, field) == /\ "am" \notin s.mine /\ ~Has("submission:edit_all")
                              /\ ~(field = "review" /\ CreatorReview(s))

\* What the tracker offers, and what update() accepts.
Offered(s, field) == Capability(s, field) /\ ~(Portfolio /\ OtherManagersJob(s, field))
CreatorDecision(s, field) == field = "review" /\ s.review /\ CreatorReview(s)
UpdateAccepted(s, header, field) ==
    /\ SubmissionOpened(s, header)
    /\ (reader.manager /\ ~Tenant /\ "am" \notin s.mine) => CreatorDecision(s, field) \/ Has("submission:edit_all")
    /\ Capability(s, field)
CanManageEvent(s) == /\ Has("submission:schedule_interview") /\ ~s.paused
                     /\ ~reader.manager \/ "am" \in s.mine \/ Has("submission:edit_all")

\* The fields a submission in this status has.
Pertains(s, field) == (field = "review") = s.review

----------------------------------------------------------------------------
(* A member whose role and permissions agree on whether he is an account   *)
(* manager opens whatever the tracker, the list of eligible submissions    *)
(* and the calendar (for jobs of the branch the request is for, which is   *)
(* his own or he administers the workspace) and, unless he has a           *)
(* portfolio, his dashboard show him; and the tracker and the calendar     *)
(* offer him to change exactly what update() accepts of him.               *)
SubmissionViewsAgree ==
    (reader # NoReader /\ reader.manager = Portfolio /\ Has("submission:view")) =>
    \A s \in SubmissionsRead, header \in {Home, Away, Unset} :
       LET ofBranch == RequestBranch(header) \in {Unset, s.branch} /\ ~ForeignBranch(header)
           opened == SubmissionOpened(s, header)
       IN /\ ~opened /\ ofBranch =>
                /\ \A view \in {"my", "all"} : ~Tracked(s, header, view) /\ ~EligibleListed(s, header, view)
                /\ ~OnCalendar(s, header)
                /\ Portfolio \/ BranchRefused(header) \/ ~InterviewOnDashboard(s)
          /\ opened => \A field \in Fields : Pertains(s, field) =>
                (Offered(s, field) <=> UpdateAccepted(s, header, field))
          /\ opened /\ ~s.review => (CanManageEvent(s) <=> UpdateAccepted(s, header, "schedule"))
=============================================================================
