--------------------------- MODULE Organisation ---------------------------
(***************************************************************************)
(* The structure of a workspace: branches, their units, the pods of a      *)
(* unit and the leadership role that follows a pod's head.                 *)
(* BranchesService, BusinessUnitsService, PodsService; the role handlers   *)
(* of AuthRbacService and AuthUserService as far as they touch members of  *)
(* pods; the foreign keys of branches, units, pods and roles.              *)
(*                                                                         *)
(* A request is one step, except PodsService.update, which reads the pod   *)
(* before its transaction.  In Spec nothing comes in between (UpdatePod);  *)
(* in OverlapSpec other requests do (PodRead and PodCommit).               *)
(*                                                                         *)
(* All members are active and approved.  Whether a branch or a pod has     *)
(* jobs is left open: a request refused for its jobs changes nothing.      *)
(* Names, codes, currencies, shifts and switches are left out.             *)
(***************************************************************************)
EXTENDS Integers, FiniteSets, SequencesExt

CONSTANTS
    Branches, Units, Pods, Users,   \* ids the workspace may use
    Clients,        \* callers of PodsService.update
    MaxBranches,    \* tenants.max_branches
    CustomLeads,    \* ids of custom roles based on POD_LEAD
    BranchRoles,    \* role lists a request to BranchesService.assignUser may name
    Selections,     \* role lists an administrator may select for a member
    Lists,          \* member lists a request may name
    MaxEdits,       \* bound on requests that are not about pods
    None,           \* null
    Same            \* a field the request leaves as it is

Recruiter == "recruiter"    \* the plain role that makes eligible for pods
Admin == "admin"            \* branch and unit administration
SystemLead == "podlead"     \* the system template of the Pod Lead role
Custom == "custom"          \* a custom role based on RECRUITER
Plain == {Recruiter, Admin, Custom}

ASSUME BranchesAssumption == MaxBranches \in Nat \ {0} /\ Branches # {}
AnyRole == Plain \cup {SystemLead} \cup CustomLeads

ASSUME RolesAssumption == /\ CustomLeads \cap (Plain \cup {SystemLead}) = {}
                          /\ None \notin AnyRole \cup Users \cup Pods \cup Units \cup Branches
ASSUME ListsAssumption == Lists \subseteq SUBSET Users
ASSUME SelectionsAssumption == /\ Selections \subseteq Seq(Plain) \ {<<>>}
                               /\ BranchRoles \subseteq Seq(AnyRole)

VARIABLES
    branches,   \* existing branches
    unit,       \* existing unit |-> its branch
    pod,        \* existing pod |-> its unit, branch and head
    custom,     \* whether the custom role is there
    lead,       \* custom Pod Lead roles: unit and branch, or new, or gone
    staff,      \* ats.users: branch, unit, pod, role_id and assigned_role_ids
    call,       \* what PodsService.update has read
    edits       \* requests counted against MaxEdits

vars == <<branches, unit, pod, custom, lead, staff, call, edits>>

Idle == [op |-> "idle"]
New == [state |-> "new"]
Gone == [state |-> "gone"]
Live(m, b) == [state |-> "live", unit |-> m, branch |-> b]

Offered == IF custom THEN Plain ELSE Plain \ {Custom}
Existing == Offered \cup {SystemLead} \cup {l \in CustomLeads : lead[l].state = "live"}
LeadRoles == Existing \ Plain

\* promoteToPodHead: the custom role of the unit, else the system template.
LeadFor(roles, m) ==
    LET own == {l \in CustomLeads : roles[l].state = "live" /\ roles[l].unit = m}
    IN IF own = {} THEN SystemLead ELSE CHOOSE l \in own : TRUE

Heads(u) == {p \in DOMAIN pod : pod[p].head = u}
HeldLeads(row) == LeadRoles \cap ({row.primary} \cup ToSet(row.roles))

\* filter, spelled out for the proofs: the roles that are not dropped, in order.
Without(roles, dropped) ==
    LET kept[i \in 0..Len(roles)] ==
          IF i = 0 THEN <<>>
          ELSE IF roles[i] \in dropped THEN kept[i - 1] ELSE Append(kept[i - 1], roles[i])
    IN kept[Len(roles)]

First(role, roles) ==
    IF role = None THEN roles ELSE <<role>> \o Without(roles, {role})
Add(roles, role) ==
    IF role = None \/ role \in ToSet(roles) THEN roles ELSE Append(roles, role)
NotLead(roles) == Without(roles, LeadRoles)

\* Mutant: the primary role does not go to the front of the list.
LedAppended(row, role) ==
    [row EXCEPT !.primary = role, !.roles = Append(NotLead(Add(row.roles, row.primary)), role)]

\* promoteToPodHead, createCustomRole and updateCustomRole give a head his role.
Led(row, role) ==
    [row EXCEPT !.primary = role, !.roles = Append(NotLead(First(row.primary, row.roles)), role)]

\* demoteFromPodHead of a member who heads no other pod.
Released(row) ==
    LET rest == NotLead(Add(row.roles, row.primary))
    IN [row EXCEPT !.roles = rest,
                   !.primary = IF @ # None /\ @ \notin LeadRoles THEN @
                               ELSE IF rest = <<>> THEN None ELSE Head(rest)]

\* users.role_id is a foreign key, assigned_role_ids is not.
Writable(row) == row.primary \in Existing \cup {None}

\* A branch with its units, with or without custom Pod Lead roles; recruiters
\* without a unit and no pods yet.
Init ==
    \E b \in Branches :
        /\ branches = {b}
        /\ unit = [m \in Units |-> b]
        /\ lead \in [CustomLeads -> {New} \cup {Live(m, b) : m \in Units}]
        /\ \A l, k \in CustomLeads : lead[l] = lead[k] => l = k \/ lead[l] = New
        /\ pod = [p \in {} |-> None]
        /\ staff = [u \in Users |-> [branch |-> b, unit |-> None, pod |-> None,
                                     primary |-> Recruiter, roles |-> <<Recruiter>>]]
        /\ call = [c \in Clients |-> Idle]
        /\ edits = 0 /\ custom = TRUE

Selectable == {s \in Selections : ToSet(s) \subseteq Existing}
Edit == edits < MaxEdits /\ edits' = edits + 1
Put(u, row) == staff' = [staff EXCEPT ![u] = row]

-----------------------------------------------------------------------------
(* Branches and units *)

CreateBranch(b) ==
    /\ Edit /\ b \notin branches
    /\ Cardinality(branches) < MaxBranches
    /\ branches' = branches \cup {b}
    /\ UNCHANGED <<unit, pod, custom, lead, staff, call>>

CreateUnit(m, b) ==
    /\ Edit /\ m \notin DOMAIN unit /\ b \in branches
    /\ unit' = [k \in DOMAIN unit \cup {m} |-> IF k = m THEN b ELSE unit[k]]
    /\ UNCHANGED <<branches, pod, custom, lead, staff, call>>

\* BusinessUnitsService.update: the pods, roles and members of the unit keep
\* their branch.
MoveUnit(m, b) ==
    /\ Edit /\ m \in DOMAIN unit /\ b \in branches \ {unit[m]}
    /\ unit' = [unit EXCEPT ![m] = b]
    /\ UNCHANGED <<branches, pod, custom, lead, staff, call>>

\* What the foreign keys do when branches and units are deleted: pods and
\* custom roles go with them, references of members become null.
Cascade(goneBranches, goneUnits) ==
    LET keptPods == {p \in DOMAIN pod : pod[p].unit \notin goneUnits
                                        /\ pod[p].branch \notin goneBranches}
        goneRoles == {l \in CustomLeads : lead[l].state = "live"
                        /\ (lead[l].unit \in goneUnits \/ lead[l].branch \in goneBranches)}
    IN /\ branches' = branches \ goneBranches
       /\ unit' = [m \in DOMAIN unit \ goneUnits |-> unit[m]]
       /\ pod' = [p \in keptPods |-> pod[p]]
       /\ lead' = [l \in CustomLeads |-> IF l \in goneRoles THEN Gone ELSE lead[l]]
       /\ staff' = [u \in Users |->
            [staff[u] EXCEPT !.unit = IF @ \in goneUnits THEN None ELSE @,
                             !.pod = IF @ \in keptPods THEN @ ELSE None,
                             !.primary = IF @ \in goneRoles THEN None ELSE @]]
       /\ UNCHANGED <<custom, call>>

\* BusinessUnitsService.remove counts only members whose unit it is.
RemoveUnit(m) ==
    /\ Edit /\ m \in DOMAIN unit
    /\ \A u \in Users : staff[u].unit # m
    /\ Cascade({}, {m})

\* BranchesService.remove counts members and pods by their branch.
RemoveBranch(b) ==
    /\ Edit /\ b \in branches /\ Cardinality(branches) > 1
    /\ \A u \in Users : staff[u].branch # b
    /\ \A p \in DOMAIN pod : pod[p].branch # b
    /\ Cascade({b}, {m \in DOMAIN unit : unit[m] = b})

-----------------------------------------------------------------------------
(* Members *)

\* BranchesService.assignUser: the named unit, else, for a member from
\* elsewhere or without a unit, a unit of the branch if there is one.  The
\* roles it names replace the member's, lead roles as well.
AssignUser(b, u, m, roles) ==
    /\ Edit /\ b \in branches
    /\ ToSet(roles) \subseteq Existing
    /\ m = None \/ (m \in DOMAIN unit /\ unit[m] = b)
    /\ \E target \in IF m # None THEN {m}
                     ELSE IF staff[u].unit # None /\ staff[u].branch = b THEN {staff[u].unit}
                     ELSE IF \E k \in DOMAIN unit : unit[k] = b THEN {k \in DOMAIN unit : unit[k] = b}
                     ELSE {staff[u].unit} :
         Put(u, [staff[u] EXCEPT !.branch = b, !.unit = target,
                                 !.primary = IF roles = <<>> THEN @ ELSE Head(roles),
                                 !.roles = IF roles = <<>> THEN @ ELSE roles])
    /\ UNCHANGED <<branches, unit, pod, custom, lead, call>>

Administers(row) == [row EXCEPT !.primary = Admin, !.roles = Add(@, Admin)]

\* BranchesService.updateManagers
UpdateManagers(b, u) ==
    /\ Edit /\ b \in branches
    /\ Put(u, Administers([staff[u] EXCEPT !.branch = b]))
    /\ UNCHANGED <<branches, unit, pod, custom, lead, call>>

\* BusinessUnitsService.updateAdmins
UpdateAdmins(m, u) ==
    /\ Edit /\ m \in DOMAIN unit
    /\ Put(u, Administers([staff[u] EXCEPT !.unit = m]))
    /\ UNCHANGED <<branches, unit, pod, custom, lead, call>>

\* BusinessUnitsService.assignMembers
AssignMembers(m, members) ==
    /\ Edit /\ m \in DOMAIN unit
    /\ staff' = [u \in Users |->
          IF u \in members THEN [staff[u] EXCEPT !.unit = m, !.branch = unit[m]]
          ELSE [staff[u] EXCEPT !.unit = IF @ = m THEN None ELSE @]]
    /\ UNCHANGED <<branches, unit, pod, custom, lead, call>>

\* BusinessUnitsService.removeMember
RemoveMember(m, u) ==
    /\ Edit /\ staff[u].unit = m /\ m # None
    /\ Put(u, [staff[u] EXCEPT !.unit = None])
    /\ UNCHANGED <<branches, unit, pod, custom, lead, call>>

-----------------------------------------------------------------------------
(* Roles of a member: lead roles cannot be selected and are kept while he  *)
(* heads a pod (rejectManualPodLeadRoles, existingPodLeadRoleIds)          *)

Automatic(u) == IF Heads(u) = {} THEN {} ELSE HeldLeads(staff[u])
Keeping(u, roles) == roles \o SetToSeq(Automatic(u) \ ToSet(roles))

\* updateUserRoles
UpdateUserRoles(u, roles) ==
    /\ Edit
    /\ Put(u, [staff[u] EXCEPT !.primary = Head(roles), !.roles = Keeping(u, roles)])
    /\ UNCHANGED <<branches, unit, pod, custom, lead, call>>

\* updateUserDetails with a role selection: a head stays where he is.
UpdateUserDetails(u, roles, first, b, m) ==
    /\ Edit
    /\ b \in branches /\ m \in DOMAIN unit \cup {None}
    /\ Automatic(u) # {} => b = staff[u].branch /\ m = staff[u].unit
    /\ first \in ToSet(roles) \cup {None}
    /\ Put(u, [staff[u] EXCEPT
         !.branch = b, !.unit = m,
         !.roles = Keeping(u, roles),
         !.primary = IF first # None THEN first
                     ELSE IF @ \in ToSet(Keeping(u, roles)) THEN @ ELSE Head(roles)])
    /\ UNCHANGED <<branches, unit, pod, custom, lead, call>>

\* updateUserDetails without role fields: the member moves unchecked.
MoveMember(u, b, m) ==
    /\ Edit
    /\ b \in branches /\ m \in DOMAIN unit \cup {None}
    /\ Put(u, [staff[u] EXCEPT !.branch = b, !.unit = m,
                               !.roles = First(staff[u].primary, @),
                               !.primary = IF @ = None /\ staff[u].roles # <<>>
                                           THEN Head(staff[u].roles) ELSE @])
    /\ Writable(staff'[u])
    /\ UNCHANGED <<branches, unit, pod, custom, lead, call>>

\* assignUserRoles
AssignUserRoles(u, roles, append) ==
    /\ Edit
    /\ Put(u, [staff[u] EXCEPT
         !.primary = Head(roles),
         !.roles = Keeping(u, IF append THEN @ \o Without(roles, ToSet(@)) ELSE roles)])
    /\ UNCHANGED <<branches, unit, pod, custom, lead, call>>

\* batchAssignUsersToRole, one member
BatchAssign(u, role) ==
    /\ Edit
    /\ Put(u, [staff[u] EXCEPT !.primary = IF @ = None THEN role ELSE @, !.roles = Add(@, role)])
    /\ UNCHANGED <<branches, unit, pod, custom, lead, call>>

\* unassignUserFromRole: without a primary role left, the default role.
Unassign(u, role) ==
    LET rest == Without(staff[u].roles, {role})
        next == IF staff[u].primary # role THEN staff[u].primary
                ELSE IF rest = <<>> THEN None ELSE Head(rest)
    IN /\ Edit
       /\ Put(u, IF next = None
                 THEN [staff[u] EXCEPT !.primary = Recruiter, !.roles = Add(rest, Recruiter)]
                 ELSE [staff[u] EXCEPT !.primary = next, !.roles = rest])
       /\ Writable(staff'[u])
       /\ UNCHANGED <<branches, unit, pod, custom, lead, call>>

-----------------------------------------------------------------------------
(* Custom roles *)

\* deleteCustomRole: its members get the role that is named, which is not
\* compared with the one to delete; the foreign key clears what is left of it.
\* The update of the other roles may fail unnoticed.
DeleteCustomRole(target, replaced) ==
    /\ Edit /\ custom /\ custom' = FALSE
    /\ staff' = [u \in Users |->
          [staff[u] EXCEPT
             !.primary = IF @ # Custom THEN @ ELSE IF target = Custom THEN None ELSE target,
             !.roles = IF replaced THEN [i \in DOMAIN @ |-> IF @[i] = Custom THEN target ELSE @[i]] ELSE @]]
    /\ UNCHANGED <<branches, unit, pod, lead, call>>

\* createCustomRole based on POD_LEAD: one per unit; the heads of the unit's
\* pods get it at once.
CreateLead(l, m) ==
    /\ Edit /\ lead[l] = New /\ m \in DOMAIN unit
    /\ LeadFor(lead, m) = SystemLead
    /\ lead' = [lead EXCEPT ![l] = Live(m, unit[m])]
    /\ staff' = [u \in Users |->
          IF \E p \in Heads(u) : pod[p].unit = m THEN Led(staff[u], l) ELSE staff[u]]
    /\ UNCHANGED <<branches, unit, pod, custom, call>>

\* updateCustomRole of a Pod Lead role: it may move to another unit (the
\* trigger refuses a second role there); every head is reconciled.
UpdateLead(l, m) ==
    /\ Edit /\ lead[l].state = "live" /\ m \in DOMAIN unit
    /\ LeadFor(lead, m) \in {SystemLead, l}
    /\ lead' = [lead EXCEPT ![l] = Live(m, unit[m])]
    /\ \E oldest \in [Users -> Pods] :
         /\ \A u \in Users : Heads(u) # {} => oldest[u] \in Heads(u)
         /\ staff' = [u \in Users |->
               IF Heads(u) = {} THEN staff[u]
               ELSE Led(staff[u], LeadFor(lead', pod[oldest[u]].unit))]
    /\ UNCHANGED <<branches, unit, pod, custom, call>>

-----------------------------------------------------------------------------
(* Pods *)

\* validateRecruiters
Eligible(u, m, p) ==
    /\ staff[u].unit \in {None, m}
    /\ ({staff[u].primary} \cup ToSet(staff[u].roles)) \cap (({Recruiter, Custom} \cap Existing) \cup LeadRoles) # {}
    /\ staff[u].pod \in {None, p}

\* create; an id stands for a new pod once no update knows the old one.
CreatePod(p, m, head, members) ==
    LET all == members \cup ({head} \ {None})
    IN /\ p \notin DOMAIN pod /\ m \in DOMAIN unit
       /\ \A c \in Clients : call[c] # Idle => call[c].pod # p
       /\ \A u \in all : Eligible(u, m, None)
       /\ head # None => Heads(head) = {}
       /\ pod' = [k \in DOMAIN pod \cup {p} |->
                     IF k = p THEN [unit |-> m, branch |-> unit[m], head |-> head] ELSE pod[k]]
       /\ staff' = [u \in Users |->
             LET row == IF u \in all THEN [staff[u] EXCEPT !.pod = p] ELSE staff[u]
             IN IF u = head THEN Led(row, LeadFor(lead, m)) ELSE row]
       /\ UNCHANGED <<branches, unit, custom, lead, call, edits>>

\* resolveScope: the unit a request names, or else the pod's.  Callers act
\* within their unit or branch, administrators of the workspace anywhere.
ScopeUnit(p, m) == IF m = Same THEN {pod[p].unit} ELSE {m} \cap DOMAIN unit

\* update: what controller and service have read before the transaction.
Asked(p, target, head, members) ==
    [op |-> "pod", pod |-> p, seen |-> pod[p], members |-> members,
     unit |-> target, branch |-> unit[target],
     head |-> IF head = Same THEN pod[p].head ELSE head,
     changed |-> head # Same /\ head # pod[p].head]

PodRead(c, p, m, head, members) ==
    /\ call[c] = Idle /\ p \in DOMAIN pod
    /\ \E target \in ScopeUnit(p, m) : call' = [call EXCEPT ![c] = Asked(p, target, head, members)]
    /\ UNCHANGED <<branches, unit, pod, custom, lead, staff, edits>>

\* Mutant: a pod that moves to another unit does not give its head that
\* unit's role.
NewlyLedNoUnit(k) == k.head # None /\ k.changed

NewlyLed(k) == k.head # None /\ (k.changed \/ k.unit # k.seen.unit)

\* update: the transaction writes what was read where nothing was asked.
PodWrite(k) ==
    LET p == k.pod
        named == IF k.members = Same THEN {} ELSE k.members
        all == named \cup ({k.head} \ {None})
        leaves(u) == k.changed /\ u = k.seen.head /\ Heads(u) \subseteq {p}
        joins(u) == (u = k.head /\ NewlyLed(k)) \/ (k.members # Same /\ u \in all)
        roled(u) == LET row == IF leaves(u) THEN Released(staff[u]) ELSE staff[u]
                    IN IF u = k.head /\ NewlyLed(k) THEN Led(row, LeadFor(lead, k.unit)) ELSE row
    IN /\ p \in DOMAIN pod /\ k.unit \in DOMAIN unit /\ k.branch \in branches
       /\ k.changed /\ k.head # None => Heads(k.head) \subseteq {p}
       /\ \A u \in all : Eligible(u, k.unit, p)
       /\ pod' = [pod EXCEPT ![p] = [unit |-> k.unit, branch |-> k.branch, head |-> k.head]]
       /\ staff' = [u \in Users |->
             [roled(u) EXCEPT !.pod = IF joins(u) THEN p
                                      ELSE IF k.members # Same /\ @ = p THEN None ELSE @]]
       /\ \A u \in Users : leaves(u) => Writable(Released(staff[u]))
       /\ UNCHANGED <<branches, unit, custom, lead, edits>>

PodCommit(c) ==
    /\ call[c] # Idle
    /\ PodWrite(call[c])
    /\ call' = [call EXCEPT ![c] = Idle]

\* update, while nothing else happens
UpdatePod(p, m, head, members) ==
    /\ p \in DOMAIN pod
    /\ \E target \in ScopeUnit(p, m) : PodWrite(Asked(p, target, head, members))
    /\ UNCHANGED call

\* The update is refused, or its transaction fails.
PodRefused(c) ==
    /\ call[c] # Idle
    /\ call' = [call EXCEPT ![c] = Idle]
    /\ UNCHANGED <<branches, unit, pod, custom, lead, staff, edits>>

\* remove
RemovePod(p) ==
    /\ p \in DOMAIN pod
    /\ staff' = [u \in Users |->
          LET row == IF u = pod[p].head /\ Heads(u) = {p} THEN Released(staff[u]) ELSE staff[u]
          IN [row EXCEPT !.pod = IF @ = p THEN None ELSE @]]
    /\ pod[p].head # None => Writable(staff'[pod[p].head])
    /\ pod' = [k \in DOMAIN pod \ {p} |-> pod[k]]
    /\ UNCHANGED <<branches, unit, custom, lead, call, edits>>

-----------------------------------------------------------------------------
Heading == Users \cup {None, Same}

PodStep ==
    \/ \E p \in Pods, m \in Units, h \in Users \cup {None}, us \in Lists : CreatePod(p, m, h, us)
    \/ \E p \in Pods : RemovePod(p)
    \/ \E l \in CustomLeads, m \in Units : CreateLead(l, m) \/ UpdateLead(l, m)
    \/ \E p \in Pods, m \in Units \cup {Same}, h \in Heading, us \in Lists \cup {Same} : UpdatePod(p, m, h, us)

OtherStep ==
    \/ \E b \in Branches :
         \/ CreateBranch(b) \/ RemoveBranch(b)
         \/ \E m \in Units : CreateUnit(m, b) \/ MoveUnit(m, b)
         \/ \E u \in Users, m \in Units \cup {None}, s \in BranchRoles : AssignUser(b, u, m, s)
         \/ \E u \in Users : UpdateManagers(b, u)
         \/ \E u \in Users, m \in Units \cup {None} :
              \/ MoveMember(u, b, m)
              \/ \E s \in Selectable, r \in Plain \cup {None} : UpdateUserDetails(u, s, r, b, m)
    \/ \E m \in Units :
         \/ RemoveUnit(m)
         \/ \E us \in Lists : AssignMembers(m, us)
         \/ \E u \in Users : RemoveMember(m, u) \/ UpdateAdmins(m, u)
    \/ \E u \in Users :
         \/ \E s \in Selectable : \/ UpdateUserRoles(u, s)
                                  \/ \E append \in BOOLEAN : AssignUserRoles(u, s, append)
         \/ \E r \in Offered : BatchAssign(u, r) \/ Unassign(u, r)
    \/ \E target \in Plain, replaced \in BOOLEAN : DeleteCustomRole(target, replaced)

Next == PodStep \/ OtherStep
Spec == Init /\ [][Next]_vars

OverlapNext ==
    \/ PodStep \/ OtherStep
    \/ \E c \in Clients, p \in Pods, m \in Units \cup {Same}, h \in Heading,
          us \in Lists \cup {Same} : PodRead(c, p, m, h, us)
    \/ \E c \in Clients : PodCommit(c) \/ PodRefused(c)
OverlapSpec == Init /\ [][OverlapNext]_vars

-----------------------------------------------------------------------------
\* validateRecruiters, promoteToPodHead: the head of a pod is one of its
\* members, heads no other pod, and holds no lead role but the one for the
\* unit the pod is in, wherever the pod, the role or he himself has been moved;
\* assignUser alone could name him another.
HeadsBelong ==
    \A p \in DOMAIN pod : pod[p].head # None =>
        /\ staff[pod[p].head].pod = p
        /\ Heads(pod[p].head) = {p}
        /\ HeldLeads(staff[pod[p].head])
             \subseteq {LeadFor(lead, pod[p].unit)} \cup UNION {ToSet(s) : s \in BranchRoles}

\* The role a member has of his own: his primary role or, while he leads, the
\* first of the others.
OwnRole(row) ==
    IF row.primary # None /\ row.primary \notin LeadRoles THEN row.primary
    ELSE IF NotLead(row.roles) = <<>> THEN None ELSE Head(NotLead(row.roles))

OwnRoles(row) == ({row.primary} \cup ToSet(row.roles)) \ (LeadRoles \cup {None})

\* demoteFromPodHead: "Existing non-lead roles and primary role are preserved."
\* Becoming a pod's head, changing units with it and giving it up leave every
\* member the roles of his own, and dismissal makes his own one primary again.
OwnRolesKept ==
    [][\/ \A u \in Users :
             /\ OwnRole(staff[u])' = OwnRole(staff[u])
             /\ OwnRoles(staff[u])' = OwnRoles(staff[u])
             /\ Heads(u) # {} /\ Heads(u)' = {} => HeldLeads(staff[u])' = {}
       \/ ~PodStep]_vars

\* pod-lead-role-policy.ts: "Pod leadership roles are assigned automatically
\* through a pod."  The head of a pod holds the role for the pod's unit.
HeadsLead ==
    \A p \in DOMAIN pod : pod[p].head # None =>
        LeadFor(lead, pod[p].unit) \in HeldLeads(staff[pod[p].head])
=============================================================================
