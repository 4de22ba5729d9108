------------------------------ MODULE Members ------------------------------
(***************************************************************************)
(* Membership of one workspace: seats, access and administrators.          *)
(* AuthUserService setUserActive, deleteUser, updateUserRoles,             *)
(* updateUserDetails, approveTenantUser, rejectTenantUser; AuthRbacService *)
(* assignUserRoles, batchAssignUsersToRole, unassignUserFromRole,          *)
(* checkSeatLimit, verifyLastAdminProtection; AuthInviteService            *)
(* inviteUser; AuthCoreService registerUser; AuthTenantService             *)
(* updateTenant.                                                           *)
(*                                                                         *)
(* Only setUserActive (when the user-management telemetry is switched on)  *)
(* and deleteUser lock the tenant row.  Every other handler checks first   *)
(* and writes in a later statement: Xread is the checks, Xwrite the        *)
(* statement that changes the table.  The lock orders only the handlers    *)
(* that take it, so their own checks and writes are two steps as well.     *)
(*                                                                         *)
(* Requests come from administrators of the workspace (updateTenant: from  *)
(* the platform).  Two roles stand for all: "admin" is TENANT_ADMIN,       *)
(* "staff" any role without tenant administration.                         *)
(***************************************************************************)
EXTENDS Integers, FiniteSets

CONSTANTS
    Users,          \* users the workspace ever has
    Founders,       \* administrators it starts with
    Blocked,        \* those of them whose access is switched off at the start
    Clients,        \* requests in flight at once
    Telemetry,      \* USER_MANAGEMENT_TELEMETRY_ENABLED
    Ops,            \* kinds of request the clients send
    Together,       \* phases of requests that may overlap; others come one at a time
    Grants,         \* role selections: primary role and all roles held
    Limits          \* values of user_limit; the workspace starts with the largest

Roles == {"admin", "staff"}
Kinds == {"status", "delete", "roles", "append", "batch", "unassign",
          "approve", "reject", "enrol", "limit"}
Grant == {g \in [primary : Roles, held : SUBSET Roles] : g.primary \in g.held}

ASSUME UsersAssumption == /\ IsFiniteSet(Users) /\ Founders \subseteq Users
                          /\ Blocked \subseteq Founders /\ Blocked # Founders
ASSUME TelemetryAssumption == Telemetry \in BOOLEAN
ASSUME OpsAssumption == Ops \subseteq Kinds
ASSUME GrantsAssumption == Grants \subseteq Grant
ASSUME LimitsAssumption == /\ Limits \subseteq Nat \ {0}
                           /\ \E n \in Limits : /\ \A m \in Limits : m <= n
                                                /\ Cardinality(Founders \ Blocked) <= n

\* Requests overlap only where the tenant's lock orders them.
UnderLock == {"status", "status-locked", "delete", "delete-locked"}
Serialised == Together \subseteq IF Telemetry THEN UnderLock ELSE {}

VARIABLES
    user,   \* ats.users: access flags, role_id and roles held
    limit,  \* ats.tenants.user_limit
    lock,   \* holder of the tenant row lock, {} when free
    call    \* local variables of each request in flight

vars == <<user, limit, lock, call>>

NoUser == [state |-> "none"]
Deleted == [state |-> "deleted"]
Idle == [op |-> "idle"]
Member(active, approved, grant) ==
    [state |-> "member", active |-> active, approved |-> approved,
     primary |-> grant.primary, held |-> grant.held]

IsMember(u) == user[u].state = "member"
Seated == {u \in Users : IsMember(u) /\ user[u].active /\ user[u].approved}

\* verifyLastAdminProtection counts primary roles, deleteUser every role held.
PrimaryAdmins == {u \in Seated : user[u].primary = "admin"}
Administrators == {u \in Seated : "admin" \in user[u].held}

\* checkSeatLimit
SeatFree == Cardinality(Seated) < limit

\* verifyLastAdminProtection
NotLastAdmin(u) == u \in PrimaryAdmins => Cardinality(PrimaryAdmins) > 1

Init ==
    /\ user = [u \in Users |->
                 IF u \in Founders
                 THEN Member(u \notin Blocked, TRUE, [primary |-> "admin", held |-> {"admin"}])
                 ELSE NoUser]
    /\ limit = CHOOSE n \in Limits : \A m \in Limits : m <= n
    /\ lock = {}
    /\ call = [c \in Clients |-> Idle]

Busy == {k \in Clients : call[k] # Idle}
Begin(c, kind, request) ==
    /\ kind \in Ops
    /\ call[c] = Idle
    /\ Busy = {} \/ (kind \in Together /\ \A k \in Busy : call[k].op \in Together)
    /\ call' = [call EXCEPT ![c] = request]
End(c) == call' = [call EXCEPT ![c] = Idle] /\ lock' = lock \ {c}
Set(u, record) == user' = [user EXCEPT ![u] = record]

-----------------------------------------------------------------------------
(* Access: setUserActive and deleteUser *)

StatusAllowed(u, active) == IF active THEN SeatFree ELSE NotLastAdmin(u)

\* setUserActive up to its checks: nobody changes their own access.
StatusRead(c, by, u, active) ==
    /\ by \in Administrators /\ by # u
    /\ IsMember(u) /\ user[u].approved
    /\ (active /\ user[u].active) \/ StatusAllowed(u, active)
    /\ Begin(c, "status", [op |-> "status", user |-> u, active |-> active])
    /\ UNCHANGED <<user, limit, lock>>

\* setUserActive with telemetry: the tenant is locked and the checks repeated.
StatusLock(c) ==
    /\ Telemetry /\ call[c].op = "status" /\ lock = {}
    /\ StatusAllowed(call[c].user, call[c].active)
    /\ lock' = {c}
    /\ call' = [call EXCEPT ![c].op = "status-locked"]
    /\ UNCHANGED <<user, limit>>

\* setUserActive: the UPDATE, which finds no row when the user is gone.
StatusWrite(c) ==
    /\ call[c].op = IF Telemetry THEN "status-locked" ELSE "status"
    /\ IF IsMember(call[c].user)
       THEN Set(call[c].user, [user[call[c].user] EXCEPT !.active = call[c].active])
       ELSE UNCHANGED user
    /\ End(c) /\ UNCHANGED limit

\* deleteUser: the caller's permission is checked when the request arrives.
DeleteRead(c, by, u) ==
    /\ by \in Administrators /\ by # u
    /\ Begin(c, "delete", [op |-> "delete", user |-> u, by |-> by])
    /\ UNCHANGED <<user, limit, lock>>

\* Mutant: neither the caller nor the administrators are looked up again.
DeleteLockUncounted(c) ==
    /\ call[c].op = "delete" /\ lock = {}
    /\ IsMember(call[c].user)
    /\ lock' = {c}
    /\ call' = [call EXCEPT ![c].op = "delete-locked"]
    /\ UNCHANGED <<user, limit>>

\* deleteUser under the tenant lock: the caller's account is active still and
\* the target is not the last administrator.
DeleteLock(c) ==
    /\ call[c].op = "delete" /\ lock = {}
    /\ IsMember(call[c].by) /\ user[call[c].by].active
    /\ IsMember(call[c].user)
    /\ call[c].user \in Administrators => Cardinality(Administrators) > 1
    /\ lock' = {c}
    /\ call' = [call EXCEPT ![c].op = "delete-locked"]
    /\ UNCHANGED <<user, limit>>

DeleteWrite(c) ==
    /\ call[c].op = "delete-locked"
    /\ Set(call[c].user, Deleted)
    /\ End(c) /\ UNCHANGED limit

-----------------------------------------------------------------------------
(* Roles *)

\* updateUserRoles and updateUserDetails: the selection replaces the roles,
\* unchecked when it keeps tenant administration.
RolesRead(c, by, u, grant) ==
    /\ by \in Administrators /\ IsMember(u)
    /\ "admin" \in grant.held \/ NotLastAdmin(u)
    /\ Begin(c, "roles", [op |-> "grant", user |-> u, grant |-> grant])
    /\ UNCHANGED <<user, limit, lock>>

\* assignUserRoles with append: the new primary role, the old roles kept.
AppendRead(c, by, u, grant) ==
    /\ by \in Administrators /\ IsMember(u)
    /\ "admin" \in grant.held \/ NotLastAdmin(u)
    /\ Begin(c, "append", [op |-> "grant", user |-> u,
                           grant |-> [grant EXCEPT !.held = @ \cup user[u].held]])
    /\ UNCHANGED <<user, limit, lock>>

\* unassignUserFromRole: a member left without a role becomes a recruiter.
UnassignRead(c, by, u, role) ==
    /\ by \in Administrators /\ IsMember(u)
    /\ LET rest == user[u].held \ {role}
           held == IF rest = {} THEN {"staff"} ELSE rest
       IN Begin(c, "unassign", [op |-> "grant", user |-> u,
                   grant |-> [primary |-> CHOOSE r \in held : user[u].primary \in held => r = user[u].primary,
                              held |-> held]])
    /\ UNCHANGED <<user, limit, lock>>

GrantWrite(c) ==
    /\ call[c].op = "grant"
    /\ IF IsMember(call[c].user)
       THEN Set(call[c].user, [user[call[c].user] EXCEPT
                                 !.primary = call[c].grant.primary, !.held = call[c].grant.held])
       ELSE UNCHANGED user
    /\ End(c) /\ UNCHANGED limit

\* batchAssignUsersToRole: one turn of its loop; role_id is kept.
BatchRead(c, by, u, role) ==
    /\ by \in Administrators /\ IsMember(u)
    /\ Begin(c, "batch", [op |-> "batch", user |-> u, held |-> user[u].held \cup {role}])
    /\ UNCHANGED <<user, limit, lock>>

\* The primary role of the row stays in its roles: role_id is one of them.
BatchWrite(c) ==
    /\ call[c].op = "batch"
    /\ IF IsMember(call[c].user)
       THEN Set(call[c].user, [user[call[c].user] EXCEPT
                                 !.held = call[c].held \cup {user[call[c].user].primary}])
       ELSE UNCHANGED user
    /\ End(c) /\ UNCHANGED limit

-----------------------------------------------------------------------------
(* Joining *)

\* Mutant: a user who is active already is not counted again.
ApproveReadActive(c, by, u, grant) ==
    /\ by \in Administrators /\ IsMember(u) /\ ~user[u].approved
    /\ user[u].active \/ SeatFree
    /\ Begin(c, "approve", [op |-> "approve", user |-> u, grant |-> grant])
    /\ UNCHANGED <<user, limit, lock>>

\* approveTenantUser: checks.
ApproveRead(c, by, u, grant) ==
    /\ by \in Administrators /\ IsMember(u) /\ ~user[u].approved
    /\ SeatFree
    /\ Begin(c, "approve", [op |-> "approve", user |-> u, grant |-> grant])
    /\ UNCHANGED <<user, limit, lock>>

\* approveTenantUser: the UPDATE requires the request to be pending still.
ApproveWrite(c) ==
    /\ call[c].op = "approve"
    /\ IsMember(call[c].user) /\ ~user[call[c].user].approved
    /\ Set(call[c].user, Member(TRUE, TRUE, call[c].grant))
    /\ End(c) /\ UNCHANGED limit

\* rejectTenantUser: one conditional UPDATE.
Reject(by, u) ==
    /\ "reject" \in Ops /\ Busy = {}
    /\ by \in Administrators /\ IsMember(u) /\ ~user[u].approved
    /\ Set(u, [user[u] EXCEPT !.active = FALSE])
    /\ UNCHANGED <<limit, lock, call>>

\* inviteUser, and registerUser for an administrator: a seat must be free.
\* registerUser by the user himself: pending, no seat taken.
EnrolRead(c, u, grant, approved) ==
    /\ user[u] = NoUser
    /\ approved => Administrators # {} /\ SeatFree
    /\ Begin(c, "enrol", [op |-> "enrol", user |-> u, grant |-> grant, approved |-> approved])
    /\ UNCHANGED <<user, limit, lock>>

\* The INSERT; the unique email refuses a second one.
EnrolInsert(c) ==
    /\ call[c].op = "enrol"
    /\ user[call[c].user] = NoUser
    /\ Set(call[c].user, Member(TRUE, call[c].approved, call[c].grant))
    /\ call' = [call EXCEPT ![c].op = "enrolled"]
    /\ UNCHANGED <<limit, lock>>

\* The invitation or the identity provider failed: the user is deleted again.
EnrolUndo(c) ==
    /\ call[c].op = "enrolled"
    /\ IF IsMember(call[c].user) THEN Set(call[c].user, Deleted) ELSE UNCHANGED user
    /\ End(c) /\ UNCHANGED limit

-----------------------------------------------------------------------------
(* The platform's side, and failure *)

\* updateTenant: the seats are counted before the tenant row is updated.
LimitRead(c, n) ==
    /\ n >= Cardinality(Seated)
    /\ Begin(c, "limit", [op |-> "limit", limit |-> n])
    /\ UNCHANGED <<user, limit, lock>>

LimitWrite(c) ==
    /\ call[c].op = "limit" /\ lock = {}
    /\ limit' = call[c].limit
    /\ End(c) /\ UNCHANGED user

\* A request is refused, fails or is cut off; a transaction rolls back.
Abandon(c) ==
    /\ call[c] # Idle
    /\ End(c) /\ UNCHANGED <<user, limit>>

Next ==
    \/ \E c \in Clients, by, u \in Users :
         \/ \E active \in BOOLEAN : StatusRead(c, by, u, active)
         \/ DeleteRead(c, by, u)
         \/ \E g \in Grants : \/ RolesRead(c, by, u, g)
                              \/ AppendRead(c, by, u, g)
                              \/ ApproveRead(c, by, u, g)
         \/ \E r \in Roles : UnassignRead(c, by, u, r) \/ BatchRead(c, by, u, r)
    \/ \E by, u \in Users : Reject(by, u)
    \/ \E c \in Clients, u \in Users, g \in Grants, approved \in BOOLEAN :
         EnrolRead(c, u, g, approved)
    \/ \E c \in Clients, n \in Limits : LimitRead(c, n)
    \/ \E c \in Clients :
         \/ StatusLock(c) \/ StatusWrite(c) \/ DeleteLock(c) \/ DeleteWrite(c)
         \/ GrantWrite(c) \/ BatchWrite(c)
         \/ ApproveWrite(c) \/ EnrolInsert(c) \/ EnrolUndo(c)
         \/ LimitWrite(c) \/ Abandon(c)

Spec == Init /\ [][Next]_vars

-----------------------------------------------------------------------------
\* checkSeatLimit: a workspace never has more active, approved users than the
\* seats it is limited to.
SeatLimitRespected == Cardinality(Seated) <= limit

\* setUserActive and deleteUser under the tenant lock: blocking or deleting
\* somebody, while others do the same, never takes the last administrator away;
\* blocking counts primary roles, deleting every role held.
LockedChecksHold ==
    [][\A c \in Clients :
         /\ StatusWrite(c) /\ PrimaryAdmins # {} => PrimaryAdmins' # {}
         /\ DeleteWrite(c) => Administrators' # {}]_vars
=============================================================================
