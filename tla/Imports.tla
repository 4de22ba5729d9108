------------------------------ MODULE Imports ------------------------------
(***************************************************************************)
(* Importing members from a sheet (AuthInviteService).  validateBulkUsers  *)
(* resolves the names of a row to a branch, a unit and a role within the   *)
(* importer's scope and marks the row as ready or not; importUsers then    *)
(* invites the ready rows, and inviteUser decides again, by rules of its   *)
(* own.                                                                    *)
(*                                                                         *)
(* One member imports, and the two are compared over all rows and over     *)
(* all roles that bear the name in the row.  A row's other cells only      *)
(* refuse it: names, address, city.  Two branches, three units: two units  *)
(* of different branches have the same name.  "tenant:settings" stands for *)
(* the permissions isTenantAdmin accepts.                                  *)
(***************************************************************************)
EXTENDS Naturals, FiniteSets

CONSTANTS Importers     \* members: permissions, system role, branch, unit

VARIABLE importer

Nowhere == "nowhere"
NoImporter == [may |-> {}, role |-> "none", branch |-> Nowhere, unit |-> Nowhere]

Sites == {"east", "west"}
Units == [e1 |-> [branch |-> "east", name |-> "one"], e2 |-> [branch |-> "east", name |-> "two"],
          w1 |-> [branch |-> "west", name |-> "one"]]

\* What a row names, and the roles of the workspace with that name.
SheetRows == [branch : Sites, unit : {"one", "two"}]
RolePool == {r \in [key : {"RECRUITER", "UNIT_ADMIN", "BRANCH_ADMIN", "TENANT_ADMIN", "SUPER_ADMIN", "POD_LEAD", "own"},
                    at : {<<Nowhere, Nowhere>>, <<"east", Nowhere>>, <<"east", "e1">>, <<"east", "e2">>, <<"west", "w1">>},
                    powers : {{}, {"unit_admin:manage"}, {"branch_admin:manage"}}] :
                r.powers # {} => r.key \in {"UNIT_ADMIN", "own"}}
RolesNamed == {{}} \cup {{r, s} : r, s \in RolePool}

ASSUME ImportersAssumption == \A m \in Importers :
    m.branch \in Sites \cup {Nowhere} /\ m.unit \in DOMAIN Units \cup {Nowhere}
    /\ (m.unit # Nowhere => Units[m.unit].branch = m.branch)

Able(p) == p \in importer.may

----------------------------------------------------------------------------
(* admin-role-assignment-policy.ts *)

DeliveryHead == importer.role = "DELIVERY_HEAD"
UnitAdmin == /\ ~DeliveryHead
             /\ \/ importer.role = "UNIT_ADMIN"
                \/ Able("unit_admin:manage") /\ ~Able("tenant:settings") /\ ~Able("branch_admin:manage")

Administrative(role) == \/ role.key \in {"TENANT_ADMIN", "SUPER_ADMIN", "BRANCH_ADMIN", "UNIT_ADMIN"}
                        \/ role.powers # {}

\* assertRoleAssignmentAllowed
AssignmentAllowed(role, branch, unit) == Administrative(role) =>
    /\ ~DeliveryHead
    /\ UnitAdmin => /\ role.key = "UNIT_ADMIN" /\ "branch_admin:manage" \notin role.powers
                    /\ role.powers \subseteq importer.may
                    /\ importer.branch # Nowhere /\ importer.unit # Nowhere
                    /\ branch = importer.branch /\ unit = importer.unit
                    /\ role.at[1] \in {Nowhere, importer.branch} /\ role.at[2] \in {Nowhere, importer.unit}

----------------------------------------------------------------------------
(* validateBulkUsers *)

\* assertBulkImportScope
BranchManager == Able("branch_admin:manage") \/ DeliveryHead
MayImport ==
    /\ Able("user:manage")
    /\ \/ Able("tenant:settings")
       \/ /\ importer.branch # Nowhere
          /\ (Able("unit_admin:manage") /\ ~DeliveryHead) => importer.unit # Nowhere
          /\ BranchManager \/ importer.unit # Nowhere
ScopeBranch == IF Able("tenant:settings") THEN Nowhere ELSE importer.branch
ScopeUnit == IF Able("tenant:settings") \/ BranchManager THEN Nowhere ELSE importer.unit

Within(scope, x) == scope \in {Nowhere, x}

BranchesOf(row) == {b \in Sites : b = row.branch /\ Within(ScopeBranch, b)}
UnitsOf(row, b) == {u \in DOMAIN Units : Units[u].name = row.unit /\ Units[u].branch = b
                                         /\ Within(ScopeBranch, b) /\ Within(ScopeUnit, u)}

UnitKind == {"RECRUITER", "UNIT_ADMIN"}     \* and ACCOUNT_MANAGER, DELIVERY_HEAD

\* Mutant: the kinds that say where they belong are looked at, the role's own place is not.
EligibleByKind(role, b, u) ==
    CASE role.key \in UnitKind -> role.at[2] = u
      [] role.key = "BRANCH_ADMIN" -> role.at[1] = b /\ role.at[2] = Nowhere
      [] role.key = "TENANT_ADMIN" -> role.at = <<Nowhere, Nowhere>>
      [] OTHER -> TRUE
EligibleRole(role, b, u) ==
    /\ Within(role.at[1], b) /\ Within(role.at[2], u)
    /\ CASE role.key \in UnitKind -> role.at[2] = u
         [] role.key = "BRANCH_ADMIN" -> role.at[1] = b /\ role.at[2] = Nowhere
         [] role.key = "TENANT_ADMIN" -> role.at = <<Nowhere, Nowhere>>
         [] OTHER -> TRUE

ScopeRank(role, b, u) ==
    CASE role.key \in UnitKind -> 3
      [] role.key = "BRANCH_ADMIN" -> 2
      [] role.key = "TENANT_ADMIN" -> 1
      [] OTHER -> IF role.at[2] = u THEN 2 ELSE IF role.at[1] = b THEN 1 ELSE 0

\* The only eligible role of the name, or the only one of the best rank.
RoleOf(named, b, u) ==
    LET eligible == {r \in named : EligibleRole(r, b, u)}
        best == {r \in eligible : \A s \in eligible : ScopeRank(s, b, u) <= ScopeRank(r, b, u)}
    IN IF Cardinality(best) = 1 THEN best ELSE {}

\* The role of a row that is marked as ready.
ReadyRole(role, b, u) ==
    /\ AssignmentAllowed(role, b, u)
    /\ role.key \notin {"POD_LEAD", "SUPER_ADMIN"}
    /\ role.key = "TENANT_ADMIN" => Able("tenant:settings")

\* <<branch, unit, role>> of a row that is ready, for a member who may import.
ReadyAs(row, named) ==
    UNION {UNION {{<<b, u, r>> : r \in {r \in RoleOf(named, b, u) : ReadyRole(r, b, u)}}
                  : u \in UnitsOf(row, b)} : b \in BranchesOf(row)}

----------------------------------------------------------------------------
(* inviteUser, called by importUsers as an administrator *)

InviteAccepts(b, u, role) ==
    \* validateBranchAccess
    /\ (Able("branch_admin:manage") /\ ~Able("tenant:settings")) => b = importer.branch
    /\ Units[u].branch = b
    \* rejectManualPodLeadRoles
    /\ role.key # "POD_LEAD"
    /\ Within(role.at[1], b) /\ Within(role.at[2], u)
    /\ AssignmentAllowed(role, b, u)

\* importUsers: each ready row is invited on its own, and may still be refused.
ImportUsers(row, named) == {ready \in ReadyAs(row, named) : InviteAccepts(ready[1], ready[2], ready[3])}

ImportsInit == importer \in Importers
ImportsSpec == ImportsInit /\ [][UNCHANGED importer]_importer

----------------------------------------------------------------------------
(* Every row the preview marks as ready is one the import can invite, and  *)
(* places the member where the importer may place him: his branch unless   *)
(* he administers the workspace, his unit unless he manages the branch,    *)
(* with a role that belongs to that place.                                 *)
ReadyRowsAreInvited ==
    MayImport => \A row \in SheetRows, named \in RolesNamed : \A ready \in ReadyAs(row, named) :
        /\ ready \in ImportUsers(row, named)
        /\ Able("tenant:settings") \/ ready[1] = importer.branch
        /\ (Able("tenant:settings") \/ BranchManager) \/ ready[2] = importer.unit
=============================================================================
