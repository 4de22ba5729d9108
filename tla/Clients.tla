------------------------------ MODULE Clients ------------------------------
(***************************************************************************)
(* Client accounts of a workspace: ClientsService, the rules that decide   *)
(* who reads a client (client-visibility.ts) and who may create one        *)
(* (client-market-policy.ts), and the guards of ClientsController.         *)
(*                                                                         *)
(* A client's id is the request id its form sends, so a retried request    *)
(* meets the row it made.  createClient is one transaction under two       *)
(* advisory locks; every other handler reads the row first and writes it   *)
(* in a later statement, by id alone.  A job that is saved with the name   *)
(* of a client makes the client if there is none (ensureClientExists).     *)
(*                                                                         *)
(* A name stands for what normalizeClientName makes of it.  The form's     *)
(* other fields are checked before the transaction and only refuse, so     *)
(* requests here are well formed.                                          *)
(***************************************************************************)
EXTENDS Integers, FiniteSets

CONSTANTS
    Staff,          \* members of the workspace
    Requests,       \* request ids, which become client ids
    GeneratedIds,   \* ids of the clients that jobs make
    ClientNames,    \* normalised names
    Offices, Teams, \* branches and business units
    May,            \* member |-> permissions in the token
    Placed,         \* member |-> branch and unit, None if unassigned
    ClientAdmins,   \* members with an administrator's system role
    JobEditors,     \* members who change jobs
    MaxDecisions,   \* bound on edits, decisions, deletions and restorations
    MaxBusy,        \* bound on requests in progress at one time
    Nobody          \* null: no owner, branch, unit or client

ASSUME StaffAssumption ==
    /\ "System" \notin Staff /\ IsFiniteSet(Requests)
    /\ Nobody \notin Staff \cup Offices \cup Teams /\ Requests \cap GeneratedIds = {}
    /\ \A m \in Staff : Placed[m].branch \in Offices \cup {Nobody}
                        /\ Placed[m].unit \in Teams \cup {Nobody}
ASSUME BoundsAssumption == MaxDecisions \in Nat /\ MaxBusy \in Nat \ {0}

VARIABLES
    clients,        \* id |-> the client's row, or Nobody
    clientCounter,  \* ats.tenant_counters for clients
    clientAccess,   \* tenants.clients_visible_across_units and bdm_clients_tenant_wide
    clerk,          \* member |-> the request in progress
    decisions       \* requests counted against MaxDecisions

clientVars == <<clients, clientCounter, clientAccess, clerk, decisions>>

Statuses == {"Active", "Pending Approval", "Rejected"}

\* A row of ats.clients.  original: it has the name it got from a form; vouched:
\* the permissions of its creator were looked up.
ClientRow ==
    [name : ClientNames, code : Int, creator : Staff, owner : Staff \cup {Nobody},
     branch : Offices \cup {Nobody}, status : Statuses,
     approval : {"APPROVED", "PENDING_APPROVAL", "REJECTED"}, decidedBy : Staff \cup {"System", Nobody},
     live : BOOLEAN, original : BOOLEAN, vouched : BOOLEAN]
ASSUME NullAssumption == Nobody \notin ClientRow

NoRequest == [op |-> "none"]
Ids == Requests \cup GeneratedIds
Rows == {q \in Ids : clients[q] # Nobody}
Live(q) == q \in Rows /\ clients[q].live

Free(m) == clerk[m] = NoRequest /\ Cardinality({o \in Staff : clerk[o] # NoRequest}) < MaxBusy

Holds(m, permissions) == May[m] \cap permissions # {}
TenantAdmins == {m \in Staff : Holds(m, {"tenant:settings", "tenant:manage", "platform:manage"})}

----------------------------------------------------------------------------
(* Who reads a client. *)

OwnedBy(row, people) ==
    row.owner \in people \/ (row.owner = Nobody /\ row.creator \in people)

\* The members whose clients count as those of the actor's branch, or unit.
Colleagues == [m \in Staff |->
    {u \in Staff : /\ Placed[u].branch = Placed[m].branch
                   /\ "branch_admin:manage" \in May[m] \/ Placed[u].unit = Placed[m].unit}]

InBranch(m, row) ==
    row.branch = Placed[m].branch \/ (row.branch = Nobody /\ OwnedBy(row, Colleagues[m]))

\* Mutant: a client without an owner is not looked up by its creator.
UnitReadsOwnersOnly(m, row) ==
    IF "unit_admin:manage" \in May[m] THEN row.owner \in Colleagues[m] ELSE OwnedBy(row, {m})
UnitReads(m, row) ==
    IF "unit_admin:manage" \in May[m] THEN OwnedBy(row, Colleagues[m]) ELSE OwnedBy(row, {m})

ReadsAll(m) ==
    \/ m \in TenantAdmins
    \/ IF "client:bdm_access" \in May[m] THEN clientAccess.bdm ELSE clientAccess.everyone

CanRead(m, row) ==
    /\ "client:view" \in May[m]
    /\ \/ ReadsAll(m)
       \/ /\ Placed[m].branch # Nobody
          /\ InBranch(m, row)
          /\ \/ "branch_admin:manage" \in May[m]
             \/ Placed[m].unit # Nobody /\ UnitReads(m, row)

\* findAllClients, which may be asked for deleted clients too, and findOneClient.
Listed(m, deleted) == {q \in Rows : CanRead(m, clients[q]) /\ (deleted \/ clients[q].live)}
Opened(m) == {q \in Rows : CanRead(m, clients[q]) /\ clients[q].live}

----------------------------------------------------------------------------
(* Creation. *)

\* resolveClientCreationContext: the branch the client will belong to.
CreationBranches(m) ==
    IF ~Holds(m, {"client:create", "client:direct_add", "tenant:settings", "tenant:manage"}) THEN {}
    ELSE IF Holds(m, {"tenant:settings", "tenant:manage"}) THEN Offices
    ELSE {Placed[m].branch} \ {Nobody}

DirectAdd(m) == Holds(m, {"client:direct_add", "client:approve", "tenant:settings", "tenant:manage"})

CreateAsk(m) ==
    /\ Free(m)
    /\ \E q \in Requests, n \in ClientNames, b \in CreationBranches(m) :
          clerk' = [clerk EXCEPT ![m] = [op |-> "ask", id |-> q, name |-> n, branch |-> b]]
    /\ UNCHANGED <<clients, clientCounter, clientAccess, decisions>>

\* Transactions that are past their first lock.
InTransaction(m) == clerk[m].op \in {"named", "checked", "numbered"}

\* The lock on the request id; a live client of this request is the answer.
CreateLock(m) ==
    /\ clerk[m].op = "ask"
    /\ ~\E o \in Staff : InTransaction(o) /\ clerk[o].id = clerk[m].id
    /\ IF Live(clerk[m].id) /\ clients[clerk[m].id].creator = m
       THEN clerk' = [clerk EXCEPT ![m] = NoRequest]
       ELSE clerk' = [clerk EXCEPT ![m].op = "named"]
    /\ UNCHANGED <<clients, clientCounter, clientAccess, decisions>>

\* Mutant: the duplicate check without the lock on the name.
NameFreeUnlocked(m) == ~\E q \in Ids : Live(q) /\ clients[q].name = clerk[m].name

\* The lock on the name, and the duplicate check under it.
NameLocked(m) == \E o \in Staff : clerk[o].op \in {"checked", "numbered"} /\ clerk[o].name = clerk[m].name
NameFree(m) ==
    ~NameLocked(m) /\ ~\E q \in Ids : Live(q) /\ clients[q].name = clerk[m].name

CreateCheck(m) ==
    /\ clerk[m].op = "named"
    /\ \/ NameFree(m) /\ clerk' = [clerk EXCEPT ![m].op = "checked"]
       \/ ~NameFree(m) /\ ~NameLocked(m) /\ clerk' = [clerk EXCEPT ![m] = NoRequest]
    /\ UNCHANGED <<clients, clientCounter, clientAccess, decisions>>

\* The upsert of the counter keeps its row locked until the transaction ends.
CreateNumber(m) ==
    /\ clerk[m].op = "checked"
    /\ ~\E o \in Staff : clerk[o].op = "numbered"
    /\ clerk' = [clerk EXCEPT ![m].op = "numbered"]
    /\ UNCHANGED <<clients, clientCounter, clientAccess, decisions>>

NewRow(m) ==
    [name |-> clerk[m].name, code |-> clientCounter + 1,
     creator |-> m, owner |-> m, branch |-> clerk[m].branch,
     status |-> IF DirectAdd(m) THEN "Active" ELSE "Pending Approval",
     approval |-> IF DirectAdd(m) THEN "APPROVED" ELSE "PENDING_APPROVAL",
     decidedBy |-> IF DirectAdd(m) THEN m ELSE Nobody,
     live |-> TRUE, original |-> TRUE, vouched |-> TRUE]

\* The id and the pair of tenant and code are unique; a clash rolls the counter back.
CreateInsert(m) ==
    /\ clerk[m].op = "numbered"
    /\ clerk' = [clerk EXCEPT ![m] = NoRequest]
    /\ IF clerk[m].id \in Rows \/ \E q \in Rows : clients[q].code = clientCounter + 1
       THEN UNCHANGED <<clients, clientCounter>>
       ELSE /\ clients' = [clients EXCEPT ![clerk[m].id] = NewRow(m)]
            /\ clientCounter' = clientCounter + 1
    /\ UNCHANGED <<clientAccess, decisions>>

----------------------------------------------------------------------------
(* ensureClientExists, by updateJob: no lock and no transaction.  Deleted  *)
(* clients count as existing, and every failure is swallowed.              *)

EnsureClient(m) ==
    /\ Free(m) /\ m \in JobEditors /\ GeneratedIds \ Rows # {} /\ decisions < MaxDecisions /\ decisions' = decisions + 1
    /\ \E n \in ClientNames : /\ \A q \in Rows : clients[q].name # n
                              /\ clerk' = [clerk EXCEPT ![m] = [op |-> "ensure", name |-> n]]
    /\ UNCHANGED <<clients, clientCounter, clientAccess>>

EnsureNumber(m) ==
    /\ clerk[m].op = "ensure" /\ ~\E o \in Staff : clerk[o].op = "numbered"
    /\ clientCounter' = clientCounter + 1
    /\ clerk' = [clerk EXCEPT ![m] = [op |-> "ensured", name |-> clerk[m].name, number |-> clientCounter + 1]]
    /\ UNCHANGED <<clients, clientAccess, decisions>>

\* Without an answer to who the member is, the system approves.
EnsureInsert(m) ==
    /\ clerk[m].op = "ensured"
    /\ clerk' = [clerk EXCEPT ![m] = NoRequest]
    /\ \E answered \in BOOLEAN :
          LET approved == answered => DirectAdd(m)
              made == [name |-> clerk[m].name, code |-> clerk[m].number,
                       creator |-> m, owner |-> m, branch |-> Nobody,
                       status |-> IF approved THEN "Active" ELSE "Pending Approval",
                       approval |-> IF approved THEN "APPROVED" ELSE "PENDING_APPROVAL",
                       decidedBy |-> IF approved THEN "System" ELSE Nobody,
                       live |-> TRUE, original |-> FALSE, vouched |-> answered]
          IN IF \E q \in Rows : clients[q].code = made.code THEN UNCHANGED clients
             ELSE \E g \in GeneratedIds \ Rows : clients' = [clients EXCEPT ![g] = made]
    /\ UNCHANGED <<clientCounter, clientAccess, decisions>>

----------------------------------------------------------------------------
(* Edits, decisions, deletion.  Each checks the row it has read ... *)

Owns(m, row) == m \in {row.owner, row.creator}

MayEdit(m, row) ==
    \/ Holds(m, {"client:edit_all", "client:approve", "tenant:settings", "tenant:manage"})
    \/ "client:edit" \in May[m] /\ Owns(m, row)

MayDelete(m) ==
    m \in ClientAdmins /\ Holds(m, {"client:delete", "tenant:settings", "tenant:manage", "platform:manage"})

Accepts(m, op, row) ==
    CASE op = "update" -> row.live /\ MayEdit(m, row)
      [] op = "approve" -> row.live /\ Holds(m, {"client:approve", "tenant:settings", "tenant:manage"})
      [] op = "reject" ->
            row.live /\ Holds(m, {"client:reject", "client:approve", "tenant:settings", "tenant:manage"})
      [] op = "delete" -> row.live /\ MayDelete(m)
      [] op = "restore" -> ~row.live

\* The fields of updateClient that other rules read.
Edits ==
    [name : ClientNames] \cup [owner : Staff \cup {Nobody}] \cup [status : Statuses] \cup [code : {Cardinality(Requests)}]

DecisionRead(m) ==
    /\ Free(m) /\ decisions < MaxDecisions
    /\ \E q \in Rows, op \in {"update", "approve", "reject", "delete", "restore"} :
          /\ Accepts(m, op, clients[q])
          /\ \E e \in IF op = "update" THEN Edits ELSE {NoRequest} :
                clerk' = [clerk EXCEPT ![m] = [op |-> op, id |-> q, edit |-> e]]
    /\ decisions' = decisions + 1
    /\ UNCHANGED <<clients, clientCounter, clientAccess>>

Merged(row, edit) == [f \in DOMAIN row |->
    IF f = "original" THEN row.original /\ "name" \notin DOMAIN edit
    ELSE IF f \in DOMAIN edit THEN edit[f] ELSE row[f]]

Approved(m, row) == [row EXCEPT !.status = "Active", !.approval = "APPROVED", !.decidedBy = m]
Rejected(m, row) == [row EXCEPT !.status = "Rejected", !.approval = "REJECTED", !.decidedBy = m]
Deleted(row) == [row EXCEPT !.live = FALSE]
Restored(row) == [row EXCEPT !.live = TRUE, !.original = FALSE]

Decided(m, op, row, edit) ==
    CASE op = "update" -> Merged(row, edit)
      [] op = "approve" -> Approved(m, row)
      [] op = "reject" -> Rejected(m, row)
      [] op = "delete" -> Deleted(row)
      [] op = "restore" -> Restored(row)

\* ... and writes it by id; a code in use is refused by the unique index.
DecisionWrite(m) ==
    /\ clerk[m].op \in {"update", "approve", "reject", "delete", "restore"}
    /\ LET q == clerk[m].id
           row == Decided(m, clerk[m].op, clients[q], clerk[m].edit)
           clash == \E o \in Rows \ {q} : clients[o].code = row.code
       IN clients' = IF clash THEN clients ELSE [clients EXCEPT ![q] = row]
    /\ clerk' = [clerk EXCEPT ![m] = NoRequest]
    /\ UNCHANGED <<clientCounter, clientAccess, decisions>>

SetVisibilityPolicy(m) ==
    /\ clerk[m] = NoRequest /\ "tenant:settings" \in May[m] /\ decisions < MaxDecisions
    /\ \E p \in [everyone : BOOLEAN, bdm : BOOLEAN] :
          p # clientAccess /\ clientAccess' = p
    /\ decisions' = decisions + 1
    /\ UNCHANGED <<clients, clientCounter, clerk>>

\* Mutant: approval is looked up in the status alone.
IsClientApprovedByStatus(row) == row.status \notin {"Pending Approval", "Rejected"}
IsClientApproved(row) ==
    row.approval = "APPROVED" /\ row.status \notin {"Pending Approval", "Rejected"}

----------------------------------------------------------------------------
ClientsInit ==
    /\ clients = [q \in Ids |-> Nobody]
    /\ clientCounter = 0
    /\ clientAccess = [everyone |-> FALSE, bdm |-> FALSE]
    /\ clerk = [m \in Staff |-> NoRequest]
    /\ decisions = 0

ClientsNext == \E m \in Staff :
    \/ CreateAsk(m) \/ CreateLock(m) \/ CreateCheck(m) \/ CreateNumber(m) \/ CreateInsert(m)
    \/ EnsureClient(m) \/ EnsureNumber(m) \/ EnsureInsert(m)
    \/ DecisionRead(m) \/ DecisionWrite(m) \/ SetVisibilityPolicy(m)

ClientsSpec == ClientsInit /\ [][ClientsNext]_clientVars

----------------------------------------------------------------------------
(* Two live clients that keep the names they were created with have        *)
(* different names, however their requests overlap and are retried: the    *)
(* lock on the name makes the duplicate check and the insert one.          *)
NoTwinClients == \A p, q \in Rows :
    Live(p) /\ Live(q) /\ clients[p].original /\ clients[q].original
        => p = q \/ clients[p].name # clients[q].name

(* A client that isClientApproved lets through was let through by a member *)
(* who may approve or add directly: an edit of its status by its owner, a  *)
(* deletion, a restoration or a late write never replaces the decision.    *)
(* The system approves a client a job makes for a member who may add       *)
(* directly; where that look-up failed it approves unasked.                *)
ApprovedByApprover == \A q \in Rows : LET row == clients[q] IN
    (IsClientApproved(row) /\ row.vouched)
        => (IF row.decidedBy = "System" THEN row.creator ELSE row.decidedBy) \in {m \in Staff : DirectAdd(m)}

Above(a, m) ==
    /\ "client:view" \in May[a] /\ "client:bdm_access" \notin May[m] \cup May[a]
    /\ Placed[a].branch = Placed[m].branch /\ m \notin TenantAdmins
    /\ \/ "branch_admin:manage" \in May[a]
       \/ /\ "unit_admin:manage" \in May[a] /\ "branch_admin:manage" \notin May[m]
          /\ Placed[a].unit = Placed[m].unit

Superiors == {p \in Staff \X Staff : p[1] # p[2] /\ Above(p[1], p[2])}

(* Whatever a member lists or opens, the unit administrator of his unit    *)
(* and the branch administrator of his branch list and open as well,       *)
(* whatever owner the client has got and however the policies are set.     *)
ReadersNest == \A p \in Superiors :
    Listed(p[2], TRUE) \subseteq Listed(p[1], TRUE) /\ Opened(p[2]) \subseteq Opened(p[1])
=============================================================================
