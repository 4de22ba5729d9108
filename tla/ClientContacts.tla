--------------------------- MODULE ClientContacts ---------------------------
(***************************************************************************)
(* The contact persons of a client: ClientContactsService and the policy   *)
(* of poc-access.ts.  create and update mark a contact as the client's     *)
(* primary one in two statements: the others are unmarked first.  The      *)
(* primary contact that createClient may insert with the client is the     *)
(* first of its client.                                                    *)
(***************************************************************************)
EXTENDS Clients

CONSTANTS Pocs      \* contact ids

VARIABLES
    pocs,           \* contact id |-> client, creator and primary mark, or Nobody
    pocPolicy,      \* tenants.other_owner_pocs_visible and mask_other_owner_poc_details
    pocClerk,       \* member |-> the request in progress
    pocOverlap      \* two requests that mark a primary contact have overlapped

pocVars == <<pocs, pocPolicy, pocClerk, pocOverlap>>

ContactAdmin(m) == Holds(m, {"client:manage", "tenant:manage", "platform:manage"})

Marking(m) == pocClerk[m] # NoRequest /\ pocClerk[m].primary

\* Mutant: only a contact of the same creator is unmarked.
UnmarkOwn(m, c, k) == [o \in Pocs |->
    IF pocs[o] # Nobody /\ o # k /\ pocs[o].client = c /\ pocs[o].by = m
    THEN [pocs[o] EXCEPT !.primary = FALSE] ELSE pocs[o]]
Unmark(m, c, k) == [o \in Pocs |->
    IF pocs[o] # Nobody /\ o # k /\ pocs[o].client = c
    THEN [pocs[o] EXCEPT !.primary = FALSE] ELSE pocs[o]]

\* The checks, and the statement that unmarks the other contacts.
Begin(m, op, k, c, primary) ==
    /\ pocClerk' = [pocClerk EXCEPT ![m] = [op |-> op, id |-> k, client |-> c, primary |-> primary]]
    /\ pocs' = IF primary THEN Unmark(m, c, k) ELSE pocs
    /\ pocOverlap' = (pocOverlap \/ (primary /\ \E o \in Staff : Marking(o)))
    /\ UNCHANGED pocPolicy

CreateContact(m) ==
    /\ pocClerk[m] = NoRequest
    /\ Holds(m, {"client:create", "client:edit"})
    /\ \E k \in Pocs, c \in Rows, primary \in BOOLEAN :
          /\ pocs[k] = Nobody /\ ~\E o \in Staff : pocClerk[o] # NoRequest /\ pocClerk[o].id = k   \* a new id
          /\ Live(c) /\ CanRead(m, clients[c])
          /\ Begin(m, "insert", k, c, primary)

\* The owner, or an administrator to whom the policy shows the details.
MayChange(m, contact) ==
    \/ contact.by = m
    \/ ContactAdmin(m) /\ pocPolicy.visible /\ ~pocPolicy.masked

UpdateContact(m) ==
    /\ pocClerk[m] = NoRequest
    /\ \E k \in Pocs, primary \in BOOLEAN :
          /\ pocs[k] # Nobody /\ MayChange(m, pocs[k])
          /\ Begin(m, "update", k, pocs[k].client, primary)

InsertContact(m) ==
    /\ pocClerk[m].op = "insert"
    /\ LET w == pocClerk[m]
       IN pocs' = [pocs EXCEPT ![w.id] = [client |-> w.client, by |-> m, primary |-> w.primary]]
    /\ pocClerk' = [pocClerk EXCEPT ![m] = NoRequest]
    /\ UNCHANGED <<pocPolicy, pocOverlap>>

\* The update by id fails if the contact is gone.  It may clear the mark, or
\* not name it.
WriteContact(m) ==
    /\ pocClerk[m].op = "update"
    /\ LET w == pocClerk[m]
       IN IF pocs[w.id] = Nobody THEN pocs' = pocs
          ELSE \E mark \in IF w.primary THEN {TRUE} ELSE {FALSE, pocs[w.id].primary} :
                  pocs' = [pocs EXCEPT ![w.id].primary = mark]
    /\ pocClerk' = [pocClerk EXCEPT ![m] = NoRequest]
    /\ UNCHANGED <<pocPolicy, pocOverlap>>

RemoveContact(m) ==
    /\ pocClerk[m] = NoRequest
    /\ \E k \in Pocs :
          /\ pocs[k] # Nobody /\ (pocs[k].by = m \/ ContactAdmin(m))
          /\ pocs' = [pocs EXCEPT ![k] = Nobody]
    /\ UNCHANGED <<pocPolicy, pocClerk, pocOverlap>>

SetPocPolicy(m) ==
    /\ "tenant:settings" \in May[m]
    /\ \E p \in [visible : BOOLEAN, masked : BOOLEAN] : p # pocPolicy /\ pocPolicy' = p
    /\ UNCHANGED <<pocs, pocClerk, pocOverlap>>

PocsInit ==
    /\ pocs = [k \in Pocs |-> Nobody]
    /\ pocPolicy = [visible |-> FALSE, masked |-> TRUE]
    /\ pocClerk = [m \in Staff |-> NoRequest]
    /\ pocOverlap = FALSE

PocsNext == \E m \in Staff :
    \/ CreateContact(m) \/ InsertContact(m) \/ UpdateContact(m) \/ WriteContact(m)
    \/ RemoveContact(m) \/ SetPocPolicy(m)

\* Contacts beside their clients.
ContactsSpec ==
    /\ ClientsInit /\ PocsInit
    /\ [][(ClientsNext /\ UNCHANGED pocVars) \/ (PocsNext /\ UNCHANGED clientVars)]_<<clientVars, pocVars>>

----------------------------------------------------------------------------
(* A client has at most one primary contact as long as no two requests     *)
(* that mark one have overlapped, whoever creates, edits and removes the   *)
(* contacts under whichever policy.                                        *)
OnePrimaryContact ==
    ~pocOverlap => \A k, o \in Pocs :
        /\ pocs[k] # Nobody /\ pocs[o] # Nobody /\ pocs[k].client = pocs[o].client
        /\ pocs[k].primary /\ pocs[o].primary
        => k = o
=============================================================================
