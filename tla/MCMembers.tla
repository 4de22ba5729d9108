----------------------------- MODULE MCMembers -----------------------------
(* Instances of the modules about accounts and workspaces for model        *)
(* checking.  They share no variables, so each behaviour works on one.     *)
EXTENDS Members, Credentials, SystemMail, OfficeConsent, Imports, Workspaces, TLC

CONSTANTS p1, p2, p3
VARIABLE part

\* Administrators of workspaces.
Chairs == p1 :> "w1" @@ p2 :> "w1" @@ p3 :> "w2"

\* Selections of a single role.
Plain == {[primary |-> r, held |-> {r}] : r \in Roles}

\* Everyone who may be offered the import.
Desks == {<<Nowhere, Nowhere>>, <<"east", Nowhere>>, <<"east", "e1">>}
Uploads == {[may |-> {"user:manage"} \cup p, role |-> r, branch |-> d[1], unit |-> d[2]] :
              p \in SUBSET {"tenant:settings", "branch_admin:manage", "unit_admin:manage"},
              r \in {"none", "DELIVERY_HEAD", "UNIT_ADMIN"}, d \in Desks}

\* A pair of interchangeable values serves one set in each part.
Interchangeable == Permutations({p1, p2}) \cup Permutations(Logins)

----------------------------------------------------------------------------
\* A member whose invitations are used up, who may reset his password.
KnownUser ==
    /\ account = [id |-> 1, status |-> "active"] /\ rows = 1 /\ links = MaxLinks
    /\ invitation = NoRow /\ turns = 0 /\ resets = <<>> /\ spent = <<>>
    /\ desk = [a \in Inviters |-> Away0] /\ visit = [b \in Browsers |-> Away0]

\* An address that is invited, and resets no password.
UnknownUser ==
    /\ account = NoRow /\ rows = 0 /\ invitation = NoRow /\ links = 0 /\ turns = 0
    /\ desk = [a \in Inviters |-> Away0] /\ visit = [b \in Browsers |-> Away0]
    /\ resets = [t \in 1..MaxResets |-> "gone"] /\ spent = [t \in 1..MaxResets |-> 0]

MCInit ==
    /\ part \in {"members", "invitation", "password", "sender", "consent", "import", "workspaces"}
    /\ Init /\ SystemMailInit /\ ConsentInit /\ WorkspacesInit
    /\ IF part = "password" THEN KnownUser ELSE UnknownUser
    /\ IF part = "import" THEN ImportsInit ELSE importer = NoImporter

MCNext ==
    /\ UNCHANGED <<part, importer>>
    /\ \/ part = "members" /\ Next /\ UNCHANGED <<credentialVars, senderVars, consentVars, workspaceVars>>
       \/ /\ part \in {"invitation", "password"} /\ CredentialsNext
          /\ UNCHANGED <<vars, senderVars, consentVars, workspaceVars>>
       \/ part = "sender" /\ SystemMailNext /\ UNCHANGED <<vars, credentialVars, consentVars, workspaceVars>>
       \/ part = "consent" /\ ConsentNext /\ UNCHANGED <<vars, credentialVars, senderVars, workspaceVars>>
       \/ part = "workspaces" /\ WorkspacesNext /\ UNCHANGED <<vars, credentialVars, senderVars, consentVars>>

MCSpec == MCInit /\ [][MCNext]_<<part, vars, credentialVars, senderVars, consentVars, workspaceVars, importer>>
=============================================================================
