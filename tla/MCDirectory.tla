---------------------------- MODULE MCDirectory ----------------------------
(* Instances of the directory modules for model checking.                  *)
(* They share no variables, so each behaviour works on one of them.        *)
EXTENDS ClientContacts, Dictionary, Mailboxes, SubmissionReaders, TLC

VARIABLE part

People == [ann |-> {"client:view", "client:create", "client:edit"},
           una |-> {"client:view", "client:direct_add", "unit_admin:manage"},
           bob |-> {"client:view", "client:approve", "client:reject", "client:delete",
                    "tenant:settings", "client:manage", "branch_admin:manage", "client:create"}]
Desks == [ann |-> [branch |-> "b1", unit |-> "m1"], una |-> [branch |-> "b1", unit |-> "m1"],
          bob |-> [branch |-> "b1", unit |-> Nobody]]

Interchangeable == UNION {Permutations(s) : s \in {Requests, GeneratedIds, ClientNames, Pocs}}

----------------------------------------------------------------------------
(* Members who read: permissions, role, branch and unit, pods. *)
Seats == {<<Unset, Unset>>, <<Home, Unset>>, <<Home, Home>>}
Profile(may, m, s, p) == [may |-> may, manager |-> m, branch |-> s[1], unit |-> s[2], pods |-> p]

Duties == {{}, {"tenant:manage"}, {"platform:manage"}, {"branch_admin:manage"}, {"unit_admin:manage"},
           {"job:create"}, {"job:override_assignment"}}
Extras == {{}, {"job:view_pod_jobs"}, {"job:view_all_branches"}, {"submission:create", "job:submit_pod_jobs"},
           {"submission:create", "job:submit_unit_jobs"}, {"submission:create", "job:submit_owned_jobs"}}
Profiles == {Profile({"job:view"} \cup d \cup e, m, s, p) :
                d \in Duties, e \in Extras, m \in BOOLEAN, s \in Seats, p \in BOOLEAN}

Ranks == {{}, {"tenant:manage"}, {"branch_admin:manage"}, {"unit_admin:manage"}, {"submission:view_all"},
          {"job:view_all_branches"}}
Tasks == {{}, {"submission:internal_screening"}, {"submission:internal_screening_created_jobs"},
          {"submission:audit_rounds", "submission:final_status"},
          {"submission:schedule_interview", "submission:internal_screening_created_jobs"}}
Trackers == {Profile({"submission:view"} \cup r \cup t \cup o \cup x, m, s, TRUE) :
                r \in Ranks, t \in Tasks, o \in {{}, {"job:submit_owned_jobs"}}, x \in {{}, {"submission:edit_all"}},
                m \in BOOLEAN, s \in Seats}
Readers == Profiles \cup Trackers

----------------------------------------------------------------------------
\* The client whose contacts are kept.
KnownClient ==
    /\ \E q \in Requests, name \in ClientNames : clients = [r \in Ids |-> IF r # q THEN Nobody ELSE
          [name |-> name, code |-> 1, creator |-> "ann", owner |-> "ann", branch |-> "b1",
           status |-> "Active", approval |-> "APPROVED", decidedBy |-> "bob", live |-> TRUE, original |-> TRUE, vouched |-> TRUE]]
    /\ clientCounter = 1 /\ decisions = 0
    /\ clientAccess = [everyone |-> TRUE, bdm |-> FALSE]
    /\ clerk = [m \in Staff |-> NoRequest]

\* Clients made by forms alone, and clients made by jobs as well, where una makes none.
ClientsPart ==
    \/ part = "clients" /\ ClientsNext /\ \A m \in Staff : clerk'[m].op # "ensure"
    \/ part = "job clients" /\ ClientsNext /\ clerk'["una"] = NoRequest

MCInit ==
    /\ part \in {"clients", "job clients", "contacts", "dictionary", "mailboxes", "readers"}
    /\ IF part = "contacts" THEN KnownClient ELSE ClientsInit
    /\ PocsInit /\ DictionaryInit /\ BoxesInit
    /\ IF part = "readers" THEN ReadersInit ELSE reader = NoReader

MCNext ==
    /\ UNCHANGED <<part, reader>>
    /\ \/ ClientsPart /\ UNCHANGED <<pocVars, dictionaryVars, boxVars>>
       \/ part = "contacts" /\ PocsNext /\ UNCHANGED <<clientVars, dictionaryVars, boxVars>>
       \/ part = "dictionary" /\ DictionaryNext /\ UNCHANGED <<clientVars, pocVars, boxVars>>
       \/ part = "mailboxes" /\ BoxesNext /\ UNCHANGED <<clientVars, pocVars, dictionaryVars>>

MCSpec == MCInit /\ [][MCNext]_<<part, clientVars, pocVars, dictionaryVars, boxVars, reader>>
=============================================================================
