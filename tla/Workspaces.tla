----------------------------- MODULE Workspaces -----------------------------
(***************************************************************************)
(* Workspaces and the host names that lead to them (AuthTenantService).    *)
(* A workspace has a subdomain in tenants.domain and host names in         *)
(* tenant_domains, one of which is primary.  Sign-in resolves a host by    *)
(* both tables.                                                            *)
(*                                                                         *)
(* registerTenant and createManualTenant are statements on their own, in   *)
(* no transaction; approveUser likewise.  updateTenant is one transaction, *)
(* and what its checks miss its unique keys refuse.  A crash ends every    *)
(* request, and the start that follows seeds the default roles again.  Of  *)
(* those the administrator's is kept.  Everyone has an address of his own. *)
(***************************************************************************)
EXTENDS Integers, FiniteSets

CONSTANTS
    Tenants,        \* workspaces there may be
    HostNames,      \* subdomains and custom domains
    Founding,       \* requests in progress at once
    MaxChores,      \* bound on changes, lookups and crashes
    NoHost          \* no row

\* A row of tenants, with its administrator and his role, and one of tenant_domains.
TenantRow == [domain : HostNames, prefix : Int, admin : {"none", "waiting", "approved"},
              role : {"none", "bare", "able"}, status : {"ACTIVE", "INACTIVE", "PENDING"}]
HostRow == [id : Nat, workspace : Tenants, primary : BOOLEAN, verified : BOOLEAN]

ASSUME WorkspacesAssumption ==
    MaxChores \in Nat /\ IsFiniteSet(Tenants) /\ NoHost \notin Tenants \cup HostNames \cup TenantRow \cup HostRow

VARIABLES
    tenant,         \* workspace |-> its row in tenants, its administrator and his role
    hosts,          \* host name |-> its row in tenant_domains
    hostRows,       \* rows so far, which number them
    founding,       \* request |-> where it is
    records,        \* host names whose DNS records point here
    foundRecords,   \* host names for which they were found
    chores

workspaceVars == <<tenant, hosts, hostRows, founding, records, foundRecords, chores>>

Rested == [step |-> "none"]
Existing == {w \in Tenants : tenant[w] # NoHost}
Chore == chores < MaxChores /\ chores' = chores + 1
Then(c, step) == founding' = [founding EXCEPT ![c].step = step]
Over(c) == founding' = [founding EXCEPT ![c] = Rested]

\* How sign-in finds the workspace of a host: either table, in no order.
Resolve(d) == {w \in Existing : tenant[w].domain = d}
              \cup IF hosts[d] = NoHost THEN {} ELSE {hosts[d].workspace}

Host(w, primary) == [id |-> hostRows + 1, workspace |-> w, primary |-> primary, verified |-> FALSE]

----------------------------------------------------------------------------
(* registerTenant, by a company, and createManualTenant, by the platform *)

\* What both begin with, and make in the same statements below.
Found(c, manual) ==
    /\ founding[c] = Rested
    /\ \E w \in Tenants \ Existing, d \in HostNames :
          /\ \A o \in Founding : founding[o] # Rested => founding[o].workspace # w
          /\ Resolve(d) = {}
          /\ founding' = [founding EXCEPT ![c] = [step |-> "prefix", workspace |-> w, domain |-> d, manual |-> manual]]
    /\ UNCHANGED <<tenant, hosts, hostRows, records, foundRecords, chores>>

RegisterTenant(c) == Found(c, FALSE)
CreateManualTenant(c) == Found(c, TRUE)

\* The first of the company's prefix codes that nobody has; all companies here want the same.
PickPrefix(c) ==
    /\ founding[c].step = "prefix"
    /\ \E n \in 0..Cardinality(Tenants) :
          /\ \A w \in Existing : tenant[w].prefix # n
          /\ \A k \in 0..(n - 1) : \E w \in Existing : tenant[w].prefix = k
          /\ founding' = [founding EXCEPT ![c] = [step |-> "tenant", workspace |-> founding[c].workspace,
                domain |-> founding[c].domain, manual |-> founding[c].manual, prefix |-> n]]
    /\ UNCHANGED <<tenant, hosts, hostRows, records, foundRecords, chores>>

\* domain and prefix_code are unique.
InsertTenant(c) ==
    /\ founding[c].step = "tenant"
    /\ LET f == founding[c]
       IN IF \E w \in Existing : tenant[w].domain = f.domain \/ tenant[w].prefix = f.prefix
          THEN Over(c) /\ UNCHANGED tenant
          ELSE /\ tenant' = [tenant EXCEPT ![f.workspace] =
                    [domain |-> f.domain, prefix |-> f.prefix, admin |-> "none", role |-> "none",
                     status |-> IF f.manual THEN "ACTIVE" ELSE "PENDING"]]
               /\ Then(c, "host")
    /\ UNCHANGED <<hosts, hostRows, records, foundRecords, chores>>

\* domain_name is unique.
InsertHost(c) ==
    /\ founding[c].step = "host"
    /\ LET f == founding[c]
       IN IF hosts[f.domain] # NoHost THEN Over(c) /\ UNCHANGED <<hosts, hostRows>>
          ELSE /\ hosts' = [hosts EXCEPT ![f.domain] = Host(f.workspace, TRUE)] /\ hostRows' = hostRows + 1
               /\ Then(c, "roles")
    /\ UNCHANGED <<tenant, records, foundRecords, chores>>

\* seedTenantRoles: a role is inserted bare if there is none, and only the
\* roles this call inserted get their permissions.
SeedRole(c) ==
    /\ founding[c].step = "roles"
    /\ LET w == founding[c].workspace
       IN IF tenant[w].role = "none" THEN tenant' = [tenant EXCEPT ![w].role = "bare"] /\ Then(c, "permit")
          ELSE UNCHANGED tenant /\ Then(c, "admin")
    /\ UNCHANGED <<hosts, hostRows, records, foundRecords, chores>>

PermitRole(c) ==
    /\ founding[c].step = "permit"
    /\ tenant' = [tenant EXCEPT ![founding[c].workspace].role = "able"] /\ Then(c, "admin")
    /\ UNCHANGED <<hosts, hostRows, records, foundRecords, chores>>

\* The first administrator; then Keycloak, which may fail, and a mail.
InsertAdmin(c) ==
    /\ founding[c].step = "admin"
    /\ tenant' = [tenant EXCEPT ![founding[c].workspace].admin = IF founding[c].manual THEN "approved" ELSE "waiting"]
    /\ Over(c)
    /\ UNCHANGED <<hosts, hostRows, records, foundRecords, chores>>

----------------------------------------------------------------------------
(* updateTenant *)

TakenByOther(w, d) == Resolve(d) \ {w} # {}

\* The workspace's own alias goes, and one of its primary rows gets the name;
\* without one a row is made.
Rename(w, d) ==
    IF tenant[w].domain = d \/ TakenByOther(w, d) THEN UNCHANGED <<tenant, hosts, hostRows>>
    ELSE LET primaries == {p \in HostNames : hosts[p] # NoHost /\ hosts[p].workspace = w /\ hosts[p].primary}
         IN /\ tenant' = [tenant EXCEPT ![w].domain = d]
            /\ IF primaries = {} THEN hosts' = [hosts EXCEPT ![d] = Host(w, TRUE)] /\ hostRows' = hostRows + 1
               ELSE /\ \E p \in primaries : hosts' = [hosts EXCEPT ![p] = NoHost, ![d] = hosts[p]]
                    /\ UNCHANGED hostRows

\* Also updateTenantSubdomain, for the workspace's own administrators.
UpdateTenant ==
    /\ Chore /\ \E w \in Existing, d \in HostNames : Rename(w, d)
    /\ UNCHANGED <<founding, records, foundRecords>>

UpdateTenantStatus ==
    /\ Chore
    /\ \E w \in Existing, s \in {"ACTIVE", "INACTIVE", "PENDING"} : tenant' = [tenant EXCEPT ![w].status = s]
    /\ UNCHANGED <<hosts, hostRows, founding, records, foundRecords>>

\* approveUser: the administrator, the workspace, then maybe its subdomain.
ApproveUser(c) ==
    /\ Chore /\ founding[c] = Rested
    /\ \E w \in Existing, d \in HostNames \cup {NoHost} :
          /\ tenant[w].admin # "none"
          /\ tenant' = [tenant EXCEPT ![w].admin = "approved"]
          /\ founding' = [founding EXCEPT ![c] = [step |-> "activate", workspace |-> w, domain |-> d]]
    /\ UNCHANGED <<hosts, hostRows, records, foundRecords>>

ActivateTenant(c) ==
    /\ founding[c].step = "activate"
    /\ tenant' = [tenant EXCEPT ![founding[c].workspace].status = "ACTIVE"]
    /\ IF founding[c].domain = NoHost THEN Over(c) ELSE Then(c, "rename")
    /\ UNCHANGED <<hosts, hostRows, records, foundRecords, chores>>

RenameApproved(c) ==
    /\ founding[c].step = "rename"
    /\ Rename(founding[c].workspace, founding[c].domain)
    /\ Over(c)
    /\ UNCHANGED <<records, foundRecords, chores>>

----------------------------------------------------------------------------
(* Custom domains *)

\* Only tenant_domains is looked at.
AddTenantDomain ==
    /\ Chore
    /\ \E w \in Existing, d \in HostNames :
          hosts[d] = NoHost /\ hosts' = [hosts EXCEPT ![d] = Host(w, FALSE)] /\ hostRows' = hostRows + 1
    /\ UNCHANGED <<tenant, founding, records, foundRecords>>

\* deleteTenantDomain and verifyCustomDomain look the row up first.
LookUpHost(c) ==
    /\ Chore /\ founding[c] = Rested
    /\ \E d \in HostNames, op \in {"delete", "verify"} :
          /\ hosts[d] # NoHost /\ (op = "delete" => ~hosts[d].primary)
          /\ founding' = [founding EXCEPT ![c] = [step |-> op, workspace |-> hosts[d].workspace,
                                                  domain |-> d, id |-> hosts[d].id]]
    /\ UNCHANGED <<tenant, hosts, hostRows, records, foundRecords>>

\* Mutant: the row is found again by its name.
TheRowNamed(c, d) == d = founding[c].domain /\ hosts[d] # NoHost /\ hosts[d].workspace = founding[c].workspace
\* By its id.
TheRow(c, d) == hosts[d] # NoHost /\ hosts[d].id = founding[c].id

DeleteTenantDomain(c) ==
    /\ founding[c].step = "delete"
    /\ hosts' = [d \in HostNames |-> IF TheRow(c, d) THEN NoHost ELSE hosts[d]]
    /\ Over(c)
    /\ UNCHANGED <<tenant, hostRows, records, foundRecords, chores>>

\* A CNAME or an A record, looked up by the name that was read.  Development
\* builds and local names, which need no record, are left out.
VerifyCustomDomain(c) ==
    /\ founding[c].step = "verify"
    /\ LET found == founding[c].domain \in records
       IN /\ hosts' = [d \in HostNames |-> IF TheRow(c, d) THEN [hosts[d] EXCEPT !.verified = found] ELSE hosts[d]]
          /\ foundRecords' = IF found THEN foundRecords \cup {founding[c].domain} ELSE foundRecords
    /\ Over(c)
    /\ UNCHANGED <<tenant, hostRows, records, chores>>

\* External: DNS.
RecordsChange ==
    /\ Chore /\ \E d \in HostNames : records' = IF d \in records THEN records \ {d} ELSE records \cup {d}
    /\ UNCHANGED <<tenant, hosts, hostRows, founding, foundRecords>>

ServerStops ==
    /\ Chore /\ founding' = [c \in Founding |-> Rested]
    /\ tenant' = [w \in Tenants |-> IF w \in Existing /\ tenant[w].role = "none"
                                    THEN [tenant[w] EXCEPT !.role = "able"] ELSE tenant[w]]   \* syncAllTenantRoles
    /\ UNCHANGED <<hosts, hostRows, records, foundRecords>>

----------------------------------------------------------------------------
WorkspacesInit ==
    /\ tenant = [w \in Tenants |-> NoHost] /\ hosts = [d \in HostNames |-> NoHost] /\ hostRows = 0
    /\ founding = [c \in Founding |-> Rested] /\ records = {} /\ foundRecords = {} /\ chores = 0

WorkspacesNext ==
    \/ UpdateTenant \/ UpdateTenantStatus \/ AddTenantDomain \/ RecordsChange \/ ServerStops
    \/ \E c \in Founding :
          \/ RegisterTenant(c) \/ CreateManualTenant(c) \/ PickPrefix(c) \/ InsertTenant(c) \/ InsertHost(c)
          \/ SeedRole(c) \/ PermitRole(c) \/ InsertAdmin(c)
          \/ ApproveUser(c) \/ ActivateTenant(c) \/ RenameApproved(c)
          \/ LookUpHost(c) \/ DeleteTenantDomain(c) \/ VerifyCustomDomain(c)

WorkspacesSpec == WorkspacesInit /\ [][WorkspacesNext]_workspaceVars

----------------------------------------------------------------------------
(* The subdomain of a workspace that has an administrator leads to that    *)
(* workspace and no other, through a primary row nobody can delete, and    *)
(* his role has its permissions; and a custom domain counts as verified    *)
(* only if its own DNS records were found.  Companies register, rename and *)
(* alias at the same time, and a registration may stop half way.           *)
SubdomainLeadsHome ==
    /\ \A w \in Existing : tenant[w].admin # "none" =>
          /\ Resolve(tenant[w].domain) = {w}
          /\ hosts[tenant[w].domain] # NoHost /\ hosts[tenant[w].domain].primary
          /\ tenant[w].role = "able"
    /\ \A d \in HostNames : (hosts[d] # NoHost /\ ~hosts[d].primary /\ hosts[d].verified) => d \in foundRecords
=============================================================================
