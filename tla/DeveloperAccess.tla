--------------------------- MODULE DeveloperAccess ---------------------------
(* Restricted developer sign-in for one workspace account: the account may    *)
(* hold a grant, the workspace policy may allow the method, and every session *)
(* issued this way carries a marker naming the grant and the policy           *)
(* generation (epoch) it was issued under.                                    *)
EXTENDS Naturals

CONSTANTS Sessions,     \* Keycloak sessions the account may open
          MaxGrants,    \* bound: grants given, counting those given anew
          MaxEpoch      \* bound: generations of the policy

ASSUME DeveloperBounds == MaxGrants \in Nat /\ MaxEpoch \in Nat

VARIABLES active,       \* the account is active and approved, its workspace active
          policy,       \* allow_developer_login, require_mfa, developer_login_epoch
          grant,        \* id of the account's grant, 0 without one
          granted,      \* grant ids used so far
          sign,         \* per session: the grant a sign-in was authorised by, 0 for none
          marker        \* developer_login_sessions; grant 0 where there is none

developerVars == <<active, policy, grant, granted, sign, marker>>

NoMarker == [grant |-> 0, epoch |-> 0]

\* developer_login_epoch starts as any value and grants as none.
DeveloperInit ==
    /\ active = TRUE
    /\ policy = [allow |-> FALSE, mfa |-> FALSE, epoch |-> 0]
    /\ grant = 0 /\ granted = 0
    /\ sign = [s \in Sessions |-> 0]
    /\ marker = [s \in Sessions |-> NoMarker]

\* setGrant(.., true): a conflicting grant keeps its id.
AuthorizeAccount ==
    /\ active
    /\ grant = 0 /\ granted < MaxGrants
    /\ grant' = granted + 1 /\ granted' = granted + 1
    /\ UNCHANGED <<active, policy, sign, marker>>

\* setGrant(.., false): the row is deleted, the markers stay.
RemoveGrant ==
    /\ grant' = 0
    /\ UNCHANGED <<active, policy, granted, sign, marker>>

\* Mutant: only switching the method off starts a new generation.
RotatesOnDisable(allow, mfa) == ~allow

\* CASE WHEN NOT allow_developer_login OR require_mfa THEN gen_random_uuid()
Rotates(allow, mfa) == ~allow \/ mfa

\* updateTenantAuthPolicy.  The fields a request leaves out come from a copy read
\* earlier, so that any combination may be written at any time.
UpdatePolicy(allow, mfa) ==
    /\ Rotates(allow, mfa) => policy.epoch < MaxEpoch
    /\ policy' = [allow |-> allow, mfa |-> mfa,
                  epoch |-> IF Rotates(allow, mfa) THEN policy.epoch + 1 ELSE policy.epoch]
    /\ UNCHANGED <<active, grant, granted, sign, marker>>

\* authorize(): the grant is read before the password is checked.
Authorize(s) ==
    /\ sign[s] = 0 /\ marker[s] = NoMarker
    /\ active /\ grant # 0 /\ policy.allow
    /\ sign' = [sign EXCEPT ![s] = grant]
    /\ UNCHANGED <<active, policy, grant, granted, marker>>

\* registerSession(): the grant read before still stands, under the row locks.
StillGranted(s) == grant = sign[s] /\ policy.allow /\ ~policy.mfa

\* The session gets its marker, or the sign-in is denied.
RegisterSession(s) ==
    /\ sign[s] # 0
    /\ sign' = [sign EXCEPT ![s] = 0]
    /\ marker' = IF StillGranted(s)
                   THEN [marker EXCEPT ![s] = [grant |-> sign[s], epoch |-> policy.epoch]]
                   ELSE marker
    /\ UNCHANGED <<active, policy, grant, granted>>

SetActive(a) ==
    /\ active' = a
    /\ UNCHANGED <<policy, grant, granted, sign, marker>>

DeveloperNext ==
    \/ AuthorizeAccount \/ RemoveGrant
    \/ \E allow, mfa \in BOOLEAN : UpdatePolicy(allow, mfa)
    \/ \E s \in Sessions : Authorize(s) \/ RegisterSession(s)
    \/ \E a \in BOOLEAN : SetActive(a)

DeveloperSpec == DeveloperInit /\ [][DeveloperNext]_developerVars

\* The marker's grant and generation are the current ones.
StandsFor(s) ==
    grant = marker[s].grant /\ policy.allow /\ ~policy.mfa /\ policy.epoch = marker[s].epoch

\* A developer session whose grant or generation is gone.
Withdrawn(s) == marker[s] # NoMarker /\ ~StandsFor(s)

\* assertSessionActive, second query: no marker, or one that stands, for an
\* account that may sign in.
DeveloperAllowed(s) == marker[s] # NoMarker => StandsFor(s) /\ active

\* "Previously revoked sessions cannot revive": once its grant was removed or the
\* method switched off or barred by MFA, a developer session stays withdrawn,
\* however grants and policy are changed afterwards and whatever sign-ins were
\* under way (docs/developer-access.md; developer-access.service.ts).
WithdrawnStaysWithdrawn == [][\A s \in Sessions : Withdrawn(s) => Withdrawn(s)']_developerVars
=============================================================================
