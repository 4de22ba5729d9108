------------------------------ MODULE Sessions ------------------------------
(* How the sessions of one workspace account end.  The guard of every request *)
(* and socket reads, one query after another, five places in which a session  *)
(* may be ended: revocations, developer markers, the account, the time before *)
(* which sign-ins no longer count, and the session's workspace membership.    *)
(* Administrators, the provider's event feed and redeployments write them     *)
(* meanwhile.  External: Keycloak, whose access tokens live less than a day.  *)
EXTENDS DeveloperAccess

CONSTANTS Clients,      \* connections: each a request or a socket at a time
          None          \* no session

ASSUME NoneAssumption == None \notin Sessions

VARIABLES enabled,      \* USER_MANAGEMENT_TELEMETRY_ENABLED
          provider,     \* Keycloak's sessions: none, open (issued: its tokens have
                        \* not reached the browser) or closed
          token,        \* sessions with an access token that has not expired
          renewing,     \* renewals Keycloak answered, before their check
          outlived,     \* sessions with auth_time <= session_valid_after
          membership,   \* session_memberships: none, live or revoked
          revocations,  \* session_revocations
          aged,         \* those older than a day
          admin,        \* a running logoutUserSessions
          call,         \* per client: the request being handled
          socket,       \* per client: session of the socket in the user's room
          ended         \* history: sessions ended by a handler that answered

sessionVars == <<enabled, provider, token, renewing, outlived, membership,
                 revocations, aged, admin, call, socket, ended>>
vars == <<developerVars, sessionVars>>

Idle == [step |-> "idle", kind |-> "none", session |-> None, late |-> FALSE]
NoLogout == [step |-> "idle", listed |-> {}]

Init ==
    /\ DeveloperInit
    /\ enabled \in BOOLEAN
    /\ provider = [s \in Sessions |-> "none"]
    /\ token = {} /\ renewing = {} /\ outlived = {}
    /\ membership = [s \in Sessions |-> "none"]
    /\ revocations = {} /\ aged = {} /\ admin = NoLogout
    /\ call = [c \in Clients |-> Idle]
    /\ socket = [c \in Clients |-> None]
    /\ ended = {}

OpenAtProvider == {s \in Sessions : provider[s] \in {"issued", "open"}}

\* Sessions that began before now.
Begun == {s \in Sessions : provider[s] # "none"}

\* Ended by an administrator, a logout event, or with its developer access.
Over(s) == s \in ended \/ Withdrawn(s)

-----------------------------------------------------------------------------
(* Requests.  A handler's step ends at each query it awaits. *)

Step(c, step) == call' = [call EXCEPT ![c].step = step]

\* The request is answered with an error; a socket is disconnected.
Refuse(c) ==
    /\ call' = [call EXCEPT ![c] = Idle]
    /\ socket' = [socket EXCEPT ![c] = None]

Receive(c, kind, s, step) ==
    /\ call[c] = Idle
    /\ call' = [call EXCEPT ![c] = [step |-> step, kind |-> kind, session |-> s, late |-> Over(s)]]

\* login(): the account is read (by authorize() too when a developer signs in).
Unused(s) == provider[s] = "none" /\ sign[s] = 0 /\ \A c \in Clients : call[c].session # s

Login(c, s) ==
    /\ Unused(s) /\ socket[c] = None
    /\ active /\ Receive(c, "login", s, "password")
    /\ UNCHANGED developerVars

DeveloperLogin(c, s) ==
    /\ Unused(s) /\ socket[c] = None
    /\ Authorize(s) /\ Receive(c, "login", s, "password")

\* Keycloak checks the password and opens the session.
Open(c) ==
    LET s == call[c].session IN
    /\ call[c].step = "password"
    /\ provider' = [provider EXCEPT ![s] = "issued"]
    /\ Step(c, IF sign[s] # 0 THEN "register" ELSE "result")
    /\ UNCHANGED <<developerVars, enabled, token, renewing, outlived, membership,
                   revocations, aged, admin, socket, ended>>

Register(c) ==
    LET s == call[c].session IN
    /\ call[c].step = "register"
    /\ RegisterSession(s)
    /\ IF StillGranted(s) THEN Step(c, "result") /\ UNCHANGED socket ELSE Refuse(c)
    /\ UNCHANGED <<enabled, provider, token, renewing, outlived, membership,
                   revocations, aged, admin, ended>>

\* loginResult(): observed where sessions are tracked.
Result(c) ==
    /\ call[c].step = "result"
    /\ Step(c, IF enabled THEN "access" ELSE "admitted")

\* A request or a handshake with an access token, at any of the replicas.
Request(c, s) ==
    /\ s \in token /\ socket[c] = None
    /\ Receive(c, "guard", s, "revocation")

\* The gateway's timer, and the messages of the client.
Refresh(c) ==
    /\ socket[c] # None
    /\ Receive(c, "guard", socket[c], "revocation")

\* Mutant: the account being active is enough.
RefusedIfBlocked(step, s) ==
    CASE step = "revocation" -> s \in revocations
      [] step = "developer"  -> ~DeveloperAllowed(s)
      [] step = "user"       -> ~active
      [] step = "access"     -> ~active
      [] step = "membership" -> membership[s] = "revoked"

\* What the checks of assertSessionActive, validateToken and observe refuse.
Refused(step, s) ==
    CASE step = "revocation" -> s \in revocations
      [] step = "developer"  -> ~DeveloperAllowed(s)
      [] step = "user"       -> ~active
      [] step = "access"     -> ~active \/ s \in outlived
      [] step = "membership" -> membership[s] = "revoked"

Checks == {"revocation", "developer", "user", "access", "membership"}

After(step) ==
    CASE step = "revocation" -> "developer"
      [] step = "developer"  -> "user"
      [] step = "user"       -> "access"
      [] step = "access"     -> "membership"
      [] step = "membership" -> IF enabled THEN "capture" ELSE "admitted"

\* Mutant: a refused refresh leaves the socket where it is.
CheckKeepingSocket(c) ==
    /\ call[c].step \in Checks
    /\ IF Refused(call[c].step, call[c].session)
         THEN call' = [call EXCEPT ![c] = Idle]
         ELSE Step(c, After(call[c].step))
    /\ UNCHANGED socket

Check(c) ==
    /\ call[c].step \in Checks
    /\ IF Refused(call[c].step, call[c].session)
         THEN Refuse(c)
         ELSE Step(c, After(call[c].step)) /\ UNCHANGED socket

\* The membership was seen less than a minute ago: nothing is written.
Checkpointed(c) ==
    /\ call[c].step = "capture" /\ call[c].kind # "login"
    /\ membership[call[c].session] # "none"
    /\ Step(c, "admitted") /\ UNCHANGED socket

\* INSERT .. ON CONFLICT DO UPDATE .. WHERE revoked_at IS NULL, for an active account.
Capture(c) ==
    /\ call[c].step = "capture"
    /\ CASE ~active \/ membership[call[c].session] = "revoked" -> Refuse(c)
         [] active /\ membership[call[c].session] = "live" -> Step(c, "admitted") /\ UNCHANGED socket
         [] active /\ membership[call[c].session] = "none" -> Step(c, "commit") /\ UNCHANGED socket

\* A membership inserted is seen by others, a block's update included, from here.
Commit(c) ==
    LET s == call[c].session IN
    /\ call[c].step = "commit"
    /\ membership' = [membership EXCEPT ![s] = IF @ = "none" THEN "live" ELSE @]
    /\ IF membership[s] = "revoked" THEN Refuse(c) ELSE Step(c, "admitted") /\ UNCHANGED socket

\* A query or the provider fails, or a token has expired: only the capture of a
\* login may do without.
Fail(c) ==
    /\ call[c].step \notin {"idle", "admitted"}
    /\ \/ Refuse(c)
       \/ /\ call[c].kind = "login" /\ call[c].step \in {"capture", "commit"}
          /\ Step(c, "admitted") /\ UNCHANGED socket

\* The token is returned, the socket joins the user's room, the handler runs.
Admit(c) ==
    LET s == call[c].session  kind == call[c].kind IN
    /\ call[c].step = "admitted"
    /\ call' = [call EXCEPT ![c] = Idle]
    /\ IF kind = "login"
         THEN /\ provider' = [provider EXCEPT ![s] = IF @ = "issued" THEN "open" ELSE @]
              /\ token' = token \cup {s}
              /\ UNCHANGED socket
         ELSE /\ socket' \in {socket, [socket EXCEPT ![c] = s]}
              /\ UNCHANGED <<provider, token>>
    /\ UNCHANGED <<developerVars, enabled, renewing, outlived, membership,
                   revocations, aged, admin, ended>>

\* The client leaves, or an event of a block or a revocation reaches its replica
\* (deliverOutbox, deliverLocally): late, more than once or never.
Disconnect(c) == socket[c] # None /\ Refuse(c)

-----------------------------------------------------------------------------
(* Tokens. *)

\* refreshKeycloakToken(): Keycloak answers for a session that is open ..
Renew(s) ==
    /\ provider[s] = "open"
    /\ renewing' = renewing \cup {s} /\ UNCHANGED token

\* .. and assertSessionActive decides whether the new token is returned.
Renewed(s) ==
    /\ s \in renewing
    /\ renewing' = renewing \ {s}
    /\ token' = IF s \in revocations \/ ~DeveloperAllowed(s) THEN token ELSE token \cup {s}

TokenExpires(s) ==
    /\ s \in token
    /\ token' = token \ {s} /\ UNCHANGED renewing

\* A Microsoft sign-in: the browser has its tokens from Keycloak before ssoLogin.
Broker(s) ==
    /\ Unused(s)
    /\ provider' = [provider EXCEPT ![s] = "open"]
    /\ token' = token \cup {s}
    /\ UNCHANGED <<developerVars, enabled, renewing, outlived, membership,
                   revocations, aged, admin, call, socket, ended>>

\* A day: no access token, request or socket is as old, revocations are.
DayPasses ==
    /\ revocations # {} /\ admin = NoLogout
    /\ \A c \in Clients : call[c] = Idle /\ socket[c] = None
    /\ aged' = revocations /\ token' = {} /\ renewing' = {}
    /\ UNCHANGED <<developerVars, enabled, provider, outlived, membership,
                   revocations, admin, call, socket, ended>>

-----------------------------------------------------------------------------
(* Ending sessions. *)

\* revokeUserSessions(): old revocations go ..
LogoutCleanup ==
    /\ admin.step = "idle"
    /\ revocations' = revocations \ aged /\ aged' = {}
    /\ admin' = [admin EXCEPT !.step = "list"]
    /\ UNCHANGED <<provider, ended>>

\* .. Keycloak lists the sessions, online and offline ..
LogoutList ==
    /\ admin.step = "list"
    /\ admin' = [step |-> "insert", listed |-> OpenAtProvider]
    /\ UNCHANGED <<provider, revocations, aged, ended>>

\* .. which are revoked here before they are ended there ..
LogoutInsert ==
    /\ admin.step = "insert"
    /\ revocations' = revocations \cup admin.listed
    /\ admin' = [admin EXCEPT !.step = "provider"]
    /\ UNCHANGED <<provider, aged, ended>>

CloseAtProvider(S) == provider' = [s \in Sessions |-> IF s \in S \cap OpenAtProvider THEN "closed" ELSE provider[s]]

\* .. and "All sessions ended" is answered.
LogoutProvider ==
    /\ admin.step = "provider"
    /\ CloseAtProvider(Sessions)
    /\ ended' = ended \cup admin.listed
    /\ admin' = NoLogout
    /\ UNCHANGED <<revocations, aged>>

\* It stops at any step with an error; Keycloak may have ended some.
LogoutFails ==
    /\ admin.step # "idle"
    /\ IF admin.step = "provider" THEN \E S \in SUBSET Sessions : CloseAtProvider(S) ELSE UNCHANGED provider
    /\ admin' = NoLogout
    /\ UNCHANGED <<revocations, aged, ended>>

\* setUserActive(.., false), with sessions tracked and without.
Block ==
    /\ active /\ SetActive(FALSE)
    /\ IF enabled
         THEN /\ outlived' = outlived \cup Begun
              /\ membership' = [s \in Sessions |-> IF membership[s] = "live" THEN "revoked" ELSE membership[s]]
              /\ ended' = ended \cup Begun
         ELSE UNCHANGED <<outlived, membership, ended>>

Unblock == ~active /\ SetActive(TRUE)

\* revoke(): one session's membership.
Revoke(s) ==
    /\ enabled /\ membership[s] = "live"
    /\ membership' = [membership EXCEPT ![s] = "revoked"]
    /\ ended' = ended \cup {s}

\* logoutKeycloakSession(): the browser's session ends at the provider ..
Logout(s) ==
    /\ provider[s] = "open"
    /\ CloseAtProvider({s})

\* .. whose event, once read, ends the membership (ingest).
IngestLogout(s) ==
    /\ enabled /\ provider[s] = "closed" /\ membership[s] # "none"
    /\ membership' = [membership EXCEPT ![s] = "revoked"]
    /\ ended' = ended \cup {s}

\* A restart, with sessions tracked or not: what runs is lost.
Redeploy(e) ==
    /\ enabled' = e
    /\ call' = [c \in Clients |-> Idle] /\ socket' = [c \in Clients |-> None]
    /\ renewing' = {} /\ admin' = NoLogout
    /\ UNCHANGED <<developerVars, provider, token, outlived, membership,
                   revocations, aged, ended>>

-----------------------------------------------------------------------------

\* Steps that change call and socket only.
Handle(c) ==
    /\ \/ Result(c) /\ UNCHANGED socket
       \/ Check(c) \/ Checkpointed(c) \/ Capture(c) \/ Fail(c)
    /\ UNCHANGED <<developerVars, enabled, provider, token, renewing, outlived,
                   membership, revocations, aged, admin, ended>>

CommitRow(c) ==
    /\ Commit(c)
    /\ UNCHANGED <<developerVars, enabled, provider, token, renewing, outlived,
                   revocations, aged, admin, ended>>

Arrive(c) ==
    /\ \/ Refresh(c) /\ UNCHANGED developerVars
       \/ \E s \in Sessions : Request(c, s) /\ UNCHANGED developerVars
       \/ \E s \in Sessions : Login(c, s) \/ DeveloperLogin(c, s)
    /\ UNCHANGED <<enabled, provider, token, renewing, outlived, membership,
                   revocations, aged, admin, socket, ended>>

Tokens ==
    /\ \E s \in Sessions : Renew(s) \/ Renewed(s) \/ TokenExpires(s)
    /\ UNCHANGED <<developerVars, enabled, provider, outlived, membership,
                   revocations, aged, admin, call, socket, ended>>

AdminLogout ==
    /\ LogoutCleanup \/ LogoutList \/ LogoutInsert \/ LogoutProvider \/ LogoutFails
    /\ UNCHANGED <<developerVars, enabled, token, renewing, outlived, membership,
                   call, socket>>

\* SetActive through the handlers above; the workspace's grants and policy.
Access ==
    /\ \/ Block
       \/ (Unblock /\ UNCHANGED <<outlived, membership, ended>>)
       \/ /\ \/ AuthorizeAccount \/ RemoveGrant
             \/ \E allow, mfa \in BOOLEAN : UpdatePolicy(allow, mfa)
          /\ UNCHANGED <<outlived, membership, ended>>
    /\ UNCHANGED <<enabled, provider, token, renewing, revocations, aged, admin, call, socket>>

EndOne ==
    /\ \E s \in Sessions : Revoke(s) \/ IngestLogout(s)
    /\ UNCHANGED <<developerVars, enabled, provider, token, renewing, outlived,
                   revocations, aged, admin, call, socket>>

LogoutOne ==
    /\ \E s \in Sessions : Logout(s)
    /\ UNCHANGED <<developerVars, enabled, token, renewing, outlived, membership,
                   revocations, aged, admin, call, socket, ended>>

Leave ==
    /\ \E c \in Clients : Disconnect(c)
    /\ UNCHANGED <<developerVars, enabled, provider, token, renewing, outlived,
                   membership, revocations, aged, admin, ended>>

Next ==
    \/ \E c \in Clients :
         Arrive(c) \/ Open(c) \/ Register(c) \/ Handle(c) \/ CommitRow(c) \/ Admit(c)
    \/ Leave \/ Tokens \/ (\E s \in Sessions : Broker(s)) \/ DayPasses
    \/ AdminLogout \/ Access \/ EndOne \/ LogoutOne
    \/ \E e \in BOOLEAN : Redeploy(e)

\* A request in progress moves on, and the gateway's timer keeps refreshing.
Proceed(c) == Handle(c) \/ CommitRow(c) \/ Admit(c)
TimerRefresh(c) ==
    /\ Refresh(c)
    /\ UNCHANGED <<developerVars, enabled, provider, token, renewing, outlived,
                   membership, revocations, aged, admin, socket, ended>>

Spec ==
    /\ Init /\ [][Next]_vars
    /\ \A c \in Clients : WF_vars(Proceed(c)) /\ WF_vars(TimerRefresh(c))

-----------------------------------------------------------------------------
(* Properties. *)

\* "Old sessions stay ended" (docs/user-management-rollout.md): a request or socket
\* that arrives after its session was ended (by a block, a single revocation, an
\* administrator's logout, a logout event or withdrawn developer access) is
\* refused, whatever is unblocked, switched off, cleaned up, renewed or captured
\* between the queries of the guard.
EndedIsRefused ==
    \A c \in Clients : call[c].kind = "guard" /\ call[c].late => call[c].step # "admitted"

\* A socket does not outlast its session: also one that joined the room after the
\* disconnecting event was delivered, or that missed it, is closed
\* (events.gateway.ts, timer and deliverLocally).
EndedSocketsClose ==
    \A c \in Clients, s \in Sessions : (socket[c] = s /\ Over(s)) ~> (socket[c] # s)
=============================================================================
