--------------------------- MODULE SessionsProofs ---------------------------
(* Withdrawn developer sessions stay withdrawn and ended sessions are refused, *)
(* for any number of sessions, connections, grants and policy generations.     *)
EXTENDS Sessions, TLAPS

Markers == [grant : Nat, epoch : Nat]

DeveloperTypeOK ==
    /\ active \in BOOLEAN
    /\ policy \in [allow : BOOLEAN, mfa : BOOLEAN, epoch : Nat]
    /\ grant \in Nat /\ granted \in Nat
    /\ sign \in [Sessions -> Nat]
    /\ marker \in [Sessions -> Markers]

\* Grant ids are never used again, a session is registered once, and a policy that
\* bars the method is of a later generation than every marker.
MarkersArePast ==
    /\ grant <= granted
    /\ \A s \in Sessions :
         /\ sign[s] <= granted
         /\ marker[s].grant <= granted
         /\ marker[s].epoch <= policy.epoch
         /\ marker[s] # NoMarker /\ (~policy.allow \/ policy.mfa) => marker[s].epoch < policy.epoch
         /\ marker[s] # NoMarker => marker[s].grant # 0 /\ sign[s] = 0

DeveloperInv == DeveloperTypeOK /\ MarkersArePast

\* DeveloperInv is inductive: each action of developer-access.service.ts and of
\* updateTenantAuthPolicy keeps the markers in the past.
LEMMA DeveloperStep == DeveloperInv /\ [DeveloperNext]_developerVars => DeveloperInv'
<1> SUFFICES ASSUME DeveloperInv, [DeveloperNext]_developerVars
             PROVE  DeveloperInv'
  OBVIOUS
<1> USE DEF DeveloperInv, DeveloperTypeOK, MarkersArePast, Markers, NoMarker
<1>1. CASE AuthorizeAccount
  BY <1>1 DEF AuthorizeAccount
<1>2. CASE RemoveGrant
  BY <1>2 DEF RemoveGrant
<1>3. ASSUME NEW allow \in BOOLEAN, NEW mfa \in BOOLEAN, UpdatePolicy(allow, mfa)
      PROVE  DeveloperInv'
  BY <1>3 DEF UpdatePolicy, Rotates
<1>4. ASSUME NEW s \in Sessions, Authorize(s)
      PROVE  DeveloperInv'
  BY <1>4 DEF Authorize
<1>5. ASSUME NEW s \in Sessions, RegisterSession(s)
      PROVE  DeveloperInv'
  BY <1>5 DEF RegisterSession, StillGranted
<1>6. ASSUME NEW a \in BOOLEAN, SetActive(a)
      PROVE  DeveloperInv'
  BY <1>6 DEF SetActive
<1>7. CASE UNCHANGED developerVars
  BY <1>7 DEF developerVars
<1> QED
  BY <1>1, <1>2, <1>3, <1>4, <1>5, <1>6, <1>7 DEF DeveloperNext

\* A withdrawn session has lost its grant for good, or its generation.
LEMMA WithdrawnStep ==
    ASSUME DeveloperInv, [DeveloperNext]_developerVars, NEW s \in Sessions, Withdrawn(s)
    PROVE  Withdrawn(s)'
<1> USE DEF DeveloperInv, DeveloperTypeOK, MarkersArePast, Markers, NoMarker, Withdrawn, StandsFor
<1>1. CASE AuthorizeAccount
  BY <1>1 DEF AuthorizeAccount
<1>2. CASE RemoveGrant
  BY <1>2 DEF RemoveGrant
<1>3. ASSUME NEW allow \in BOOLEAN, NEW mfa \in BOOLEAN, UpdatePolicy(allow, mfa)
      PROVE  Withdrawn(s)'
  BY <1>3 DEF UpdatePolicy, Rotates
<1>4. ASSUME NEW t \in Sessions, Authorize(t)
      PROVE  Withdrawn(s)'
  BY <1>4 DEF Authorize
<1>5. ASSUME NEW t \in Sessions, RegisterSession(t)
      PROVE  Withdrawn(s)'
  BY <1>5 DEF RegisterSession, StillGranted
<1>6. ASSUME NEW a \in BOOLEAN, SetActive(a)
      PROVE  Withdrawn(s)'
  BY <1>6 DEF SetActive
<1>7. CASE UNCHANGED developerVars
  BY <1>7 DEF developerVars
<1> QED
  BY <1>1, <1>2, <1>3, <1>4, <1>5, <1>6, <1>7 DEF DeveloperNext

\* Every reachable state keeps the markers in the past of grants and policy.
THEOREM DeveloperInvariant == DeveloperSpec => []DeveloperInv
<1>1. DeveloperInit => DeveloperInv
  BY DEF DeveloperInit, DeveloperInv, DeveloperTypeOK, MarkersArePast, Markers, NoMarker
<1> QED
  BY <1>1, DeveloperStep, PTL DEF DeveloperSpec

\* Previously revoked developer sessions cannot revive, for every number of
\* sessions, grants and policy generations.
THEOREM DeveloperSessionsStayWithdrawn == DeveloperSpec => WithdrawnStaysWithdrawn
<1>1. DeveloperInv /\ [DeveloperNext]_developerVars
        => [\A s \in Sessions : Withdrawn(s) => Withdrawn(s)']_developerVars
  BY WithdrawnStep
<1> QED
  BY <1>1, DeveloperInvariant, PTL DEF DeveloperSpec, WithdrawnStaysWithdrawn

-----------------------------------------------------------------------------
(* Sessions *)

Steps == {"idle", "password", "register", "result", "revocation", "developer",
          "user", "access", "membership", "capture", "commit", "admitted"}

Calls == [step : Steps, kind : {"none", "login", "guard"}, session : Sessions \cup {None}, late : BOOLEAN]

SessionsTypeOK ==
    /\ enabled \in BOOLEAN
    /\ provider \in [Sessions -> {"none", "issued", "open", "closed"}]
    /\ token \subseteq Sessions /\ renewing \subseteq Sessions
    /\ outlived \subseteq Sessions /\ ended \subseteq Sessions
    /\ membership \in [Sessions -> {"none", "live", "revoked"}]
    /\ revocations \subseteq Sessions /\ aged \subseteq Sessions
    /\ admin \in [step : {"idle", "list", "insert", "provider"}, listed : SUBSET Sessions]
    /\ call \in [Clients -> Calls]
    /\ socket \in [Clients -> Sessions \cup {None}]
    /\ \A c \in Clients : call[c].step # "idle" => call[c].session \in Sessions

\* Only a session that began has tokens, sockets and requests but its own sign-in.
InUseBegan ==
    /\ token \subseteq Begun /\ renewing \subseteq Begun
    /\ \A c \in Clients :
         /\ socket[c] # None => socket[c] \in Begun
         /\ call[c].step \notin {"idle", "password"} => call[c].session \in Begun
         /\ call[c].step = "password" =>
              /\ provider[call[c].session] = "none"
              /\ \A d \in Clients \ {c} : call[d].session # call[c].session

\* What a running logoutUserSessions will end is revoked, and not about to be cleaned up.
LogoutInv ==
    /\ admin.step # "idle" => aged = {}
    /\ admin.step = "provider" => admin.listed \subseteq revocations
    /\ admin.listed \subseteq Begun

\* Nobody can use the session any more.
Silent(s) ==
    /\ s \notin token /\ s \notin renewing
    /\ \A c \in Clients : call[c].session # s /\ socket[c] # s

\* Ended for the workspace, for good.
Barred(s) == s \in outlived \/ membership[s] = "revoked"

LoggedOut(s) == provider[s] = "closed" /\ (s \in revocations \ aged \/ Silent(s))

StaysEnded == \A s \in ended : Barred(s) \/ LoggedOut(s)

WithdrawnSessions == {s \in Sessions : Withdrawn(s)}

\* What is left for the guard to find of a late request's ending.
LateCall(k) ==
    /\ k.step = "revocation" => k.session \in ended \cup WithdrawnSessions
    /\ k.step = "developer" => k.session \in WithdrawnSessions \/ Barred(k.session)
    /\ k.step \in {"user", "access"} => Barred(k.session)
    /\ k.step = "membership" => membership[k.session] = "revoked"
    /\ k.step \notin {"password", "register", "result", "capture", "commit", "admitted"}

LateCalls == \A c \in Clients : call[c].kind = "guard" /\ call[c].late => LateCall(call[c])

SessionsInv == SessionsTypeOK /\ InUseBegan /\ LogoutInv /\ StaysEnded /\ LateCalls

-----------------------------------------------------------------------------

\* What a step of a request in progress does to it.
Moved(c) ==
    /\ call[c].step # "idle"
    /\ \/ Refuse(c)
       \/ /\ call[c].step # "password"
          /\ \E step \in Steps \ {"idle", "password"} : Step(c, step)
          /\ UNCHANGED socket

\* Every query of a request in progress moves it on or refuses it.
LEMMA Moving ==
    ASSUME SessionsTypeOK, NEW c \in Clients, Register(c) \/ Handle(c) \/ CommitRow(c)
    PROVE  Moved(c)
<1>1. CASE Register(c)
  BY <1>1 DEF Register, Moved, Steps
<1>2. CASE Result(c) /\ UNCHANGED socket
  BY <1>2 DEF Result, Moved, Steps
<1>3. CASE Check(c)
  <2> DEFINE k == call[c]
  <2>1. k.step \in Checks /\ k.step \notin {"idle", "password"}
    BY <1>3 DEF Check, Checks
  <2>2. After(k.step) \in Steps \ {"idle", "password"}
    BY <2>1 DEF After, Checks, Steps
  <2> QED
    BY <1>3, <2>1, <2>2 DEF Check, Moved
<1>4. CASE Checkpointed(c)
  BY <1>4 DEF Checkpointed, Moved, Steps
<1>5. CASE Capture(c)
  <2> DEFINE m == membership[call[c].session]
  <2>1. call[c].step = "capture" /\ m \in {"none", "live", "revoked"}
    BY <1>5 DEF Capture, SessionsTypeOK
  <2> QED
    BY <1>5, <2>1 DEF Capture, Moved, Steps, SessionsTypeOK
<1>6. CASE Fail(c)
  BY <1>6 DEF Fail, Moved, Steps
<1>7. CASE CommitRow(c)
  BY <1>7 DEF CommitRow, Commit, Moved, Steps
<1> QED
  BY <1>1, <1>2, <1>3, <1>4, <1>5, <1>6, <1>7 DEF Handle

\* A request that moved is still one request.
LEMMA MovedCalls ==
    ASSUME SessionsTypeOK, NEW c \in Clients, Moved(c)
    PROVE  /\ call' \in [Clients -> Calls]
           /\ socket' \in [Clients -> Sessions \cup {None}]
           /\ \A d \in Clients : call'[d].step # "idle" => call'[d].session \in Sessions
<1>1. CASE Refuse(c)
  <2>1. Idle \in Calls /\ Idle.step = "idle"
    BY DEF Idle, Calls, Steps
  <2> QED
    BY <1>1, <2>1 DEF Refuse, SessionsTypeOK
<1>2. CASE call[c].step # "password" /\ (\E step \in Steps : Step(c, step)) /\ UNCHANGED socket
  <2>1. PICK step \in Steps : Step(c, step)
    BY <1>2
  <2>2. call[c] \in Calls /\ call[c].step # "idle" /\ call[c].session \in Sessions
    BY DEF SessionsTypeOK, Moved
  <2>3. [call[c] EXCEPT !.step = step] \in Calls /\ [call[c] EXCEPT !.step = step].session = call[c].session
    BY <2>2 DEF Calls
  <2> QED
    BY <1>2, <2>1, <2>2, <2>3 DEF Step, SessionsTypeOK
<1> QED
  BY <1>1, <1>2 DEF Moved

\* A request arrives at the sign-in or at the first check of the guard.
LEMMA Received ==
    ASSUME SessionsTypeOK, NEW c \in Clients, Arrive(c)
    PROVE  \E kind \in {"login", "guard"}, s \in Sessions, step \in {"password", "revocation"} :
             /\ Receive(c, kind, s, step)
             /\ kind = "guard" => step = "revocation"
<1>1. CASE Refresh(c)
  BY <1>1 DEF Refresh, SessionsTypeOK
<1>2. CASE \E s \in Sessions : Request(c, s)
  BY <1>2 DEF Request
<1>3. CASE \E s \in Sessions : Login(c, s) \/ DeveloperLogin(c, s)
  BY <1>3 DEF Login, DeveloperLogin
<1> QED
  BY <1>1, <1>2, <1>3 DEF Arrive

\* Every handler keeps the types.
LEMMA SessionsTypeStep ==
    ASSUME SessionsTypeOK, [Next]_vars
    PROVE  SessionsTypeOK'
<1> USE NoneAssumption DEF SessionsTypeOK, Calls, Steps
<1>1. ASSUME NEW c \in Clients, Arrive(c)
       PROVE  SessionsTypeOK'
  <2>1. PICK kind \in {"login", "guard"}, s \in Sessions, step \in {"password", "revocation"} :
          Receive(c, kind, s, step)
    BY <1>1, Received
  <2> DEFINE k == [step |-> step, kind |-> kind, session |-> s, late |-> Over(s)]
  <2>2. k \in Calls /\ k.session \in Sessions
    BY DEF Over, Withdrawn
  <2> QED
    BY <1>1, <2>1, <2>2 DEF Arrive, Receive
<1>2. ASSUME NEW c \in Clients, Open(c)
       PROVE  SessionsTypeOK'
  BY <1>2 DEF Open, Step
<1>3. ASSUME NEW c \in Clients, Register(c)
       PROVE  SessionsTypeOK'
  BY <1>3, Moving, MovedCalls DEF Register
<1>4. ASSUME NEW c \in Clients, Handle(c)
       PROVE  SessionsTypeOK'
  BY <1>4, Moving, MovedCalls DEF Handle
<1>5. ASSUME NEW c \in Clients, CommitRow(c)
       PROVE  SessionsTypeOK'
  BY <1>5, Moving, MovedCalls DEF CommitRow, Commit
<1>6. ASSUME NEW c \in Clients, Admit(c)
       PROVE  SessionsTypeOK'
  BY <1>6 DEF Admit, Idle
<1>7. CASE Leave
  BY <1>7 DEF Leave, Disconnect, Refuse, Idle
<1>8. CASE Tokens
  BY <1>8 DEF Tokens, Renew, Renewed, TokenExpires
<1>9. ASSUME NEW s \in Sessions, Broker(s)
       PROVE  SessionsTypeOK'
  BY <1>9 DEF Broker, Unused
<1>10. CASE DayPasses
  BY <1>10 DEF DayPasses, NoLogout, Idle
<1>11. CASE AdminLogout
  BY <1>11 DEF AdminLogout, LogoutCleanup, LogoutList, LogoutInsert, LogoutProvider, LogoutFails, CloseAtProvider, OpenAtProvider, NoLogout
<1>12. CASE Access
  BY <1>12 DEF Access, Block, Unblock, Begun
<1>13. CASE EndOne
  BY <1>13 DEF EndOne, Revoke, IngestLogout
<1>14. CASE LogoutOne
  BY <1>14 DEF LogoutOne, Logout, CloseAtProvider, OpenAtProvider
<1>15. ASSUME NEW e \in BOOLEAN, Redeploy(e)
       PROVE  SessionsTypeOK'
  BY <1>15 DEF Redeploy, NoLogout, Idle
<1>16. CASE UNCHANGED vars
  BY <1>16 DEF vars, sessionVars
<1> QED
  BY <1>1, <1>2, <1>3, <1>4, <1>5, <1>6, <1>7, <1>8, <1>9, <1>10, <1>11, <1>12, <1>13, <1>14, <1>15, <1>16 DEF Next

\* Tokens, sockets and requests go with sessions that began.
LEMMA BeganStep ==
    ASSUME SessionsTypeOK, InUseBegan, [Next]_vars
    PROVE  InUseBegan'
<1> USE NoneAssumption DEF SessionsTypeOK, Calls, Steps, InUseBegan, Begun
<1>1. ASSUME NEW c \in Clients, Arrive(c)
       PROVE  InUseBegan'
  BY <1>1 DEF Arrive, Refresh, Request, Login, DeveloperLogin, Receive, Unused, Over, Withdrawn, Idle
<1>2. ASSUME NEW c \in Clients, Open(c)
       PROVE  InUseBegan'
  BY <1>2 DEF Open, Step
<1>3. ASSUME NEW c \in Clients, Register(c)
       PROVE  InUseBegan'
  BY <1>3, Moving DEF Register, Moved, Step, Refuse, Idle
<1>4. ASSUME NEW c \in Clients, Handle(c)
       PROVE  InUseBegan'
  BY <1>4, Moving DEF Handle, Moved, Step, Refuse, Idle
<1>5. ASSUME NEW c \in Clients, CommitRow(c)
       PROVE  InUseBegan'
  BY <1>5, Moving DEF CommitRow, Commit, Moved, Step, Refuse, Idle
<1>6. ASSUME NEW c \in Clients, Admit(c)
       PROVE  InUseBegan'
  BY <1>6 DEF Admit, Idle
<1>7. CASE Leave
  BY <1>7 DEF Leave, Disconnect, Refuse, Idle
<1>8. CASE Tokens
  BY <1>8 DEF Tokens, Renew, Renewed, TokenExpires
<1>9. ASSUME NEW s \in Sessions, Broker(s)
       PROVE  InUseBegan'
  BY <1>9 DEF Broker, Unused
<1>10. CASE DayPasses
  BY <1>10 DEF DayPasses, NoLogout, Idle
<1>11. CASE AdminLogout
  BY <1>11 DEF AdminLogout, LogoutCleanup, LogoutList, LogoutInsert, LogoutProvider, LogoutFails, CloseAtProvider, OpenAtProvider, NoLogout
<1>12. CASE Access
  BY <1>12 DEF Access, Block, Unblock, Begun
<1>13. CASE EndOne
  BY <1>13 DEF EndOne, Revoke, IngestLogout
<1>14. CASE LogoutOne
  BY <1>14 DEF LogoutOne, Logout, CloseAtProvider, OpenAtProvider
<1>15. ASSUME NEW e \in BOOLEAN, Redeploy(e)
       PROVE  InUseBegan'
  BY <1>15 DEF Redeploy, NoLogout, Idle
<1>16. CASE UNCHANGED vars
  BY <1>16 DEF vars, sessionVars
<1> QED
  BY <1>1, <1>2, <1>3, <1>4, <1>5, <1>6, <1>7, <1>8, <1>9, <1>10, <1>11, <1>12, <1>13, <1>14, <1>15, <1>16 DEF Next

\* A logout revokes before it ends.
LEMMA LogoutStep ==
    ASSUME SessionsTypeOK, LogoutInv, [Next]_vars
    PROVE  LogoutInv'
<1> USE NoneAssumption DEF SessionsTypeOK, Calls, Steps, LogoutInv, Begun
<1>1. ASSUME NEW c \in Clients, Arrive(c)
       PROVE  LogoutInv'
  BY <1>1 DEF Arrive, Refresh, Request, Login, DeveloperLogin, Receive, Unused, Over, Withdrawn, Idle
<1>2. ASSUME NEW c \in Clients, Open(c)
       PROVE  LogoutInv'
  BY <1>2 DEF Open, Step
<1>3. ASSUME NEW c \in Clients, Register(c)
       PROVE  LogoutInv'
  BY <1>3 DEF Register, Step, Refuse, Idle
<1>4. ASSUME NEW c \in Clients, Handle(c)
       PROVE  LogoutInv'
  BY <1>4 DEF Handle, Result, Check, Checks, Refused, After, Checkpointed, Capture, Fail, Step, Refuse, Idle
<1>5. ASSUME NEW c \in Clients, CommitRow(c)
       PROVE  LogoutInv'
  BY <1>5 DEF CommitRow, Commit, Step, Refuse, Idle
<1>6. ASSUME NEW c \in Clients, Admit(c)
       PROVE  LogoutInv'
  BY <1>6 DEF Admit, Idle
<1>7. CASE Leave
  BY <1>7 DEF Leave, Disconnect, Refuse, Idle
<1>8. CASE Tokens
  BY <1>8 DEF Tokens, Renew, Renewed, TokenExpires
<1>9. ASSUME NEW s \in Sessions, Broker(s)
       PROVE  LogoutInv'
  BY <1>9 DEF Broker, Unused
<1>10. CASE DayPasses
  BY <1>10 DEF DayPasses, NoLogout, Idle
<1>11. CASE AdminLogout
  BY <1>11 DEF AdminLogout, LogoutCleanup, LogoutList, LogoutInsert, LogoutProvider, LogoutFails, CloseAtProvider, OpenAtProvider, NoLogout
<1>12. CASE Access
  BY <1>12 DEF Access, Block, Unblock, Begun
<1>13. CASE EndOne
  BY <1>13 DEF EndOne, Revoke, IngestLogout
<1>14. CASE LogoutOne
  BY <1>14 DEF LogoutOne, Logout, CloseAtProvider, OpenAtProvider
<1>15. ASSUME NEW e \in BOOLEAN, Redeploy(e)
       PROVE  LogoutInv'
  BY <1>15 DEF Redeploy, NoLogout, Idle
<1>16. CASE UNCHANGED vars
  BY <1>16 DEF vars, sessionVars
<1> QED
  BY <1>1, <1>2, <1>3, <1>4, <1>5, <1>6, <1>7, <1>8, <1>9, <1>10, <1>11, <1>12, <1>13, <1>14, <1>15, <1>16 DEF Next

\* An ending lasts.
LEMMA EndedStep ==
    ASSUME SessionsTypeOK, InUseBegan, LogoutInv, StaysEnded, [Next]_vars
    PROVE  StaysEnded'
<1> USE NoneAssumption DEF SessionsTypeOK, Calls, Steps, InUseBegan, LogoutInv, Begun, StaysEnded, Barred, LoggedOut, Silent
<1>1. ASSUME NEW c \in Clients, Arrive(c)
       PROVE  StaysEnded'
  BY <1>1 DEF Arrive, Refresh, Request, Login, DeveloperLogin, Receive, Unused, Over, Withdrawn, Idle
<1>2. ASSUME NEW c \in Clients, Open(c)
       PROVE  StaysEnded'
  BY <1>2 DEF Open, Step
<1>3. ASSUME NEW c \in Clients, Register(c)
       PROVE  StaysEnded'
  BY <1>3, Moving DEF Register, Moved, Step, Refuse, Idle
<1>4. ASSUME NEW c \in Clients, Handle(c)
       PROVE  StaysEnded'
  BY <1>4, Moving DEF Handle, Moved, Step, Refuse, Idle
<1>5. ASSUME NEW c \in Clients, CommitRow(c)
       PROVE  StaysEnded'
  BY <1>5, Moving DEF CommitRow, Commit, Moved, Step, Refuse, Idle
<1>6. ASSUME NEW c \in Clients, Admit(c)
       PROVE  StaysEnded'
  BY <1>6 DEF Admit, Idle
<1>7. CASE Leave
  BY <1>7 DEF Leave, Disconnect, Refuse, Idle
<1>8. CASE Tokens
  BY <1>8 DEF Tokens, Renew, Renewed, TokenExpires
<1>9. ASSUME NEW s \in Sessions, Broker(s)
       PROVE  StaysEnded'
  BY <1>9 DEF Broker, Unused
<1>10. CASE DayPasses
  BY <1>10 DEF DayPasses, NoLogout, Idle
<1>11. CASE AdminLogout
  BY <1>11 DEF AdminLogout, LogoutCleanup, LogoutList, LogoutInsert, LogoutProvider, LogoutFails, CloseAtProvider, OpenAtProvider, NoLogout
<1>12. CASE Access
  <2>1. CASE Block
    BY <1>12, <2>1 DEF Access, Block, Begun
  <2>2. CASE UNCHANGED <<outlived, membership, ended>>
    BY <1>12, <2>2 DEF Access
  <2> QED
    BY <1>12, <2>1, <2>2 DEF Access
<1>13. CASE EndOne
  BY <1>13 DEF EndOne, Revoke, IngestLogout
<1>14. CASE LogoutOne
  BY <1>14 DEF LogoutOne, Logout, CloseAtProvider, OpenAtProvider
<1>15. ASSUME NEW e \in BOOLEAN, Redeploy(e)
       PROVE  StaysEnded'
  BY <1>15 DEF Redeploy, NoLogout, Idle
<1>16. CASE UNCHANGED vars
  BY <1>16 DEF vars, sessionVars
<1> QED
  BY <1>1, <1>2, <1>3, <1>4, <1>5, <1>6, <1>7, <1>8, <1>9, <1>10, <1>11, <1>12, <1>13, <1>14, <1>15, <1>16 DEF Next

\* Each check passed by a late request narrows what the next ones must find.
LEMMA LateStep ==
    ASSUME SessionsTypeOK, StaysEnded, LateCalls, WithdrawnSessions \subseteq WithdrawnSessions', [Next]_vars
    PROVE  LateCalls'
<1> USE NoneAssumption DEF SessionsTypeOK, Calls, Steps, StaysEnded, Barred, LoggedOut, Silent, LateCalls, LateCall
<1>1. ASSUME NEW c \in Clients, Arrive(c)
       PROVE  LateCalls'
  <2>1. PICK kind \in {"login", "guard"}, s \in Sessions, step \in {"password", "revocation"} :
          Receive(c, kind, s, step) /\ (kind = "guard" => step = "revocation")
    BY <1>1, Received
  <2> DEFINE k == [step |-> step, kind |-> kind, session |-> s, late |-> Over(s)]
  <2>2. call' = [call EXCEPT ![c] = k]
    BY <2>1 DEF Receive
  <2>3. kind = "guard" /\ Over(s) => s \in ended' \cup WithdrawnSessions'
    BY <1>1 DEF Over, WithdrawnSessions, Arrive
  <2> QED
    BY <1>1, <2>1, <2>2, <2>3 DEF Arrive
<1>2. ASSUME NEW c \in Clients, Open(c)
       PROVE  LateCalls'
  BY <1>2 DEF Open, Step
<1>3. ASSUME NEW c \in Clients, Register(c)
       PROVE  LateCalls'
  BY <1>3 DEF Register, Step, Refuse, Idle
<1>4. ASSUME NEW c \in Clients, Handle(c)
       PROVE  LateCalls'
  <2> DEFINE k == call[c]
  <2>1. CASE Check(c)
    <3> SUFFICES ASSUME k.kind = "guard", k.late, ~Refused(k.step, k.session)
                 PROVE  LateCalls'
      BY <1>4, <2>1 DEF Handle, Check, Checks, Step, Refuse, Idle
    <3>1. LateCall(k) /\ k \in Calls /\ k.session \in Sessions
      BY <2>1 DEF Check, Checks
    <3>2. k.step # "membership"
      BY <3>1 DEF Refused
    <3>3. k.step = "revocation" => LateCall([k EXCEPT !.step = "developer"])
      BY <3>1 DEF Refused
    <3>4. k.step = "developer" => LateCall([k EXCEPT !.step = "user"])
      BY <3>1 DEF Refused, DeveloperAllowed, WithdrawnSessions, Withdrawn
    <3>5. k.step = "user" => LateCall([k EXCEPT !.step = "access"])
      BY <3>1 DEF Refused
    <3>6. k.step = "access" => LateCall([k EXCEPT !.step = "membership"])
      BY <3>1 DEF Refused
    <3> QED
      BY <1>4, <2>1, <3>1, <3>2, <3>3, <3>4, <3>5, <3>6 DEF Handle, Check, Checks, After, Step
  <2>2. CASE Fail(c)
    BY <1>4, <2>2 DEF Handle, Fail, Step, Refuse, Idle
  <2>3. CASE Result(c) /\ UNCHANGED socket
    BY <1>4, <2>3 DEF Handle, Result, Step
  <2>4. CASE Checkpointed(c)
    BY <1>4, <2>4 DEF Handle, Checkpointed, Step
  <2>5. CASE Capture(c)
    <3>1. ~(k.kind = "guard" /\ k.late)
      BY <2>5 DEF Capture
    <3>2. call'[c].kind = Idle.kind \/ (call'[c].kind = k.kind /\ call'[c].late = k.late)
      BY <1>4, Moving DEF Moved, Step, Refuse
    <3>3. \A d \in Clients \ {c} : call'[d] = call[d]
      BY <1>4, Moving DEF Moved, Step, Refuse
    <3> QED
      BY <1>4, <3>1, <3>2, <3>3 DEF Handle, Idle
  <2> QED
    BY <1>4, <2>1, <2>2, <2>3, <2>4, <2>5 DEF Handle
<1>5. ASSUME NEW c \in Clients, CommitRow(c)
       PROVE  LateCalls'
  BY <1>5 DEF CommitRow, Commit, Step, Refuse, Idle
<1>6. ASSUME NEW c \in Clients, Admit(c)
       PROVE  LateCalls'
  BY <1>6 DEF Admit, Idle
<1>7. CASE Leave
  BY <1>7 DEF Leave, Disconnect, Refuse, Idle
<1>8. CASE Tokens
  BY <1>8 DEF Tokens, Renew, Renewed, TokenExpires
<1>9. ASSUME NEW s \in Sessions, Broker(s)
       PROVE  LateCalls'
  BY <1>9 DEF Broker, Unused
<1>10. CASE DayPasses
  BY <1>10 DEF DayPasses, NoLogout, Idle
<1>11. CASE AdminLogout
  BY <1>11 DEF AdminLogout, LogoutCleanup, LogoutList, LogoutInsert, LogoutProvider, LogoutFails, CloseAtProvider, OpenAtProvider, NoLogout
<1>12. CASE Access
  <2>1. CASE Block
    BY <1>12, <2>1 DEF Access, Block, Begun
  <2>2. CASE UNCHANGED <<outlived, membership, ended>>
    BY <1>12, <2>2 DEF Access
  <2> QED
    BY <1>12, <2>1, <2>2 DEF Access
<1>13. CASE EndOne
  BY <1>13 DEF EndOne, Revoke, IngestLogout
<1>14. CASE LogoutOne
  BY <1>14 DEF LogoutOne, Logout, CloseAtProvider, OpenAtProvider
<1>15. ASSUME NEW e \in BOOLEAN, Redeploy(e)
       PROVE  LateCalls'
  BY <1>15 DEF Redeploy, NoLogout, Idle
<1>16. CASE UNCHANGED vars
  BY <1>16 DEF vars, sessionVars
<1> QED
  BY <1>1, <1>2, <1>3, <1>4, <1>5, <1>6, <1>7, <1>8, <1>9, <1>10, <1>11, <1>12, <1>13, <1>14, <1>15, <1>16 DEF Next

\* Every step of the sessions is a step of developer access, or leaves it alone.
LEMMA DeveloperPart == SessionsTypeOK /\ [Next]_vars => [DeveloperNext]_developerVars
<1> SUFFICES ASSUME SessionsTypeOK, [Next]_vars PROVE [DeveloperNext]_developerVars
  OBVIOUS
<1>1. ASSUME NEW c \in Clients, Arrive(c) PROVE [DeveloperNext]_developerVars
  BY <1>1 DEF Arrive, DeveloperLogin, Login, DeveloperNext
<1>2. ASSUME NEW c \in Clients, Register(c) PROVE [DeveloperNext]_developerVars
  BY <1>2 DEF Register, DeveloperNext, SessionsTypeOK
<1>3. CASE Access
  <2>1. SetActive(FALSE) \/ SetActive(TRUE) => DeveloperNext
    BY DEF DeveloperNext
  <2> QED
    BY <1>3, <2>1 DEF Access, Block, Unblock, DeveloperNext
<1>4. CASE UNCHANGED vars
  BY <1>4 DEF vars
<1>5. CASE \E c \in Clients : Open(c) \/ Handle(c) \/ CommitRow(c) \/ Admit(c)
  BY <1>5 DEF Open, Handle, CommitRow, Admit
<1>6. CASE Leave \/ Tokens \/ (\E s \in Sessions : Broker(s)) \/ DayPasses
  BY <1>6 DEF Leave, Tokens, Broker, DayPasses
<1>7. CASE AdminLogout \/ EndOne \/ LogoutOne \/ (\E e \in BOOLEAN : Redeploy(e))
  BY <1>7 DEF AdminLogout, EndOne, LogoutOne, Redeploy
<1> QED
  BY <1>1, <1>2, <1>3, <1>4, <1>5, <1>6, <1>7 DEF Next

\* The types hold of every reachable state.
LEMMA SessionsTypes == Spec => []SessionsTypeOK
<1>1. Init => SessionsTypeOK
  BY DEF Init, SessionsTypeOK, Calls, Steps, Idle, NoLogout
<1> QED
  BY <1>1, SessionsTypeStep, PTL DEF Spec

\* The sessions implement developer access: its theorems hold of them.
THEOREM SessionsImplementDeveloperAccess == Spec => DeveloperSpec
<1>1. Init => DeveloperInit
  BY DEF Init
<1> QED
  BY <1>1, DeveloperPart, SessionsTypes, PTL DEF Spec, DeveloperSpec

\* "Previously revoked sessions cannot revive", with sign-ins, requests and
\* redeployments in between (developer-access.service.ts).
THEOREM WithdrawnSessionsStayWithdrawn == Spec => WithdrawnStaysWithdrawn
BY SessionsImplementDeveloperAccess, DeveloperSessionsStayWithdrawn, PTL

\* SessionsInv is inductive, relative to the markers being past.
LEMMA SessionsStep == SessionsInv /\ DeveloperInv /\ [Next]_vars => SessionsInv'
<1> SUFFICES ASSUME SessionsInv, DeveloperInv, [Next]_vars PROVE SessionsInv'
  OBVIOUS
<1>1. [DeveloperNext]_developerVars
  BY DeveloperPart DEF SessionsInv
<1>2. WithdrawnSessions \subseteq WithdrawnSessions'
  BY <1>1, WithdrawnStep DEF WithdrawnSessions
<1>3. SessionsTypeOK' /\ InUseBegan' /\ LogoutInv' /\ StaysEnded' /\ LateCalls'
  BY <1>2, SessionsTypeStep, BeganStep, LogoutStep, EndedStep, LateStep DEF SessionsInv
<1> QED
  BY <1>3 DEF SessionsInv

\* Every reachable state keeps each ended session ended in one of the places the
\* guard reads after the ones a late request has passed.
THEOREM SessionsInvariant == Spec => []SessionsInv
<1>1. Init => SessionsInv
  <2> SUFFICES ASSUME Init PROVE SessionsInv
    OBVIOUS
  <2>1. SessionsTypeOK
    BY DEF Init, SessionsTypeOK, Calls, Steps, Idle, NoLogout
  <2>2. InUseBegan /\ LogoutInv /\ StaysEnded /\ LateCalls
    BY DEF Init, InUseBegan, LogoutInv, StaysEnded, LateCalls, Idle, NoLogout
  <2> QED
    BY <2>1, <2>2 DEF SessionsInv
<1>2. Spec => []DeveloperInv
  BY SessionsImplementDeveloperAccess, DeveloperInvariant, PTL
<1> QED
  BY <1>1, <1>2, SessionsStep, PTL DEF Spec

\* "Old sessions stay ended": a request that arrives after its session was ended is
\* refused, for any number of sessions and connections and any interleaving of
\* the guard's queries with administrators, renewals and restarts.
THEOREM EndedSessionsAreRefused == Spec => []EndedIsRefused
<1>1. SessionsInv => EndedIsRefused
  BY DEF SessionsInv, LateCalls, LateCall, EndedIsRefused
<1> QED
  BY <1>1, SessionsInvariant, PTL
=============================================================================
