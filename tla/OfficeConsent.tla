--------------------------- MODULE OfficeConsent ---------------------------
(***************************************************************************)
(* A member's consent to office location checks, on one browser            *)
(* (OfficeConsentService).  The browser has one preference; each sign-in   *)
(* on it has a location state with a lease, which one tab holds while it   *)
(* asks for consent and takes the position.                                *)
(*                                                                         *)
(* A request first looks at the unit's geofence and the sign-in (ready),   *)
(* then runs a transaction under the lock of the member and browser.  A    *)
(* check uses up its challenge in Redis in between.                        *)
(***************************************************************************)
EXTENDS Integers, Sequences, FiniteSets

CONSTANTS
    Logins,         \* sign-ins on the browser
    Tabs,           \* where requests come from, one at a time
    MaxLeases,      \* bound on leases
    MaxAsked        \* bound on requests, and on what others do

ASSUME OfficeConsentAssumption == {MaxLeases, MaxAsked} \subseteq Nat

VARIABLES
    open,           \* sign-ins that are neither revoked nor expired
    fence,          \* the feature is on and the member's unit has a geofence
    version,        \* of the notice
    preference,     \* decision and the notice it is about
    place,          \* sign-in |-> its location state
    leases,         \* leases so far, which number them
    challenges,     \* in Redis: sign-in, lease, number
    asking,         \* tab |-> its request
    asked,          \* requests and changes so far
    checks,         \* stored location checks: lease, and what `agreed` was
    agreed          \* what the member last said of the notice in force

consentVars == <<open, fence, version, preference, place, leases, challenges, asking, asked, checks, agreed>>

Silent == [kind |-> "none"]
Undecided == [decision |-> "unknown", version |-> 0]
NoState == [status |-> "none", version |-> 0, lease |-> 0, live |-> FALSE]
Terminal == {"declined", "checked", "browser_denied", "unavailable"}

Counted == asked < MaxAsked /\ asked' = asked + 1
Accepted == preference = [decision |-> "accepted", version |-> version]

----------------------------------------------------------------------------
(* Requests, after ready() *)

\* What a tab may send for a sign-in, with the lease it has now; it may be
\* another by the time the request is handled.
Sendable(l) ==
    LET known == {place[l].lease} \ {0}
    IN   [kind : {"notice", "collect"}, login : {l}, lease : {0} \cup known, manual : BOOLEAN]
    \cup [kind : {"accepted", "declined", "browser_denied", "unavailable"}, login : {l}, lease : known]
    \cup [kind : {"challenge"}, login : {l}, lease : known, number : {asked}]
    \cup {[kind |-> "check", login |-> l, challenge |-> c] : c \in {c \in challenges : c.login = l}}

Sends(t) ==
    /\ asking[t] = Silent /\ Counted
    /\ \E l \in open : \/ fence /\ \E r \in Sendable(l) : asking' = [asking EXCEPT ![t] = r]
                       \/ asking' = [asking EXCEPT ![t] = [kind |-> "withdraw", login |-> l]]
    /\ UNCHANGED <<open, fence, version, preference, place, leases, challenges, checks, agreed>>

Answered(t) == asking' = [asking EXCEPT ![t] = Silent]

\* assertLease
Leased(l, lease) == place[l].lease = lease /\ place[l].live /\ place[l].status \notin Terminal

\* A lease is renewed, refused while another is live or the state is settled
\* (unless the member asks), refused for collecting without consent, or new.
Claim(t) ==
    /\ asking[t].kind \in {"notice", "collect"}
    /\ LET r == asking[t]
           l == r.login
           row == IF place[l] = NoState THEN [NoState EXCEPT !.status = "pending", !.version = version] ELSE place[l]
           refused == \/ r.lease # 0 /\ Leased(l, r.lease)
                      \/ row.live
                      \/ ~r.manual /\ row.version = version /\ row.status \in Terminal
                      \/ r.kind = "collect" /\ ~Accepted
       IN IF refused THEN place' = [place EXCEPT ![l] = row] /\ UNCHANGED leases
          ELSE /\ leases < MaxLeases /\ leases' = leases + 1
               /\ place' = [place EXCEPT ![l] = [status |-> IF r.kind = "collect" THEN "collecting" ELSE "prompting",
                                                 version |-> version, lease |-> leases + 1, live |-> TRUE]]
    /\ Answered(t)
    /\ UNCHANGED <<open, fence, version, preference, challenges, asked, checks, agreed>>

\* A repeated decision is answered and changes nothing.
Decide(t) ==
    /\ asking[t].kind \in {"accepted", "declined"}
    /\ LET r == asking[t]
           next == IF r.kind = "accepted" THEN "collecting" ELSE "declined"
           again == place[r.login].status = next /\ place[r.login].lease = r.lease
       IN IF again \/ ~Leased(r.login, r.lease) THEN UNCHANGED <<preference, place, agreed>>
          ELSE /\ preference' = [decision |-> r.kind, version |-> version]
               /\ place' = [place EXCEPT ![r.login].status = next, ![r.login].live = (r.kind = "accepted")]
               /\ agreed' = (r.kind = "accepted")
    /\ Answered(t)
    /\ UNCHANGED <<open, fence, version, leases, challenges, asked, checks>>

\* The browser has no position to give.
Outcome(t) ==
    /\ asking[t].kind \in {"browser_denied", "unavailable"}
    /\ LET r == asking[t]
       IN place' = IF Leased(r.login, r.lease)
                   THEN [place EXCEPT ![r.login].status = r.kind, ![r.login].live = FALSE] ELSE place
    /\ Answered(t)
    /\ UNCHANGED <<open, fence, version, preference, leases, challenges, asked, checks, agreed>>

\* The preference is withdrawn for the browser, the state settled for this sign-in.
Withdraw(t) ==
    /\ asking[t].kind = "withdraw"
    /\ LET l == asking[t].login
       IN /\ preference' = IF preference = Undecided THEN preference ELSE [preference EXCEPT !.decision = "declined"]
          /\ place' = [place EXCEPT ![l] = IF @ = NoState THEN [@ EXCEPT !.status = "declined", !.version = version]
                                           ELSE [@ EXCEPT !.status = "declined", !.live = FALSE]]
    /\ agreed' = FALSE
    /\ Answered(t)
    /\ UNCHANGED <<open, fence, version, leases, challenges, asked, checks>>

\* The state is read without a lock; the challenge lives for a minute.
Challenge(t) ==
    /\ asking[t].kind = "challenge"
    /\ LET r == asking[t]
       IN challenges' = IF Leased(r.login, r.lease) /\ place[r.login].status = "collecting"
                        THEN challenges \cup {[login |-> r.login, lease |-> r.lease, number |-> r.number]}
                        ELSE challenges
    /\ Answered(t)
    /\ UNCHANGED <<open, fence, version, preference, place, leases, asked, checks, agreed>>

ConsumeChallenge(t) ==
    /\ asking[t].kind = "check"
    /\ IF asking[t].challenge \notin challenges THEN Answered(t) /\ UNCHANGED challenges
       ELSE /\ challenges' = challenges \ {asking[t].challenge}
            /\ asking' = [asking EXCEPT ![t].kind = "store"]
    /\ UNCHANGED <<open, fence, version, preference, place, leases, asked, checks, agreed>>

\* Mutant: the position was asked for with consent, so it is stored.
MayStoreOnceAsked(l, lease) == fence /\ Leased(l, lease) /\ place[l].status = "collecting"
MayStore(l, lease) == fence /\ Leased(l, lease) /\ place[l].status = "collecting" /\ Accepted

StoreCheck(t) ==
    /\ asking[t].kind = "store"
    /\ LET l == asking[t].login
           lease == asking[t].challenge.lease
       IN IF ~MayStore(l, lease) THEN UNCHANGED <<checks, place>>
          ELSE /\ checks' = Append(checks, [lease |-> lease, agreed |-> agreed])
               /\ place' = [place EXCEPT ![l].status = "checked", ![l].live = FALSE]
    /\ Answered(t)
    /\ UNCHANGED <<open, fence, version, preference, leases, challenges, asked, agreed>>

----------------------------------------------------------------------------
(* Time, and what others do *)

LeaseEnds == /\ \E l \in Logins : place[l].live /\ place' = [place EXCEPT ![l].live = FALSE]
             /\ UNCHANGED <<open, fence, version, preference, leases, challenges, asking, asked, checks, agreed>>

ChallengeEnds == /\ \E c \in challenges : challenges' = challenges \ {c}
                 /\ UNCHANGED <<open, fence, version, preference, place, leases, asking, asked, checks, agreed>>

\* createLogin for a new sign-in; the session ends.
SignsIn == /\ \E l \in Logins \ open : place[l] = NoState /\ open' = open \cup {l}
           /\ UNCHANGED <<fence, version, preference, place, leases, challenges, asking, asked, checks, agreed>>
SignsOut == /\ Counted /\ \E l \in open : place[l] # NoState /\ open' = open \ {l}
            /\ UNCHANGED <<fence, version, preference, place, leases, challenges, asking, checks, agreed>>

\* saveUnitGeofence, by an administrator of the unit.
SaveUnitGeofence == /\ Counted /\ fence' = ~fence
                    /\ UNCHANGED <<open, version, preference, place, leases, challenges, asking, checks, agreed>>

\* A release with a new notice restarts the server: requests end.
NewNotice == /\ Counted /\ version' = version + 1
             /\ agreed' = FALSE /\ asking' = [t \in Tabs |-> Silent]
             /\ UNCHANGED <<open, fence, preference, place, leases, challenges, checks>>

ConsentInit ==
    /\ open = {} /\ fence = TRUE /\ version = 1 /\ preference = Undecided
    /\ place = [l \in Logins |-> NoState] /\ leases = 0 /\ challenges = {}
    /\ asking = [t \in Tabs |-> Silent] /\ asked = 0 /\ checks = <<>> /\ agreed = FALSE

ConsentNext ==
    \/ LeaseEnds \/ ChallengeEnds \/ SignsIn \/ SignsOut \/ SaveUnitGeofence \/ NewNotice
    \/ \E t \in Tabs : Sends(t) \/ Claim(t) \/ Decide(t) \/ Outcome(t) \/ Withdraw(t) \/ Challenge(t)
                       \/ ConsumeChallenge(t) \/ StoreCheck(t)

ConsentSpec == ConsentInit /\ [][ConsentNext]_consentVars

----------------------------------------------------------------------------
(* A position is stored only while what the member last said, in whichever *)
(* sign-in on the browser, is that he accepts the notice in force; and a   *)
(* lease stores at most one, though tabs take several challenges for it    *)
(* and the consent is withdrawn, or the notice replaced, in between.       *)
ChecksAreConsented ==
    /\ \A i \in DOMAIN checks : checks[i].agreed
    /\ \A i, j \in DOMAIN checks : checks[i].lease = checks[j].lease => i = j
=============================================================================
