--------------------------- MODULE AccountsProofs ---------------------------
(* Accounts and workspaces: the sender of system mail, consent to location   *)
(* checks, links, imports, host names, seats and administrators, for any     *)
(* number of members, workspaces, requests and overlaps.                     *)
EXTENDS Members, Credentials, SystemMail, OfficeConsent, Imports, Workspaces,
        FiniteSetTheorems, SequenceTheorems, TLAPS

(* The sender of system mail *)

SenderRow == [domain : Domains \cup {NoDomain}, verified : BOOLEAN, mode : {"platform", "mailbox", "domain"}]

\* What an administrator's request carries at each step.
SenderTask ==
         {Unasked}
    \cup [step : {"other", "save"}, row : SenderRow, domain : Domains]
    \cup [step : {"owns", "brevo", "send"}, row : SenderRow]
    \cup [step : {"verify"}, row : SenderRow, found : BOOLEAN]
    \cup [step : {"mode", "set"}, row : SenderRow, mode : {"platform", "mailbox", "domain"}]

\* A row that is marked as verified, in the table or in a request that read
\* it, was proved, and so is what a check has found.
SenderInv ==
    /\ sender \in [Workspaces -> SenderRow]
    /\ task \in [ChairAdmins -> SenderTask]
    /\ \A w \in Workspaces : sender[w].verified => <<w, sender[w].domain>> \in proved
    /\ \A a \in ChairAdmins : task[a] # Unasked /\ task[a].row.verified => <<Chair[a], task[a].row.domain>> \in proved
    /\ \A a \in ChairAdmins : task[a].step = "verify" /\ task[a].found => <<Chair[a], task[a].row.domain>> \in proved
    /\ sentAs \subseteq proved

\* A request that begins carries the row as it is.
LEMMA SenderAsks ==
    ASSUME SenderInv, NEW a \in ChairAdmins, NEW request \in SenderTask, Ask(a, request),
           request # Unasked, request.step # "verify", request.row = Row(a)
    PROVE  SenderInv'
<1>1. Chair[a] \in Workspaces
  BY SystemMailAssumption DEF ChairAdmins
<1>2. \A b \in ChairAdmins : task'[b] = IF b = a THEN request ELSE task[b]
  BY DEF Ask, SenderInv
<1>3. task' \in [ChairAdmins -> SenderTask]
  BY DEF Ask, SenderInv
<1> QED
  BY <1>1, <1>2, <1>3 DEF Ask, SenderInv, Row, worldVars

\* A step of a request that keeps its row, and leaves the table, the proofs and the mails alone.
LEMMA SenderGoesOn ==
    ASSUME SenderInv, NEW a \in ChairAdmins, NEW next \in SenderTask, task' = [task EXCEPT ![a] = next],
           next # Unasked => next.row = task[a].row /\ task[a] # Unasked /\ next.step # "verify",
           UNCHANGED <<sender, proved, sentAs>>
    PROVE  SenderInv'
<1>1. \A b \in ChairAdmins : task'[b] = IF b = a THEN next ELSE task[b]
  BY DEF SenderInv
<1>2. task' \in [ChairAdmins -> SenderTask]
  BY DEF SenderInv
<1>3. Unasked.step # "verify"
  BY DEF Unasked
<1> QED
  BY <1>1, <1>2, <1>3 DEF SenderInv

\* Every step keeps what is marked as verified proved.
LEMMA SenderStep == SenderInv /\ [SystemMailNext]_senderVars => SenderInv'
<1> SUFFICES ASSUME SenderInv, [SystemMailNext]_senderVars
             PROVE  SenderInv'
  OBVIOUS
<1>0. Unasked \in SenderTask
  BY DEF SenderTask
<1>1. CASE WorldChanges \/ UNCHANGED senderVars
  BY <1>1 DEF WorldChanges, senderVars, SenderInv
<1>2. ASSUME NEW a \in ChairAdmins, SaveDomain(a) \/ VerifyDomain(a) \/ SetMode(a) \/ Send(a)
      PROVE  SenderInv'
  <2>1. Row(a) \in SenderRow
    BY SystemMailAssumption DEF Row, SenderInv, ChairAdmins
  <2>2. CASE SaveDomain(a)
    <3>1. PICK d \in Domains : Ask(a, [step |-> "other", row |-> Row(a), domain |-> d])
      BY <2>2 DEF SaveDomain
    <3> QED
      BY <2>1, <3>1, SenderAsks DEF SenderTask, Unasked
  <2>3. CASE VerifyDomain(a)
    BY <2>1, <2>3, SenderAsks DEF VerifyDomain, SenderTask, Unasked
  <2>4. CASE SetMode(a)
    <3>1. PICK mode \in {"platform", "mailbox", "domain"} : Ask(a, [step |-> "mode", row |-> Row(a), mode |-> mode])
      BY <2>4 DEF SetMode
    <3> QED
      BY <2>1, <3>1, SenderAsks DEF SenderTask, Unasked
  <2>5. CASE Send(a)
    BY <2>1, <2>5, SenderAsks DEF Send, SenderTask, Unasked
  <2> QED
    BY <1>2, <2>2, <2>3, <2>4, <2>5
<1>3. ASSUME NEW a \in ChairAdmins, Ends(a), UNCHANGED <<sender, proved, sentAs>>
      PROVE  SenderInv'
  BY <1>0, <1>3, SenderGoesOn DEF Ends
<1>4. ASSUME NEW a \in ChairAdmins, OtherWorkspace(a) \/ VerifyOwnership(a) \/ CheckMode(a)
      PROVE  SenderInv'
  <2>1. PICK t \in SenderTask : t = task[a]
    BY DEF SenderInv
  <2>2. PICK s : s = IF t.step = "other" THEN "save" ELSE IF t.step = "owns" THEN "brevo" ELSE "set"
    OBVIOUS
  <2>3. /\ t.step \in {"other", "owns", "mode"}
        /\ Goes(a, s) \/ Ends(a)
        /\ UNCHANGED <<sender, proved, sentAs>>
    <3>1. CASE OtherWorkspace(a)
      BY <2>1, <2>2, <3>1 DEF OtherWorkspace
    <3>2. CASE VerifyOwnership(a)
      BY <2>1, <2>2, <3>2 DEF VerifyOwnership
    <3>3. CASE CheckMode(a)
      BY <2>1, <2>2, <3>3 DEF CheckMode
    <3> QED
      BY <1>4, <3>1, <3>2, <3>3
  <2>4. [t EXCEPT !.step = s] \in SenderTask /\ [t EXCEPT !.step = s].row = t.row
        /\ [t EXCEPT !.step = s].step # "verify" /\ t # Unasked
    BY <2>1, <2>2, <2>3 DEF SenderTask, Unasked
  <2>5. CASE Goes(a, s)
    <3>1. task' = [task EXCEPT ![a] = [t EXCEPT !.step = s]]
      BY <2>1, <2>5 DEF Goes
    <3> QED
      BY <2>1, <2>3, <2>4, <3>1, SenderGoesOn
  <2> QED
    BY <1>3, <2>3, <2>5
<1>5. ASSUME NEW a \in ChairAdmins, VerifyBrevo(a)
      PROVE  SenderInv'
  <2>1. PICK t \in SenderTask : t = task[a]
    BY DEF SenderInv
  <2>2. t.row \in SenderRow /\ t # Unasked
    BY <1>5, <2>1 DEF VerifyBrevo, SenderTask, Unasked
  <2>3. CASE Ends(a) /\ UNCHANGED proved
    BY <1>3, <1>5, <2>3 DEF VerifyBrevo
  <2>4. CASE ~(Ends(a) /\ UNCHANGED proved)
    <3>1. PICK next : next = [step |-> "verify", row |-> t.row, found |-> t.row.domain \in brevo]
      OBVIOUS
    <3>2. /\ next \in SenderTask /\ next # Unasked /\ next.row = t.row
          /\ next.found = (t.row.domain \in brevo)
      BY <2>2, <3>1 DEF SenderTask, Unasked
    <3>3. task' = [task EXCEPT ![a] = next]
      BY <1>5, <2>1, <2>4, <3>1 DEF VerifyBrevo, SenderInv
    <3>4. /\ proved \subseteq proved' /\ sender' = sender /\ sentAs' = sentAs
          /\ t.row.domain \in brevo => <<Chair[a], t.row.domain>> \in proved'
      BY <1>5, <2>1, <2>4 DEF VerifyBrevo
    <3>5. \A b \in ChairAdmins : task'[b] = IF b = a THEN next ELSE task[b]
      BY <3>3 DEF SenderInv
    <3>6. task' \in [ChairAdmins -> SenderTask]
      BY <3>2, <3>3 DEF SenderInv
    <3> QED
      BY <2>1, <2>2, <3>2, <3>4, <3>5, <3>6 DEF SenderInv
  <2> QED
    BY <2>3, <2>4
<1>6. ASSUME NEW a \in ChairAdmins, NEW row \in SenderRow, Ends(a), UNCHANGED <<proved, sentAs>>,
             sender' = [sender EXCEPT ![Chair[a]] = row],
             row.verified => <<Chair[a], row.domain>> \in proved
      PROVE  SenderInv'
  <2>1. Chair[a] \in Workspaces
    BY SystemMailAssumption DEF ChairAdmins
  <2>2. /\ \A w \in Workspaces : sender'[w] = IF w = Chair[a] THEN row ELSE sender[w]
        /\ sender' \in [Workspaces -> SenderRow]
    BY <1>6, <2>1 DEF SenderInv
  <2>3. /\ \A b \in ChairAdmins : task'[b] = IF b = a THEN Unasked ELSE task[b]
        /\ task' \in [ChairAdmins -> SenderTask]
    BY <1>0, <1>6 DEF Ends, SenderInv
  <2>4. Unasked.step # "verify"
    BY DEF Unasked
  <2> QED
    BY <1>6, <2>1, <2>2, <2>3, <2>4 DEF SenderInv
<1>7. ASSUME NEW a \in ChairAdmins, WriteDomain(a) \/ WriteVerified(a) \/ WriteMode(a)
      PROVE  SenderInv'
  <2>1. PICK t \in SenderTask : t = task[a]
    BY DEF SenderInv
  <2>2. PICK old \in SenderRow : old = sender[Chair[a]]
    BY SystemMailAssumption DEF SenderInv, ChairAdmins
  <2>3. old.verified => <<Chair[a], old.domain>> \in proved
    BY <2>2, SystemMailAssumption DEF SenderInv, ChairAdmins
  <2>4. Ends(a) /\ UNCHANGED <<proved, sentAs>>
    BY <1>7 DEF WriteDomain, WriteVerified, WriteMode
  <2>5. CASE WriteDomain(a) /\ sender' # sender
    <3>1. PICK row : row = [old EXCEPT !.domain = t.domain, !.verified = (t.row.domain = t.domain /\ t.row.verified)]
      OBVIOUS
    <3>2. sender' = [sender EXCEPT ![Chair[a]] = row]
      BY <2>1, <2>2, <2>5, <3>1 DEF WriteDomain
    <3>3. t.domain \in Domains /\ t.row \in SenderRow /\ t # Unasked
      BY <2>1, <2>5 DEF WriteDomain, SenderTask, Unasked
    <3>4. /\ row \in SenderRow /\ row.domain = t.domain
          /\ row.verified = (t.row.domain = t.domain /\ t.row.verified)
      BY <3>1, <3>3 DEF SenderRow
    <3>5. t.row.verified => <<Chair[a], t.row.domain>> \in proved
      BY <2>1, <3>3 DEF SenderInv
    <3> QED
      BY <1>6, <2>4, <3>2, <3>4, <3>5
  <2>6. CASE WriteVerified(a) /\ SameDomain(a)
    <3>1. PICK row : row = [old EXCEPT !.verified = t.found]
      OBVIOUS
    <3>2. sender' = [sender EXCEPT ![Chair[a]] = row]
      BY <2>1, <2>2, <2>6, <3>1 DEF WriteVerified
    <3>3. t.found \in BOOLEAN /\ t.step = "verify" /\ old.domain = t.row.domain
      BY <2>1, <2>2, <2>6 DEF WriteVerified, SameDomain, Row, SenderTask, Unasked
    <3>4. row \in SenderRow /\ row.domain = old.domain /\ row.verified = t.found
      BY <3>1, <3>3 DEF SenderRow
    <3>5. t.found => <<Chair[a], t.row.domain>> \in proved
      BY <2>1, <3>3 DEF SenderInv
    <3> QED
      BY <1>6, <2>4, <3>2, <3>3, <3>4, <3>5
  <2>7. CASE WriteMode(a)
    <3>1. PICK row : row = [old EXCEPT !.mode = t.mode]
      OBVIOUS
    <3>2. sender' = [sender EXCEPT ![Chair[a]] = row]
      BY <2>1, <2>2, <2>7, <3>1 DEF WriteMode
    <3>3. t.mode \in {"platform", "mailbox", "domain"}
      BY <2>1, <2>7 DEF WriteMode, SenderTask, Unasked
    <3>4. row \in SenderRow /\ row.domain = old.domain /\ row.verified = old.verified
      BY <3>1, <3>3 DEF SenderRow
    <3> QED
      BY <1>6, <2>3, <2>4, <3>2, <3>4
  <2> QED
    BY <1>3, <1>7, <2>4, <2>5, <2>6, <2>7 DEF WriteVerified
<1>8. ASSUME NEW a \in ChairAdmins, Dispatch(a)
      PROVE  SenderInv'
  <2>1. PICK t \in SenderTask : t = task[a]
    BY DEF SenderInv
  <2>2. t # Unasked /\ (t.row.verified => <<Chair[a], t.row.domain>> \in proved)
    BY <1>8, <2>1 DEF Dispatch, SenderInv, Unasked
  <2>3. sentAs' \subseteq proved
    BY <1>8, <2>1, <2>2 DEF Dispatch, Usable, RequireDomain, SenderInv
  <2>4. /\ \A b \in ChairAdmins : task'[b] = IF b = a THEN Unasked ELSE task[b]
        /\ task' \in [ChairAdmins -> SenderTask]
    BY <1>0, <1>8 DEF Dispatch, Ends, SenderInv
  <2>5. Unasked.step # "verify" /\ UNCHANGED <<sender, proved>>
    BY <1>8 DEF Unasked, Dispatch
  <2> QED
    BY <2>3, <2>4, <2>5 DEF SenderInv
<1> QED
  BY <1>1, <1>2, <1>4, <1>5, <1>7, <1>8 DEF SystemMailNext

\* SystemMailService: for any number of administrators who save, check and
\* save again, a domain counts as verified, and mail leaves in its name, only
\* if its records were found for that workspace.
THEOREM VerifiedWasProvedHolds == SystemMailSpec => []VerifiedWasProved
<1>1. SystemMailInit => SenderInv
  BY DEF SystemMailInit, SenderInv, SenderRow, SenderTask, Unasked
<1>2. SenderInv => VerifiedWasProved
  BY DEF SenderInv, VerifiedWasProved
<1> QED
  BY <1>1, <1>2, SenderStep, PTL DEF SystemMailSpec

-----------------------------------------------------------------------------
(* Consent to location checks *)

LocationStatus == {"none", "pending", "prompting", "collecting"} \cup Terminal
LocationState == [status : LocationStatus, version : Nat, lease : Nat, live : BOOLEAN]
Preference == [decision : {"unknown", "accepted", "declined"}, version : Nat]
TakenChallenge == [login : Logins, lease : Nat, number : Nat]
ConsentRequest ==
         {Silent}
    \cup [kind : {"notice", "collect"}, login : Logins, lease : Nat, manual : BOOLEAN]
    \cup [kind : {"accepted", "declined", "browser_denied", "unavailable"}, login : Logins, lease : Nat]
    \cup [kind : {"challenge"}, login : Logins, lease : Nat, number : Nat]
    \cup [kind : {"check", "store"}, login : Logins, challenge : TakenChallenge]
    \cup [kind : {"withdraw"}, login : Logins]

\* Requests, and what the member last said: a preference for the notice in
\* force is one he holds to.
WordInv ==
    /\ open \subseteq Logins /\ asked \in Nat
    /\ challenges \subseteq TakenChallenge
    /\ asking \in [Tabs -> ConsentRequest]
    /\ version \in Nat /\ agreed \in BOOLEAN
    /\ preference \in Preference /\ preference.version <= version
    /\ Accepted => agreed

\* A lease belongs to one sign-in, and is over once it has stored a check.
LeasesInv ==
    /\ leases \in Nat /\ place \in [Logins -> LocationState]
    /\ \A l \in Logins : place[l].lease <= leases /\ (place[l].live => place[l].lease > 0)
    /\ \A l, k \in Logins : place[l].lease = place[k].lease /\ place[l].lease > 0 => l = k

StoredInv ==
    /\ checks \in Seq([lease : Nat, agreed : BOOLEAN])
    /\ \A i \in DOMAIN checks : checks[i].agreed /\ checks[i].lease \in 1..leases
    /\ \A i \in DOMAIN checks, l \in Logins : place[l].lease = checks[i].lease => ~place[l].live
    /\ \A i, j \in DOMAIN checks : checks[i].lease = checks[j].lease => i = j

ConsentInv == WordInv /\ LeasesInv /\ StoredInv

\* A sign-in's state changes under its lease, or gets a lease of its own.
LEMMA PlaceChanges ==
    ASSUME LeasesInv, NEW l \in Logins, NEW row \in LocationState, place' = [place EXCEPT ![l] = row],
           \/ row.lease = place[l].lease /\ (row.live => place[l].live) /\ leases' = leases
           \/ row.lease = leases + 1 /\ leases' = leases + 1
    PROVE  /\ LeasesInv'
           /\ StoredInv /\ checks' = checks => StoredInv'
<1>1. /\ \A k \in Logins : place'[k] = IF k = l THEN row ELSE place[k]
      /\ place' \in [Logins -> LocationState]
  BY DEF LeasesInv
<1>2. leases \in Nat /\ leases' \in Nat /\ row.lease \in Nat /\ \A k \in Logins : place[k].lease \in Nat
  BY DEF LeasesInv, LocationState, LocationStatus, Terminal
<1>3. LeasesInv'
  BY <1>1, <1>2 DEF LeasesInv
<1>4. ASSUME StoredInv, checks' = checks
      PROVE  StoredInv'
  BY <1>1, <1>2, <1>4 DEF LeasesInv, StoredInv
<1> QED
  BY <1>3, <1>4

\* The answer to a request.
LEMMA AnsweredType == ASSUME WordInv, NEW t \in Tabs, Answered(t)
                      PROVE  asking' \in [Tabs -> ConsentRequest]
BY DEF WordInv, Answered, ConsentRequest

\* What a request sends is a request.
LEMMA SendableType == ASSUME WordInv, LeasesInv, NEW l \in open, NEW r \in Sendable(l)
                      PROVE  r \in ConsentRequest
<1>1. l \in Logins /\ place[l].lease \in Nat /\ asked \in Nat
  BY DEF WordInv, LeasesInv, LocationState, LocationStatus, Terminal
<1>2. \A c \in challenges : c \in TakenChallenge
  BY DEF WordInv
<1> QED
  BY <1>1, <1>2 DEF Sendable, ConsentRequest

\* Every step keeps positions, leases and consent together.
LEMMA ConsentStep == ConsentInv /\ [ConsentNext]_consentVars => ConsentInv'
<1> SUFFICES ASSUME ConsentInv, [ConsentNext]_consentVars
             PROVE  ConsentInv'
  OBVIOUS
<1> USE DEF ConsentInv
<1>1. ASSUME NEW l \in Logins, NEW row \in LocationState, place' = [place EXCEPT ![l] = row],
             \/ row.lease = place[l].lease /\ (row.live => place[l].live) /\ leases' = leases
             \/ row.lease = leases + 1 /\ leases' = leases + 1,
             checks' = checks
      PROVE  LeasesInv' /\ StoredInv'
  BY <1>1, PlaceChanges
<1>2. ASSUME UNCHANGED <<place, leases, checks>>
      PROVE  LeasesInv' /\ StoredInv'
  BY <1>2 DEF LeasesInv, StoredInv
<1>3. ASSUME UNCHANGED <<version, preference, agreed, open>>, challenges' \subseteq TakenChallenge,
             asked' \in Nat, asking' \in [Tabs -> ConsentRequest]
      PROVE  WordInv'
  BY <1>3 DEF WordInv, Accepted
<1>4. CASE UNCHANGED consentVars
  BY <1>2, <1>3, <1>4 DEF consentVars, WordInv
<1>5. CASE LeaseEnds
  <2>1. PICK l \in Logins : place' = [place EXCEPT ![l].live = FALSE]
    BY <1>5 DEF LeaseEnds
  <2>2. PICK row : row = [place[l] EXCEPT !.live = FALSE]
    OBVIOUS
  <2>3. row \in LocationState /\ row.lease = place[l].lease /\ ~row.live
    BY <2>2 DEF LeasesInv, LocationState, LocationStatus, Terminal
  <2>4. place' = [place EXCEPT ![l] = row]
    BY <2>1, <2>2
  <2>5. LeasesInv' /\ StoredInv'
    BY <1>1, <1>5, <2>3, <2>4 DEF LeaseEnds
  <2> QED
    BY <1>3, <1>5, <2>5 DEF LeaseEnds, WordInv
<1>6. CASE ChallengeEnds
  BY <1>2, <1>3, <1>6 DEF ChallengeEnds, WordInv
<1>7. CASE SignsIn \/ SignsOut \/ SaveUnitGeofence
  <2>1. LeasesInv' /\ StoredInv'
    BY <1>2, <1>7 DEF SignsIn, SignsOut, SaveUnitGeofence
  <2>2. open' \subseteq Logins /\ asked' \in Nat /\ UNCHANGED <<version, preference, agreed, challenges, asking>>
    BY <1>7 DEF SignsIn, SignsOut, SaveUnitGeofence, Counted, WordInv
  <2> QED
    BY <2>1, <2>2 DEF WordInv, Accepted
<1>8. CASE NewNotice
  <2>1. asking' \in [Tabs -> ConsentRequest] /\ asked' \in Nat
    BY <1>8 DEF NewNotice, WordInv, ConsentRequest, Counted
  <2>2. version' \in Nat /\ version' > preference'.version /\ preference'.version \in Nat /\ preference' = preference
    BY <1>8 DEF NewNotice, WordInv, Preference
  <2>3. ~Accepted'
    BY <2>2 DEF Accepted
  <2>4. LeasesInv' /\ StoredInv'
    BY <1>2, <1>8 DEF NewNotice
  <2>5. agreed' = FALSE /\ UNCHANGED <<open, challenges>>
    BY <1>8 DEF NewNotice
  <2>6. preference'.version <= version'
    BY <2>2
  <2>7. WordInv'
    BY <2>1, <2>2, <2>3, <2>5, <2>6 DEF WordInv
  <2> QED
    BY <2>4, <2>7
<1>9. ASSUME NEW t \in Tabs, Sends(t)
      PROVE  ConsentInv'
  <2>1. PICK r : r \in ConsentRequest /\ asking' = [asking EXCEPT ![t] = r]
    <3>1. PICK l \in open : \/ \E r \in Sendable(l) : asking' = [asking EXCEPT ![t] = r]
                            \/ asking' = [asking EXCEPT ![t] = [kind |-> "withdraw", login |-> l]]
      BY <1>9 DEF Sends
    <3>2. [kind |-> "withdraw", login |-> l] \in ConsentRequest
      BY DEF ConsentRequest, WordInv
    <3> QED
      BY <3>1, <3>2, SendableType
  <2>2. asking' \in [Tabs -> ConsentRequest] /\ asked' \in Nat
    BY <1>9, <2>1 DEF WordInv, Sends, Counted
  <2> QED
    BY <1>2, <1>3, <1>9, <2>2 DEF Sends, WordInv
<1>10. ASSUME NEW t \in Tabs, Claim(t)
       PROVE  ConsentInv'
  <2>1. PICK r \in ConsentRequest : r = asking[t]
    BY DEF WordInv
  <2>2. r.login \in Logins /\ r.kind \in {"notice", "collect"}
    BY <1>10, <2>1 DEF Claim, ConsentRequest, Silent
  <2>3. PICK l \in Logins : l = r.login
    BY <2>2
  <2>4. PICK row : row = IF place[l] = NoState THEN [NoState EXCEPT !.status = "pending", !.version = version] ELSE place[l]
    OBVIOUS
  <2>5. row \in LocationState /\ row.lease = place[l].lease /\ row.live = place[l].live
    <3>1. place[l] \in LocationState /\ version \in Nat
      BY DEF LeasesInv, WordInv
    <3> QED
      BY <2>4, <3>1 DEF LocationState, LocationStatus, Terminal, NoState
  <2>6. PICK new : new = [status |-> IF r.kind = "collect" THEN "collecting" ELSE "prompting",
                          version |-> version, lease |-> leases + 1, live |-> TRUE]
    OBVIOUS
  <2>7. new \in LocationState /\ new.lease = leases + 1
    BY <2>6 DEF LocationState, LocationStatus, Terminal, LeasesInv, WordInv
  <2>8. \/ place' = [place EXCEPT ![l] = row] /\ leases' = leases
        \/ place' = [place EXCEPT ![l] = new] /\ leases' = leases + 1
    BY <1>10, <2>1, <2>3, <2>4, <2>6 DEF Claim
  <2>9. LeasesInv' /\ StoredInv'
    BY <1>1, <1>10, <2>5, <2>7, <2>8 DEF Claim
  <2> QED
    BY <1>3, <1>10, <2>9, AnsweredType DEF Claim, WordInv
<1>11. ASSUME NEW t \in Tabs, Decide(t)
       PROVE  ConsentInv'
  <2>1. PICK r \in ConsentRequest : r = asking[t]
    BY DEF WordInv
  <2>2. r.login \in Logins /\ r.kind \in {"accepted", "declined"}
    BY <1>11, <2>1 DEF Decide, ConsentRequest, Silent
  <2>3. CASE UNCHANGED <<preference, place, agreed>>
    BY <1>2, <1>3, <1>11, <2>3, AnsweredType DEF Decide, WordInv
  <2>4. CASE ~UNCHANGED <<preference, place, agreed>>
    <3>1. PICK l \in Logins : l = r.login
      BY <2>2
    <3>2. PICK next : next = IF r.kind = "accepted" THEN "collecting" ELSE "declined"
      OBVIOUS
    <3>3. /\ Leased(l, r.lease)
          /\ preference' = [decision |-> r.kind, version |-> version]
          /\ place' = [place EXCEPT ![l].status = next, ![l].live = (r.kind = "accepted")]
          /\ agreed' = (r.kind = "accepted")
          /\ Answered(t) /\ UNCHANGED <<open, fence, version, leases, challenges, asked, checks>>
      BY <1>11, <2>1, <2>4, <3>1, <3>2 DEF Decide
    <3>4. PICK row : row = [place[l] EXCEPT !.status = next, !.live = (r.kind = "accepted")]
      OBVIOUS
    <3>5. place[l] \in LocationState /\ place[l].live
      BY <3>3 DEF LeasesInv, Leased
    <3>6. row \in LocationState /\ row.lease = place[l].lease
      BY <3>2, <3>4, <3>5 DEF LocationState, LocationStatus, Terminal
    <3>7. place' = [place EXCEPT ![l] = row]
      BY <3>3, <3>4
    <3>8. LeasesInv' /\ StoredInv'
      BY <1>1, <3>3, <3>5, <3>6, <3>7
    <3>9. preference' \in Preference /\ preference'.version <= version' /\ preference'.decision = r.kind
      BY <2>2, <3>3 DEF WordInv, Preference
    <3>10. agreed' \in BOOLEAN /\ (r.kind = "accepted" => agreed')
      BY <3>3
    <3>11. Accepted' => r.kind = "accepted"
      BY <3>9 DEF Accepted
    <3>12. WordInv'
      BY <3>3, <3>9, <3>10, <3>11, AnsweredType DEF WordInv
    <3> QED
      BY <3>8, <3>12
  <2> QED
    BY <2>3, <2>4
<1>12. ASSUME NEW t \in Tabs, Outcome(t)
       PROVE  ConsentInv'
  <2>1. PICK r \in ConsentRequest : r = asking[t]
    BY DEF WordInv
  <2>2. r.login \in Logins /\ r.kind \in {"browser_denied", "unavailable"}
    BY <1>12, <2>1 DEF Outcome, ConsentRequest, Silent
  <2>3. PICK l \in Logins : l = r.login
    BY <2>2
  <2>4. PICK row : row = [place[l] EXCEPT !.status = r.kind, !.live = FALSE]
    OBVIOUS
  <2>5. row \in LocationState /\ row.lease = place[l].lease /\ ~row.live
    BY <2>2, <2>4 DEF LocationState, LocationStatus, Terminal, LeasesInv
  <2>6. place' = place \/ place' = [place EXCEPT ![l] = row]
    BY <1>12, <2>1, <2>3, <2>4 DEF Outcome
  <2>7. LeasesInv' /\ StoredInv'
    BY <1>1, <1>2, <1>12, <2>5, <2>6 DEF Outcome
  <2> QED
    BY <1>3, <1>12, <2>7, AnsweredType DEF Outcome, WordInv
<1>13. ASSUME NEW t \in Tabs, Withdraw(t)
       PROVE  ConsentInv'
  <2>1. PICK r \in ConsentRequest : r = asking[t]
    BY DEF WordInv
  <2>2. r.login \in Logins
    BY <1>13, <2>1 DEF Withdraw, ConsentRequest, Silent
  <2>3. PICK l \in Logins : l = r.login
    BY <2>2
  <2>4. PICK row : row = IF place[l] = NoState THEN [place[l] EXCEPT !.status = "declined", !.version = version]
                         ELSE [place[l] EXCEPT !.status = "declined", !.live = FALSE]
    OBVIOUS
  <2>5. row \in LocationState /\ row.lease = place[l].lease /\ (row.live => place[l].live)
    BY <2>4 DEF LocationState, LocationStatus, Terminal, LeasesInv, WordInv
  <2>6. place' = [place EXCEPT ![l] = row]
    BY <1>13, <2>1, <2>3, <2>4 DEF Withdraw
  <2>7. LeasesInv' /\ StoredInv'
    BY <1>1, <1>13, <2>5, <2>6 DEF Withdraw
  <2>8. /\ preference' \in Preference /\ preference'.version <= version'
        /\ preference'.decision # "accepted" /\ agreed' = FALSE
    BY <1>13 DEF Withdraw, WordInv, Undecided, Preference
  <2>9. ~Accepted'
    BY <2>8 DEF Accepted
  <2> QED
    BY <1>13, <2>7, <2>8, <2>9, AnsweredType DEF Withdraw, WordInv
<1>14. ASSUME NEW t \in Tabs, Challenge(t)
       PROVE  ConsentInv'
  <2>1. PICK r \in ConsentRequest : r = asking[t]
    BY DEF WordInv
  <2>2. [login |-> r.login, lease |-> r.lease, number |-> r.number] \in TakenChallenge
    BY <1>14, <2>1 DEF Challenge, ConsentRequest, Silent, TakenChallenge
  <2>3. challenges' \subseteq TakenChallenge
    BY <1>14, <2>1, <2>2 DEF Challenge, WordInv
  <2> QED
    BY <1>2, <1>3, <1>14, <2>3, AnsweredType DEF Challenge, WordInv
<1>15. ASSUME NEW t \in Tabs, ConsumeChallenge(t)
       PROVE  ConsentInv'
  <2>1. PICK r \in ConsentRequest : r = asking[t]
    BY DEF WordInv
  <2>2. [r EXCEPT !.kind = "store"] \in ConsentRequest
    BY <1>15, <2>1 DEF ConsumeChallenge, ConsentRequest, Silent
  <2>3. asking' \in [Tabs -> ConsentRequest]
    BY <1>15, <2>1, <2>2, AnsweredType DEF ConsumeChallenge, WordInv
  <2> QED
    BY <1>2, <1>3, <1>15, <2>3 DEF ConsumeChallenge, WordInv
<1>16. ASSUME NEW t \in Tabs, StoreCheck(t)
       PROVE  ConsentInv'
  <2>1. PICK r \in ConsentRequest : r = asking[t]
    BY DEF WordInv
  <2>2. r.login \in Logins
    BY <1>16, <2>1 DEF StoreCheck, ConsentRequest, Silent
  <2>3. PICK l \in Logins : l = r.login
    BY <2>2
  <2>4. PICK lease : lease = r.challenge.lease
    OBVIOUS
  <2>5. WordInv'
    BY <1>3, <1>16, AnsweredType DEF StoreCheck, WordInv
  <2>6. CASE ~MayStore(l, lease)
    BY <1>2, <1>16, <2>1, <2>3, <2>4, <2>5, <2>6 DEF StoreCheck
  <2>7. CASE MayStore(l, lease)
    <3>1. /\ checks' = Append(checks, [lease |-> lease, agreed |-> agreed])
          /\ place' = [place EXCEPT ![l].status = "checked", ![l].live = FALSE]
          /\ leases' = leases
      BY <1>16, <2>1, <2>3, <2>4, <2>7 DEF StoreCheck
    <3>2. /\ place[l] \in LocationState /\ place[l].lease = lease /\ place[l].live /\ agreed = TRUE
          /\ lease \in 1..leases
      BY <2>7 DEF MayStore, Leased, LeasesInv, WordInv, LocationState, LocationStatus, Terminal
    <3>3. PICK row : row = [place[l] EXCEPT !.status = "checked", !.live = FALSE]
      OBVIOUS
    <3>4. row \in LocationState /\ row.lease = place[l].lease /\ ~row.live
      BY <3>2, <3>3 DEF LocationState, LocationStatus, Terminal
    <3>5. place' = [place EXCEPT ![l] = row]
      BY <3>1, <3>3
    <3>6. LeasesInv'
      BY <3>1, <3>4, <3>5, PlaceChanges
    <3>7. PICK new : new = [lease |-> lease, agreed |-> TRUE]
      OBVIOUS
    <3>8. /\ new \in [lease : Nat, agreed : BOOLEAN] /\ new.lease = lease /\ new.agreed = TRUE
          /\ checks' = Append(checks, new)
      BY <3>1, <3>2, <3>7 DEF LeasesInv
    <3>9. /\ checks' \in Seq([lease : Nat, agreed : BOOLEAN])
          /\ DOMAIN checks' = DOMAIN checks \cup {Len(checks) + 1}
          /\ Len(checks) + 1 \notin DOMAIN checks
          /\ \A i \in DOMAIN checks : checks'[i] = checks[i]
          /\ checks'[Len(checks) + 1] = new
      BY <3>8 DEF StoredInv
    <3>10. \A k \in Logins : place'[k] = IF k = l THEN row ELSE place[k]
      BY <3>5 DEF LeasesInv
    <3>11. \A i \in DOMAIN checks : checks[i].lease # lease
      BY <3>2 DEF StoredInv
    <3>12. \A k \in Logins : place[k].lease = lease => k = l
      BY <3>2 DEF LeasesInv
    <3>13. /\ \A i \in DOMAIN checks' : checks'[i].agreed /\ checks'[i].lease \in 1..leases'
           /\ \A i, j \in DOMAIN checks' : checks'[i].lease = checks'[j].lease => i = j
      BY <3>1, <3>2, <3>8, <3>9, <3>11 DEF StoredInv
    <3>14. \A i \in DOMAIN checks', k \in Logins : place'[k].lease = checks'[i].lease => ~place'[k].live
      BY <3>2, <3>4, <3>8, <3>9, <3>10, <3>12 DEF StoredInv
    <3>15. StoredInv'
      BY <3>9, <3>13, <3>14 DEF StoredInv
    <3> QED
      BY <2>5, <3>6, <3>15
  <2> QED
    BY <2>6, <2>7
<1> QED
  BY <1>4, <1>5, <1>6, <1>7, <1>8, <1>9, <1>10, <1>11, <1>12, <1>13, <1>14, <1>15, <1>16 DEF ConsentNext

\* OfficeConsentService: for any number of sign-ins and tabs, a position is
\* stored only with the consent in force, and once per lease.
THEOREM ChecksAreConsentedHolds == ConsentSpec => []ChecksAreConsented
<1>1. ConsentInit => ConsentInv
  <2>1. ASSUME ConsentInit PROVE WordInv
    <3>1. asking \in [Tabs -> ConsentRequest]
      BY <2>1 DEF ConsentInit, ConsentRequest
    <3>2. preference \in Preference /\ preference.version <= version /\ preference.decision = "unknown"
      BY <2>1 DEF ConsentInit, Undecided, Preference
    <3>3. ~Accepted
      BY <3>2 DEF Accepted
    <3> QED
      BY <2>1, <3>1, <3>2, <3>3 DEF ConsentInit, WordInv
  <2>2. ASSUME ConsentInit PROVE LeasesInv
    BY <2>2 DEF ConsentInit, LeasesInv, LocationState, LocationStatus, Terminal, NoState
  <2>3. ASSUME ConsentInit PROVE StoredInv
    BY <2>3 DEF ConsentInit, StoredInv
  <2> QED
    BY <2>1, <2>2, <2>3 DEF ConsentInv
<1>2. ConsentInv => ChecksAreConsented
  BY DEF ConsentInv, StoredInv, ChecksAreConsented
<1> QED
  BY <1>1, <1>2, ConsentStep, PTL DEF ConsentSpec

-----------------------------------------------------------------------------
(* Imports *)

\* validateBulkUsers and inviteUser: for every importer, every row that is
\* marked as ready is one the import invites, to a place within his scope.
THEOREM ReadyRowsAreInvitedHolds == ImportsSpec => []ReadyRowsAreInvited
<1>1. ASSUME MayImport, NEW row \in SheetRows, NEW named \in RolesNamed, NEW ready \in ReadyAs(row, named)
      PROVE  /\ ready \in ImportUsers(row, named)
             /\ Able("tenant:settings") \/ ready[1] = importer.branch
             /\ (Able("tenant:settings") \/ BranchManager) \/ ready[2] = importer.unit
  <2>1. PICK b \in BranchesOf(row) :
          ready \in UNION {{<<b, u, r>> : r \in {r \in RoleOf(named, b, u) : ReadyRole(r, b, u)}} : u \in UnitsOf(row, b)}
    BY <1>1 DEF ReadyAs
  <2>2. PICK u \in UnitsOf(row, b) :
          ready \in {<<b, u, r>> : r \in {r \in RoleOf(named, b, u) : ReadyRole(r, b, u)}}
    BY <2>1
  <2>3. PICK r \in RoleOf(named, b, u) : ReadyRole(r, b, u) /\ ready = <<b, u, r>>
    BY <2>2
  <2>4. EligibleRole(r, b, u)
    BY <2>3 DEF RoleOf
  <2>5. /\ b \in Sites /\ Within(ScopeBranch, b)
        /\ u \in DOMAIN Units /\ Units[u].branch = b /\ Within(ScopeUnit, u)
    BY DEF BranchesOf, UnitsOf
  <2>6. b # Nowhere /\ u # Nowhere
    BY <2>5 DEF Sites, Units, Nowhere
  <2>7. Able("tenant:settings") \/ b = importer.branch
    BY <1>1, <2>5, <2>6 DEF MayImport, ScopeBranch, Within
  <2>8. (Able("tenant:settings") \/ BranchManager) \/ u = importer.unit
    BY <1>1, <2>5, <2>6 DEF MayImport, ScopeUnit, Within
  <2>9. InviteAccepts(b, u, r)
    BY <2>3, <2>4, <2>5, <2>7 DEF InviteAccepts, EligibleRole, ReadyRole
  <2> QED
    BY <1>1, <2>3, <2>7, <2>8, <2>9 DEF ImportUsers
<1>2. ReadyRowsAreInvited
  BY <1>1 DEF ReadyRowsAreInvited
<1> QED
  BY <1>2, PTL

-----------------------------------------------------------------------------
(* Seats and administrators *)

MemberRow == [state : {"member"}, active : BOOLEAN, approved : BOOLEAN, primary : Roles, held : SUBSET Roles]
MemberCall ==
         {Idle}
    \cup [op : {"status", "status-locked"}, user : Users, active : BOOLEAN]
    \cup [op : {"delete", "delete-locked"}, user : Users, by : Users]
    \cup [op : {"grant", "approve"}, user : Users, grant : Grant]
    \cup [op : {"batch"}, user : Users, held : SUBSET Roles]
    \cup [op : {"enrol", "enrolled"}, user : Users, grant : Grant, approved : BOOLEAN]
    \cup [op : {"limit"}, limit : Nat]

\* What a request found out about the table before it writes, and what is
\* still so: its checks, if no other request can write in between.
Vouched(w) ==
    /\ w.op = "status-locked" \/ (w.op = "status" /\ ~Telemetry) =>
          IF w.active THEN SeatFree \/ (IsMember(w.user) /\ user[w.user].active) ELSE NotLastAdmin(w.user)
    /\ w.op \in {"delete", "delete-locked"} =>
          w.by # w.user /\ (IsMember(w.by) => user[w.by].approved /\ "admin" \in user[w.by].held)
    /\ w.op = "delete-locked" => IsMember(w.by) /\ user[w.by].active
    /\ w.op = "approve" \/ (w.op = "enrol" /\ w.approved) => SeatFree
    /\ w.op = "limit" => Cardinality(Seated) <= w.limit

\* Who may be at work at the same time, and who holds the lock.
TurnsInv ==
    /\ \A c, k \in Clients : c # k /\ call[c] # Idle /\ call[k] # Idle => Telemetry /\ call[c].op \in UnderLock
    /\ \A c \in Clients : call[c].op \in {"status-locked", "delete-locked"} => lock = {c}

MembersInv ==
    /\ user \in [Users -> MemberRow \cup {NoUser, Deleted}]
    /\ call \in [Clients -> MemberCall]
    /\ limit \in Nat
    /\ TurnsInv
    /\ \A c \in Clients : Vouched(call[c])
    /\ Cardinality(Seated) <= limit

\* Sets of users can be counted.
LEMMA UsersCount ==
    ASSUME NEW S \in SUBSET Users
    PROVE  /\ IsFiniteSet(S) /\ Cardinality(S) \in Nat
           /\ \A T \in SUBSET S : Cardinality(T) <= Cardinality(S)
           /\ \A u \in Users : Cardinality(S \cup {u}) <= Cardinality(S) + 1
<1>1. IsFiniteSet(S)
  BY UsersAssumption, FS_Subset
<1>2. \A T \in SUBSET S : Cardinality(T) <= Cardinality(S)
  BY <1>1, FS_Subset
<1>3. \A u \in Users : Cardinality(S \cup {u}) <= Cardinality(S) + 1
  BY <1>1, FS_AddElement, FS_CardinalityType
<1> QED
  BY <1>1, <1>2, <1>3, FS_CardinalityType

\* With two of them, another one is left.
LEMMA AnotherOne ==
    ASSUME NEW S \in SUBSET Users, NEW u, Cardinality(S) > 1
    PROVE  \E v \in S : v # u
<1>1. ASSUME S \subseteq {u}
      PROVE  FALSE
  <2>1. IsFiniteSet({u}) /\ Cardinality({u}) = 1
    BY FS_Singleton
  <2>2. Cardinality(S) <= 1
    BY <1>1, <2>1, FS_Subset
  <2> QED
    BY <2>2, UsersCount
<1> QED
  BY <1>1

\* What a check found is so while the table does not change.
LEMMA VouchedStays == ASSUME NEW w, UNCHANGED <<user, limit>>, Vouched(w) PROVE Vouched(w)'
<1>1. Seated' = Seated
  BY DEF Seated, IsMember
<1>2. PrimaryAdmins' = PrimaryAdmins
  BY <1>1 DEF PrimaryAdmins
<1>3. SeatFree' = SeatFree /\ NotLastAdmin(w.user)' = NotLastAdmin(w.user)
  BY <1>1, <1>2 DEF SeatFree, NotLastAdmin
<1>4. IsMember(w.user)' = IsMember(w.user) /\ IsMember(w.by)' = IsMember(w.by)
  BY DEF IsMember
<1> QED
  BY <1>1, <1>3, <1>4 DEF Vouched

\* Nothing is asked of a request that is over.
LEMMA IdleIsVouched == Idle \in MemberCall /\ Vouched(Idle) /\ Vouched(Idle)' /\ Idle.op = "idle"
BY DEF Idle, MemberCall, Vouched

\* A request that begins has made its checks; others are at work only under the lock.
LEMMA CallBegins ==
    ASSUME Serialised, MembersInv, NEW c \in Clients, NEW kind, NEW w \in MemberCall, Begin(c, kind, w),
           UNCHANGED <<user, limit, lock>>, w.op \notin {"status-locked", "delete-locked"},
           kind \in UnderLock => w.op = kind, Vouched(w)
    PROVE  MembersInv'
<1>1. /\ call' \in [Clients -> MemberCall]
      /\ \A k \in Clients : call'[k] = IF k = c THEN w ELSE call[k]
  BY DEF Begin, MembersInv
<1>2. Seated' = Seated
  BY DEF Seated, IsMember
<1>3. Busy = {} \/ (Telemetry /\ kind \in UnderLock /\ w.op \in UnderLock /\ \A k \in Busy : call[k].op \in UnderLock)
  BY DEF Begin, Serialised
<1>4. TurnsInv'
  BY <1>1, <1>3, IdleIsVouched DEF TurnsInv, MembersInv, Busy
<1>5. \A k \in Clients : Vouched(call[k])'
  <2> TAKE k \in Clients
  <2>1. PICK x : x = call'[k]
    OBVIOUS
  <2>2. Vouched(x)
    BY <1>1, <2>1 DEF MembersInv
  <2>3. Vouched(x)'
    BY <2>2, VouchedStays
  <2> QED
    BY <2>1, <2>3
<1> QED
  BY <1>1, <1>2, <1>4, <1>5 DEF MembersInv

\* A request that ends leaves the others as they were.
LEMMA CallEnds ==
    ASSUME MembersInv, NEW c \in Clients, End(c), user' \in [Users -> MemberRow \cup {NoUser, Deleted}],
           limit' \in Nat, Cardinality(Seated)' <= limit',
           \A k \in Clients \ {c} : \A w : w = call[k] => Vouched(w)'
    PROVE  MembersInv'
<1>1. /\ call' \in [Clients -> MemberCall]
      /\ \A k \in Clients : call'[k] = IF k = c THEN Idle ELSE call[k]
  BY IdleIsVouched DEF End, MembersInv
<1>2. TurnsInv'
  <2>1. \A k \in Clients : k # c /\ lock = {k} => lock' = {k}
    BY DEF End
  <2> QED
    BY <1>1, <2>1, IdleIsVouched DEF TurnsInv, MembersInv
<1>3. \A k \in Clients : Vouched(call[k])'
  <2> TAKE k \in Clients
  <2>1. PICK x : x = call'[k]
    OBVIOUS
  <2>2. Vouched(x)'
    BY <1>1, <2>1, IdleIsVouched
  <2> QED
    BY <2>1, <2>2
<1> QED
  BY <1>1, <1>2, <1>3 DEF MembersInv

\* Who writes is alone, or holds the lock while the others wait for it.
LEMMA OthersWait ==
    ASSUME MembersInv, NEW c \in Clients, call[c] # Idle, ~Telemetry \/ call[c].op \notin {"status", "delete"},
           NEW k \in Clients, k # c
    PROVE  \/ call[k] = Idle
           \/ call[k].op \in {"status", "delete"} /\ Telemetry /\ call[c].op \in {"status-locked", "delete-locked"}
<1>1. ASSUME call[k] # Idle PROVE Telemetry /\ call[c].op \in UnderLock /\ call[k].op \in UnderLock
  BY <1>1 DEF MembersInv, TurnsInv
<1>2. ~(call[c].op \in {"status-locked", "delete-locked"} /\ call[k].op \in {"status-locked", "delete-locked"})
  BY DEF MembersInv, TurnsInv
<1> QED
  BY <1>1, <1>2 DEF UnderLock

\* A row that is written leaves the checks of the waiting requests true.
LEMMA WriteKeepsOthers ==
    ASSUME MembersInv, NEW c \in Clients, call[c] # Idle, ~Telemetry \/ call[c].op \notin {"status", "delete"},
           NEW u \in Users, NEW row, user' = [user EXCEPT ![u] = row],
           call[c].op \in UnderLock =>
              \/ row.state # "member"
              \/ IsMember(u) /\ row.approved = user[u].approved /\ row.held = user[u].held,
           NEW k \in Clients, k # c, NEW w, w = call[k]
    PROVE  Vouched(w)'
<1>1. CASE w = Idle
  BY <1>1, IdleIsVouched
<1>2. CASE w # Idle
  <2>1. w.op \in {"status", "delete"} /\ Telemetry /\ call[c].op \in UnderLock
    BY <1>2, OthersWait DEF UnderLock
  <2>2. CASE w.op = "status"
    BY <2>1, <2>2 DEF Vouched
  <2>3. CASE w.op = "delete"
    <3>1. w.by \in Users /\ w.by # w.user /\ (IsMember(w.by) => user[w.by].approved /\ "admin" \in user[w.by].held)
      <4>1. w \in MemberCall /\ Vouched(w)
        BY DEF MembersInv
      <4>2. w.by \in Users
        BY <2>3, <4>1 DEF MemberCall, Idle
      <4> QED
        BY <2>3, <4>1, <4>2 DEF Vouched
    <3>2. PICK b \in Users : b = w.by
      BY <3>1
    <3>3. user'[b] = IF b = u THEN row ELSE user[b]
      BY DEF MembersInv
    <3>4. IsMember(b)' => user'[b].approved /\ "admin" \in user'[b].held
      BY <2>1, <3>1, <3>2, <3>3 DEF IsMember
    <3> QED
      BY <2>3, <3>1, <3>2, <3>4 DEF Vouched
  <2> QED
    BY <2>1, <2>2, <2>3
<1> QED
  BY <1>1, <1>2

TakesSeat(row) == row.state = "member" /\ row.active /\ row.approved

\* Who has a seat once a row is written.
LEMMA SeatsAfter ==
    ASSUME MembersInv, NEW u \in Users, NEW row, user' = [user EXCEPT ![u] = row]
    PROVE  Seated' = IF TakesSeat(row) THEN Seated \cup {u} ELSE Seated \ {u}
<1>1. \A v \in Users : user'[v] = IF v = u THEN row ELSE user[v]
  BY DEF MembersInv
<1> QED
  BY <1>1 DEF Seated, IsMember, TakesSeat

\* A row is written and the request ends.
LEMMA WriteEnds ==
    ASSUME MembersInv, NEW c \in Clients, call[c] # Idle, ~Telemetry \/ call[c].op \notin {"status", "delete"},
           NEW u \in Users, NEW row \in MemberRow \cup {NoUser, Deleted}, user' = [user EXCEPT ![u] = row],
           call[c].op \in UnderLock =>
              \/ row.state # "member"
              \/ IsMember(u) /\ row.approved = user[u].approved /\ row.held = user[u].held,
           TakesSeat(row) => SeatFree \/ u \in Seated,
           End(c), limit' = limit
    PROVE  MembersInv'
<1>1. Cardinality(Seated)' <= limit'
  <2>1. Seated \in SUBSET Users /\ limit \in Nat /\ Cardinality(Seated) <= limit
    BY DEF Seated, MembersInv
  <2>2. Seated' \subseteq Seated \/ (Seated' = Seated \cup {u} /\ SeatFree)
    BY SeatsAfter
  <2> QED
    BY <2>1, <2>2, UsersCount DEF SeatFree
<1>2. user' \in [Users -> MemberRow \cup {NoUser, Deleted}] /\ limit' \in Nat
  BY DEF MembersInv
<1>3. \A k \in Clients \ {c} : \A w : w = call[k] => Vouched(w)'
  BY WriteKeepsOthers
<1> QED
  BY <1>1, <1>2, <1>3, CallEnds

\* Nothing is written and the request ends.
LEMMA LeavesAlone ==
    ASSUME MembersInv, NEW c \in Clients, End(c), UNCHANGED <<user, limit>>
    PROVE  MembersInv'
<1>1. Seated' = Seated
  BY DEF Seated, IsMember
<1>2. \A k \in Clients \ {c} : \A w : w = call[k] => Vouched(w)'
  BY VouchedStays DEF MembersInv
<1>3. user' \in [Users -> MemberRow \cup {NoUser, Deleted}] /\ limit' \in Nat /\ Cardinality(Seated)' <= limit'
  BY <1>1 DEF MembersInv
<1> QED
  BY <1>2, <1>3, CallEnds

\* The requests' checks.
LEMMA MemberReads ==
    ASSUME Serialised, MembersInv, NEW c \in Clients, NEW by \in Users, NEW u \in Users,
           \/ \E active \in BOOLEAN : StatusRead(c, by, u, active)
           \/ DeleteRead(c, by, u)
           \/ \E g \in Grants : RolesRead(c, by, u, g) \/ AppendRead(c, by, u, g) \/ ApproveRead(c, by, u, g)
           \/ \E r \in Roles : UnassignRead(c, by, u, r) \/ BatchRead(c, by, u, r)
    PROVE  MembersInv'
<1>1. ASSUME NEW active \in BOOLEAN, StatusRead(c, by, u, active)
      PROVE  MembersInv'
  <2>1. PICK w : w = [op |-> "status", user |-> u, active |-> active]
    OBVIOUS
  <2>2. w \in MemberCall /\ w.op = "status" /\ w.user = u /\ w.active = active
    BY <2>1 DEF MemberCall
  <2>3. Vouched(w)
    BY <1>1, <2>2 DEF Vouched, StatusRead, StatusAllowed
  <2>4. Begin(c, "status", w) /\ UNCHANGED <<user, limit, lock>>
    BY <1>1, <2>1 DEF StatusRead
  <2> QED
    BY <2>2, <2>3, <2>4, CallBegins
<1>2. CASE DeleteRead(c, by, u)
  <2>1. PICK w : w = [op |-> "delete", user |-> u, by |-> by]
    OBVIOUS
  <2>2. w \in MemberCall /\ w.op = "delete" /\ w.user = u /\ w.by = by
    BY <2>1 DEF MemberCall
  <2>3. Vouched(w)
    BY <1>2, <2>2 DEF Vouched, DeleteRead, Administrators, Seated
  <2>4. Begin(c, "delete", w) /\ UNCHANGED <<user, limit, lock>>
    BY <1>2, <2>1 DEF DeleteRead
  <2> QED
    BY <2>2, <2>3, <2>4, CallBegins
<1>3. ASSUME NEW kind \in {"roles", "append", "unassign"}, NEW g \in Grant,
             Begin(c, kind, [op |-> "grant", user |-> u, grant |-> g]), UNCHANGED <<user, limit, lock>>
      PROVE  MembersInv'
  <2>1. PICK w : w = [op |-> "grant", user |-> u, grant |-> g]
    OBVIOUS
  <2>2. w \in MemberCall /\ w.op = "grant"
    BY <2>1 DEF MemberCall
  <2>3. Vouched(w) /\ kind \notin UnderLock
    BY <2>2 DEF Vouched, UnderLock
  <2> QED
    BY <1>3, <2>1, <2>2, <2>3, CallBegins
<1>4. ASSUME NEW g \in Grants, RolesRead(c, by, u, g)
      PROVE  MembersInv'
  BY <1>3, <1>4, GrantsAssumption DEF RolesRead
<1>5. ASSUME IsMember(u)
      PROVE  user[u].held \in SUBSET Roles
  BY <1>5 DEF IsMember, MembersInv, MemberRow, NoUser, Deleted
<1>6. ASSUME NEW g \in Grants, AppendRead(c, by, u, g)
      PROVE  MembersInv'
  <2>1. [g EXCEPT !.held = @ \cup user[u].held] \in Grant
    BY <1>5, <1>6, GrantsAssumption DEF AppendRead, Grant
  <2> QED
    BY <1>3, <1>6, <2>1 DEF AppendRead
<1>7. ASSUME NEW r \in Roles, UnassignRead(c, by, u, r)
      PROVE  MembersInv'
  <2>1. PICK held : held = IF user[u].held \ {r} = {} THEN {"staff"} ELSE user[u].held \ {r}
    OBVIOUS
  <2>2. held \in SUBSET Roles /\ held # {}
    BY <1>5, <1>7, <2>1 DEF UnassignRead, Roles
  <2>3. PICK first : first = CHOOSE x \in held : user[u].primary \in held => x = user[u].primary
    OBVIOUS
  <2>4. first \in held
    BY <2>2, <2>3
  <2>5. [primary |-> first, held |-> held] \in Grant
    BY <2>2, <2>4 DEF Grant
  <2>6. Begin(c, "unassign", [op |-> "grant", user |-> u, grant |-> [primary |-> first, held |-> held]])
        /\ UNCHANGED <<user, limit, lock>>
    BY <1>7, <2>1, <2>3 DEF UnassignRead
  <2> QED
    BY <1>3, <2>5, <2>6
<1>8. ASSUME NEW r \in Roles, BatchRead(c, by, u, r)
      PROVE  MembersInv'
  <2>1. PICK w : w = [op |-> "batch", user |-> u, held |-> user[u].held \cup {r}]
    OBVIOUS
  <2>2. w \in MemberCall /\ w.op = "batch"
    BY <1>5, <1>8, <2>1 DEF MemberCall, BatchRead
  <2>3. Vouched(w) /\ "batch" \notin UnderLock
    BY <2>2 DEF Vouched, UnderLock
  <2>4. Begin(c, "batch", w) /\ UNCHANGED <<user, limit, lock>>
    BY <1>8, <2>1 DEF BatchRead
  <2> QED
    BY <2>2, <2>3, <2>4, CallBegins
<1>9. ASSUME NEW g \in Grants, ApproveRead(c, by, u, g)
      PROVE  MembersInv'
  <2>1. PICK w : w = [op |-> "approve", user |-> u, grant |-> g]
    OBVIOUS
  <2>2. w \in MemberCall /\ w.op = "approve"
    BY <2>1, GrantsAssumption DEF MemberCall
  <2>3. Vouched(w) /\ "approve" \notin UnderLock
    BY <1>9, <2>2 DEF Vouched, UnderLock, ApproveRead
  <2>4. Begin(c, "approve", w) /\ UNCHANGED <<user, limit, lock>>
    BY <1>9, <2>1 DEF ApproveRead
  <2> QED
    BY <2>2, <2>3, <2>4, CallBegins
<1> QED
  BY <1>1, <1>2, <1>4, <1>6, <1>7, <1>8, <1>9

\* The statements that change the table.
LEMMA MemberWrites ==
    ASSUME Serialised, MembersInv, NEW c \in Clients,
           \/ StatusWrite(c) \/ DeleteWrite(c) \/ GrantWrite(c) \/ BatchWrite(c)
           \/ ApproveWrite(c) \/ EnrolUndo(c) \/ LimitWrite(c) \/ Abandon(c)
    PROVE  MembersInv'
<1>1. PICK w \in MemberCall : w = call[c]
  BY DEF MembersInv
<1>2. Vouched(w)
  BY <1>1 DEF MembersInv
<1>3. CASE StatusWrite(c)
  <2>1. /\ w.op = (IF Telemetry THEN "status-locked" ELSE "status")
        /\ w # Idle /\ w.user \in Users /\ w.active \in BOOLEAN
    BY <1>1, <1>3 DEF StatusWrite, MemberCall, Idle
  <2>2. PICK u \in Users : u = w.user
    BY <2>1
  <2>3. CASE IsMember(u)
    <3>1. PICK row : row = [user[u] EXCEPT !.active = w.active]
      OBVIOUS
    <3>2. user[u] \in MemberRow
      BY <2>3 DEF IsMember, MembersInv, NoUser, Deleted
    <3>3. /\ row \in MemberRow /\ row.active = w.active
          /\ row.approved = user[u].approved /\ row.held = user[u].held
      BY <2>1, <3>1, <3>2 DEF MemberRow
    <3>4. user' = [user EXCEPT ![u] = row]
      BY <1>1, <1>3, <2>2, <2>3, <3>1 DEF StatusWrite, Set
    <3>5. TakesSeat(row) => SeatFree \/ u \in Seated
      BY <1>2, <2>1, <2>2, <2>3, <3>3 DEF TakesSeat, Vouched, Seated
    <3>6. ~Telemetry \/ w.op \notin {"status", "delete"}
      BY <2>1
    <3>7. End(c) /\ limit' = limit
      BY <1>3 DEF StatusWrite
    <3> QED
      BY <1>1, <2>1, <2>3, <3>3, <3>4, <3>5, <3>6, <3>7, WriteEnds
  <2>4. CASE ~IsMember(u)
    BY <1>1, <1>3, <2>2, <2>4, LeavesAlone DEF StatusWrite
  <2> QED
    BY <2>3, <2>4
<1>4. ASSUME w # Idle, w.op \notin {"status", "delete"}, NEW u \in Users, user' = [user EXCEPT ![u] = Deleted],
             End(c), limit' = limit
      PROVE  MembersInv'
  <2>1. Deleted \in MemberRow \cup {NoUser, Deleted} /\ Deleted.state # "member" /\ ~TakesSeat(Deleted)
    BY DEF Deleted, TakesSeat
  <2> QED
    BY <1>1, <1>4, <2>1, WriteEnds
<1>5. CASE DeleteWrite(c)
  <2>1. w.op = "delete-locked" /\ w # Idle /\ w.user \in Users
    BY <1>1, <1>5 DEF DeleteWrite, MemberCall, Idle
  <2> QED
    BY <1>1, <1>4, <1>5, <2>1 DEF DeleteWrite, Set
<1>6. CASE EnrolUndo(c)
  <2>1. w.op = "enrolled" /\ w # Idle /\ w.user \in Users
    BY <1>1, <1>6 DEF EnrolUndo, MemberCall, Idle
  <2> QED
    BY <1>1, <1>4, <1>6, <2>1, LeavesAlone DEF EnrolUndo, Set
<1>7. ASSUME NEW u \in Users, IsMember(u), NEW row \in MemberRow, w # Idle,
             w.op \in {"grant", "batch"}, row.active = user[u].active, row.approved = user[u].approved,
             user' = [user EXCEPT ![u] = row], End(c), limit' = limit
      PROVE  MembersInv'
  <2>1. TakesSeat(row) => u \in Seated
    BY <1>7 DEF TakesSeat, Seated
  <2>2. w.op \notin UnderLock /\ w.op \notin {"status", "delete"}
    BY <1>7 DEF UnderLock
  <2> QED
    BY <1>1, <1>7, <2>1, <2>2, WriteEnds
<1>8. CASE GrantWrite(c)
  <2>1. w.op = "grant" /\ w # Idle /\ w.user \in Users /\ w.grant \in Grant
    BY <1>1, <1>8 DEF GrantWrite, MemberCall, Idle
  <2>2. PICK u \in Users : u = w.user
    BY <2>1
  <2>3. CASE IsMember(u)
    <3>1. PICK row : row = [user[u] EXCEPT !.primary = w.grant.primary, !.held = w.grant.held]
      OBVIOUS
    <3>2. user[u] \in MemberRow
      BY <2>3 DEF IsMember, MembersInv, NoUser, Deleted
    <3>3. row \in MemberRow /\ row.active = user[u].active /\ row.approved = user[u].approved
      BY <2>1, <3>1, <3>2 DEF MemberRow, Grant
    <3>4. user' = [user EXCEPT ![u] = row] /\ End(c) /\ limit' = limit
      BY <1>1, <1>8, <2>2, <2>3, <3>1 DEF GrantWrite, Set
    <3> QED
      BY <1>7, <2>1, <2>3, <3>3, <3>4
  <2> QED
    BY <1>1, <1>8, <2>2, <2>3, LeavesAlone DEF GrantWrite
<1>9. CASE BatchWrite(c)
  <2>1. w.op = "batch" /\ w # Idle /\ w.user \in Users /\ w.held \in SUBSET Roles
    BY <1>1, <1>9 DEF BatchWrite, MemberCall, Idle
  <2>2. PICK u \in Users : u = w.user
    BY <2>1
  <2>3. CASE IsMember(u)
    <3>1. PICK row : row = [user[u] EXCEPT !.held = w.held \cup {user[u].primary}]
      OBVIOUS
    <3>2. user[u] \in MemberRow
      BY <2>3 DEF IsMember, MembersInv, NoUser, Deleted
    <3>3. row \in MemberRow /\ row.active = user[u].active /\ row.approved = user[u].approved
      BY <2>1, <3>1, <3>2 DEF MemberRow
    <3>4. user' = [user EXCEPT ![u] = row] /\ End(c) /\ limit' = limit
      BY <1>1, <1>9, <2>2, <2>3, <3>1 DEF BatchWrite, Set
    <3> QED
      BY <1>7, <2>1, <2>3, <3>3, <3>4
  <2> QED
    BY <1>1, <1>9, <2>2, <2>3, LeavesAlone DEF BatchWrite
<1>10. CASE ApproveWrite(c)
  <2>1. w.op = "approve" /\ w # Idle /\ w.user \in Users /\ w.grant \in Grant
    BY <1>1, <1>10 DEF ApproveWrite, MemberCall, Idle
  <2>2. SeatFree /\ w.op \notin UnderLock
    BY <1>2, <2>1 DEF Vouched, UnderLock
  <2>3. Member(TRUE, TRUE, w.grant) \in MemberRow
    BY <2>1 DEF Member, MemberRow, Grant
  <2>4. user' = [user EXCEPT ![w.user] = Member(TRUE, TRUE, w.grant)] /\ End(c) /\ limit' = limit
    BY <1>1, <1>10 DEF ApproveWrite, Set
  <2> QED
    BY <1>1, <2>1, <2>2, <2>3, <2>4, WriteEnds
<1>11. CASE LimitWrite(c)
  <2>1. w.op = "limit" /\ w # Idle /\ w.limit \in Nat
    BY <1>1, <1>11 DEF LimitWrite, MemberCall, Idle
  <2>2. Cardinality(Seated) <= w.limit
    BY <1>2, <2>1 DEF Vouched
  <2>3. End(c) /\ user' = user /\ limit' = w.limit
    BY <1>1, <1>11 DEF LimitWrite
  <2>4. Seated' = Seated
    BY <2>3 DEF Seated, IsMember
  <2>5. \A k \in Clients \ {c} : call[k] = Idle
    BY <1>1, <2>1, OthersWait
  <2>6. user' \in [Users -> MemberRow \cup {NoUser, Deleted}]
    BY <2>3 DEF MembersInv
  <2> QED
    BY <2>1, <2>2, <2>3, <2>4, <2>5, <2>6, IdleIsVouched, CallEnds
<1>12. CASE Abandon(c)
  BY <1>12, LeavesAlone DEF Abandon
<1> QED
  BY <1>3, <1>5, <1>6, <1>8, <1>9, <1>10, <1>11, <1>12

\* The tenant row is locked and the checks are made under the lock.
LEMMA MemberLocks ==
    ASSUME MembersInv, NEW c \in Clients, StatusLock(c) \/ DeleteLock(c)
    PROVE  MembersInv'
<1>1. PICK old \in MemberCall : old = call[c]
  BY DEF MembersInv
<1>2. Vouched(old)
  BY <1>1 DEF MembersInv
<1>3. PICK next : next = IF old.op = "status" THEN "status-locked" ELSE "delete-locked"
  OBVIOUS
<1>4. PICK w : w = [old EXCEPT !.op = next]
  OBVIOUS
<1>5. /\ call' = [call EXCEPT ![c] = w] /\ lock = {} /\ lock' = {c} /\ UNCHANGED <<user, limit>>
      /\ old.op \in {"status", "delete"}
  <2>1. CASE StatusLock(c)
    BY <1>1, <1>3, <1>4, <2>1 DEF StatusLock
  <2>2. CASE DeleteLock(c)
    BY <1>1, <1>3, <1>4, <2>2 DEF DeleteLock
  <2> QED
    BY <2>1, <2>2
<1>6. w \in MemberCall /\ w.op = next /\ old # Idle /\ w # Idle
  BY <1>1, <1>3, <1>4, <1>5 DEF MemberCall, Idle
<1>7. Vouched(w)
  <2>1. CASE StatusLock(c)
    <3>1. old.op = "status" /\ StatusAllowed(old.user, old.active)
      BY <1>1, <2>1 DEF StatusLock
    <3>2. w.user = old.user /\ w.active = old.active
      BY <1>1, <1>4, <3>1 DEF MemberCall, Idle
    <3> QED
      BY <1>3, <1>6, <3>1, <3>2 DEF Vouched, StatusAllowed
  <2>2. CASE DeleteLock(c)
    <3>1. old.op = "delete" /\ IsMember(old.by) /\ user[old.by].active
      BY <1>1, <2>2 DEF DeleteLock
    <3>2. w.user = old.user /\ w.by = old.by
      BY <1>1, <1>4, <3>1 DEF MemberCall, Idle
    <3> QED
      BY <1>2, <1>3, <1>6, <3>1, <3>2 DEF Vouched
  <2> QED
    BY <2>1, <2>2
<1>8. /\ call' \in [Clients -> MemberCall]
      /\ \A k \in Clients : call'[k] = IF k = c THEN w ELSE call[k]
  BY <1>5, <1>6 DEF MembersInv
<1>9. TurnsInv'
  BY <1>1, <1>3, <1>5, <1>6, <1>8 DEF TurnsInv, MembersInv, UnderLock
<1>10. Seated' = Seated
  BY <1>5 DEF Seated, IsMember
<1>11. \A k \in Clients : Vouched(call[k])'
  <2> TAKE k \in Clients
  <2>1. PICK x : x = call'[k]
    OBVIOUS
  <2>2. Vouched(x)
    BY <1>7, <1>8, <2>1 DEF MembersInv
  <2>3. Vouched(x)'
    BY <1>5, <2>2, VouchedStays
  <2> QED
    BY <2>1, <2>3
<1> QED
  BY <1>5, <1>8, <1>9, <1>10, <1>11 DEF MembersInv

\* The INSERT of a member, who has a seat if one was free.
LEMMA MemberEnrols == ASSUME MembersInv, NEW c \in Clients, EnrolInsert(c) PROVE MembersInv'
<1>1. PICK old \in MemberCall : old = call[c]
  BY DEF MembersInv
<1>2. /\ old.op = "enrol" /\ old # Idle
      /\ old.user \in Users /\ old.grant \in Grant /\ old.approved \in BOOLEAN
  BY <1>1 DEF EnrolInsert, MemberCall, Idle
<1>3. old.approved => SeatFree
  BY <1>1, <1>2 DEF MembersInv, Vouched
<1>4. PICK row : row = Member(TRUE, old.approved, old.grant)
  OBVIOUS
<1>5. row \in MemberRow /\ row.approved = old.approved
  BY <1>2, <1>4 DEF Member, MemberRow, Grant
<1>6. PICK w : w = [old EXCEPT !.op = "enrolled"]
  OBVIOUS
<1>7. w \in MemberCall /\ w.op = "enrolled" /\ w # Idle
  BY <1>1, <1>2, <1>6 DEF MemberCall, Idle
<1>8. /\ user' = [user EXCEPT ![old.user] = row] /\ call' = [call EXCEPT ![c] = w]
      /\ UNCHANGED <<limit, lock>>
  BY <1>1, <1>4, <1>6 DEF EnrolInsert, Set
<1>9. \A k \in Clients \ {c} : call[k] = Idle
  BY <1>1, <1>2, OthersWait
<1>10. /\ call' \in [Clients -> MemberCall]
       /\ \A k \in Clients : call'[k] = IF k = c THEN w ELSE Idle
  BY <1>7, <1>8, <1>9 DEF MembersInv
<1>11. Cardinality(Seated)' <= limit'
  <2>1. Seated \in SUBSET Users /\ limit \in Nat /\ Cardinality(Seated) <= limit
    BY DEF Seated, MembersInv
  <2>2. Seated' \subseteq Seated \/ (Seated' = Seated \cup {old.user} /\ SeatFree)
    BY <1>2, <1>3, <1>5, <1>8, SeatsAfter DEF TakesSeat
  <2> QED
    BY <1>2, <1>8, <2>1, <2>2, UsersCount DEF SeatFree
<1>12. Vouched(w)'
  BY <1>7 DEF Vouched
<1>13. TurnsInv'
  BY <1>7, <1>10, IdleIsVouched DEF TurnsInv
<1>14. \A k \in Clients : Vouched(call[k])'
  <2> TAKE k \in Clients
  <2>1. PICK x : x = call'[k]
    OBVIOUS
  <2>2. Vouched(x)'
    BY <1>10, <1>12, <2>1, IdleIsVouched
  <2> QED
    BY <2>1, <2>2
<1>15. user' \in [Users -> MemberRow \cup {NoUser, Deleted}] /\ limit' \in Nat
  BY <1>2, <1>5, <1>8 DEF MembersInv
<1> QED
  BY <1>10, <1>11, <1>13, <1>14, <1>15 DEF MembersInv

\* Every step keeps the checks of the requests in flight true.
LEMMA MembersStep == ASSUME Serialised PROVE MembersInv /\ [Next]_vars => MembersInv'
<1> SUFFICES ASSUME MembersInv, [Next]_vars
             PROVE  MembersInv'
  OBVIOUS
<1>1. CASE UNCHANGED vars
  <2>1. Seated' = Seated
    BY <1>1 DEF vars, Seated, IsMember
  <2>2. \A k \in Clients : Vouched(call[k])'
    <3> TAKE k \in Clients
    <3>1. PICK x : x = call[k]
      OBVIOUS
    <3>2. Vouched(x)'
      BY <1>1, <3>1, VouchedStays DEF MembersInv, vars
    <3> QED
      BY <1>1, <3>1, <3>2 DEF vars
  <2>3. TurnsInv'
    BY <1>1 DEF MembersInv, TurnsInv, vars
  <2> QED
    BY <1>1, <2>1, <2>2, <2>3 DEF MembersInv, vars
<1>2. ASSUME NEW by \in Users, NEW u \in Users, Reject(by, u)
      PROVE  MembersInv'
  <2>1. \A k \in Clients : call[k] = Idle
    BY <1>2 DEF Reject, Busy
  <2>2. PICK row : row = [user[u] EXCEPT !.active = FALSE]
    OBVIOUS
  <2>3. user[u] \in MemberRow
    BY <1>2 DEF Reject, IsMember, MembersInv, NoUser, Deleted
  <2>4. row \in MemberRow /\ ~row.active
    BY <2>2, <2>3 DEF MemberRow
  <2>5. user' = [user EXCEPT ![u] = row] /\ UNCHANGED <<limit, lock, call>>
    BY <1>2, <2>2 DEF Reject, Set
  <2>6. Seated' \subseteq Seated
    BY <2>4, <2>5, SeatsAfter DEF TakesSeat
  <2>7. Cardinality(Seated)' <= limit'
    <3>1. Seated \in SUBSET Users
      BY DEF Seated
    <3> QED
      BY <2>5, <2>6, <3>1, UsersCount DEF MembersInv
  <2>8. \A k \in Clients : Vouched(call[k])'
    BY <2>1, <2>5, IdleIsVouched
  <2>9. user' \in [Users -> MemberRow \cup {NoUser, Deleted}]
    BY <2>4, <2>5 DEF MembersInv
  <2> QED
    BY <2>5, <2>7, <2>8, <2>9 DEF MembersInv, TurnsInv
<1>3. ASSUME NEW c \in Clients, NEW u \in Users, NEW g \in Grants, NEW approved \in BOOLEAN, EnrolRead(c, u, g, approved)
      PROVE  MembersInv'
  <2>1. PICK w : w = [op |-> "enrol", user |-> u, grant |-> g, approved |-> approved]
    OBVIOUS
  <2>2. w \in MemberCall /\ w.op = "enrol" /\ w.approved = approved
    BY <2>1, GrantsAssumption DEF MemberCall
  <2>3. Vouched(w) /\ "enrol" \notin UnderLock
    BY <1>3, <2>2 DEF Vouched, UnderLock, EnrolRead
  <2>4. Begin(c, "enrol", w) /\ UNCHANGED <<user, limit, lock>>
    BY <1>3, <2>1 DEF EnrolRead
  <2> QED
    BY <2>2, <2>3, <2>4, CallBegins
<1>4. ASSUME NEW c \in Clients, NEW n \in Limits, LimitRead(c, n)
      PROVE  MembersInv'
  <2>1. PICK w : w = [op |-> "limit", limit |-> n]
    OBVIOUS
  <2>2. w \in MemberCall /\ w.op = "limit" /\ w.limit = n /\ n \in Nat
    BY <2>1, LimitsAssumption DEF MemberCall
  <2>3. Cardinality(Seated) \in Nat
    BY UsersCount DEF Seated
  <2>4. Vouched(w) /\ "limit" \notin UnderLock
    BY <1>4, <2>2, <2>3 DEF Vouched, UnderLock, LimitRead
  <2>5. Begin(c, "limit", w) /\ UNCHANGED <<user, limit, lock>>
    BY <1>4, <2>1 DEF LimitRead
  <2> QED
    BY <2>2, <2>4, <2>5, CallBegins
<1> QED
  BY <1>1, <1>2, <1>3, <1>4, MemberReads, MemberWrites, MemberLocks, MemberEnrols DEF Next

\* The workspace begins within its limit.
LEMMA MembersBegin == Init => MembersInv
<1> SUFFICES ASSUME Init PROVE MembersInv
  OBVIOUS
<1>1. limit \in Nat /\ Cardinality(Founders \ Blocked) <= limit
  <2>1. limit = CHOOSE n \in Limits : \A m \in Limits : m <= n
    BY DEF Init
  <2>2. limit \in Limits /\ \A m \in Limits : m <= limit
    BY <2>1, LimitsAssumption
  <2>3. PICK n \in Limits : Cardinality(Founders \ Blocked) <= n
    BY LimitsAssumption
  <2>4. Cardinality(Founders \ Blocked) \in Nat
    BY UsersCount, UsersAssumption
  <2> QED
    BY <2>2, <2>3, <2>4, LimitsAssumption
<1>2. user \in [Users -> MemberRow \cup {NoUser, Deleted}]
  BY DEF Init, Member, MemberRow, Roles
<1>3. Seated \subseteq Founders \ Blocked
  BY DEF Init, Seated, IsMember, Member, NoUser
<1>4. Cardinality(Seated) <= limit
  <2>1. (Founders \ Blocked) \in SUBSET Users
    BY UsersAssumption
  <2>2. Cardinality(Seated) <= Cardinality(Founders \ Blocked) /\ Cardinality(Seated) \in Nat
    BY <1>3, <2>1, UsersCount
  <2>3. Cardinality(Founders \ Blocked) \in Nat
    BY <2>1, UsersCount
  <2> QED
    BY <1>1, <2>2, <2>3
<1>5. call = [c \in Clients |-> Idle]
  BY DEF Init
<1> QED
  BY <1>1, <1>2, <1>4, <1>5, IdleIsVouched DEF MembersInv, TurnsInv

\* checkSeatLimit: if requests overlap only under the tenant's lock, a
\* workspace never has more active users than seats, however many users,
\* requests and changes of the limit there are.
THEOREM SeatLimitRespectedHolds == ASSUME Serialised PROVE Spec => []SeatLimitRespected
<1>1. MembersInv => SeatLimitRespected
  BY DEF MembersInv, SeatLimitRespected
<1> QED
  BY <1>1, MembersBegin, MembersStep, PTL DEF Spec

\* setUserActive and deleteUser: under the same condition, blocking and
\* deleting never take the last administrator away.
THEOREM LockedChecksHoldHolds == ASSUME Serialised PROVE Spec => LockedChecksHold
<1>1. ASSUME MembersInv, NEW c \in Clients, StatusWrite(c), PrimaryAdmins # {}
      PROVE  PrimaryAdmins' # {}
  <2>1. PICK w \in MemberCall : w = call[c] /\ Vouched(w)
    BY <1>1 DEF MembersInv
  <2>2. /\ w.op = (IF Telemetry THEN "status-locked" ELSE "status")
        /\ w.user \in Users /\ w.active \in BOOLEAN
    BY <1>1, <2>1 DEF StatusWrite, MemberCall, Idle
  <2>3. PICK v \in PrimaryAdmins : v # w.user \/ w.active
    <3>1. ASSUME ~w.active, w.user \in PrimaryAdmins
          PROVE  \E v \in PrimaryAdmins : v # w.user
      <4>1. Cardinality(PrimaryAdmins) > 1
        BY <2>1, <2>2, <3>1 DEF Vouched, NotLastAdmin
      <4>2. PrimaryAdmins \in SUBSET Users
        BY DEF PrimaryAdmins, Seated
      <4> QED
        BY <4>1, <4>2, AnotherOne
    <3> QED
      BY <1>1, <3>1
  <2>4. v \in Users /\ user[v].state = "member" /\ user[v].active /\ user[v].approved /\ user[v].primary = "admin"
    BY DEF PrimaryAdmins, Seated, IsMember
  <2>5. user[v] \in MemberRow
    BY <1>1, <2>4 DEF MembersInv, NoUser, Deleted
  <2>6. user'[v] = user[v] \/ (w.active /\ user'[v] = [user[v] EXCEPT !.active = w.active])
    BY <1>1, <2>1, <2>2, <2>3, <2>4 DEF StatusWrite, Set, MembersInv
  <2>7. user'[v].state = "member" /\ user'[v].active /\ user'[v].approved /\ user'[v].primary = "admin"
    BY <2>2, <2>4, <2>5, <2>6 DEF MemberRow
  <2> QED
    BY <2>4, <2>7 DEF PrimaryAdmins, Seated, IsMember
<1>2. ASSUME MembersInv, NEW c \in Clients, DeleteWrite(c)
      PROVE  Administrators' # {}
  <2>1. PICK w \in MemberCall : w = call[c] /\ Vouched(w)
    BY <1>2 DEF MembersInv
  <2>2. w.op = "delete-locked" /\ w.user \in Users /\ w.by \in Users
    BY <1>2, <2>1 DEF DeleteWrite, MemberCall, Idle
  <2>3. /\ w.by # w.user /\ IsMember(w.by) /\ user[w.by].active
        /\ user[w.by].approved /\ "admin" \in user[w.by].held
    BY <2>1, <2>2 DEF Vouched
  <2>4. PICK b \in Users : b = w.by
    BY <2>2
  <2>5. user'[b] = user[b]
    BY <1>2, <2>1, <2>2, <2>3, <2>4 DEF DeleteWrite, Set, MembersInv
  <2> QED
    BY <2>3, <2>4, <2>5 DEF Administrators, Seated, IsMember
<1>3. MembersInv /\ [Next]_vars =>
        [\A c \in Clients : /\ StatusWrite(c) /\ PrimaryAdmins # {} => PrimaryAdmins' # {}
                            /\ DeleteWrite(c) => Administrators' # {}]_vars
  BY <1>1, <1>2
<1> QED
  BY <1>3, MembersBegin, MembersStep, PTL DEF Spec, LockedChecksHold

-----------------------------------------------------------------------------
(* Invitations and password links *)

AccountRow == [id : Nat \ {0}, status : {"pending", "active", "blocked"}]
InvitationRow == [id : Nat \ {0}, link : Nat, fresh : BOOLEAN, accepted : BOOLEAN, lease : Browsers \cup {NoLease},
                  old : BOOLEAN, resent : Nat, by : Nat]
VisitRequest ==
         {Away0}
    \cup [step : {"join"}]
    \cup [step : {"claim", "provision", "accept", "release"}, id : Nat \ {0}, link : Nat]
    \cup [step : {"reset"}, account : Nat \ {0}]
    \cup [step : {"take", "password", "give-back"}, reset : Nat]

\* The invitation's links are numbered as they are issued, and it is accepted
\* through one that is not older than the last resending.
Fitting(row, issued) ==
    \/ row = NoRow
    \/ /\ row \in InvitationRow
       /\ row.resent <= row.link /\ row.link <= issued
       /\ row.accepted => row.by >= row.resent

\* The browser that holds the lease came by such a link.
Entitled(b, v, row) ==
    v.step \in {"provision", "accept", "release"} /\ row.id = v.id /\ row.lease = b => v.link >= row.resent

InvitationsInv ==
    /\ account \in AccountRow \cup {NoRow}
    /\ rows \in Nat /\ links \in Nat
    /\ DOMAIN desk = Inviters
    /\ \A a \in Inviters : desk[a].step = "rotate" => desk[a].id \in Nat \ {0}
    /\ visit \in [Browsers -> VisitRequest]
    /\ Fitting(invitation, links)
    /\ \A b \in Browsers : Entitled(b, visit[b], invitation)

\* The browser works on a reset link; it is at Keycloak with it.
Taking(v) == v.step \in {"take", "password", "give-back"}
Holding(v, t) == v.step \in {"password", "give-back"} /\ v.reset = t

\* A link that is live or held has set no password, and one browser holds it.
ResetsInv ==
    /\ resets \in Seq({"live", "used", "expired", "gone"}) /\ spent \in Seq(Nat) /\ Len(spent) = Len(resets)
    /\ \A b \in Browsers : Taking(visit[b]) => visit[b].reset \in DOMAIN resets
    /\ \A t \in DOMAIN resets : spent[t] <= 1 /\ (resets[t] = "live" => spent[t] = 0)
    /\ \A t \in DOMAIN resets, b \in Browsers : Holding(visit[b], t) => spent[t] = 0 /\ resets[t] # "live"
    /\ \A t \in DOMAIN resets, b, c \in Browsers : Holding(visit[b], t) /\ Holding(visit[c], t) => b = c

CredentialsInv == InvitationsInv /\ ResetsInv

\* Steps that do not touch the invitation, and take no browser further with it.
LEMMA InvitationRests ==
    ASSUME InvitationsInv, UNCHANGED <<invitation, links>>, rows' \in Nat, account' \in AccountRow \cup {NoRow},
           DOMAIN desk' = Inviters,
           \A a \in Inviters : desk'[a] = desk[a] \/ (desk'[a].step = "rotate" => desk'[a].id \in Nat \ {0}),
           visit' \in [Browsers -> VisitRequest],
           \A b \in Browsers : visit'[b] = visit[b] \/ visit'[b].step \notin {"provision", "accept", "release"}
    PROVE  InvitationsInv'
BY DEF InvitationsInv, Entitled

\* Steps that change the invitation and no browser.
LEMMA InvitationChanges ==
    ASSUME InvitationsInv, UNCHANGED <<account, visit>>, rows' \in Nat, links' \in Nat, Fitting(invitation', links'),
           NEW a \in Inviters, desk' = [desk EXCEPT ![a] = Away0],
           \/ invitation'.lease = NoLease
           \/ invitation'.id = invitation.id /\ invitation'.lease = invitation.lease /\ invitation'.resent = invitation.resent
    PROVE  InvitationsInv'
<1>1. DOMAIN desk' = Inviters /\ \A i \in Inviters : desk'[i].step = "rotate" => desk'[i].id \in Nat \ {0}
  BY DEF InvitationsInv, Away0
<1>2. \A b \in Browsers : Entitled(b, visit'[b], invitation')
  BY CredentialsAssumption DEF InvitationsInv, Entitled
<1> QED
  BY <1>1, <1>2 DEF InvitationsInv

\* The steps of an administrator.
LEMMA InviterStep ==
    ASSUME InvitationsInv, NEW a \in Inviters,
           InviteCheck(a) \/ InviteInsert(a) \/ InviteLink(a) \/ InviteFails(a) \/ ResendRead(a) \/ ResendRotate(a)
    PROVE  InvitationsInv'
<1> USE DEF Away0
<1>1. CASE InviteCheck(a)
  BY <1>1, InvitationRests DEF InviteCheck, InvitationsInv
<1>2. CASE InviteInsert(a)
  <2>1. account' \in AccountRow \cup {NoRow} /\ rows' \in Nat
    BY <1>2 DEF InviteInsert, InvitationsInv, AccountRow
  <2>2. /\ DOMAIN desk' = Inviters
        /\ \A i \in Inviters : desk'[i] = desk[i] \/ desk'[i].step # "rotate"
    BY <1>2 DEF InviteInsert, InvitationsInv
  <2> QED
    BY <1>2, <2>1, <2>2, InvitationRests DEF InviteInsert, InvitationsInv
<1>3. CASE InviteLink(a)
  <2>1. /\ links \in Nat /\ rows \in Nat /\ rows' \in Nat
        /\ desk' = [desk EXCEPT ![a] = Away0] /\ UNCHANGED <<account, visit>>
    BY <1>3 DEF InviteLink, InvitationsInv
  <2>2. PICK n \in Nat : n = links + 1 /\ links' = n /\ links <= n
    BY <1>3, <2>1 DEF InviteLink
  <2>3. CASE invitation = NoRow
    <3>1. invitation' = [id |-> rows + 1, link |-> n, fresh |-> TRUE, accepted |-> FALSE,
                         lease |-> NoLease, old |-> FALSE, resent |-> 0, by |-> 0]
      BY <1>3, <2>2, <2>3 DEF InviteLink
    <3>2. /\ invitation' \in InvitationRow /\ invitation'.link = n /\ invitation'.resent = 0
          /\ invitation'.accepted = FALSE /\ invitation'.lease = NoLease
      BY <2>1, <3>1 DEF InvitationRow
    <3>3. Fitting(invitation', links')
      BY <2>2, <3>2 DEF Fitting
    <3> QED
      BY <2>1, <2>2, <3>2, <3>3, InvitationChanges
  <2>4. CASE invitation # NoRow
    <3>1. invitation' = [invitation EXCEPT !.link = n, !.fresh = TRUE, !.accepted = FALSE]
      BY <1>3, <2>2, <2>4 DEF InviteLink
    <3>2. invitation \in InvitationRow /\ invitation.resent <= invitation.link /\ invitation.link <= links
      BY <2>4 DEF InvitationsInv, Fitting
    <3>3. /\ invitation' \in InvitationRow /\ invitation'.link = n /\ invitation'.accepted = FALSE
          /\ invitation'.id = invitation.id /\ invitation'.lease = invitation.lease
          /\ invitation'.resent = invitation.resent
      BY <3>1, <3>2 DEF InvitationRow
    <3>4. invitation.resent <= n
      BY <2>1, <2>2, <3>2 DEF InvitationRow
    <3>5. Fitting(invitation', links')
      BY <2>2, <3>3, <3>4 DEF Fitting
    <3> QED
      BY <2>1, <2>2, <3>3, <3>5, InvitationChanges
  <2> QED
    BY <2>3, <2>4
<1>4. CASE InviteFails(a)
  BY <1>4, InvitationRests DEF InviteFails, InvitationsInv
<1>5. CASE ResendRead(a)
  <2>1. invitation.id \in Nat \ {0}
    BY <1>5 DEF ResendRead, InvitationsInv, Fitting, InvitationRow
  <2> QED
    BY <1>5, <2>1, InvitationRests DEF ResendRead, InvitationsInv
<1>6. CASE ResendRotate(a)
  <2>1. CASE invitation.id = desk[a].id /\ Claimable /\ links < MaxLinks
    <3>1. /\ links \in Nat /\ rows' \in Nat
          /\ desk' = [desk EXCEPT ![a] = Away0] /\ UNCHANGED <<account, visit>>
      BY <1>6 DEF ResendRotate, InvitationsInv
    <3>2. PICK n \in Nat : n = links + 1 /\ links' = n
      BY <1>6, <2>1, <3>1 DEF ResendRotate
    <3>3. invitation' = [invitation EXCEPT !.link = n, !.fresh = TRUE, !.lease = NoLease, !.old = FALSE, !.resent = n]
      BY <1>6, <2>1, <3>2 DEF ResendRotate
    <3>4. invitation \in InvitationRow /\ ~invitation.accepted
      BY <1>6, <2>1 DEF ResendRotate, InvitationsInv, Fitting, NoRow, Claimable
    <3>5. /\ invitation' \in InvitationRow /\ invitation'.link = n /\ invitation'.resent = n
          /\ invitation'.lease = NoLease /\ invitation'.accepted = invitation.accepted
      BY <3>3, <3>4 DEF InvitationRow
    <3>6. Fitting(invitation', links')
      BY <3>2, <3>4, <3>5 DEF Fitting
    <3> QED
      BY <3>1, <3>2, <3>5, <3>6, InvitationChanges
  <2>2. CASE ~(invitation.id = desk[a].id /\ Claimable /\ links < MaxLinks)
    BY <1>6, <2>2, InvitationRests DEF ResendRotate, InvitationsInv
  <2> QED
    BY <2>1, <2>2
<1> QED
  BY <1>1, <1>2, <1>3, <1>4, <1>5, <1>6

\* A browser's step with its invitation.
LEMMA AcceptStep ==
    ASSUME InvitationsInv, NEW b \in Browsers, AcceptRead(b) \/ AcceptClaim(b) \/ AcceptProvision(b) \/ AcceptFinish(b)
    PROVE  InvitationsInv'
<1>1. PICK v \in VisitRequest : v = visit[b]
  BY DEF InvitationsInv
<1>2. UNCHANGED <<account, rows, links, desk>>
  BY DEF AcceptRead, AcceptClaim, AcceptProvision, AcceptFinish
<1>3. ASSUME NEW x \in VisitRequest, visit' = [visit EXCEPT ![b] = x],
             Fitting(invitation', links), \A c \in Browsers \ {b} : Entitled(c, visit[c], invitation'), Entitled(b, x, invitation')
      PROVE  InvitationsInv'
  <2>1. visit' \in [Browsers -> VisitRequest] /\ \A c \in Browsers : visit'[c] = IF c = b THEN x ELSE visit[c]
    BY <1>3 DEF InvitationsInv
  <2>2. \A c \in Browsers : Entitled(c, visit'[c], invitation')
    BY <1>3, <2>1
  <2> QED
    BY <1>2, <1>3, <2>1, <2>2 DEF InvitationsInv
<1>4. ASSUME NEW x \in VisitRequest, visit' = [visit EXCEPT ![b] = x], invitation' = invitation, Entitled(b, x, invitation)
      PROVE  InvitationsInv'
  BY <1>3, <1>4 DEF InvitationsInv
<1>5. Away0 \in VisitRequest /\ \A row : Entitled(b, Away0, row)
  BY DEF Away0, VisitRequest, Entitled
<1>6. CASE AcceptRead(b)
  <2>1. PICK x : x = [step |-> "claim", id |-> invitation.id, link |-> invitation.link]
    OBVIOUS
  <2>2. x \in VisitRequest /\ x.step = "claim"
    BY <1>6, <2>1 DEF AcceptRead, InvitationsInv, Fitting, InvitationRow, VisitRequest
  <2> QED
    BY <1>4, <1>6, <2>1, <2>2 DEF AcceptRead, Entitled
<1>7. CASE AcceptClaim(b)
  <2>1. v.step = "claim"
    BY <1>1, <1>7 DEF AcceptClaim
  <2>2. v.id \in Nat \ {0} /\ v.link \in Nat
    BY <1>1, <2>1 DEF VisitRequest, Away0
  <2>3. CASE invitation' = invitation /\ visit' = [visit EXCEPT ![b] = Away0]
    BY <1>4, <1>5, <2>3
  <2>4. CASE ~(invitation' = invitation /\ visit' = [visit EXCEPT ![b] = Away0])
    <3>1. /\ invitation.id = v.id /\ invitation.link = v.link
          /\ invitation' = [invitation EXCEPT !.lease = b, !.old = FALSE]
          /\ visit' = [visit EXCEPT ![b] = [v EXCEPT !.step = "provision"]]
      BY <1>1, <1>7, <2>4 DEF AcceptClaim
    <3>2. invitation \in InvitationRow /\ Fitting(invitation, links)
      BY <2>2, <3>1 DEF InvitationsInv, Fitting, NoRow
    <3>3. /\ invitation' \in InvitationRow /\ invitation'.id = invitation.id /\ invitation'.link = invitation.link
          /\ invitation'.resent = invitation.resent /\ invitation'.accepted = invitation.accepted
          /\ invitation'.by = invitation.by /\ invitation'.lease = b
      BY <3>1, <3>2 DEF InvitationRow
    <3>4. Fitting(invitation', links) /\ invitation'.resent <= invitation'.link
      BY <3>2, <3>3 DEF Fitting, InvitationRow, NoRow
    <3>5. PICK x : x = [v EXCEPT !.step = "provision"]
      OBVIOUS
    <3>6. x \in VisitRequest /\ x.link = v.link
      BY <1>1, <2>1, <3>5 DEF VisitRequest, Away0
    <3>7. Entitled(b, x, invitation')
      BY <2>2, <3>1, <3>3, <3>4, <3>6 DEF Entitled, InvitationRow
    <3>8. \A c \in Browsers \ {b} : Entitled(c, visit[c], invitation')
      BY <3>3 DEF Entitled
    <3> QED
      BY <1>3, <3>1, <3>4, <3>5, <3>6, <3>7, <3>8
  <2> QED
    BY <2>3, <2>4
<1>8. CASE AcceptProvision(b)
  <2>1. PICK step \in {"accept", "release"} : visit' = [visit EXCEPT ![b] = [v EXCEPT !.step = step]]
    BY <1>1, <1>8 DEF AcceptProvision
  <2>2. PICK x : x = [v EXCEPT !.step = step]
    OBVIOUS
  <2>3. v.step = "provision" /\ invitation' = invitation
    BY <1>1, <1>8 DEF AcceptProvision
  <2>4. x \in VisitRequest /\ x.link = v.link /\ x.id = v.id
    BY <1>1, <2>1, <2>2, <2>3 DEF VisitRequest, Away0
  <2>5. Entitled(b, x, invitation)
    <3>1. Entitled(b, v, invitation)
      BY <1>1 DEF InvitationsInv
    <3> QED
      BY <2>3, <2>4, <3>1 DEF Entitled
  <2> QED
    BY <1>4, <2>1, <2>2, <2>3, <2>4, <2>5
<1>9. CASE AcceptFinish(b)
  <2>1. v.step \in {"accept", "release"} /\ visit' = [visit EXCEPT ![b] = Away0]
    BY <1>1, <1>9 DEF AcceptFinish
  <2>2. v.id \in Nat \ {0} /\ v.link \in Nat
    BY <1>1, <2>1 DEF VisitRequest, Away0
  <2>3. CASE invitation' = invitation
    BY <1>4, <1>5, <2>1, <2>3
  <2>4. CASE invitation' # invitation
    <3>1. /\ invitation.id = v.id /\ invitation.lease = b
          /\ \/ invitation' = [invitation EXCEPT !.lease = NoLease, !.old = FALSE]
             \/ invitation' = [invitation EXCEPT !.lease = NoLease, !.old = FALSE, !.accepted = TRUE, !.by = v.link]
      BY <1>1, <1>9, <2>4 DEF AcceptFinish, StillLeased
    <3>2. invitation \in InvitationRow /\ Fitting(invitation, links)
      BY <2>2, <3>1 DEF InvitationsInv, Fitting, NoRow
    <3>3. v.link >= invitation.resent
      BY <1>1, <2>1, <3>1 DEF InvitationsInv, Entitled
    <3>4. /\ invitation' \in InvitationRow /\ invitation'.link = invitation.link
          /\ invitation'.resent = invitation.resent /\ invitation'.lease = NoLease
          /\ \/ invitation'.by = invitation.by /\ invitation'.accepted = invitation.accepted
             \/ invitation'.by = v.link
      BY <2>2, <3>1, <3>2 DEF InvitationRow
    <3>5. Fitting(invitation', links)
      BY <3>2, <3>3, <3>4 DEF Fitting, NoRow, InvitationRow
    <3>6. \A c \in Browsers \ {b} : Entitled(c, visit[c], invitation')
      BY <3>4, CredentialsAssumption DEF Entitled
    <3> QED
      BY <1>3, <1>5, <2>1, <3>5, <3>6
  <2> QED
    BY <2>3, <2>4
<1> QED
  BY <1>6, <1>7, <1>8, <1>9

\* Every step keeps the invitation's links in order.
LEMMA InvitationsStep ==
    ASSUME InvitationsInv, ResetsInv, [CredentialsNext]_credentialVars
    PROVE  InvitationsInv'
<1> USE DEF Away0
<1>1. CASE UNCHANGED credentialVars
  BY <1>1, InvitationRests DEF credentialVars, InvitationsInv
<1>2. CASE MemberChanges
  <2>1. account' \in AccountRow
    BY <1>2 DEF MemberChanges, InvitationsInv, AccountRow
  <2> QED
    BY <1>2, <2>1, InvitationRests DEF MemberChanges, InvitationsInv
<1>3. CASE DeleteUser
  <2>1. Fitting(invitation', links) /\ \A b \in Browsers : Entitled(b, visit[b], invitation')
    <3>1. \A v \in VisitRequest : v.step \in {"provision", "accept", "release"} => v.id # 0
      BY DEF VisitRequest
    <3>2. \A b \in Browsers : visit[b] \in VisitRequest
      BY DEF InvitationsInv
    <3> QED
      BY <1>3, <3>1, <3>2 DEF DeleteUser, Fitting, Entitled, NoRow
  <2> QED
    BY <1>3, <2>1 DEF DeleteUser, InvitationsInv
<1>4. CASE InvitationAges
  <2>1. invitation \in InvitationRow /\ Fitting(invitation, links)
    BY <1>4 DEF InvitationAges, InvitationsInv, Fitting
  <2>2. /\ invitation' \in InvitationRow /\ invitation'.link = invitation.link /\ invitation'.id = invitation.id
        /\ invitation'.resent = invitation.resent /\ invitation'.lease = invitation.lease
        /\ invitation'.by = invitation.by /\ invitation'.accepted = invitation.accepted
    BY <1>4, <2>1 DEF InvitationAges, InvitationRow
  <2>3. Fitting(invitation', links)
    BY <2>1, <2>2 DEF Fitting, NoRow, InvitationRow
  <2>4. \A b \in Browsers : Entitled(b, visit[b], invitation')
    BY <2>2 DEF InvitationsInv, Entitled
  <2> QED
    BY <1>4, <2>3, <2>4 DEF InvitationAges, InvitationsInv
<1>5. CASE ResetExpires
  BY <1>5, InvitationRests DEF ResetExpires, InvitationsInv
<1>6. CASE Crashes
  BY <1>6, InvitationRests DEF Crashes, InvitationsInv, VisitRequest
<1>7. ASSUME NEW b \in Browsers, NEW x \in VisitRequest, visit' = [visit EXCEPT ![b] = x],
             x.step \notin {"provision", "accept", "release"}, UNCHANGED <<invitation, links, desk>>,
             rows' \in Nat, account' \in AccountRow \cup {NoRow}
      PROVE  InvitationsInv'
  BY <1>7, InvitationRests DEF InvitationsInv
<1>8. ASSUME NEW b \in Browsers, SsoLookup(b) \/ SsoInsert(b)
      PROVE  InvitationsInv'
  <2>1. [step |-> "join"] \in VisitRequest /\ Away0 \in VisitRequest
    BY DEF VisitRequest
  <2>2. rows' \in Nat /\ account' \in AccountRow \cup {NoRow}
    BY <1>8 DEF SsoLookup, SsoInsert, InvitationsInv, AccountRow
  <2> QED
    BY <1>7, <1>8, <2>1, <2>2 DEF SsoLookup, SsoInsert
<1>9. ASSUME NEW b \in Browsers, ResetRead(b) \/ ResetClaim(b) \/ ResetProvision(b) \/ ResetRelease(b)
      PROVE  InvitationsInv'
  <2>1. UNCHANGED <<account, rows, invitation, links, desk>>
    BY <1>9 DEF ResetRead, ResetClaim, ResetProvision, ResetRelease
  <2>2. PICK v \in VisitRequest : v = visit[b]
    BY DEF InvitationsInv
  <2>3. PICK x : /\ visit' = [visit EXCEPT ![b] = x] /\ x \in VisitRequest
                 /\ x.step \notin {"provision", "accept", "release"}
    <3>1. CASE visit' = [visit EXCEPT ![b] = Away0]
      <4>1. Away0 \in VisitRequest /\ Away0.step \notin {"provision", "accept", "release"}
        BY DEF VisitRequest
      <4> QED
        BY <3>1, <4>1
    <3>2. CASE ResetRead(b)
      <4>1. PICK t \in DOMAIN resets : visit' = [visit EXCEPT ![b] = [step |-> "take", reset |-> t]]
        BY <3>2 DEF ResetRead
      <4>2. t \in Nat
        BY DEF ResetsInv
      <4>3. PICK x : x = [step |-> "take", reset |-> t]
        OBVIOUS
      <4>4. x \in VisitRequest /\ x.step = "take"
        BY <4>2, <4>3 DEF VisitRequest
      <4> QED
        BY <4>1, <4>3, <4>4
    <3>3. CASE (ResetClaim(b) \/ ResetProvision(b)) /\ visit' # [visit EXCEPT ![b] = Away0]
      <4>1. PICK step \in {"password", "give-back"} : visit' = [visit EXCEPT ![b] = [v EXCEPT !.step = step]]
        BY <2>2, <3>3 DEF ResetClaim, ResetProvision
      <4>2. v.step \in {"take", "password"}
        BY <2>2, <3>3 DEF ResetClaim, ResetProvision
      <4>3. [v EXCEPT !.step = step] \in VisitRequest /\ [v EXCEPT !.step = step].step = step
        BY <2>2, <4>1, <4>2 DEF VisitRequest
      <4> QED
        BY <4>1, <4>3
    <3> QED
      BY <1>9, <3>1, <3>2, <3>3 DEF ResetRelease
  <2> QED
    BY <1>7, <2>1, <2>3 DEF InvitationsInv
<1>10. ASSUME NEW p \in Inviters \cup Browsers, ResetAsk(p) \/ ResetInsert(p)
       PROVE  InvitationsInv'
  <2>1. UNCHANGED <<account, rows, invitation, links>>
    BY <1>10 DEF ResetAsk, ResetInsert
  <2>2. [step |-> "reset", account |-> account.id] \in VisitRequest \/ account = NoRow
    BY DEF InvitationsInv, AccountRow, VisitRequest
  <2>3. CASE p \in Inviters
    <3>1. PICK x : desk' = [desk EXCEPT ![p] = x] /\ x.step # "rotate" /\ visit' = visit
      BY <1>10, <2>3 DEF ResetAsk, ResetInsert
    <3> QED
      BY <2>1, <3>1, InvitationRests DEF InvitationsInv
  <2>4. CASE p \notin Inviters
    <3>1. /\ desk' = desk
          /\ \/ visit' = [visit EXCEPT ![p] = Away0]
             \/ account # NoRow /\ visit' = [visit EXCEPT ![p] = [step |-> "reset", account |-> account.id]]
      BY <1>10, <2>4 DEF ResetAsk, ResetInsert
    <3>2. Away0 \in VisitRequest
      BY DEF VisitRequest
    <3> QED
      BY <1>7, <2>1, <2>2, <2>4, <3>1, <3>2 DEF InvitationsInv
  <2> QED
    BY <2>3, <2>4
<1> QED
  BY <1>1, <1>2, <1>3, <1>4, <1>5, <1>6, <1>8, <1>9, <1>10, InviterStep, AcceptStep DEF CredentialsNext

\* Steps that make no link live and take no browser further with one.
LEMMA ResetsRest ==
    ASSUME ResetsInv, resets' \in Seq({"live", "used", "expired", "gone"}), Len(resets') = Len(resets), spent' = spent,
           \A t \in DOMAIN resets : resets'[t] = "live" => resets[t] = "live",
           \A b \in Browsers : visit'[b] = visit[b] \/ ~Taking(visit'[b])
    PROVE  ResetsInv'
<1>1. DOMAIN resets' = DOMAIN resets
  BY DEF ResetsInv
<1>2. \A t : \A b \in Browsers : Holding(visit'[b], t) => Holding(visit[b], t) /\ visit'[b] = visit[b]
  BY DEF Holding, Taking
<1> QED
  BY <1>1, <1>2 DEF ResetsInv

\* A link changes its state.
LEMMA LinkChanges ==
    ASSUME ResetsInv, NEW t \in DOMAIN resets, NEW x \in {"live", "used", "expired", "gone"},
           resets' = [resets EXCEPT ![t] = x]
    PROVE  /\ resets' \in Seq({"live", "used", "expired", "gone"}) /\ Len(resets') = Len(resets)
           /\ DOMAIN resets' = DOMAIN resets
           /\ \A i \in DOMAIN resets : resets'[i] = IF i = t THEN x ELSE resets[i]
BY DEF ResetsInv

\* All links change their states.
LEMMA LinksChange ==
    ASSUME ResetsInv, DOMAIN resets' = DOMAIN resets, resets' = [t \in DOMAIN resets |-> resets'[t]],
           \A t \in DOMAIN resets : resets'[t] \in {"live", "used", "expired", "gone"}
    PROVE  resets' \in Seq({"live", "used", "expired", "gone"}) /\ Len(resets') = Len(resets)
<1>1. PICK n \in Nat : n = Len(resets) /\ DOMAIN resets = 1..n
  BY DEF ResetsInv
<1>2. resets' \in [1..n -> {"live", "used", "expired", "gone"}]
  BY <1>1
<1> QED
  BY <1>1, <1>2, SeqDef

\* Every step keeps one browser at most on each link.
LEMMA ResetsStep ==
    ASSUME InvitationsInv, ResetsInv, [CredentialsNext]_credentialVars
    PROVE  ResetsInv'
<1>0. ~Taking(Away0)
  BY DEF Taking, Away0
<1>1. ASSUME UNCHANGED <<resets, spent>>, \A b \in Browsers : visit'[b] = visit[b] \/ ~Taking(visit'[b])
      PROVE  ResetsInv'
  BY <1>1, ResetsRest DEF ResetsInv
<1>2. CASE \/ UNCHANGED credentialVars \/ MemberChanges \/ InvitationAges
           \/ \E a \in Inviters : InviteCheck(a) \/ InviteInsert(a) \/ InviteLink(a) \/ InviteFails(a)
                                  \/ ResendRead(a) \/ ResendRotate(a)
  <2>1. UNCHANGED <<resets, spent, visit>>
    BY <1>2 DEF credentialVars, MemberChanges, InvitationAges, InviteCheck, InviteInsert, InviteLink, InviteFails,
                ResendRead, ResendRotate
  <2> QED
    BY <1>1, <2>1
<1>3. CASE Crashes
  BY <1>0, <1>1, <1>3 DEF Crashes
<1>4. CASE DeleteUser
  <2>1. resets' = [t \in DOMAIN resets |-> "gone"] /\ UNCHANGED <<visit, spent>>
    BY <1>4 DEF DeleteUser
  <2>2. resets' \in Seq({"live", "used", "expired", "gone"}) /\ Len(resets') = Len(resets)
    BY <2>1, LinksChange
  <2> QED
    BY <2>1, <2>2, ResetsRest
<1>5. CASE ResetExpires
  <2>1. PICK t \in DOMAIN resets : resets[t] = "live" /\ resets' = [resets EXCEPT ![t] = "expired"]
    BY <1>5 DEF ResetExpires
  <2> QED
    BY <1>5, <2>1, LinkChanges, ResetsRest DEF ResetExpires
<1>6. ASSUME NEW b \in Browsers, SsoLookup(b) \/ SsoInsert(b) \/ AcceptRead(b) \/ AcceptClaim(b) \/ AcceptProvision(b)
                                 \/ AcceptFinish(b)
      PROVE  ResetsInv'
  <2>1. PICK v \in VisitRequest : v = visit[b]
    BY DEF InvitationsInv
  <2>2. UNCHANGED <<resets, spent>>
    BY <1>6 DEF SsoLookup, SsoInsert, AcceptRead, AcceptClaim, AcceptProvision, AcceptFinish
  <2>3. PICK x : visit' = [visit EXCEPT ![b] = x] /\ ~Taking(x)
    <3>1. CASE visit' = [visit EXCEPT ![b] = Away0]
      BY <1>0, <3>1
    <3>2. CASE SsoLookup(b) \/ AcceptRead(b)
      <4>1. ~Taking([step |-> "join"]) /\ ~Taking([step |-> "claim", id |-> invitation.id, link |-> invitation.link])
        BY DEF Taking
      <4> QED
        BY <3>2, <4>1 DEF SsoLookup, AcceptRead
    <3>3. CASE (AcceptClaim(b) \/ AcceptProvision(b)) /\ visit' # [visit EXCEPT ![b] = Away0]
      <4>1. PICK step \in {"provision", "accept", "release"} : visit' = [visit EXCEPT ![b] = [v EXCEPT !.step = step]]
        BY <2>1, <3>3 DEF AcceptClaim, AcceptProvision
      <4>2. v.step \in {"claim", "provision"}
        BY <2>1, <3>3 DEF AcceptClaim, AcceptProvision
      <4>3. [v EXCEPT !.step = step].step = step
        BY <2>1, <4>1, <4>2 DEF VisitRequest, Away0
      <4>4. ~Taking([v EXCEPT !.step = step])
        BY <4>1, <4>3 DEF Taking
      <4> QED
        BY <4>1, <4>4
    <3> QED
      BY <1>6, <3>1, <3>2, <3>3 DEF SsoInsert, AcceptFinish
  <2> QED
    BY <1>1, <2>2, <2>3 DEF InvitationsInv
<1>7. ASSUME NEW p \in Inviters \cup Browsers, ResetAsk(p)
      PROVE  ResetsInv'
  <2>1. resets' = Retired /\ spent' = spent
    BY <1>7 DEF ResetAsk
  <2>2. /\ resets' = [t \in DOMAIN resets |-> resets'[t]] /\ DOMAIN resets' = DOMAIN resets
        /\ \A t \in DOMAIN resets : resets'[t] # "live" /\ resets'[t] \in {"live", "used", "expired", "gone"}
    BY <2>1 DEF Retired, ResetsInv
  <2>3. \A b \in Browsers : visit'[b] = visit[b] \/ ~Taking(visit'[b])
    <3>1. ~Taking([step |-> "reset", account |-> account.id])
      BY DEF Taking
    <3> QED
      BY <1>7, <3>1 DEF ResetAsk, InvitationsInv
  <2> QED
    BY <2>1, <2>2, <2>3, LinksChange, ResetsRest
<1>8. ASSUME NEW p \in Inviters \cup Browsers, ResetInsert(p)
      PROVE  ResetsInv'
  <2>1. \A b \in Browsers : visit'[b] = visit[b] \/ ~Taking(visit'[b])
    BY <1>0, <1>8 DEF ResetInsert, InvitationsInv
  <2>2. CASE UNCHANGED <<resets, spent>>
    BY <1>1, <2>1, <2>2
  <2>3. CASE ~UNCHANGED <<resets, spent>>
    <3>1. resets' = Append(resets, "live") /\ spent' = Append(spent, 0)
      BY <1>8, <2>3 DEF ResetInsert, NewReset
    <3>2. PICK n \in Nat : n = Len(resets) /\ n = Len(spent) /\ DOMAIN resets = 1..n
      BY DEF ResetsInv
    <3>3. /\ resets' \in Seq({"live", "used", "expired", "gone"}) /\ spent' \in Seq(Nat) /\ Len(spent') = Len(resets')
          /\ DOMAIN resets' = 1..(n + 1)
          /\ \A t \in 1..n : resets'[t] = resets[t] /\ spent'[t] = spent[t]
          /\ resets'[n + 1] = "live" /\ spent'[n + 1] = 0
      BY <3>1, <3>2 DEF ResetsInv
    <3>4. \A t : \A b \in Browsers : Holding(visit'[b], t) => Holding(visit[b], t) /\ visit'[b] = visit[b] /\ t \in 1..n
      BY <2>1, <3>2 DEF Holding, Taking, ResetsInv
    <3>5. \A t \in DOMAIN resets' : t \in 1..n \/ t = n + 1
      BY <3>3
    <3>6. \A b \in Browsers : Taking(visit'[b]) => visit'[b].reset \in DOMAIN resets'
      <4>1. \A t \in DOMAIN resets : t \in DOMAIN resets'
        BY <3>2, <3>3
      <4>2. \A b \in Browsers : Taking(visit'[b]) => visit[b].reset \in DOMAIN resets /\ visit'[b] = visit[b]
        BY <2>1 DEF ResetsInv
      <4> QED
        BY <4>1, <4>2
    <3>7. \A t \in DOMAIN resets' : spent'[t] <= 1 /\ (resets'[t] = "live" => spent'[t] = 0)
      <4>1. \A t \in 1..n : spent[t] <= 1 /\ (resets[t] = "live" => spent[t] = 0)
        BY <3>2 DEF ResetsInv
      <4>2. \A t \in 1..n : spent'[t] <= 1 /\ (resets'[t] = "live" => spent'[t] = 0)
        BY <3>3, <4>1
      <4>3. spent'[n + 1] <= 1 /\ (resets'[n + 1] = "live" => spent'[n + 1] = 0)
        BY <3>3
      <4> QED
        BY <3>5, <4>2, <4>3
    <3>8. \A t \in DOMAIN resets', b \in Browsers : Holding(visit'[b], t) => spent'[t] = 0 /\ resets'[t] # "live"
      BY <3>2, <3>3, <3>4 DEF ResetsInv
    <3>9. \A t \in DOMAIN resets', b, c \in Browsers : Holding(visit'[b], t) /\ Holding(visit'[c], t) => b = c
      BY <3>2, <3>4 DEF ResetsInv
    <3> QED
      BY <3>3, <3>6, <3>7, <3>8, <3>9 DEF ResetsInv
  <2> QED
    BY <2>2, <2>3
<1>9. ASSUME NEW b \in Browsers, NEW v \in VisitRequest, v = visit[b], NEW x, visit' = [visit EXCEPT ![b] = x]
      PROVE  \A c \in Browsers : visit'[c] = IF c = b THEN x ELSE visit[c]
  BY <1>9 DEF InvitationsInv
<1>10. ASSUME NEW b \in Browsers, ResetRead(b)
       PROVE  ResetsInv'
  <2>1. PICK t \in DOMAIN resets : visit' = [visit EXCEPT ![b] = [step |-> "take", reset |-> t]]
    BY <1>10 DEF ResetRead
  <2>2. PICK x : x = [step |-> "take", reset |-> t]
    OBVIOUS
  <2>3. x.reset = t /\ \A i : ~Holding(x, i)
    BY <2>2 DEF Holding
  <2>4. \A c \in Browsers : visit'[c] = IF c = b THEN x ELSE visit[c]
    BY <2>1, <2>2 DEF InvitationsInv
  <2> QED
    BY <1>10, <2>3, <2>4 DEF ResetRead, ResetsInv
<1>11. ASSUME NEW b \in Browsers, ResetClaim(b)
       PROVE  ResetsInv'
  <2>1. PICK v \in VisitRequest : v = visit[b]
    BY DEF InvitationsInv
  <2>2. v.step = "take" /\ spent' = spent
    BY <1>11, <2>1 DEF ResetClaim
  <2>3. PICK t \in DOMAIN resets : t = v.reset
    BY <2>1, <2>2 DEF ResetsInv, Taking
  <2>4. CASE resets[t] = "live"
    <3>1. PICK x : x = [v EXCEPT !.step = "password"]
      OBVIOUS
    <3>2. resets' = [resets EXCEPT ![t] = "used"] /\ visit' = [visit EXCEPT ![b] = x]
      BY <1>11, <2>1, <2>3, <2>4, <3>1 DEF ResetClaim, Unused
    <3>3. x.reset = t /\ x.step = "password"
      BY <2>1, <2>2, <2>3, <3>1 DEF VisitRequest, Away0
    <3>4. \A c \in Browsers : visit'[c] = IF c = b THEN x ELSE visit[c]
      BY <3>2 DEF InvitationsInv
    <3>5. /\ resets' \in Seq({"live", "used", "expired", "gone"}) /\ Len(resets') = Len(resets)
          /\ DOMAIN resets' = DOMAIN resets
          /\ \A i \in DOMAIN resets : resets'[i] = IF i = t THEN "used" ELSE resets[i]
      BY <3>2, LinkChanges
    <3>6. \A i : Holding(x, i) => i = t
      BY <3>3 DEF Holding
    <3>7. spent[t] = 0 /\ \A c \in Browsers : ~Holding(visit[c], t)
      BY <2>4 DEF ResetsInv
    <3>8. \A c \in Browsers : Taking(visit'[c]) => visit'[c].reset \in DOMAIN resets'
      BY <3>3, <3>4, <3>5 DEF ResetsInv
    <3>9. \A i \in DOMAIN resets' : spent'[i] <= 1 /\ (resets'[i] = "live" => spent'[i] = 0)
      BY <2>2, <3>5 DEF ResetsInv
    <3>10. \A i \in DOMAIN resets', c \in Browsers : Holding(visit'[c], i) => spent'[i] = 0 /\ resets'[i] # "live"
      BY <2>2, <3>4, <3>5, <3>6, <3>7 DEF ResetsInv
    <3>11. \A i \in DOMAIN resets', c, d \in Browsers : Holding(visit'[c], i) /\ Holding(visit'[d], i) => c = d
      BY <3>4, <3>5, <3>6, <3>7 DEF ResetsInv
    <3> QED
      BY <2>2, <3>5, <3>8, <3>9, <3>10, <3>11 DEF ResetsInv
  <2>5. CASE resets[t] # "live"
    BY <1>0, <1>1, <1>11, <2>1, <2>3, <2>5 DEF ResetClaim, Unused, InvitationsInv
  <2> QED
    BY <2>4, <2>5
<1>12. ASSUME NEW b \in Browsers, ResetProvision(b)
       PROVE  ResetsInv'
  <2>1. PICK v \in VisitRequest : v = visit[b]
    BY DEF InvitationsInv
  <2>2. v.step = "password" /\ resets' = resets
    BY <1>12, <2>1 DEF ResetProvision
  <2>3. PICK t \in DOMAIN resets : t = v.reset
    BY <2>1, <2>2 DEF ResetsInv, Taking
  <2>4. /\ Holding(visit[b], t) /\ spent[t] = 0 /\ resets[t] # "live"
        /\ \A c \in Browsers : Holding(visit[c], t) => c = b
    BY <2>1, <2>2, <2>3 DEF ResetsInv, Holding
  <2>5. CASE visit' = [visit EXCEPT ![b].step = "give-back"] /\ spent' = spent
    <3>1. PICK x : x = [v EXCEPT !.step = "give-back"]
      OBVIOUS
    <3>2. x.reset = t /\ x.step = "give-back"
      BY <2>1, <2>2, <2>3, <3>1 DEF VisitRequest, Away0
    <3>3. visit' = [visit EXCEPT ![b] = x]
      BY <2>1, <2>5, <3>1
    <3>4. \A c \in Browsers : visit'[c] = IF c = b THEN x ELSE visit[c]
      BY <3>3 DEF InvitationsInv
    <3>5. \A i : Holding(x, i) => i = t
      BY <3>2 DEF Holding
    <3>6. \A c \in Browsers : Taking(visit'[c]) => visit'[c].reset \in DOMAIN resets
      BY <3>2, <3>4 DEF ResetsInv
    <3>7. \A i \in DOMAIN resets, c \in Browsers : Holding(visit'[c], i) => spent[i] = 0 /\ resets[i] # "live"
      BY <2>4, <3>4, <3>5 DEF ResetsInv
    <3>8. \A i \in DOMAIN resets, c, d \in Browsers : Holding(visit'[c], i) /\ Holding(visit'[d], i) => c = d
      BY <2>4, <3>4, <3>5 DEF ResetsInv
    <3> QED
      BY <2>2, <2>5, <3>6, <3>7, <3>8 DEF ResetsInv
  <2>6. CASE ~(visit' = [visit EXCEPT ![b].step = "give-back"] /\ spent' = spent)
    <3>1. visit' = [visit EXCEPT ![b] = Away0] /\ spent' = [spent EXCEPT ![t] = @ + 1]
      BY <1>12, <2>1, <2>3, <2>6 DEF ResetProvision
    <3>2. \A c \in Browsers : visit'[c] = IF c = b THEN Away0 ELSE visit[c]
      BY <3>1 DEF InvitationsInv
    <3>3. /\ spent' \in Seq(Nat) /\ Len(spent') = Len(spent)
          /\ \A i \in DOMAIN resets : spent'[i] = IF i = t THEN 1 ELSE spent[i]
      BY <2>4, <3>1 DEF ResetsInv
    <3>4. \A i : ~Holding(Away0, i)
      BY DEF Holding, Away0
    <3>5. \A c \in Browsers : Taking(visit'[c]) => visit'[c].reset \in DOMAIN resets
      BY <1>0, <3>2 DEF ResetsInv
    <3>6. \A i \in DOMAIN resets : spent'[i] <= 1 /\ (resets[i] = "live" => spent'[i] = 0)
      BY <2>4, <3>3 DEF ResetsInv
    <3>7. \A i \in DOMAIN resets, c \in Browsers : Holding(visit'[c], i) => Holding(visit[c], i) /\ i # t
      BY <2>4, <3>2, <3>4
    <3>8. \A i \in DOMAIN resets, c \in Browsers : Holding(visit'[c], i) => spent'[i] = 0 /\ resets[i] # "live"
      BY <3>3, <3>7 DEF ResetsInv
    <3>9. \A i \in DOMAIN resets, c, d \in Browsers : Holding(visit'[c], i) /\ Holding(visit'[d], i) => c = d
      BY <3>7 DEF ResetsInv
    <3>10. resets' \in Seq({"live", "used", "expired", "gone"}) /\ Len(spent') = Len(resets')
      BY <2>2, <3>3 DEF ResetsInv
    <3> QED
      BY <2>2, <3>3, <3>5, <3>6, <3>8, <3>9, <3>10 DEF ResetsInv
  <2> QED
    BY <2>5, <2>6
<1>13. ASSUME NEW b \in Browsers, ResetRelease(b)
       PROVE  ResetsInv'
  <2>1. PICK v \in VisitRequest : v = visit[b]
    BY DEF InvitationsInv
  <2>2. v.step = "give-back" /\ spent' = spent /\ visit' = [visit EXCEPT ![b] = Away0]
    BY <1>13, <2>1 DEF ResetRelease
  <2>3. PICK t \in DOMAIN resets : t = v.reset
    BY <2>1, <2>2 DEF ResetsInv, Taking
  <2>4. /\ Holding(visit[b], t) /\ spent[t] = 0
        /\ \A c \in Browsers : Holding(visit[c], t) => c = b
    BY <2>1, <2>2, <2>3 DEF ResetsInv, Holding
  <2>5. \A c \in Browsers : visit'[c] = IF c = b THEN Away0 ELSE visit[c]
    BY <2>2 DEF InvitationsInv
  <2>6. \A i : ~Holding(Away0, i)
    BY DEF Holding, Away0
  <2>7. CASE resets' = resets
    BY <1>0, <1>1, <2>2, <2>5, <2>7
  <2>8. CASE resets' # resets
    <3>1. PICK x \in {"live", "used", "expired", "gone"} : x = IF resets[t] = "used" THEN "live" ELSE resets[t]
      BY DEF ResetsInv
    <3>2. resets' = [resets EXCEPT ![t] = x]
      BY <1>13, <2>1, <2>3, <2>8, <3>1 DEF ResetRelease
    <3>3. /\ resets' \in Seq({"live", "used", "expired", "gone"}) /\ Len(resets') = Len(resets)
          /\ DOMAIN resets' = DOMAIN resets
          /\ \A i \in DOMAIN resets : resets'[i] = IF i = t THEN x ELSE resets[i]
      BY <3>2, LinkChanges
    <3> QED
      BY <1>0, <2>2, <2>4, <2>5, <2>6, <3>3 DEF ResetsInv
  <2> QED
    BY <2>7, <2>8
<1> QED
  BY <1>2, <1>3, <1>4, <1>5, <1>6, <1>7, <1>8, <1>10, <1>11, <1>12, <1>13 DEF CredentialsNext

\* AuthInviteService and AuthPasswordService: for any number of administrators,
\* browsers, links and crashes, an invitation is accepted through a link of its
\* last resending or later, and a reset link sets a password once.
THEOREM LinksWorkOnceHolds == CredentialsSpec => []LinksWorkOnce
<1>1. CredentialsInit => CredentialsInv
  <2> SUFFICES ASSUME CredentialsInit PROVE CredentialsInv
    OBVIOUS
  <2>1. InvitationsInv
    BY DEF CredentialsInit, InvitationsInv, Fitting, Entitled, VisitRequest, Away0
  <2>2. ResetsInv
    BY DEF CredentialsInit, ResetsInv, Taking, Holding, Away0
  <2> QED
    BY <2>1, <2>2 DEF CredentialsInv
<1>2. CredentialsInv /\ [CredentialsNext]_credentialVars => CredentialsInv'
  BY InvitationsStep, ResetsStep DEF CredentialsInv
<1>3. CredentialsInv => LinksWorkOnce
  <2> SUFFICES ASSUME CredentialsInv PROVE LinksWorkOnce
    OBVIOUS
  <2>1. (invitation # NoRow /\ invitation.accepted) => invitation.by >= invitation.resent
    BY DEF CredentialsInv, InvitationsInv, Fitting
  <2>2. ASSUME NEW t \in DOMAIN resets
        PROVE  spent[t] + Cardinality({b \in Browsers : visit[b].step \in {"password", "give-back"} /\ visit[b].reset = t}) <= 1
    <3>1. PICK H : H = {b \in Browsers : visit[b].step \in {"password", "give-back"} /\ visit[b].reset = t}
      OBVIOUS
    <3>2. \A b \in H : H = {b} /\ spent[t] = 0
      BY <3>1 DEF CredentialsInv, ResetsInv, Holding
    <3>3. CASE H = {}
      <4>1. Cardinality(H) = 0
        BY <3>3, FS_EmptySet
      <4>2. spent[t] \in Nat /\ spent[t] <= 1
        BY DEF CredentialsInv, ResetsInv
      <4>3. spent[t] + Cardinality(H) <= 1
        BY <4>1, <4>2
      <4> QED
        BY <3>1, <4>3
    <3>4. CASE H # {}
      <4>1. PICK b : H = {b} /\ spent[t] = 0
        BY <3>2, <3>4
      <4>2. Cardinality(H) = 1
        BY <4>1, FS_Singleton
      <4>3. spent[t] + Cardinality(H) <= 1
        BY <4>1, <4>2
      <4> QED
        BY <3>1, <4>3
    <3> QED
      BY <3>3, <3>4
  <2> QED
    BY <2>1, <2>2 DEF LinksWorkOnce
<1> QED
  BY <1>1, <1>2, <1>3, PTL DEF CredentialsSpec

----------------------------------------------------------------------------
(* Workspaces and host names *)

\* What a request carries at each step.
FoundingRequest ==
         {Rested}
    \cup [step : {"prefix"}, workspace : Tenants, domain : HostNames, manual : BOOLEAN]
    \cup [step : {"tenant", "host", "roles", "permit", "admin"}, workspace : Tenants, domain : HostNames,
          manual : BOOLEAN, prefix : Int]
    \cup [step : {"activate", "rename"}, workspace : Tenants, domain : HostNames \cup {NoHost}]
    \cup [step : {"delete", "verify"}, workspace : Tenants, domain : HostNames, id : Nat]

Registering(f) == f.step \in {"prefix", "tenant", "host", "roles", "permit", "admin"}

\* The primary row of a workspace's subdomain is its own.
Homed(w) == hosts[tenant[w].domain] # NoHost /\ hosts[tenant[w].domain].workspace = w /\ hosts[tenant[w].domain].primary

\* What a request may rely on.
Grounded(f) ==
    /\ f.step \in {"prefix", "tenant"} => tenant[f.workspace] = NoHost
    /\ f.step \in {"host", "roles", "permit", "admin", "activate", "rename"} => tenant[f.workspace] # NoHost
    /\ f.step = "host" => tenant[f.workspace].domain = f.domain \/ Homed(f.workspace)
    /\ f.step \in {"roles", "permit", "admin"} => Homed(f.workspace)
    /\ f.step \in {"host", "roles"} => tenant[f.workspace].role = "none"
    /\ f.step = "admin" => tenant[f.workspace].role = "able"
    /\ f.step = "rename" => f.domain # NoHost

TenantsInv ==
    /\ tenant \in [Tenants -> TenantRow \cup {NoHost}]
    /\ founding \in [Founding -> FoundingRequest]
    /\ \A v, w \in Existing : tenant[v].domain = tenant[w].domain => v = w
    /\ \A w \in Existing : tenant[w].admin # "none" => Homed(w) /\ tenant[w].role = "able"
    /\ \A c \in Founding : Grounded(founding[c])
    /\ \A c, o \in Founding : Registering(founding[c]) /\ Registering(founding[o])
                              /\ founding[c].workspace = founding[o].workspace => c = o

\* A row that a request looked up keeps its kind, and an alias keeps its name.
LookedUp(f) ==
    f.step \in {"delete", "verify"} =>
        /\ f.id <= hostRows
        /\ \A d \in HostNames : hosts[d] # NoHost /\ hosts[d].id = f.id =>
              (f.step = "delete" => ~hosts[d].primary) /\ (~hosts[d].primary => d = f.domain)

HostsInv ==
    /\ hosts \in [HostNames -> HostRow \cup {NoHost}] /\ hostRows \in Nat
    /\ \A d \in HostNames : hosts[d] # NoHost => hosts[d].id <= hostRows
    /\ \A d, e \in HostNames : hosts[d] # NoHost /\ hosts[e] # NoHost /\ hosts[d].id = hosts[e].id => d = e
    /\ \A c \in Founding : LookedUp(founding[c])
    /\ \A d \in HostNames : (hosts[d] # NoHost /\ ~hosts[d].primary /\ hosts[d].verified) => d \in foundRecords

WorkspacesInv == TenantsInv /\ HostsInv

\* A request goes on.
LEMMA FoundingMoves ==
    ASSUME TenantsInv, NEW c \in Founding, NEW x \in FoundingRequest, founding' = [founding EXCEPT ![c] = x]
    PROVE  founding' \in [Founding -> FoundingRequest] /\ \A o \in Founding : founding'[o] = IF o = c THEN x ELSE founding[o]
BY DEF TenantsInv

LEMMA StepMoves ==
    ASSUME NEW f \in FoundingRequest, NEW s,
           \/ f.step \in {"tenant", "host", "roles", "permit"} /\ s \in {"host", "roles", "permit", "admin"}
           \/ f.step = "activate" /\ s = "rename"
    PROVE  /\ [f EXCEPT !.step = s] \in FoundingRequest /\ [f EXCEPT !.step = s].step = s
           /\ [f EXCEPT !.step = s].workspace = f.workspace /\ [f EXCEPT !.step = s].domain = f.domain
BY DEF FoundingRequest, Rested

\* A workspace's row changes, and its subdomain does not.
LEMMA TenantMoves ==
    ASSUME TenantsInv, UNCHANGED hosts, NEW w \in Existing, NEW t \in TenantRow, tenant' = [tenant EXCEPT ![w] = t],
           t.domain = tenant[w].domain
    PROVE  /\ tenant' \in [Tenants -> TenantRow \cup {NoHost}] /\ Existing' = Existing
           /\ \A v \in Tenants : tenant'[v] = IF v = w THEN t ELSE tenant[v]
           /\ \A v \in Existing : tenant'[v].domain = tenant[v].domain /\ (Homed(v) => Homed(v)')
<1>1. tenant' \in [Tenants -> TenantRow \cup {NoHost}] /\ \A v \in Tenants : tenant'[v] = IF v = w THEN t ELSE tenant[v]
  BY DEF TenantsInv, Existing
<1>2. t # NoHost /\ tenant[w] # NoHost
  BY WorkspacesAssumption DEF Existing
<1>3. Existing' = Existing
  BY <1>1, <1>2 DEF Existing
<1>4. \A v \in Existing : tenant'[v].domain = tenant[v].domain
  BY <1>1 DEF Existing
<1>5. \A v \in Existing : Homed(v) => Homed(v)'
  BY <1>4 DEF Homed
<1> QED
  BY <1>1, <1>3, <1>4, <1>5

\* Steps that rename nothing and leave every home in its place.
LEMMA TenantsKept ==
    ASSUME TenantsInv, tenant' \in [Tenants -> TenantRow \cup {NoHost}], founding' \in [Founding -> FoundingRequest],
           Existing' = Existing, \A w \in Existing : tenant'[w].domain = tenant[w].domain /\ (Homed(w) => Homed(w)'),
           \A w \in Existing : tenant'[w].admin # "none" => Homed(w)' /\ tenant'[w].role = "able",
           \A c \in Founding : Grounded(founding[c])',
           \A c \in Founding : Registering(founding'[c]) =>
                Registering(founding[c]) /\ founding'[c].workspace = founding[c].workspace
    PROVE  TenantsInv'
<1>1. \A v, w \in Existing' : tenant'[v].domain = tenant'[w].domain => v = w
  BY DEF TenantsInv
<1>2. \A c, o \in Founding : Registering(founding'[c]) /\ Registering(founding'[o])
                              /\ founding'[c].workspace = founding'[o].workspace => c = o
  BY DEF TenantsInv
<1> QED
  BY <1>1, <1>2 DEF TenantsInv

\* A request that changes no row and is grounded afterwards.
LEMMA OthersGrounded ==
    ASSUME TenantsInv, Existing' = Existing,
           \A w \in Existing : tenant'[w].domain = tenant[w].domain /\ (Homed(w) => Homed(w)'),
           NEW o \in Founding, founding'[o] = founding[o],
           founding[o].step \in {"host", "roles", "admin"} =>
                tenant'[founding[o].workspace].role = tenant[founding[o].workspace].role
    PROVE  Grounded(founding[o])'
<1>1. PICK f \in FoundingRequest : f = founding[o]
  BY DEF TenantsInv
<1>2. f # Rested => f.workspace \in Tenants
  BY <1>1 DEF FoundingRequest
<1>3. Grounded(f)
  BY <1>1 DEF TenantsInv
<1>4. f # Rested => (tenant[f.workspace] = NoHost <=> tenant'[f.workspace] = NoHost)
  BY <1>2 DEF Existing
<1>5. tenant[f.workspace] # NoHost /\ f # Rested => f.workspace \in Existing
  BY <1>2 DEF Existing
<1>6. f.step # "none" => f # Rested
  BY DEF Rested
<1> QED
  BY <1>1, <1>3, <1>4, <1>5, <1>6 DEF Grounded

\* Rename: another workspace neither has the name nor an alias of it; the
\* row of the name is a primary one of the workspace, new or moved there.
LEMMA RenameMoves ==
    ASSUME TenantsInv, HostsInv, NEW w \in Existing, NEW d \in HostNames, Rename(w, d),
           ~UNCHANGED <<tenant, hosts, hostRows>>
    PROVE  /\ \E t \in TenantRow : /\ tenant' = [tenant EXCEPT ![w] = t]
                                   /\ t.domain = d /\ t.admin = tenant[w].admin /\ t.role = tenant[w].role
           /\ \A v \in Existing : v # w => tenant[v].domain # d
           /\ hosts' \in [HostNames -> HostRow \cup {NoHost}]
           /\ hosts'[d] # NoHost /\ hosts'[d].workspace = w /\ hosts'[d].primary
           /\ \E p \in HostNames \cup {NoHost} :
                 /\ \A e \in HostNames : e # d => hosts'[e] = IF e = p THEN NoHost ELSE hosts[e]
                 /\ \/ p = NoHost /\ hosts'[d].id = hostRows + 1 /\ hostRows' = hostRows + 1
                    \/ /\ p \in HostNames /\ hosts[p] # NoHost /\ hosts[p].workspace = w /\ hosts[p].primary
                       /\ hosts'[d] = hosts[p] /\ hostRows' = hostRows
<1>1. PICK t \in TenantRow : t = tenant[w]
  BY DEF TenantsInv, Existing
<1>2. PICK u : u = [t EXCEPT !.domain = d]
  OBVIOUS
<1>3. u \in TenantRow /\ u.domain = d /\ u.admin = t.admin /\ u.role = t.role
  BY <1>1, <1>2 DEF TenantRow
<1>4. tenant' = [tenant EXCEPT ![w].domain = d] /\ ~TakenByOther(w, d)
  BY DEF Rename
<1>5. tenant' = [tenant EXCEPT ![w] = u]
  BY <1>1, <1>2, <1>4
<1>6. \A v \in Existing : v # w => tenant[v].domain # d
  BY <1>4 DEF TakenByOther, Resolve
<1>7. CASE hosts' = [hosts EXCEPT ![d] = Host(w, TRUE)] /\ hostRows' = hostRows + 1
  <2>1. PICK n \in Nat : n = hostRows + 1
    BY DEF HostsInv
  <2>2. PICK h \in HostRow : h = Host(w, TRUE) /\ h.id = n /\ h.workspace = w /\ h.primary
    <3>1. PICK h : h = [id |-> n, workspace |-> w, primary |-> TRUE, verified |-> FALSE]
      OBVIOUS
    <3>2. h \in HostRow
      BY <2>1, <3>1 DEF HostRow, Existing
    <3>3. h.id = n /\ h.workspace = w /\ h.primary = TRUE
      BY <3>1
    <3>4. h = Host(w, TRUE)
      BY <2>1, <3>1 DEF Host
    <3> QED
      BY <3>2, <3>3, <3>4
  <2>3. h # NoHost
    BY <2>2, WorkspacesAssumption
  <2>4. hosts' \in [HostNames -> HostRow \cup {NoHost}] /\ \A e \in HostNames : hosts'[e] = IF e = d THEN h ELSE hosts[e]
    BY <1>7, <2>2 DEF HostsInv
  <2>5. \A e \in HostNames : e # NoHost
    BY WorkspacesAssumption
  <2> QED
    BY <1>3, <1>5, <1>6, <1>7, <1>1, <2>1, <2>2, <2>3, <2>4, <2>5
<1>8. CASE ~(hosts' = [hosts EXCEPT ![d] = Host(w, TRUE)] /\ hostRows' = hostRows + 1)
  <2>1. PICK p \in HostNames : /\ hosts[p] # NoHost /\ hosts[p].workspace = w /\ hosts[p].primary
                               /\ hosts' = [hosts EXCEPT ![p] = NoHost, ![d] = hosts[p]] /\ hostRows' = hostRows
    BY <1>8 DEF Rename
  <2>2. hosts' \in [HostNames -> HostRow \cup {NoHost}] /\ hosts'[d] = hosts[p]
        /\ \A e \in HostNames : e # d => hosts'[e] = IF e = p THEN NoHost ELSE hosts[e]
    BY <2>1 DEF HostsInv
  <2> QED
    BY <1>1, <1>3, <1>5, <1>6, <2>1, <2>2
<1> QED
  BY <1>7, <1>8

\* A rename keeps every subdomain its workspace's own.
LEMMA RenameKeepsHomes ==
    ASSUME TenantsInv, HostsInv, NEW w \in Existing, NEW d \in HostNames, Rename(w, d),
           founding' \in [Founding -> FoundingRequest],
           \A c \in Founding : founding'[c] = founding[c] \/ founding'[c] = Rested
    PROVE  TenantsInv'
<1>0. Grounded(Rested)' /\ ~Registering(Rested)
  BY DEF Grounded, Registering, Rested
<1>1. \A c \in Founding : Registering(founding'[c]) => founding'[c] = founding[c]
  BY <1>0
<1>2. CASE UNCHANGED <<tenant, hosts, hostRows>>
  <2>1. /\ Existing' = Existing /\ tenant' \in [Tenants -> TenantRow \cup {NoHost}]
        /\ \A v \in Existing : tenant'[v].domain = tenant[v].domain /\ (Homed(v) => Homed(v)')
        /\ \A v \in Existing : tenant'[v].admin # "none" => Homed(v)' /\ tenant'[v].role = "able"
    BY <1>2 DEF Existing, Homed, TenantsInv
  <2>2. \A c \in Founding : Grounded(founding[c])'
    <3> SUFFICES ASSUME NEW c \in Founding PROVE Grounded(founding[c])'
      OBVIOUS
    <3>1. CASE founding'[c] = founding[c]
      BY <1>2, <2>1, <3>1, OthersGrounded
    <3>2. CASE founding'[c] = Rested
      BY <1>0, <3>2
    <3> QED
      BY <3>1, <3>2
  <2> QED
    BY <1>1, <2>1, <2>2, TenantsKept
<1>3. CASE ~UNCHANGED <<tenant, hosts, hostRows>>
  <2>1. PICK t \in TenantRow : /\ tenant' = [tenant EXCEPT ![w] = t]
                               /\ t.domain = d /\ t.admin = tenant[w].admin /\ t.role = tenant[w].role
    BY <1>3, RenameMoves
  <2>2. \A v \in Existing : v # w => tenant[v].domain # d
    BY <1>3, RenameMoves
  <2>3. PICK p \in HostNames \cup {NoHost} :
           /\ \A e \in HostNames : e # d => hosts'[e] = IF e = p THEN NoHost ELSE hosts[e]
           /\ p = NoHost \/ (p \in HostNames /\ hosts[p].workspace = w)
    BY <1>3, RenameMoves
  <2>4. tenant' \in [Tenants -> TenantRow \cup {NoHost}] /\ \A v \in Tenants : tenant'[v] = IF v = w THEN t ELSE tenant[v]
    BY <2>1 DEF TenantsInv, Existing
  <2>5. t # NoHost /\ tenant[w] # NoHost
    BY WorkspacesAssumption DEF Existing
  <2>6. Existing' = Existing
    BY <2>4, <2>5 DEF Existing
  <2>7. \A v \in Existing : tenant'[v] = IF v = w THEN t ELSE tenant[v]
    BY <2>4 DEF Existing
  <2>8. Homed(w)'
    <3>1. tenant'[w].domain = d
      BY <2>1, <2>7
    <3>2. hosts'[d] # NoHost /\ hosts'[d].workspace = w /\ hosts'[d].primary
      BY <1>3, RenameMoves
    <3> QED
      BY <3>1, <3>2 DEF Homed
  <2>9. \A v \in Existing : Homed(v) => Homed(v)'
    <3> SUFFICES ASSUME NEW v \in Existing, v # w, Homed(v) PROVE Homed(v)'
      BY <2>8
    <3>1. PICK k \in HostNames : k = tenant[v].domain /\ k # d
      BY <2>2 DEF TenantsInv, Existing, TenantRow
    <3>2. tenant'[v].domain = k
      BY <2>7, <3>1
    <3>3. k # p
      BY <2>3, <3>1, WorkspacesAssumption DEF Homed
    <3>4. hosts'[k] = hosts[k]
      BY <2>3, <3>1, <3>3
    <3> QED
      BY <3>1, <3>2, <3>4 DEF Homed
  <2>10. \A u, v \in Existing : tenant'[u].domain = tenant'[v].domain => u = v
    BY <2>1, <2>2, <2>7 DEF TenantsInv
  <2>11. \A v \in Existing : tenant'[v].admin # "none" => Homed(v)' /\ tenant'[v].role = "able"
    BY <2>1, <2>7, <2>9 DEF TenantsInv
  <2>12. ASSUME NEW c \in Founding, founding'[c] = founding[c]
         PROVE  Grounded(founding[c])'
    <3>1. PICK f \in FoundingRequest : f = founding[c] /\ f = founding'[c]
      BY <2>12 DEF TenantsInv
    <3>2. Grounded(f)
      BY <3>1 DEF TenantsInv
    <3>3. f.step # "none" => f.workspace \in Tenants
      BY <3>1 DEF FoundingRequest, Rested
    <3>4. f.step # "none" => (tenant[f.workspace] = NoHost <=> tenant'[f.workspace] = NoHost)
      BY <2>6, <3>3 DEF Existing
    <3>5. f.step # "none" /\ tenant[f.workspace] # NoHost =>
             /\ Homed(f.workspace) => Homed(f.workspace)'
             /\ tenant'[f.workspace].role = tenant[f.workspace].role
             /\ tenant'[f.workspace].domain = tenant[f.workspace].domain \/ Homed(f.workspace)'
      BY <2>1, <2>7, <2>8, <2>9, <3>3 DEF Existing
    <3>6. Grounded(f)'
      BY <3>2, <3>4, <3>5 DEF Grounded
    <3> QED
      BY <3>1, <3>6 DEF Grounded
  <2>13. \A c \in Founding : Grounded(founding[c])'
    <3> SUFFICES ASSUME NEW c \in Founding, founding'[c] = Rested PROVE Grounded(founding[c])'
      BY <2>12
    <3> QED
      BY DEF Grounded, Rested
  <2>14. \A c, o \in Founding : Registering(founding'[c]) /\ Registering(founding'[o])
                              /\ founding'[c].workspace = founding'[o].workspace => c = o
    BY <1>1 DEF TenantsInv
  <2> QED
    BY <2>4, <2>6, <2>10, <2>11, <2>13, <2>14 DEF TenantsInv
<1> QED
  BY <1>2, <1>3

\* Requests that change no row of a workspace, and leave primary rows alone.
LEMMA HomesStay ==
    ASSUME TenantsInv, UNCHANGED tenant,
           \A d \in HostNames : hosts[d] # NoHost /\ hosts[d].primary =>
               hosts'[d] # NoHost /\ hosts'[d].workspace = hosts[d].workspace /\ hosts'[d].primary
    PROVE  /\ tenant' \in [Tenants -> TenantRow \cup {NoHost}] /\ Existing' = Existing
           /\ \A w \in Existing : tenant'[w].domain = tenant[w].domain /\ (Homed(w) => Homed(w)')
           /\ \A w \in Existing : tenant'[w].admin # "none" => Homed(w)' /\ tenant'[w].role = "able"
<1>1. Existing' = Existing
  BY DEF Existing
<1>2. \A w \in Existing : tenant[w].domain \in HostNames
  BY DEF TenantsInv, Existing, TenantRow
<1>3. \A w \in Existing : Homed(w) => Homed(w)'
  BY <1>2 DEF Homed
<1> QED
  BY <1>1, <1>3 DEF TenantsInv

\* A request goes on, and finds what it may rely on.
LEMMA RequestMoves ==
    ASSUME TenantsInv, NEW c \in Founding, NEW x \in FoundingRequest, founding' = [founding EXCEPT ![c] = x],
           tenant' \in [Tenants -> TenantRow \cup {NoHost}], Existing' = Existing,
           \A w \in Existing : tenant'[w].domain = tenant[w].domain /\ (Homed(w) => Homed(w)'),
           \A w \in Existing : tenant'[w].admin # "none" => Homed(w)' /\ tenant'[w].role = "able",
           \A o \in Founding : o # c /\ founding[o].step \in {"host", "roles", "admin"} =>
                tenant'[founding[o].workspace].role = tenant[founding[o].workspace].role,
           Grounded(x)', Registering(x) => Registering(founding[c]) /\ x.workspace = founding[c].workspace
    PROVE  TenantsInv'
<1>1. founding' \in [Founding -> FoundingRequest] /\ \A o \in Founding : founding'[o] = IF o = c THEN x ELSE founding[o]
  BY FoundingMoves
<1>2. \A o \in Founding : Grounded(founding[o])'
  <2> SUFFICES ASSUME NEW o \in Founding PROVE Grounded(founding[o])'
    OBVIOUS
  <2>1. CASE o = c
    <3>1. founding'[o] = x
      BY <1>1, <2>1
    <3> QED
      BY <3>1 DEF Grounded
  <2>2. CASE o # c
    BY <1>1, <2>2, OthersGrounded
  <2> QED
    BY <2>1, <2>2
<1>3. \A o \in Founding : Registering(founding'[o]) => Registering(founding[o]) /\ founding'[o].workspace = founding[o].workspace
  BY <1>1
<1> QED
  BY <1>1, <1>2, <1>3, TenantsKept

LEMMA RestIsGrounded == Rested \in FoundingRequest /\ Grounded(Rested)' /\ ~Registering(Rested)
BY DEF FoundingRequest, Grounded, Registering, Rested

\* The steps of a registration, and of an approval, up to its rename.
LEMMA TenantsOnTheirWay ==
    ASSUME TenantsInv, HostsInv, NEW c \in Founding,
           \/ PickPrefix(c) \/ InsertTenant(c) \/ InsertHost(c) \/ SeedRole(c) \/ PermitRole(c) \/ InsertAdmin(c)
           \/ ActivateTenant(c)
    PROVE  TenantsInv'
<1>1. PICK f \in FoundingRequest : f = founding[c]
  BY DEF TenantsInv
<1>2. f.step \in {"prefix", "tenant", "host", "roles", "permit", "admin", "activate"} /\ f.workspace \in Tenants
  <2>1. f.step \in {"prefix", "tenant", "host", "roles", "permit", "admin", "activate"}
    BY <1>1 DEF PickPrefix, InsertTenant, InsertHost, SeedRole, PermitRole, InsertAdmin, ActivateTenant
  <2> QED
    BY <2>1 DEF FoundingRequest, Rested
<1>3. PICK w \in Tenants : w = f.workspace
  BY <1>2
<1>4. Grounded(f)
  BY <1>1 DEF TenantsInv
<1>5. \A o \in Founding : o # c /\ f.step # "activate" /\ founding[o].step \in {"host", "roles", "admin"} =>
                          founding[o].workspace # w
  BY <1>1, <1>2, <1>3 DEF TenantsInv, Registering
<1>6. ASSUME UNCHANGED <<tenant, hosts>>
      PROVE  /\ tenant' \in [Tenants -> TenantRow \cup {NoHost}] /\ Existing' = Existing
             /\ \A v \in Existing : tenant'[v].domain = tenant[v].domain /\ (Homed(v) => Homed(v)')
             /\ \A v \in Existing : tenant'[v].admin # "none" => Homed(v)' /\ tenant'[v].role = "able"
  BY <1>6, HomesStay
<1>7. ASSUME UNCHANGED <<tenant, hosts>>, Over(c)
      PROVE  TenantsInv'
  BY <1>6, <1>7, RestIsGrounded, RequestMoves DEF Over
<1>8. CASE PickPrefix(c)
  <2>1. PICK n \in Int : founding' = [founding EXCEPT ![c] = [step |-> "tenant", workspace |-> f.workspace,
                domain |-> f.domain, manual |-> f.manual, prefix |-> n]]
    <3>1. Cardinality(Tenants) \in Nat
      BY WorkspacesAssumption, FS_CardinalityType
    <3>2. PICK n \in 0..Cardinality(Tenants) : founding' = [founding EXCEPT ![c] = [step |-> "tenant",
             workspace |-> f.workspace, domain |-> f.domain, manual |-> f.manual, prefix |-> n]]
      BY <1>1, <1>8 DEF PickPrefix
    <3>3. n \in Int
      BY <3>1, <3>2
    <3> QED
      BY <3>2, <3>3
  <2>2. PICK x : x = [step |-> "tenant", workspace |-> f.workspace, domain |-> f.domain, manual |-> f.manual, prefix |-> n]
    OBVIOUS
  <2>3. x.step = "tenant" /\ x.workspace = w /\ f.step = "prefix"
    BY <1>1, <1>3, <1>8, <2>2 DEF PickPrefix
  <2>4. x \in FoundingRequest
    BY <2>1, <2>2, <2>3 DEF FoundingRequest, Rested
  <2>5. Grounded(x)' /\ Registering(founding[c])
    BY <1>1, <1>3, <1>4, <1>8, <2>3 DEF Grounded, PickPrefix, Registering
  <2>6. UNCHANGED <<tenant, hosts>>
    BY <1>8 DEF PickPrefix
  <2> QED
    BY <1>1, <1>3, <1>6, <2>1, <2>2, <2>3, <2>4, <2>5, <2>6, RequestMoves
<1>9. ASSUME NEW s, Then(c, s),
             \/ f.step \in {"tenant", "host", "roles", "permit"} /\ s \in {"host", "roles", "permit", "admin"}
             \/ f.step = "activate" /\ s = "rename"
      PROVE  \E x \in FoundingRequest : /\ founding' = [founding EXCEPT ![c] = x]
                                        /\ x.step = s /\ x.workspace = w /\ x.domain = f.domain
                                        /\ (Registering(x) => Registering(founding[c]) /\ x.workspace = founding[c].workspace)
  <2>1. PICK x \in FoundingRequest : x = [f EXCEPT !.step = s] /\ x.step = s /\ x.workspace = w /\ x.domain = f.domain
    BY <1>3, <1>9, StepMoves
  <2>2. founding' = [founding EXCEPT ![c] = x]
    BY <1>1, <1>9, <2>1 DEF Then
  <2>3. Registering(x) => Registering(founding[c]) /\ x.workspace = founding[c].workspace
    BY <1>1, <1>3, <1>9, <2>1 DEF Registering
  <2> QED
    BY <2>1, <2>2, <2>3
<1>10. CASE InsertTenant(c)
  <2>1. f.step = "tenant" /\ UNCHANGED hosts /\ tenant[w] = NoHost
    BY <1>1, <1>3, <1>4, <1>10 DEF InsertTenant, Grounded
  <2>2. CASE UNCHANGED tenant /\ Over(c)
    BY <1>7, <2>1, <2>2
  <2>3. CASE ~(UNCHANGED tenant /\ Over(c))
    <3>1. PICK status \in {"ACTIVE", "PENDING"} : status = IF f.manual THEN "ACTIVE" ELSE "PENDING"
      OBVIOUS
    <3>2. PICK t : t = [domain |-> f.domain, prefix |-> f.prefix, admin |-> "none", role |-> "none", status |-> status]
      OBVIOUS
    <3>3. /\ \A v \in Existing : tenant[v].domain # f.domain
          /\ tenant' = [tenant EXCEPT ![w] = t] /\ Then(c, "host")
      BY <1>1, <1>3, <1>10, <2>3, <3>1, <3>2 DEF InsertTenant
    <3>4. t \in TenantRow /\ t.domain = f.domain /\ t.admin = "none" /\ t.role = "none"
      <4>1. f.domain \in HostNames /\ f.prefix \in Int
        BY <2>1 DEF FoundingRequest, Rested
      <4> QED
        BY <3>1, <3>2, <4>1 DEF TenantRow
    <3>5. t # NoHost
      BY <3>4, WorkspacesAssumption
    <3>6. tenant' \in [Tenants -> TenantRow \cup {NoHost}] /\ \A v \in Tenants : tenant'[v] = IF v = w THEN t ELSE tenant[v]
      BY <3>3, <3>4 DEF TenantsInv
    <3>7. Existing' = Existing \cup {w} /\ w \notin Existing
      BY <2>1, <3>5, <3>6 DEF Existing
    <3>8. \A v \in Existing : tenant'[v] = tenant[v] /\ v # w /\ (Homed(v) => Homed(v)')
      BY <2>1, <3>6, <3>7 DEF Existing, Homed
    <3>9. PICK x \in FoundingRequest : /\ founding' = [founding EXCEPT ![c] = x]
                                       /\ x.step = "host" /\ x.workspace = w /\ x.domain = f.domain
      BY <1>9, <2>1, <3>3
    <3>10. founding' \in [Founding -> FoundingRequest] /\ \A o \in Founding : founding'[o] = IF o = c THEN x ELSE founding[o]
      BY <3>9, FoundingMoves
    <3>11. \A u, v \in Existing' : tenant'[u].domain = tenant'[v].domain => u = v
      <4>1. \A v \in Existing : tenant'[v].domain # f.domain
        BY <3>3, <3>8
      <4>2. tenant'[w].domain = f.domain
        BY <3>4, <3>6
      <4> QED
        BY <3>7, <3>8, <4>1, <4>2 DEF TenantsInv
    <3>12. \A v \in Existing' : tenant'[v].admin # "none" => Homed(v)' /\ tenant'[v].role = "able"
      BY <3>4, <3>6, <3>7, <3>8 DEF TenantsInv
    <3>13. ASSUME NEW o \in Founding PROVE Grounded(founding[o])'
      <4>1. CASE o = c
        <5>1. founding'[o] = x /\ tenant'[w] = t
          BY <3>6, <3>10, <4>1
        <5> QED
          BY <3>4, <3>5, <3>9, <5>1 DEF Grounded
      <4>2. CASE o # c
        <5>1. PICK g \in FoundingRequest : g = founding[o] /\ g = founding'[o]
          BY <3>10, <4>2 DEF TenantsInv
        <5>2. Grounded(g)
          BY <5>1 DEF TenantsInv
        <5>3. g.step \in {"prefix", "tenant", "host", "roles", "permit", "admin", "activate", "rename"} =>
                 g.workspace \in Tenants /\ g.workspace # w
          <6>1. g.step \in {"prefix", "tenant"} => g.workspace # w
            BY <1>1, <1>3, <2>1, <4>2, <5>1 DEF TenantsInv, Registering
          <6>2. g.step \in {"host", "roles", "permit", "admin", "activate", "rename"} => g.workspace # w
            BY <2>1, <5>2 DEF Grounded
          <6>3. g.step \in {"prefix", "tenant", "host", "roles", "permit", "admin", "activate", "rename"} =>
                   g.workspace \in Tenants
            BY <5>1 DEF FoundingRequest, Rested
          <6> QED
            BY <6>1, <6>2, <6>3
        <5>4. \A v \in Tenants : v # w => tenant'[v] = tenant[v] /\ (tenant[v] # NoHost /\ Homed(v) => Homed(v)')
          BY <3>6, <3>8 DEF Existing
        <5>5. Grounded(g)'
          BY <5>2, <5>3, <5>4 DEF Grounded
        <5> QED
          BY <5>1, <5>5 DEF Grounded
      <4> QED
        BY <4>1, <4>2
    <3>14. \A o, q \in Founding : Registering(founding'[o]) /\ Registering(founding'[q])
                              /\ founding'[o].workspace = founding'[q].workspace => o = q
      <4>1. \A o \in Founding : Registering(founding'[o]) =>
                Registering(founding[o]) /\ founding'[o].workspace = founding[o].workspace
        BY <1>1, <1>3, <2>1, <3>9, <3>10 DEF Registering
      <4> QED
        BY <4>1 DEF TenantsInv
    <3> QED
      BY <3>6, <3>10, <3>11, <3>12, <3>13, <3>14 DEF TenantsInv
  <2> QED
    BY <2>2, <2>3
<1>11. CASE InsertHost(c)
  <2>1. f.step = "host" /\ UNCHANGED tenant /\ w \in Existing
    BY <1>1, <1>3, <1>4, <1>11 DEF InsertHost, Grounded, Existing
  <2>2. CASE UNCHANGED hosts /\ Over(c)
    BY <1>7, <2>1, <2>2
  <2>3. CASE ~(UNCHANGED hosts /\ Over(c))
    <3>1. PICK d \in HostNames : d = f.domain
      BY <2>1 DEF FoundingRequest, Rested
    <3>2. PICK h : h = Host(w, TRUE)
      OBVIOUS
    <3>3. hosts[d] = NoHost /\ hosts' = [hosts EXCEPT ![d] = h] /\ Then(c, "roles")
      BY <1>1, <1>3, <1>11, <2>3, <3>1, <3>2 DEF InsertHost
    <3>4. h \in HostRow /\ h.workspace = w /\ h.primary = TRUE
      BY <3>2 DEF Host, HostRow, HostsInv
    <3>5. h # NoHost
      BY <3>4, WorkspacesAssumption
    <3>6. \A e \in HostNames : hosts'[e] = IF e = d THEN h ELSE hosts[e]
      BY <3>3 DEF HostsInv
    <3>7. \A e \in HostNames : hosts[e] # NoHost /\ hosts[e].primary =>
               hosts'[e] # NoHost /\ hosts'[e].workspace = hosts[e].workspace /\ hosts'[e].primary
      BY <3>3, <3>6
    <3>8. PICK x \in FoundingRequest : /\ founding' = [founding EXCEPT ![c] = x]
                                       /\ x.step = "roles" /\ x.workspace = w /\ x.domain = f.domain
                                       /\ (Registering(x) => Registering(founding[c]) /\ x.workspace = founding[c].workspace)
      BY <1>9, <2>1, <3>3
    <3>9. Homed(w)'
      <4>1. CASE tenant[w].domain = d
        BY <2>1, <3>4, <3>5, <3>6, <4>1 DEF Homed
      <4>2. CASE Homed(w)
        BY <2>1, <3>7, <4>2, HomesStay
      <4> QED
        BY <1>3, <1>4, <2>1, <3>1, <4>1, <4>2 DEF Grounded
    <3>10. Grounded(x)'
      BY <1>3, <1>4, <2>1, <3>8, <3>9 DEF Grounded
    <3> QED
      BY <2>1, <3>7, <3>8, <3>10, HomesStay, RequestMoves
  <2> QED
    BY <2>2, <2>3
<1>12. CASE SeedRole(c) \/ PermitRole(c) \/ InsertAdmin(c)
  <2>1. f.step \in {"roles", "permit", "admin"} /\ UNCHANGED hosts /\ w \in Existing /\ Homed(w)
    BY <1>1, <1>3, <1>4, <1>12 DEF SeedRole, PermitRole, InsertAdmin, Grounded, Existing
  <2>2. PICK t \in TenantRow : t = tenant[w]
    BY <2>1 DEF TenantsInv, Existing
  <2>3. ASSUME NEW u \in TenantRow, tenant' = [tenant EXCEPT ![w] = u], u.domain = t.domain, u.role \in {"bare", "able"},
               u.admin # "none" => u.role = "able",
               NEW x \in FoundingRequest, founding' = [founding EXCEPT ![c] = x], x = Rested \/ x.workspace = w,
               x.step \in {"none", "permit", "admin"}, x.step = "admin" => u.role = "able"
        PROVE  TenantsInv'
    <3>1. /\ tenant' \in [Tenants -> TenantRow \cup {NoHost}] /\ Existing' = Existing
          /\ \A v \in Tenants : tenant'[v] = IF v = w THEN u ELSE tenant[v]
          /\ \A v \in Existing : tenant'[v].domain = tenant[v].domain /\ (Homed(v) => Homed(v)')
      BY <2>1, <2>2, <2>3, TenantMoves
    <3>2. \A v \in Existing : tenant'[v].admin # "none" => Homed(v)' /\ tenant'[v].role = "able"
      BY <2>1, <2>3, <3>1 DEF TenantsInv, Existing
    <3>3. tenant'[w] = u /\ tenant'[w] # NoHost /\ Homed(w)'
      BY <2>1, <3>1, WorkspacesAssumption DEF Existing
    <3>4. Grounded(x)'
      BY <2>3, <3>3 DEF Grounded, Rested
    <3>5. \A o \in Founding : o # c /\ founding[o].step \in {"host", "roles", "admin"} =>
                tenant'[founding[o].workspace].role = tenant[founding[o].workspace].role
      <4>1. \A o \in Founding : founding[o].step \in {"host", "roles", "admin"} => founding[o].workspace \in Tenants
        BY DEF TenantsInv, FoundingRequest, Rested
      <4> QED
        BY <1>5, <2>1, <3>1, <4>1
    <3>6. Registering(x) => Registering(founding[c]) /\ x.workspace = founding[c].workspace
      BY <1>1, <1>3, <2>1, <2>3, RestIsGrounded DEF Registering
    <3> QED
      BY <2>3, <3>1, <3>2, <3>4, <3>5, <3>6, RequestMoves
  <2>4. CASE SeedRole(c)
    <3>1. t.role = "none" /\ f.step = "roles"
      BY <1>1, <1>3, <1>4, <2>2, <2>4 DEF SeedRole, Grounded
    <3>2. tenant' = [tenant EXCEPT ![w].role = "bare"] /\ Then(c, "permit")
      BY <1>1, <1>3, <2>2, <2>4, <3>1 DEF SeedRole
    <3>3. PICK u : u = [t EXCEPT !.role = "bare"]
      OBVIOUS
    <3>4. u \in TenantRow /\ u.domain = t.domain /\ u.role = "bare" /\ u.admin = t.admin
      BY <2>2, <3>3 DEF TenantRow
    <3>5. tenant' = [tenant EXCEPT ![w] = u]
      BY <2>2, <3>2, <3>3
    <3>6. t.admin = "none"
      BY <2>1, <2>2, <3>1 DEF TenantsInv
    <3>7. PICK x \in FoundingRequest : founding' = [founding EXCEPT ![c] = x] /\ x.step = "permit" /\ x.workspace = w
      BY <1>9, <3>1, <3>2
    <3> QED
      BY <2>3, <3>4, <3>5, <3>6, <3>7
  <2>5. CASE PermitRole(c)
    <3>1. f.step = "permit" /\ tenant' = [tenant EXCEPT ![w].role = "able"] /\ Then(c, "admin")
      BY <1>1, <1>3, <2>5 DEF PermitRole
    <3>3. PICK u : u = [t EXCEPT !.role = "able"]
      OBVIOUS
    <3>4. u \in TenantRow /\ u.domain = t.domain /\ u.role = "able"
      BY <2>2, <3>3 DEF TenantRow
    <3>5. tenant' = [tenant EXCEPT ![w] = u]
      BY <2>2, <3>1, <3>3
    <3>7. PICK x \in FoundingRequest : founding' = [founding EXCEPT ![c] = x] /\ x.step = "admin" /\ x.workspace = w
      BY <1>9, <3>1
    <3> QED
      BY <2>3, <3>4, <3>5, <3>7
  <2>6. CASE InsertAdmin(c)
    <3>1. PICK a \in {"approved", "waiting"} : a = IF f.manual THEN "approved" ELSE "waiting"
      OBVIOUS
    <3>2. f.step = "admin" /\ tenant' = [tenant EXCEPT ![w].admin = a] /\ Over(c)
      BY <1>1, <1>3, <2>6, <3>1 DEF InsertAdmin
    <3>3. PICK u : u = [t EXCEPT !.admin = a]
      OBVIOUS
    <3>4. u \in TenantRow /\ u.domain = t.domain /\ u.role = t.role
      BY <2>2, <3>1, <3>3 DEF TenantRow
    <3>5. tenant' = [tenant EXCEPT ![w] = u]
      BY <2>2, <3>2, <3>3
    <3>6. u.role = "able"
      BY <1>3, <1>4, <2>2, <3>2, <3>4 DEF Grounded
    <3>7. Rested.step = "none"
      BY DEF Rested
    <3> QED
      BY <2>3, <3>2, <3>4, <3>5, <3>6, <3>7, RestIsGrounded DEF Over
  <2> QED
    BY <1>12, <2>4, <2>5, <2>6
<1>13. CASE ActivateTenant(c)
  <2>1. f.step = "activate" /\ UNCHANGED hosts /\ w \in Existing
    BY <1>1, <1>3, <1>4, <1>13 DEF ActivateTenant, Grounded, Existing
  <2>2. PICK t \in TenantRow : t = tenant[w]
    BY <2>1 DEF TenantsInv, Existing
  <2>3. PICK u : u = [t EXCEPT !.status = "ACTIVE"]
    OBVIOUS
  <2>4. u \in TenantRow /\ u.domain = t.domain /\ u.role = t.role /\ u.admin = t.admin
    BY <2>2, <2>3 DEF TenantRow
  <2>5. tenant' = [tenant EXCEPT ![w] = u]
    BY <1>1, <1>3, <1>13, <2>2, <2>3 DEF ActivateTenant
  <2>6. /\ tenant' \in [Tenants -> TenantRow \cup {NoHost}] /\ Existing' = Existing
        /\ \A v \in Tenants : tenant'[v] = IF v = w THEN u ELSE tenant[v]
        /\ \A v \in Existing : tenant'[v].domain = tenant[v].domain /\ (Homed(v) => Homed(v)')
    BY <2>1, <2>2, <2>4, <2>5, TenantMoves
  <2>7. \A v \in Tenants : tenant'[v].role = tenant[v].role /\ tenant'[v].admin = tenant[v].admin
    BY <2>2, <2>4, <2>6
  <2>8. \A v \in Existing : tenant'[v].admin # "none" => Homed(v)' /\ tenant'[v].role = "able"
    BY <2>6, <2>7 DEF TenantsInv, Existing
  <2>9. \A o \in Founding : founding[o].step \in {"host", "roles", "admin"} =>
                tenant'[founding[o].workspace].role = tenant[founding[o].workspace].role
    <3>1. \A o \in Founding : founding[o].step \in {"host", "roles", "admin"} => founding[o].workspace \in Tenants
      BY DEF TenantsInv, FoundingRequest, Rested
    <3> QED
      BY <2>7, <3>1
  <2>10. CASE Over(c)
    BY <2>6, <2>8, <2>9, <2>10, RestIsGrounded, RequestMoves DEF Over
  <2>11. CASE ~Over(c)
    <3>1. Then(c, "rename") /\ f.domain # NoHost
      BY <1>1, <1>13, <2>11 DEF ActivateTenant
    <3>2. PICK x \in FoundingRequest : /\ founding' = [founding EXCEPT ![c] = x]
                                       /\ x.step = "rename" /\ x.workspace = w /\ x.domain = f.domain
      BY <1>9, <2>1, <3>1
    <3>3. tenant'[w] # NoHost
      BY <2>4, <2>6, WorkspacesAssumption
    <3>4. Grounded(x)' /\ ~Registering(x)
      BY <3>1, <3>2, <3>3 DEF Grounded, Registering
    <3> QED
      BY <2>6, <2>8, <2>9, <3>2, <3>4, RequestMoves
  <2> QED
    BY <2>10, <2>11
<1> QED
  BY <1>8, <1>10, <1>11, <1>12, <1>13

\* Every step keeps the subdomains of workspaces in their place.
LEMMA TenantsStep ==
    ASSUME TenantsInv, HostsInv, [WorkspacesNext]_workspaceVars
    PROVE  TenantsInv'
<1>1. ASSUME UNCHANGED founding, tenant' \in [Tenants -> TenantRow \cup {NoHost}], Existing' = Existing,
             \A w \in Existing : tenant'[w].domain = tenant[w].domain /\ (Homed(w) => Homed(w)'),
             \A w \in Existing : tenant'[w].admin # "none" => Homed(w)' /\ tenant'[w].role = "able",
             \A w \in Tenants : tenant'[w].role = tenant[w].role
      PROVE  TenantsInv'
  <2>1. \A o \in Founding : founding[o].step \in {"host", "roles", "admin"} => founding[o].workspace \in Tenants
    BY DEF TenantsInv, FoundingRequest, Rested
  <2>2. ASSUME NEW o \in Founding PROVE Grounded(founding[o])'
    BY <1>1, <2>1, OthersGrounded
  <2> QED
    BY <1>1, <2>2, TenantsKept DEF TenantsInv
<1>2. CASE UNCHANGED <<tenant, hosts, founding>>
  BY <1>1, <1>2, HomesStay
<1>3. CASE AddTenantDomain
  <2>1. PICK w \in Existing, d \in HostNames : hosts[d] = NoHost /\ hosts' = [hosts EXCEPT ![d] = Host(w, FALSE)]
    BY <1>3 DEF AddTenantDomain
  <2>2. \A e \in HostNames : hosts[e] # NoHost => hosts'[e] = hosts[e]
    BY <2>1 DEF HostsInv
  <2>3. UNCHANGED <<tenant, founding>>
    BY <1>3 DEF AddTenantDomain
  <2> QED
    BY <1>1, <2>2, <2>3, HomesStay
<1>4. CASE UpdateTenantStatus
  <2>1. PICK w \in Existing, s \in {"ACTIVE", "INACTIVE", "PENDING"} : tenant' = [tenant EXCEPT ![w].status = s]
    BY <1>4 DEF UpdateTenantStatus
  <2>2. PICK t \in TenantRow : t = tenant[w]
    BY <2>1 DEF TenantsInv, Existing
  <2>3. PICK u : u = [t EXCEPT !.status = s]
    OBVIOUS
  <2>4. u \in TenantRow /\ u.domain = t.domain /\ u.role = t.role /\ u.admin = t.admin
    BY <2>1, <2>2, <2>3 DEF TenantRow
  <2>5. tenant' = [tenant EXCEPT ![w] = u] /\ UNCHANGED <<hosts, founding>>
    BY <1>4, <2>1, <2>2, <2>3 DEF UpdateTenantStatus
  <2>6. /\ tenant' \in [Tenants -> TenantRow \cup {NoHost}] /\ Existing' = Existing
        /\ \A v \in Tenants : tenant'[v] = IF v = w THEN u ELSE tenant[v]
        /\ \A v \in Existing : tenant'[v].domain = tenant[v].domain /\ (Homed(v) => Homed(v)')
    BY <2>1, <2>2, <2>4, <2>5, TenantMoves
  <2>7. \A v \in Tenants : tenant'[v].role = tenant[v].role /\ tenant'[v].admin = tenant[v].admin
    BY <2>2, <2>4, <2>6
  <2>8. \A v \in Existing : tenant'[v].admin # "none" => Homed(v)' /\ tenant'[v].role = "able"
    BY <2>6, <2>7 DEF TenantsInv, Existing
  <2> QED
    BY <1>1, <2>5, <2>6, <2>7, <2>8
<1>5. CASE UpdateTenant
  <2>1. PICK w \in Existing, d \in HostNames : Rename(w, d)
    BY <1>5 DEF UpdateTenant
  <2>2. founding' = founding
    BY <1>5 DEF UpdateTenant
  <2> QED
    BY <2>1, <2>2, RenameKeepsHomes DEF TenantsInv
<1>6. CASE ServerStops
  <2>1. UNCHANGED hosts /\ \A c \in Founding : founding'[c] = Rested
    BY <1>6 DEF ServerStops
  <2>2. founding' \in [Founding -> FoundingRequest]
    BY <1>6, RestIsGrounded DEF ServerStops
  <2>3. /\ tenant' \in [Tenants -> TenantRow \cup {NoHost}] /\ Existing' = Existing
        /\ \A w \in Existing : tenant'[w].domain = tenant[w].domain /\ tenant'[w].admin = tenant[w].admin
                               /\ (tenant[w].role = "able" => tenant'[w].role = "able")
    <3>1. ASSUME NEW t \in TenantRow
          PROVE  /\ [t EXCEPT !.role = "able"] \in TenantRow /\ [t EXCEPT !.role = "able"].domain = t.domain
                 /\ [t EXCEPT !.role = "able"].admin = t.admin
      BY DEF TenantRow
    <3>2. \A w \in Tenants : tenant'[w] = IF w \in Existing /\ tenant[w].role = "none"
                                    THEN [tenant[w] EXCEPT !.role = "able"] ELSE tenant[w]
      BY <1>6 DEF ServerStops
    <3>3. \A w \in Existing : tenant[w] \in TenantRow
      BY DEF TenantsInv, Existing
    <3>4. ASSUME NEW w \in Tenants
          PROVE  tenant'[w] \in TenantRow \cup {NoHost} /\ (tenant'[w] = NoHost <=> tenant[w] = NoHost)
      <4>1. CASE w \in Existing
        <5>1. tenant'[w] \in TenantRow
          BY <3>1, <3>2, <3>3, <4>1
        <5> QED
          BY <4>1, <5>1, WorkspacesAssumption DEF Existing
      <4>2. CASE w \notin Existing
        BY <3>2, <4>2 DEF TenantsInv
      <4> QED
        BY <4>1, <4>2
    <3>5. tenant' = [w \in Tenants |-> tenant'[w]]
      BY <1>6 DEF ServerStops
    <3>6. tenant' \in [Tenants -> TenantRow \cup {NoHost}]
      BY <3>4, <3>5
    <3>7. Existing' = Existing
      BY <3>4 DEF Existing
    <3>8. \A w \in Existing : w \in Tenants
      BY DEF Existing
    <3> QED
      BY <3>1, <3>2, <3>3, <3>6, <3>7, <3>8
  <2>4. \A w \in Existing : Homed(w) => Homed(w)'
    BY <2>1, <2>3 DEF Homed
  <2>5. \A c \in Founding : Grounded(founding[c])'
    <3> SUFFICES ASSUME NEW c \in Founding PROVE Grounded(founding[c])'
      OBVIOUS
    <3> QED
      BY <2>1 DEF Grounded, Rested
  <2>6. \A w \in Existing : tenant'[w].admin # "none" => Homed(w)' /\ tenant'[w].role = "able"
    BY <2>3, <2>4 DEF TenantsInv
  <2> QED
    BY <2>1, <2>2, <2>3, <2>4, <2>5, <2>6, RestIsGrounded, TenantsKept
<1>7. ASSUME NEW c \in Founding, NEW manual \in BOOLEAN, Found(c, manual)
      PROVE  TenantsInv'
  <2>1. PICK w \in Tenants \ Existing, d \in HostNames :
           /\ \A o \in Founding : founding[o] # Rested => founding[o].workspace # w
           /\ founding' = [founding EXCEPT ![c] = [step |-> "prefix", workspace |-> w, domain |-> d, manual |-> manual]]
    BY <1>7 DEF Found
  <2>2. PICK x : x = [step |-> "prefix", workspace |-> w, domain |-> d, manual |-> manual]
    OBVIOUS
  <2>3. x.step = "prefix" /\ x.workspace = w
    BY <2>2
  <2>4. x \in FoundingRequest
    BY <1>7, <2>1, <2>2 DEF FoundingRequest
  <2>5. UNCHANGED <<tenant, hosts>>
    BY <1>7 DEF Found
  <2>6. founding' \in [Founding -> FoundingRequest] /\ \A o \in Founding : founding'[o] = IF o = c THEN x ELSE founding[o]
    BY <2>1, <2>2, <2>4, FoundingMoves
  <2>7. /\ tenant' \in [Tenants -> TenantRow \cup {NoHost}] /\ Existing' = Existing
        /\ \A v \in Existing : tenant'[v].domain = tenant[v].domain /\ (Homed(v) => Homed(v)')
        /\ \A v \in Existing : tenant'[v].admin # "none" => Homed(v)' /\ tenant'[v].role = "able"
    BY <2>5, HomesStay
  <2>8. ASSUME NEW o \in Founding PROVE Grounded(founding[o])'
    <3>1. CASE o = c
      <4>1. founding'[o] = x /\ tenant'[w] = NoHost
        BY <2>1, <2>5, <2>6, <3>1 DEF Existing
      <4> QED
        BY <2>3, <4>1 DEF Grounded
    <3>2. CASE o # c
      BY <2>5, <2>6, <2>7, <3>2, OthersGrounded
    <3> QED
      BY <3>1, <3>2
  <2>9. \A o, q \in Founding : Registering(founding'[o]) /\ Registering(founding'[q])
                              /\ founding'[o].workspace = founding'[q].workspace => o = q
    <3>1. \A o \in Founding : o # c /\ Registering(founding'[o]) => founding'[o] = founding[o] /\ founding[o].workspace # w
      BY <2>1, <2>6, RestIsGrounded
    <3>2. founding'[c].workspace = w
      BY <2>3, <2>6
    <3> QED
      BY <3>1, <3>2 DEF TenantsInv
  <2>10. \A u, v \in Existing' : tenant'[u].domain = tenant'[v].domain => u = v
    BY <2>5, <2>7 DEF TenantsInv
  <2> QED
    BY <2>6, <2>7, <2>8, <2>9, <2>10 DEF TenantsInv
<1>8. ASSUME NEW c \in Founding, ApproveUser(c)
      PROVE  TenantsInv'
  <2>1. PICK w \in Existing, d \in HostNames \cup {NoHost} :
          /\ tenant[w].admin # "none"
          /\ tenant' = [tenant EXCEPT ![w].admin = "approved"]
          /\ founding' = [founding EXCEPT ![c] = [step |-> "activate", workspace |-> w, domain |-> d]]
    BY <1>8 DEF ApproveUser
  <2>2. PICK t \in TenantRow : t = tenant[w]
    BY <2>1 DEF TenantsInv, Existing
  <2>3. PICK u : u = [t EXCEPT !.admin = "approved"]
    OBVIOUS
  <2>4. u \in TenantRow /\ u.domain = t.domain /\ u.role = t.role
    BY <2>2, <2>3 DEF TenantRow
  <2>5. tenant' = [tenant EXCEPT ![w] = u] /\ UNCHANGED hosts
    BY <1>8, <2>1, <2>2, <2>3 DEF ApproveUser
  <2>6. /\ tenant' \in [Tenants -> TenantRow \cup {NoHost}] /\ Existing' = Existing
        /\ \A v \in Tenants : tenant'[v] = IF v = w THEN u ELSE tenant[v]
        /\ \A v \in Existing : tenant'[v].domain = tenant[v].domain /\ (Homed(v) => Homed(v)')
    BY <2>1, <2>2, <2>4, <2>5, TenantMoves
  <2>7. \A v \in Tenants : tenant'[v].role = tenant[v].role
    BY <2>2, <2>4, <2>6
  <2>8. \A v \in Existing : tenant'[v].admin # "none" => Homed(v)' /\ tenant'[v].role = "able"
    BY <2>1, <2>6, <2>7 DEF TenantsInv, Existing
  <2>9. PICK x : x = [step |-> "activate", workspace |-> w, domain |-> d]
    OBVIOUS
  <2>10. x \in FoundingRequest /\ x.step = "activate" /\ x.workspace = w
    BY <2>1, <2>9 DEF FoundingRequest, Existing
  <2>11. tenant'[w] # NoHost
    BY <2>1, <2>4, <2>6, WorkspacesAssumption DEF Existing
  <2>12. Grounded(x)' /\ ~Registering(x)
    BY <2>10, <2>11 DEF Grounded, Registering
  <2>13. \A o \in Founding : founding[o].step \in {"host", "roles", "admin"} => founding[o].workspace \in Tenants
    BY DEF TenantsInv, FoundingRequest, Rested
  <2> QED
    BY <2>1, <2>6, <2>7, <2>8, <2>9, <2>10, <2>12, <2>13, RequestMoves
<1>9. ASSUME NEW c \in Founding, RenameApproved(c)
      PROVE  TenantsInv'
  <2>1. PICK f \in FoundingRequest : f = founding[c] /\ f.step = "rename"
    BY <1>9 DEF RenameApproved, TenantsInv
  <2>2. f.workspace \in Existing /\ f.domain \in HostNames
    BY <2>1 DEF TenantsInv, Grounded, FoundingRequest, Rested, Existing
  <2>3. Rename(f.workspace, f.domain) /\ founding' = [founding EXCEPT ![c] = Rested]
    BY <1>9, <2>1 DEF RenameApproved, Over
  <2>4. founding' \in [Founding -> FoundingRequest] /\ \A o \in Founding : founding'[o] = founding[o] \/ founding'[o] = Rested
    BY <2>3, FoundingMoves, RestIsGrounded
  <2> QED
    BY <2>2, <2>3, <2>4, RenameKeepsHomes
<1>10. ASSUME NEW c \in Founding, LookUpHost(c)
       PROVE  TenantsInv'
  <2>1. PICK d \in HostNames, op \in {"delete", "verify"} :
          /\ hosts[d] # NoHost
          /\ founding' = [founding EXCEPT ![c] = [step |-> op, workspace |-> hosts[d].workspace, domain |-> d, id |-> hosts[d].id]]
    BY <1>10 DEF LookUpHost
  <2>2. PICK h \in HostRow : h = hosts[d]
    BY <2>1 DEF HostsInv
  <2>3. PICK x : x = [step |-> op, workspace |-> h.workspace, domain |-> d, id |-> h.id]
    OBVIOUS
  <2>4. x \in FoundingRequest /\ x.step = op
    BY <2>1, <2>2, <2>3 DEF FoundingRequest, HostRow
  <2>5. Grounded(x)' /\ ~Registering(x)
    BY <2>1, <2>4 DEF Grounded, Registering
  <2>6. UNCHANGED <<tenant, hosts>> /\ founding' = [founding EXCEPT ![c] = x]
    BY <1>10, <2>1, <2>2, <2>3 DEF LookUpHost
  <2> QED
    BY <2>4, <2>5, <2>6, HomesStay, RequestMoves
<1>11. ASSUME NEW c \in Founding, DeleteTenantDomain(c) \/ VerifyCustomDomain(c)
       PROVE  TenantsInv'
  <2>1. PICK f \in FoundingRequest : f = founding[c]
    BY DEF TenantsInv
  <2>2. founding' = [founding EXCEPT ![c] = Rested] /\ UNCHANGED tenant
    BY <1>11 DEF DeleteTenantDomain, VerifyCustomDomain, Over
  <2>3. \A d \in HostNames : hosts[d] # NoHost /\ hosts[d].primary =>
               hosts'[d] # NoHost /\ hosts'[d].workspace = hosts[d].workspace /\ hosts'[d].primary
    <3>1. CASE DeleteTenantDomain(c)
      BY <2>1, <3>1 DEF DeleteTenantDomain, TheRow, HostsInv, LookedUp
    <3>2. CASE VerifyCustomDomain(c)
      <4>1. ASSUME NEW h \in HostRow, NEW v \in BOOLEAN
            PROVE  /\ [h EXCEPT !.verified = v] \in HostRow /\ [h EXCEPT !.verified = v].workspace = h.workspace
                   /\ [h EXCEPT !.verified = v].primary = h.primary
        BY DEF HostRow
      <4>2. PICK found : found = (founding[c].domain \in records)
        BY Zenon
      <4>3. found \in BOOLEAN
        <5>1. (founding[c].domain \in records) \in BOOLEAN
          BY SMT
        <5> QED
          BY <4>2, <5>1, Zenon
      <4>4. \A d \in HostNames : hosts'[d] = IF TheRow(c, d) THEN [hosts[d] EXCEPT !.verified = found] ELSE hosts[d]
        BY <3>2, <4>2, Zenon DEF VerifyCustomDomain
      <4>5. \A d \in HostNames : hosts[d] # NoHost => hosts[d] \in HostRow
        BY DEF HostsInv
      <4>6. \A d \in HostNames : hosts[d] # NoHost =>
               hosts'[d] \in HostRow /\ hosts'[d].workspace = hosts[d].workspace /\ hosts'[d].primary = hosts[d].primary
        BY <4>1, <4>3, <4>4, <4>5
      <4> QED
        BY <4>6, WorkspacesAssumption
    <3> QED
      BY <1>11, <3>1, <3>2
  <2> QED
    BY <2>2, <2>3, HomesStay, RestIsGrounded, RequestMoves
<1>12. CASE UNCHANGED workspaceVars \/ RecordsChange
  BY <1>2, <1>12 DEF workspaceVars, RecordsChange
<1> QED
  BY <1>3, <1>4, <1>5, <1>6, <1>7, <1>8, <1>9, <1>10, <1>11, <1>12, TenantsOnTheirWay
     DEF WorkspacesNext, RegisterTenant, CreateManualTenant

\* Rows keep their kind and id, aliases their names, and new rows have new ids.
LEMMA HostsKept ==
    ASSUME HostsInv, hosts' \in [HostNames -> HostRow \cup {NoHost}], hostRows' \in Nat, hostRows <= hostRows',
           foundRecords \subseteq foundRecords',
           \A d \in HostNames : hosts'[d] # NoHost =>
               \/ \E e \in HostNames :
                     /\ hosts[e] # NoHost /\ hosts'[d].id = hosts[e].id /\ hosts'[d].primary = hosts[e].primary
                     /\ ~hosts[e].primary => e = d /\ (hosts'[d].verified => hosts[d].verified \/ d \in foundRecords')
               \/ hosts'[d].id = hostRows + 1 /\ hostRows' = hostRows + 1 /\ (hosts'[d].primary \/ ~hosts'[d].verified),
           \A d, e \in HostNames : hosts'[d] # NoHost /\ hosts'[e] # NoHost /\ hosts'[d].id = hosts'[e].id => d = e,
           \A c \in Founding : founding'[c] = founding[c] \/ founding'[c].step \notin {"delete", "verify"},
           \A c \in Founding : founding[c].step \in {"delete", "verify"} => founding[c].id \in Nat
    PROVE  HostsInv'
<1>0. hostRows \in Nat /\ \A d \in HostNames : hosts[d] # NoHost => hosts[d].id \in Nat
  BY DEF HostsInv, HostRow
<1>1. \A d \in HostNames : hosts'[d] # NoHost => hosts'[d].id <= hostRows'
  <2> SUFFICES ASSUME NEW d \in HostNames, hosts'[d] # NoHost PROVE hosts'[d].id <= hostRows'
    OBVIOUS
  <2>1. CASE hosts'[d].id = hostRows + 1 /\ hostRows' = hostRows + 1
    BY <1>0, <2>1
  <2>2. CASE \E e \in HostNames : hosts[e] # NoHost /\ hosts'[d].id = hosts[e].id
    <3>1. PICK e \in HostNames : hosts[e] # NoHost /\ hosts'[d].id = hosts[e].id
      BY <2>2
    <3>2. PICK i \in Nat : i = hosts[e].id /\ i <= hostRows
      BY <1>0, <3>1 DEF HostsInv
    <3> QED
      BY <1>0, <3>1, <3>2
  <2> QED
    BY <2>1, <2>2
<1>2. ASSUME NEW c \in Founding PROVE LookedUp(founding[c])'
  <2> SUFFICES ASSUME founding'[c].step \in {"delete", "verify"} PROVE LookedUp(founding[c])'
    BY DEF LookedUp
  <2>1. founding'[c] = founding[c] /\ founding[c].id \in Nat /\ LookedUp(founding[c])
    BY DEF HostsInv
  <2>2. PICK i \in Nat : i = founding[c].id /\ i <= hostRows
    BY <2>1 DEF LookedUp
  <2>3. founding'[c].id <= hostRows'
    BY <1>0, <2>1, <2>2
  <2>4. ASSUME NEW d \in HostNames, hosts'[d] # NoHost, hosts'[d].id = i
        PROVE  (founding[c].step = "delete" => ~hosts'[d].primary) /\ (~hosts'[d].primary => d = founding[c].domain)
    <3>1. i # hostRows + 1
      BY <1>0, <2>2
    <3>2. PICK e \in HostNames : /\ hosts[e] # NoHost /\ i = hosts[e].id /\ hosts'[d].primary = hosts[e].primary
                                 /\ ~hosts[e].primary => e = d
      BY <2>4, <3>1
    <3> QED
      BY <2>1, <2>2, <3>2 DEF LookedUp
  <2> QED
    BY <2>1, <2>2, <2>3, <2>4 DEF LookedUp
<1>3. \A d \in HostNames : (hosts'[d] # NoHost /\ ~hosts'[d].primary /\ hosts'[d].verified) => d \in foundRecords'
  BY DEF HostsInv
<1> QED
  BY <1>1, <1>2, <1>3 DEF HostsInv

\* A new row, for a name without one.
LEMMA NewHost ==
    ASSUME HostsInv, NEW w \in Tenants, NEW d \in HostNames, NEW primary \in BOOLEAN,
           hosts' = [hosts EXCEPT ![d] = Host(w, primary)], hostRows' = hostRows + 1, UNCHANGED foundRecords,
           \A c \in Founding : founding'[c] = founding[c] \/ founding'[c].step \notin {"delete", "verify"},
           \A c \in Founding : founding[c].step \in {"delete", "verify"} => founding[c].id \in Nat
    PROVE  HostsInv'
<1>1. PICK n \in Nat : n = hostRows + 1 /\ hostRows <= n
  BY DEF HostsInv
<1>2. PICK h : h = [id |-> n, workspace |-> w, primary |-> primary, verified |-> FALSE]
  OBVIOUS
<1>3. h \in HostRow /\ h.id = n /\ ~h.verified
  BY <1>1, <1>2 DEF HostRow
<1>4. h = Host(w, primary)
  BY <1>1, <1>2 DEF Host
<1>5. hosts' \in [HostNames -> HostRow \cup {NoHost}] /\ \A e \in HostNames : hosts'[e] = IF e = d THEN h ELSE hosts[e]
  BY <1>3, <1>4 DEF HostsInv
<1>6. \A e \in HostNames : hosts[e] # NoHost => hosts[e].id # n
  BY <1>1 DEF HostsInv, HostRow
<1>7. \A e, g \in HostNames : hosts'[e] # NoHost /\ hosts'[g] # NoHost /\ hosts'[e].id = hosts'[g].id => e = g
  BY <1>3, <1>5, <1>6 DEF HostsInv
<1>8. \A e \in HostNames : hosts'[e] # NoHost =>
         (e = d /\ hosts'[e].id = n /\ ~hosts'[e].verified) \/ (hosts[e] # NoHost /\ hosts'[e] = hosts[e])
  <2>1. hosts'[d].id = n /\ ~hosts'[d].verified
    BY <1>3, <1>5
  <2> QED
    BY <1>5, <2>1
<1> QED
  BY <1>1, <1>5, <1>7, <1>8, HostsKept

\* A rename moves a primary row or makes one.
LEMMA RenameKeepsRows ==
    ASSUME TenantsInv, HostsInv, NEW w \in Existing, NEW d \in HostNames, Rename(w, d), UNCHANGED foundRecords,
           \A c \in Founding : founding'[c] = founding[c] \/ founding'[c].step \notin {"delete", "verify"},
           \A c \in Founding : founding[c].step \in {"delete", "verify"} => founding[c].id \in Nat
    PROVE  HostsInv'
<1>1. CASE UNCHANGED <<tenant, hosts, hostRows>>
  BY <1>1, HostsKept DEF HostsInv
<1>2. CASE ~UNCHANGED <<tenant, hosts, hostRows>>
  <2>1. PICK p \in HostNames \cup {NoHost} :
           /\ \A e \in HostNames : e # d => hosts'[e] = IF e = p THEN NoHost ELSE hosts[e]
           /\ \/ p = NoHost /\ hosts'[d].id = hostRows + 1 /\ hostRows' = hostRows + 1
              \/ /\ p \in HostNames /\ hosts[p] # NoHost /\ hosts[p].workspace = w /\ hosts[p].primary
                 /\ hosts'[d] = hosts[p] /\ hostRows' = hostRows
    BY <1>2, RenameMoves
  <2>2. hosts' \in [HostNames -> HostRow \cup {NoHost}] /\ hosts'[d] # NoHost /\ hosts'[d].primary
    BY <1>2, RenameMoves
  <2>3. hostRows' \in Nat /\ hostRows <= hostRows'
    BY <2>1 DEF HostsInv
  <2>4. \A e \in HostNames : e # d /\ hosts'[e] # NoHost => hosts'[e] = hosts[e] /\ e # p
    BY <2>1
  <2>5. \A e \in HostNames : hosts[e] # NoHost => hosts[e].id # hostRows + 1
    BY DEF HostsInv, HostRow
  <2>6. \A e, g \in HostNames : hosts'[e] # NoHost /\ hosts'[g] # NoHost /\ hosts'[e].id = hosts'[g].id => e = g
    <3>1. \A e \in HostNames : e # d /\ hosts'[e] # NoHost => hosts'[e].id # hosts'[d].id
      BY <2>1, <2>4, <2>5 DEF HostsInv
    <3> QED
      BY <2>4, <3>1 DEF HostsInv
  <2> QED
    BY <2>1, <2>2, <2>3, <2>4, <2>6, HostsKept
<1> QED
  BY <1>1, <1>2

\* Every step keeps the rows of host names apart.
LEMMA HostsStep ==
    ASSUME TenantsInv, HostsInv, [WorkspacesNext]_workspaceVars
    PROVE  HostsInv'
<1>0. \A c \in Founding : founding[c].step \in {"delete", "verify"} => founding[c].id \in Nat
  BY DEF TenantsInv, FoundingRequest, Rested
<1>1. ASSUME UNCHANGED <<hosts, hostRows, foundRecords>>,
             \A c \in Founding : founding'[c] = founding[c] \/ founding'[c].step \notin {"delete", "verify"}
      PROVE  HostsInv'
  BY <1>0, <1>1, HostsKept DEF HostsInv
<1>2. Rested.step = "none" /\ Rested \in FoundingRequest
  BY DEF Rested, FoundingRequest
<1>3. ASSUME NEW c \in Founding, Over(c)
      PROVE  \A o \in Founding : founding'[o] = founding[o] \/ founding'[o].step \notin {"delete", "verify"}
  BY <1>2, <1>3, FoundingMoves DEF Over
<1>4. ASSUME NEW c \in Founding, NEW s \in {"host", "roles", "permit", "admin", "rename"}, Then(c, s),
             founding[c].step \in {"tenant", "host", "roles", "permit", "activate"}
      PROVE  \A o \in Founding : founding'[o] = founding[o] \/ founding'[o].step \notin {"delete", "verify"}
  <2>1. PICK f \in FoundingRequest : f = founding[c]
    BY DEF TenantsInv
  <2>2. PICK x : x = [f EXCEPT !.step = s]
    OBVIOUS
  <2>3. x.step = s
    BY <1>4, <2>1, <2>2 DEF FoundingRequest, Rested
  <2>4. founding' = [founding EXCEPT ![c] = x]
    BY <1>4, <2>1, <2>2 DEF Then
  <2> QED
    BY <1>4, <2>3, <2>4 DEF TenantsInv
<1>5. CASE UNCHANGED workspaceVars \/ UpdateTenantStatus \/ RecordsChange
  BY <1>1, <1>5 DEF workspaceVars, UpdateTenantStatus, RecordsChange
<1>6. CASE ServerStops
  BY <1>1, <1>2, <1>6 DEF ServerStops
<1>7. CASE UpdateTenant
  BY <1>0, <1>7, RenameKeepsRows DEF UpdateTenant
<1>8. CASE AddTenantDomain
  <2>1. PICK w \in Existing, d \in HostNames : hosts' = [hosts EXCEPT ![d] = Host(w, FALSE)] /\ hostRows' = hostRows + 1
    BY <1>8 DEF AddTenantDomain
  <2>2. w \in Tenants
    BY <2>1 DEF Existing
  <2>3. UNCHANGED <<founding, foundRecords>>
    BY <1>8 DEF AddTenantDomain
  <2> QED
    BY <1>0, <2>1, <2>2, <2>3, NewHost
<1>9. ASSUME NEW c \in Founding, NEW manual \in BOOLEAN, Found(c, manual)
      PROVE  HostsInv'
  <2>1. PICK w, d : founding' = [founding EXCEPT ![c] = [step |-> "prefix", workspace |-> w, domain |-> d, manual |-> manual]]
    BY <1>9 DEF Found
  <2>2. \A o \in Founding : founding'[o] = founding[o] \/ founding'[o].step = "prefix"
    BY <2>1 DEF TenantsInv
  <2> QED
    BY <1>1, <1>9, <2>2 DEF Found
<1>10. ASSUME NEW c \in Founding, PickPrefix(c)
       PROVE  HostsInv'
  <2>1. \A o \in Founding : founding'[o] = founding[o] \/ founding'[o].step = "tenant"
    BY <1>10 DEF PickPrefix, TenantsInv
  <2> QED
    BY <1>1, <1>10, <2>1 DEF PickPrefix
<1>11. ASSUME NEW c \in Founding, ApproveUser(c)
       PROVE  HostsInv'
  <2>1. \A o \in Founding : founding'[o] = founding[o] \/ founding'[o].step = "activate"
    BY <1>11 DEF ApproveUser, TenantsInv
  <2> QED
    BY <1>1, <1>11, <2>1 DEF ApproveUser
<1>12. ASSUME NEW c \in Founding, InsertTenant(c) \/ SeedRole(c) \/ PermitRole(c) \/ InsertAdmin(c) \/ ActivateTenant(c)
       PROVE  HostsInv'
  <2>1. UNCHANGED <<hosts, hostRows, foundRecords>>
    BY <1>12 DEF InsertTenant, SeedRole, PermitRole, InsertAdmin, ActivateTenant
  <2>2. Over(c) \/ (/\ Then(c, "host") \/ Then(c, "permit") \/ Then(c, "admin") \/ Then(c, "rename")
                    /\ founding[c].step \in {"tenant", "host", "roles", "permit", "activate"})
    BY <1>12 DEF InsertTenant, SeedRole, PermitRole, InsertAdmin, ActivateTenant
  <2> QED
    BY <1>1, <1>3, <1>4, <2>1, <2>2
<1>13. ASSUME NEW c \in Founding, InsertHost(c)
       PROVE  HostsInv'
  <2>1. PICK f \in FoundingRequest : f = founding[c] /\ f.step = "host"
    BY <1>13 DEF InsertHost, TenantsInv
  <2>2. f.workspace \in Tenants /\ f.domain \in HostNames
    BY <2>1 DEF FoundingRequest, Rested
  <2>3. CASE Over(c) /\ UNCHANGED <<hosts, hostRows>>
    BY <1>1, <1>3, <1>13, <2>3 DEF InsertHost
  <2>4. CASE ~(Over(c) /\ UNCHANGED <<hosts, hostRows>>)
    <3>1. hosts' = [hosts EXCEPT ![f.domain] = Host(f.workspace, TRUE)] /\ hostRows' = hostRows + 1 /\ Then(c, "roles")
      BY <1>13, <2>1, <2>4 DEF InsertHost
    <3>2. UNCHANGED foundRecords /\ founding[c].step = "host"
      BY <1>13, <2>1 DEF InsertHost
    <3> QED
      BY <1>0, <1>4, <2>2, <3>1, <3>2, NewHost
  <2> QED
    BY <2>3, <2>4
<1>14. ASSUME NEW c \in Founding, RenameApproved(c)
       PROVE  HostsInv'
  <2>1. PICK f \in FoundingRequest : f = founding[c] /\ f.step = "rename"
    BY <1>14 DEF RenameApproved, TenantsInv
  <2>2. f.workspace \in Existing /\ f.domain \in HostNames
    BY <2>1 DEF TenantsInv, Grounded, FoundingRequest, Rested, Existing
  <2> QED
    BY <1>0, <1>3, <1>14, <2>1, <2>2, RenameKeepsRows DEF RenameApproved
<1>15. ASSUME NEW c \in Founding, LookUpHost(c)
       PROVE  HostsInv'
  <2>1. PICK d \in HostNames, op \in {"delete", "verify"} :
          /\ hosts[d] # NoHost /\ (op = "delete" => ~hosts[d].primary)
          /\ founding' = [founding EXCEPT ![c] = [step |-> op, workspace |-> hosts[d].workspace, domain |-> d, id |-> hosts[d].id]]
    BY <1>15 DEF LookUpHost
  <2>2. PICK x : x = [step |-> op, workspace |-> hosts[d].workspace, domain |-> d, id |-> hosts[d].id]
    OBVIOUS
  <2>3. x.step = op /\ x.domain = d /\ x.id = hosts[d].id
    BY <2>2
  <2>4. LookedUp(x)
    BY <2>1, <2>3 DEF LookedUp, HostsInv
  <2>5. UNCHANGED <<hosts, hostRows, foundRecords>>
    BY <1>15 DEF LookUpHost
  <2>6. \A o \in Founding : founding'[o] = IF o = c THEN x ELSE founding[o]
    BY <2>1, <2>2 DEF TenantsInv
  <2>7. ASSUME NEW o \in Founding PROVE LookedUp(founding[o])'
    <3>1. PICK g : g = founding'[o] /\ LookedUp(g)
      BY <2>4, <2>6 DEF HostsInv
    <3> QED
      BY <2>5, <3>1 DEF LookedUp
  <2> QED
    BY <2>5, <2>7 DEF HostsInv
<1>16. ASSUME NEW c \in Founding, DeleteTenantDomain(c)
       PROVE  HostsInv'
  <2>1. \A d \in HostNames : hosts'[d] = NoHost \/ hosts'[d] = hosts[d]
    BY <1>16 DEF DeleteTenantDomain
  <2>2. hosts' = [d \in HostNames |-> hosts'[d]] /\ UNCHANGED <<hostRows, foundRecords>>
    BY <1>16 DEF DeleteTenantDomain
  <2>3. hosts' \in [HostNames -> HostRow \cup {NoHost}]
    BY <2>1, <2>2 DEF HostsInv
  <2>4. \A o \in Founding : founding'[o] = founding[o] \/ founding'[o].step \notin {"delete", "verify"}
    BY <1>3, <1>16 DEF DeleteTenantDomain
  <2>5. \A d, e \in HostNames : hosts'[d] # NoHost /\ hosts'[e] # NoHost /\ hosts'[d].id = hosts'[e].id => d = e
    BY <2>1 DEF HostsInv
  <2>6. \A d \in HostNames : hosts'[d] # NoHost => hosts[d] # NoHost /\ hosts'[d] = hosts[d]
    BY <2>1
  <2> QED
    BY <1>0, <2>2, <2>3, <2>4, <2>5, <2>6, HostsKept DEF HostsInv
<1>17. ASSUME NEW c \in Founding, VerifyCustomDomain(c)
       PROVE  HostsInv'
  <2>1. PICK f \in FoundingRequest : f = founding[c] /\ f.step = "verify"
    BY <1>17 DEF VerifyCustomDomain, TenantsInv
  <2>2. PICK found : found = (f.domain \in records)
    BY Zenon
  <2>3. found \in BOOLEAN
    <3>1. (f.domain \in records) \in BOOLEAN
      BY SMT
    <3> QED
      BY <2>2, <3>1, Zenon
  <2>4. /\ \A d \in HostNames : hosts'[d] = IF TheRow(c, d) THEN [hosts[d] EXCEPT !.verified = found] ELSE hosts[d]
        /\ hosts' = [d \in HostNames |-> hosts'[d]]
    BY <1>17, <2>1, <2>2, Zenon DEF VerifyCustomDomain
  <2>5. foundRecords \subseteq foundRecords' /\ (found => f.domain \in foundRecords')
    BY <1>17, <2>1, <2>2 DEF VerifyCustomDomain
  <2>6. ASSUME NEW h \in HostRow
        PROVE  /\ [h EXCEPT !.verified = found] \in HostRow /\ [h EXCEPT !.verified = found].id = h.id
               /\ [h EXCEPT !.verified = found].primary = h.primary /\ [h EXCEPT !.verified = found].verified = found
    BY <2>3 DEF HostRow
  <2>7. \A d \in HostNames : hosts[d] # NoHost => hosts[d] \in HostRow
    BY DEF HostsInv
  <2>8. \A d \in HostNames : hosts[d] = NoHost => hosts'[d] = NoHost
    BY <2>4 DEF TheRow
  <2>9. \A d \in HostNames : hosts[d] # NoHost =>
           /\ hosts'[d] \in HostRow /\ hosts'[d].id = hosts[d].id /\ hosts'[d].primary = hosts[d].primary
           /\ hosts'[d] = hosts[d] \/ (hosts[d].id = f.id /\ hosts'[d].verified = found)
    <3> SUFFICES ASSUME NEW d \in HostNames, NEW h \in HostRow, h = hosts[d]
                 PROVE  /\ hosts'[d] \in HostRow /\ hosts'[d].id = h.id /\ hosts'[d].primary = h.primary
                        /\ hosts'[d] = h \/ (h.id = f.id /\ hosts'[d].verified = found)
      BY <2>7
    <3>1. CASE TheRow(c, d)
      <4>1. hosts'[d] = [h EXCEPT !.verified = found] /\ h.id = f.id
        BY <2>1, <2>4, <3>1 DEF TheRow
      <4> QED
        BY <2>6, <4>1
    <3>2. CASE ~TheRow(c, d)
      BY <2>4, <3>2
    <3> QED
      BY <3>1, <3>2
  <2>10. hosts' \in [HostNames -> HostRow \cup {NoHost}]
    BY <2>4, <2>8, <2>9
  <2>11. \A d \in HostNames : hosts[d] # NoHost /\ hosts[d].id = f.id /\ ~hosts[d].primary => d = f.domain
    BY <2>1 DEF HostsInv, LookedUp
  <2>12. \A d, e \in HostNames : hosts'[d] # NoHost /\ hosts'[e] # NoHost /\ hosts'[d].id = hosts'[e].id => d = e
    BY <2>8, <2>9 DEF HostsInv
  <2>13. \A o \in Founding : founding'[o] = founding[o] \/ founding'[o].step \notin {"delete", "verify"}
    BY <1>3, <1>17 DEF VerifyCustomDomain
  <2>14. hostRows' = hostRows
    BY <1>17 DEF VerifyCustomDomain
  <2>15. \A d \in HostNames : hosts'[d] # NoHost =>
            /\ hosts[d] # NoHost /\ hosts'[d].id = hosts[d].id /\ hosts'[d].primary = hosts[d].primary
            /\ ~hosts[d].primary => (hosts'[d].verified => hosts[d].verified \/ d \in foundRecords')
    BY <2>5, <2>8, <2>9, <2>11
  <2> QED
    BY <1>0, <2>5, <2>10, <2>12, <2>13, <2>14, <2>15, HostsKept DEF HostsInv
<1> QED
  BY <1>5, <1>6, <1>7, <1>8, <1>9, <1>10, <1>11, <1>12, <1>13, <1>14, <1>15, <1>16, <1>17
     DEF WorkspacesNext, RegisterTenant, CreateManualTenant

\* AuthTenantService: for any number of companies, names, requests and crashes,
\* the subdomain of a workspace with an administrator leads to it alone, and
\* an alias is verified only by records of its own.
THEOREM SubdomainLeadsHomeHolds == WorkspacesSpec => []SubdomainLeadsHome
<1>1. WorkspacesInit => WorkspacesInv
  <2> SUFFICES ASSUME WorkspacesInit PROVE WorkspacesInv
    OBVIOUS
  <2>1. Existing = {}
    BY DEF WorkspacesInit, Existing
  <2>2. TenantsInv
    BY <2>1 DEF WorkspacesInit, TenantsInv, FoundingRequest, Rested, Grounded, Registering
  <2>3. HostsInv
    BY DEF WorkspacesInit, HostsInv, LookedUp, Rested
  <2> QED
    BY <2>2, <2>3 DEF WorkspacesInv
<1>2. WorkspacesInv /\ [WorkspacesNext]_workspaceVars => WorkspacesInv'
  BY TenantsStep, HostsStep DEF WorkspacesInv
<1>3. WorkspacesInv => SubdomainLeadsHome
  <2> SUFFICES ASSUME WorkspacesInv PROVE SubdomainLeadsHome
    OBVIOUS
  <2>1. ASSUME NEW w \in Existing, tenant[w].admin # "none"
        PROVE  /\ Resolve(tenant[w].domain) = {w}
               /\ hosts[tenant[w].domain] # NoHost /\ hosts[tenant[w].domain].primary
               /\ tenant[w].role = "able"
    <3>1. Homed(w) /\ tenant[w].role = "able"
      BY <2>1 DEF WorkspacesInv, TenantsInv
    <3>2. {v \in Existing : tenant[v].domain = tenant[w].domain} = {w}
      BY <2>1 DEF WorkspacesInv, TenantsInv
    <3>3. Resolve(tenant[w].domain) = {w}
      BY <3>1, <3>2 DEF Resolve, Homed
    <3> QED
      BY <3>1, <3>3 DEF Homed
  <2> QED
    BY <2>1 DEF SubdomainLeadsHome, WorkspacesInv, HostsInv
<1> QED
  BY <1>1, <1>2, <1>3, PTL DEF WorkspacesSpec
=============================================================================
