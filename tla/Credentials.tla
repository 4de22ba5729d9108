---------------------------- MODULE Credentials ----------------------------
(***************************************************************************)
(* How one address becomes a member and sets a password: invitations       *)
(* (AuthInviteService), the first sign-in through the company's directory  *)
(* (ssoLogin) and links to reset a password (AuthPasswordService).         *)
(*                                                                         *)
(* No request is a transaction except the deletion of the member.  Each    *)
(* looks up its row, claims it by a conditional update, asks Keycloak to   *)
(* set the password, and writes the outcome.  Keycloak is external: it     *)
(* answers, fails, or sets the password and the answer is lost.  A crash   *)
(* ends every request.                                                     *)
(***************************************************************************)
EXTENDS Integers, Sequences, FiniteSets

CONSTANTS
    Inviters,       \* administrators
    Browsers,       \* where links are opened, one request at a time
    MaxLinks,       \* bound on invitation links
    MaxResets,      \* bound on reset links
    MaxTurns        \* bound on changes of the member, expiries, failed invitations, crashes

NoLease == "no-lease"

ASSUME CredentialsAssumption == {MaxLinks, MaxResets, MaxTurns} \subseteq Nat /\ NoLease \notin Browsers

VARIABLES
    account,        \* the row of the address: none, pending (not approved), active or blocked
    rows,           \* account and invitation rows so far, which number them
    invitation,     \* the row of the address in user_invitations
    links,          \* invitation links so far
    desk,           \* administrator |-> his request
    visit,          \* browser |-> the link it follows
    resets,         \* reset links in the order of their making: live, used, expired or gone
    spent,          \* reset link |-> times it was answered with success
    turns

credentialVars == <<account, rows, invitation, links, desk, visit, resets, spent, turns>>

NoRow == [id |-> 0]
Away0 == [step |-> "none"]

Turn == turns < MaxTurns /\ turns' = turns + 1

----------------------------------------------------------------------------
(* The member *)

\* Blocking, unblocking and approval (Members has their rules).
MemberChanges ==
    /\ Turn /\ account # NoRow
    /\ \E s \in {"active", "blocked"} \ {account.status} : account' = [account EXCEPT !.status = s]
    /\ UNCHANGED <<rows, invitation, links, desk, visit, resets, spent>>

\* deleteUser takes the invitation and the reset links along.
DeleteUser ==
    /\ Turn /\ account # NoRow
    /\ account' = NoRow /\ invitation' = NoRow
    /\ resets' = [t \in DOMAIN resets |-> "gone"]
    /\ UNCHANGED <<rows, links, desk, visit, spent>>

\* Just-in-time membership: an address nobody knows, then the insert, which
\* on a conflict makes the row a pending one.
SsoLookup(b) ==
    /\ Turn /\ visit[b] = Away0 /\ account = NoRow
    /\ visit' = [visit EXCEPT ![b] = [step |-> "join"]]
    /\ UNCHANGED <<account, rows, invitation, links, desk, resets, spent>>

SsoInsert(b) ==
    /\ visit[b].step = "join"
    /\ visit' = [visit EXCEPT ![b] = Away0]
    /\ IF account = NoRow THEN rows' = rows + 1 /\ account' = [id |-> rows + 1, status |-> "pending"]
       ELSE account' = [account EXCEPT !.status = "pending"] /\ UNCHANGED rows
    /\ UNCHANGED <<invitation, links, desk, resets, spent, turns>>

----------------------------------------------------------------------------
(* Invitations *)

\* inviteUser: nobody has the address; seats and roles are the concern of Members.
InviteCheck(a) ==
    /\ desk[a] = Away0 /\ links < MaxLinks /\ account = NoRow
    /\ desk' = [desk EXCEPT ![a] = [step |-> "insert"]]
    /\ UNCHANGED <<account, rows, invitation, links, visit, resets, spent, turns>>

\* The address is unique in the workspace.
InviteInsert(a) ==
    /\ desk[a].step = "insert"
    /\ IF account # NoRow THEN desk' = [desk EXCEPT ![a] = Away0] /\ UNCHANGED <<account, rows>>
       ELSE /\ rows' = rows + 1 /\ account' = [id |-> rows + 1, status |-> "active"]
            /\ desk' = [desk EXCEPT ![a] = [step |-> "invite", account |-> rows + 1]]
    /\ UNCHANGED <<invitation, links, visit, resets, spent, turns>>

\* Inserted, or the row that is there gets the new link; its lease stays.
InviteLink(a) ==
    /\ desk[a].step = "invite" /\ links < MaxLinks
    /\ links' = links + 1
    /\ IF invitation = NoRow
       THEN /\ rows' = rows + 1
            /\ invitation' = [id |-> rows + 1, link |-> links + 1, fresh |-> TRUE, accepted |-> FALSE,
                              lease |-> NoLease, old |-> FALSE, resent |-> 0, by |-> 0]
       ELSE /\ invitation' = [invitation EXCEPT !.link = links + 1, !.fresh = TRUE, !.accepted = FALSE]
            /\ UNCHANGED rows
    /\ desk' = [desk EXCEPT ![a] = Away0]
    /\ UNCHANGED <<account, visit, resets, spent, turns>>

\* The invitation cannot be saved: the member is removed again.
InviteFails(a) ==
    /\ Turn /\ desk[a].step = "invite"
    /\ account' = IF account.id = desk[a].account THEN NoRow ELSE account
    /\ desk' = [desk EXCEPT ![a] = Away0]
    /\ UNCHANGED <<rows, invitation, links, visit, resets, spent>>

Claimable == ~invitation.accepted /\ (invitation.lease = NoLease \/ invitation.old)

ResendRead(a) ==
    /\ desk[a] = Away0 /\ links < MaxLinks
    /\ invitation # NoRow /\ ~invitation.accepted
    /\ account # NoRow /\ account.status # "blocked"
    /\ desk' = [desk EXCEPT ![a] = [step |-> "rotate", id |-> invitation.id]]
    /\ UNCHANGED <<account, rows, invitation, links, visit, resets, spent, turns>>

\* The link is replaced unless somebody is accepting it; an old lease ends.
ResendRotate(a) ==
    /\ desk[a].step = "rotate"
    /\ IF invitation.id = desk[a].id /\ Claimable /\ links < MaxLinks
       THEN /\ links' = links + 1
            /\ invitation' = [invitation EXCEPT !.link = links + 1, !.fresh = TRUE, !.lease = NoLease,
                                                !.old = FALSE, !.resent = links + 1]
       ELSE UNCHANGED <<links, invitation>>
    /\ desk' = [desk EXCEPT ![a] = Away0]
    /\ UNCHANGED <<account, rows, visit, resets, spent, turns>>

\* acceptInvite: the look-up by link.
AcceptRead(b) ==
    /\ visit[b] = Away0 /\ invitation # NoRow /\ ~invitation.accepted /\ invitation.fresh
    /\ visit' = [visit EXCEPT ![b] = [step |-> "claim", id |-> invitation.id, link |-> invitation.link]]
    /\ UNCHANGED <<account, rows, invitation, links, desk, resets, spent, turns>>

AcceptClaim(b) ==
    /\ visit[b].step = "claim"
    /\ IF /\ invitation.id = visit[b].id /\ invitation.link = visit[b].link
          /\ Claimable /\ invitation.fresh /\ account # NoRow /\ account.status # "blocked"
       THEN /\ invitation' = [invitation EXCEPT !.lease = b, !.old = FALSE]
            /\ visit' = [visit EXCEPT ![b].step = "provision"]
       ELSE UNCHANGED invitation /\ visit' = [visit EXCEPT ![b] = Away0]
    /\ UNCHANGED <<account, rows, links, desk, resets, spent, turns>>

\* provisionUserInKeycloak: created, or found by its address and reset, or failed.
AcceptProvision(b) ==
    /\ visit[b].step = "provision"
    /\ \E s \in {"accept", "release"} : visit' = [visit EXCEPT ![b].step = s]
    /\ UNCHANGED <<account, rows, invitation, links, desk, resets, spent, turns>>

\* Mutant: the lease is not looked at again.
StillLeasedAny(b) == invitation.id = visit[b].id
StillLeased(b) == invitation.id = visit[b].id /\ invitation.lease = b

\* Conditional on the lease; the answer is success in any case.
AcceptFinish(b) ==
    /\ visit[b].step \in {"accept", "release"}
    /\ invitation' = IF ~StillLeased(b) THEN invitation
                     ELSE IF visit[b].step = "release" THEN [invitation EXCEPT !.lease = NoLease, !.old = FALSE]
                     ELSE [invitation EXCEPT !.lease = NoLease, !.old = FALSE, !.accepted = TRUE, !.by = visit[b].link]
    /\ visit' = [visit EXCEPT ![b] = Away0]
    /\ UNCHANGED <<account, rows, links, desk, resets, spent, turns>>

\* A day passes for the link; ten minutes for the lease.
InvitationAges ==
    /\ Turn /\ invitation # NoRow
    /\ \/ invitation.fresh /\ invitation' = [invitation EXCEPT !.fresh = FALSE]
       \/ invitation.lease # NoLease /\ ~invitation.old /\ invitation' = [invitation EXCEPT !.old = TRUE]
    /\ UNCHANGED <<account, rows, links, desk, visit, resets, spent>>

----------------------------------------------------------------------------
(* Reset links *)

Retired == [t \in DOMAIN resets |-> IF resets[t] = "live" THEN "used" ELSE resets[t]]

\* forgotPassword, for an active and approved member, and adminSendResetLink,
\* for any: earlier links are retired, then the new one is saved.
ResetAsk(p) ==
    /\ p \in Inviters \cup Browsers
    /\ Len(resets) < MaxResets
    /\ account # NoRow /\ (p \in Inviters \/ account.status = "active")
    /\ resets' = Retired
    /\ IF p \in Inviters
       THEN desk[p] = Away0 /\ desk' = [desk EXCEPT ![p] = [step |-> "reset", account |-> account.id]] /\ UNCHANGED visit
       ELSE visit[p] = Away0 /\ visit' = [visit EXCEPT ![p] = [step |-> "reset", account |-> account.id]] /\ UNCHANGED desk
    /\ UNCHANGED <<account, rows, invitation, links, spent, turns>>

\* The insert, which the foreign key refuses when the member is gone.
NewReset(member) ==
    IF account.id # member THEN UNCHANGED <<resets, spent>>
    ELSE resets' = Append(resets, "live") /\ spent' = Append(spent, 0)

ResetInsert(p) ==
    /\ Len(resets) < MaxResets
    /\ IF p \in Inviters
       THEN /\ desk[p].step = "reset" /\ NewReset(desk[p].account)
            /\ desk' = [desk EXCEPT ![p] = Away0] /\ UNCHANGED visit
       ELSE /\ visit[p].step = "reset" /\ NewReset(visit[p].account)
            /\ visit' = [visit EXCEPT ![p] = Away0] /\ UNCHANGED desk
    /\ UNCHANGED <<account, rows, invitation, links, turns>>

ResetRead(b) ==
    /\ visit[b] = Away0
    /\ \E t \in DOMAIN resets : resets[t] = "live" /\ visit' = [visit EXCEPT ![b] = [step |-> "take", reset |-> t]]
    /\ UNCHANGED <<account, rows, invitation, links, desk, resets, spent, turns>>

Unused(t) == resets[t] = "live"

ResetClaim(b) ==
    /\ visit[b].step = "take"
    /\ IF Unused(visit[b].reset)
       THEN resets' = [resets EXCEPT ![visit[b].reset] = "used"] /\ visit' = [visit EXCEPT ![b].step = "password"]
       ELSE UNCHANGED resets /\ visit' = [visit EXCEPT ![b] = Away0]
    /\ UNCHANGED <<account, rows, invitation, links, desk, spent, turns>>

\* Keycloak sets the password, or fails; then the link is released.
ResetProvision(b) ==
    /\ visit[b].step = "password"
    /\ \/ spent' = [spent EXCEPT ![visit[b].reset] = @ + 1] /\ visit' = [visit EXCEPT ![b] = Away0]
       \/ visit' = [visit EXCEPT ![b].step = "give-back"] /\ UNCHANGED spent
    /\ UNCHANGED <<account, rows, invitation, links, desk, resets, turns>>

ResetRelease(b) ==
    /\ visit[b].step = "give-back"
    /\ visit' = [visit EXCEPT ![b] = Away0]
    /\ LET t == visit[b].reset
       IN \/ resets' = [resets EXCEPT ![t] = IF @ = "used" THEN "live" ELSE @]
          \/ UNCHANGED resets       \* the release fails and is logged
    /\ UNCHANGED <<account, rows, invitation, links, desk, spent, turns>>

ResetExpires ==
    /\ Turn /\ \E t \in DOMAIN resets : resets[t] = "live" /\ resets' = [resets EXCEPT ![t] = "expired"]
    /\ UNCHANGED <<account, rows, invitation, links, desk, visit, spent>>

Crashes ==
    /\ Turn
    /\ desk' = [a \in Inviters |-> Away0] /\ visit' = [b \in Browsers |-> Away0]
    /\ UNCHANGED <<account, rows, invitation, links, resets, spent>>

----------------------------------------------------------------------------
CredentialsInit ==
    /\ account = NoRow /\ rows = 0 /\ invitation = NoRow /\ links = 0 /\ turns = 0
    /\ desk = [a \in Inviters |-> Away0] /\ visit = [b \in Browsers |-> Away0]
    /\ resets = <<>> /\ spent = <<>>

CredentialsNext ==
    \/ MemberChanges \/ DeleteUser \/ InvitationAges \/ ResetExpires \/ Crashes
    \/ \E a \in Inviters : InviteCheck(a) \/ InviteInsert(a) \/ InviteLink(a) \/ InviteFails(a)
                           \/ ResendRead(a) \/ ResendRotate(a)
    \/ \E b \in Browsers : SsoLookup(b) \/ SsoInsert(b)
                           \/ AcceptRead(b) \/ AcceptClaim(b) \/ AcceptProvision(b) \/ AcceptFinish(b)
                           \/ ResetRead(b) \/ ResetClaim(b) \/ ResetProvision(b) \/ ResetRelease(b)
    \/ \E p \in Inviters \cup Browsers : ResetAsk(p) \/ ResetInsert(p)

CredentialsSpec == CredentialsInit /\ [][CredentialsNext]_credentialVars

----------------------------------------------------------------------------
(* A link works once.  "The previous link is invalid": once an invitation *)
(* was sent again, it is accepted only through a link issued then or       *)
(* later, though a browser that claimed the old link is slow at Keycloak,  *)
(* the member is deleted and invited again, or a crash leaves the lease    *)
(* behind.  A reset link sets a password at most once: it is answered with *)
(* success once, and while one browser holds it at Keycloak no other does, *)
(* though browsers open it together and failures give it back.             *)
LinksWorkOnce ==
    /\ (invitation # NoRow /\ invitation.accepted) => invitation.by >= invitation.resent
    /\ \A t \in DOMAIN resets :
          spent[t] + Cardinality({b \in Browsers : visit[b].step \in {"password", "give-back"} /\ visit[b].reset = t}) <= 1
=============================================================================
