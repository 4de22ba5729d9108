----------------------------- MODULE SystemMail -----------------------------
(***************************************************************************)
(* The sender of a workspace's system mail (SystemMailService): the        *)
(* platform's address, the default mailbox, or a domain of its own that    *)
(* the workspace saved and proved by a TXT record that names both.         *)
(*                                                                         *)
(* No request is a transaction.  Each reads the workspace, asks DNS and    *)
(* Brevo, and writes; the administrators of the workspaces do so at the    *)
(* same time.  DNS, Brevo and the default mailbox change on their own.     *)
(***************************************************************************)
EXTENDS Integers, FiniteSets

CONSTANTS
    Workspaces,
    Domains,
    Chair,          \* administrator |-> his workspace
    MaxRequests,    \* bound on requests
    NoDomain

ASSUME SystemMailAssumption == NoDomain \notin Domains /\ MaxRequests \in Nat
                               /\ \A a \in DOMAIN Chair : Chair[a] \in Workspaces

VARIABLES
    sender,         \* workspace |-> customEmailDomain, customEmailDomainVerified, emailDispatchMode
    task,           \* administrator |-> his request
    txt,            \* <<workspace, domain>> whose TXT record is in DNS
    brevo,          \* domains that Brevo finds verified and authenticated
    mailbox,        \* workspaces with a usable default mailbox
    requests,
    proved,         \* <<workspace, domain>> for which both were found
    sentAs          \* <<workspace, domain>> mail was sent as

worldVars == <<txt, brevo, mailbox>>
senderVars == <<sender, task, worldVars, requests, proved, sentAs>>

ChairAdmins == DOMAIN Chair
Unasked == [step |-> "idle"]

Toggle(s, e) == IF e \in s THEN s \ {e} ELSE s \cup {e}

\* External: records come and go.
WorldChanges ==
    /\ requests < MaxRequests
    /\ \/ \E w \in Workspaces, d \in Domains : txt' = Toggle(txt, <<w, d>>) /\ UNCHANGED <<brevo, mailbox>>
       \/ \E d \in Domains : brevo' = Toggle(brevo, d) /\ UNCHANGED <<txt, mailbox>>
       \/ \E w \in Workspaces : mailbox' = Toggle(mailbox, w) /\ UNCHANGED <<txt, brevo>>
    /\ UNCHANGED <<sender, task, requests, proved, sentAs>>

OwnsDomain(w, d) == <<w, d>> \in txt

\* Every request begins with the workspace's row.
Row(a) == sender[Chair[a]]

Ask(a, request) ==
    /\ task[a] = Unasked /\ requests < MaxRequests /\ requests' = requests + 1
    /\ task' = [task EXCEPT ![a] = request]
    /\ UNCHANGED <<sender, worldVars, proved, sentAs>>

Goes(a, step) == task' = [task EXCEPT ![a].step = step]
Ends(a) == task' = [task EXCEPT ![a] = Unasked]

\* saveDomain: not a domain that another workspace has saved.
SaveDomain(a) == \E d \in Domains : Ask(a, [step |-> "other", row |-> Row(a), domain |-> d])

OtherWorkspace(a) ==
    /\ task[a].step = "other"
    /\ IF \E w \in Workspaces \ {Chair[a]} : sender[w].domain = task[a].domain THEN Ends(a) ELSE Goes(a, "save")
    /\ UNCHANGED <<sender, worldVars, requests, proved, sentAs>>

\* Brevo finds or creates the domain, or fails; a domain saved again keeps its mark.
WriteDomain(a) ==
    /\ task[a].step = "save"
    /\ \/ UNCHANGED sender
       \/ LET d == task[a].domain
              row == task[a].row
          IN sender' = [sender EXCEPT ![Chair[a]] =
                [@ EXCEPT !.domain = d, !.verified = (row.domain = d /\ row.verified)]]
    /\ Ends(a)
    /\ UNCHANGED <<worldVars, requests, proved, sentAs>>

VerifyDomain(a) == Row(a).domain # NoDomain /\ Ask(a, [step |-> "owns", row |-> Row(a)])

VerifyOwnership(a) ==
    /\ task[a].step = "owns"
    /\ IF OwnsDomain(Chair[a], task[a].row.domain) THEN Goes(a, "brevo") ELSE Ends(a)
    /\ UNCHANGED <<sender, worldVars, requests, proved, sentAs>>

\* Brevo is asked to authenticate the domain, then what it finds; it may fail.
VerifyBrevo(a) ==
    /\ task[a].step = "brevo"
    /\ \/ Ends(a) /\ UNCHANGED proved
       \/ /\ task' = [task EXCEPT ![a] = [step |-> "verify", row |-> @.row, found |-> @.row.domain \in brevo]]
          /\ proved' = IF task[a].row.domain \in brevo
                       THEN proved \cup {<<Chair[a], task[a].row.domain>>} ELSE proved
    /\ UNCHANGED <<sender, worldVars, requests, sentAs>>

\* Mutant: the update names the workspace only.
SameDomainUnchecked(a) == TRUE
SameDomain(a) == Row(a).domain = task[a].row.domain

WriteVerified(a) ==
    /\ task[a].step = "verify"
    /\ sender' = IF SameDomain(a) THEN [sender EXCEPT ![Chair[a]].verified = task[a].found] ELSE sender
    /\ Ends(a)
    /\ UNCHANGED <<worldVars, requests, proved, sentAs>>

\* requireDomain, with the row the request has read.
RequireDomain(w, row) == row.verified /\ OwnsDomain(w, row.domain) /\ row.domain \in brevo

SetMode(a) == \E mode \in {"platform", "mailbox", "domain"} : Ask(a, [step |-> "mode", row |-> Row(a), mode |-> mode])

Usable(w, row, mode) ==
    CASE mode = "platform" -> TRUE
      [] mode = "mailbox"  -> w \in mailbox
      [] mode = "domain"   -> row.domain # NoDomain /\ RequireDomain(w, row)

CheckMode(a) ==
    /\ task[a].step = "mode"
    /\ IF Usable(Chair[a], task[a].row, task[a].mode) THEN Goes(a, "set") ELSE Ends(a)
    /\ UNCHANGED <<sender, worldVars, requests, proved, sentAs>>

WriteMode(a) ==
    /\ task[a].step = "set"
    /\ sender' = [sender EXCEPT ![Chair[a]].mode = task[a].mode]
    /\ Ends(a)
    /\ UNCHANGED <<worldVars, requests, proved, sentAs>>

\* send: any request of the workspace may send mail; it may also fail.
Send(a) == Ask(a, [step |-> "send", row |-> Row(a)])

Dispatch(a) ==
    /\ task[a].step = "send"
    /\ LET w == Chair[a]
           row == task[a].row
       IN sentAs' = IF row.mode = "domain" /\ Usable(w, row, "domain") THEN sentAs \cup {<<w, row.domain>>} ELSE sentAs
    /\ Ends(a)
    /\ UNCHANGED <<sender, worldVars, requests, proved>>

SystemMailInit ==
    /\ sender = [w \in Workspaces |-> [domain |-> NoDomain, verified |-> FALSE, mode |-> "platform"]]
    /\ task = [a \in ChairAdmins |-> Unasked]
    /\ txt = {} /\ brevo = {} /\ mailbox = {} /\ requests = 0 /\ proved = {} /\ sentAs = {}

SystemMailNext ==
    \/ WorldChanges
    \/ \E a \in ChairAdmins :
          \/ SaveDomain(a) \/ OtherWorkspace(a) \/ WriteDomain(a)
          \/ VerifyDomain(a) \/ VerifyOwnership(a) \/ VerifyBrevo(a) \/ WriteVerified(a)
          \/ SetMode(a) \/ CheckMode(a) \/ WriteMode(a) \/ Send(a) \/ Dispatch(a)

SystemMailSpec == SystemMailInit /\ [][SystemMailNext]_senderVars

----------------------------------------------------------------------------
(* A workspace's domain is marked as verified, and mail leaves in its      *)
(* name, only if the TXT record and Brevo's authentication were once found *)
(* for that workspace and that domain: administrators who save, check and  *)
(* save again at the same time never verify a domain that was not checked. *)
VerifiedWasProved ==
    /\ \A w \in Workspaces : sender[w].verified => <<w, sender[w].domain>> \in proved
    /\ sentAs \subseteq proved
=============================================================================
