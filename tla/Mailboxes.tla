----------------------------- MODULE Mailboxes -----------------------------
(***************************************************************************)
(* The mailboxes a workspace sends from: EmailService's connection of a    *)
(* Microsoft mailbox (a one-time state kept in Redis for ten minutes, the  *)
(* exchange of the code, the upsert of the account), its own SMTP          *)
(* accounts, sharing, deletion and the choice of the default account.      *)
(* The identity provider and Redis are external.                           *)
(***************************************************************************)
EXTENDS Integers, FiniteSets

CONSTANTS
    Boxes,          \* e-mail addresses of mailboxes
    Owners,         \* members
    MailAdmins,     \* members with the role TENANT_ADMIN or SUPER_ADMIN
    States,         \* OAuth states handed out
    MaxBoxCalls,    \* bound on callbacks and edits
    NoBox

ASSUME OwnersAssumption == MailAdmins \subseteq Owners /\ NoBox \notin Boxes /\ MaxBoxCalls \in Nat

VARIABLES
    boxes,          \* mailbox |-> owner, default mark and sharing, or NoBox
    oauth,          \* state |-> fresh, the member it was issued to, used or expired
    exchanges,      \* callbacks between consuming their state and the upsert
    choosing,       \* member |-> the step of setDefaultAccount he is in
    boxCalls

boxVars == <<boxes, oauth, exchanges, choosing, boxCalls>>

BoxCall == boxCalls < MaxBoxCalls /\ boxCalls' = boxCalls + 1

BeginMicrosoftConnection(u) ==
    /\ \E s \in States : oauth[s] = "new" /\ oauth' = [oauth EXCEPT ![s] = u]
    /\ UNCHANGED <<boxes, exchanges, choosing, boxCalls>>

Expire ==
    /\ \E s \in States : oauth[s] \in Owners /\ oauth' = [oauth EXCEPT ![s] = "gone"]
    /\ UNCHANGED <<boxes, exchanges, choosing, boxCalls>>

\* The browser may repeat the callback; the script reads and deletes the state in one step.
ConsumeMicrosoftConnection ==
    /\ BoxCall
    /\ \E s \in States :
          /\ oauth[s] \in Owners
          /\ oauth' = [oauth EXCEPT ![s] = "gone"]
          /\ exchanges' = exchanges \cup {[state |-> s, by |-> oauth[s]]}
    /\ UNCHANGED <<boxes, choosing>>

\* The provider names the mailbox, or refuses the code.
HandleMicrosoftCallback ==
    /\ \E x \in exchanges :
          /\ exchanges' = exchanges \ {x}
          /\ \/ UNCHANGED boxes
             \/ \E b \in Boxes : boxes' = [boxes EXCEPT ![b] =
                   IF boxes[b] = NoBox THEN [owner |-> x.by, default |-> FALSE, shared |-> FALSE]
                   ELSE [boxes[b] EXCEPT !.owner = x.by]]
    /\ UNCHANGED <<oauth, choosing, boxCalls>>

AddCustomAccount(u) ==
    /\ BoxCall
    /\ \E b \in Boxes : boxes[b] = NoBox /\ boxes' = [boxes EXCEPT ![b] =
                            [owner |-> u, default |-> FALSE, shared |-> FALSE]]
    /\ UNCHANGED <<oauth, exchanges, choosing>>

MayManage(u, b) == boxes[b] # NoBox /\ (u \in MailAdmins \/ boxes[b].owner = u)

DeleteAccount(u) ==
    /\ BoxCall
    /\ \E b \in Boxes : MayManage(u, b) /\ boxes' = [boxes EXCEPT ![b] = NoBox]
    /\ UNCHANGED <<oauth, exchanges, choosing>>

ShareAccount(u) ==
    /\ BoxCall
    /\ \E b \in Boxes : MayManage(u, b) /\ boxes' = [boxes EXCEPT ![b].shared = ~@]
    /\ UNCHANGED <<oauth, exchanges, choosing>>

NoChoice == [step |-> "none"]

SetDefaultRead(u) ==
    /\ BoxCall /\ choosing[u] = NoChoice
    /\ \E b \in Boxes : boxes[b] # NoBox /\ choosing' = [choosing EXCEPT ![u] = [step |-> "lock", box |-> b]]
    /\ UNCHANGED <<boxes, oauth, exchanges>>

\* The transaction starts with an update of the workspace's row: one at a time.
SetDefaultLock(u) ==
    /\ choosing[u].step = "lock" /\ ~\E o \in Owners : choosing[o].step = "write"
    /\ choosing' = [choosing EXCEPT ![u].step = "write"]
    /\ UNCHANGED <<boxes, oauth, exchanges, boxCalls>>

\* Mutant: only the member's own mailboxes lose the mark.
MarkedOwn(u, b) == [o \in Boxes |->
    IF boxes[o] = NoBox THEN NoBox
    ELSE IF o = b THEN [boxes[o] EXCEPT !.default = TRUE]
    ELSE IF boxes[o].owner = u THEN [boxes[o] EXCEPT !.default = FALSE] ELSE boxes[o]]
Marked(u, b) == [o \in Boxes |->
    IF boxes[o] = NoBox THEN NoBox ELSE [boxes[o] EXCEPT !.default = (o = b)]]

\* A mailbox deleted meanwhile rolls the transaction back.
SetDefaultWrite(u) ==
    /\ choosing[u].step = "write"
    /\ boxes' = IF boxes[choosing[u].box] = NoBox THEN boxes ELSE Marked(u, choosing[u].box)
    /\ choosing' = [choosing EXCEPT ![u] = NoChoice]
    /\ UNCHANGED <<oauth, exchanges, boxCalls>>

BoxesInit ==
    /\ boxes = [b \in Boxes |-> NoBox] /\ oauth = [s \in States |-> "new"]
    /\ exchanges = {} /\ boxCalls = 0
    /\ choosing = [u \in Owners |-> NoChoice]

BoxesNext ==
    \/ Expire \/ ConsumeMicrosoftConnection \/ HandleMicrosoftCallback
    \/ \E u \in Owners : \/ BeginMicrosoftConnection(u) \/ AddCustomAccount(u) \/ DeleteAccount(u)
                         \/ ShareAccount(u) \/ SetDefaultRead(u) \/ SetDefaultLock(u) \/ SetDefaultWrite(u)

BoxesSpec == BoxesInit /\ [][BoxesNext]_boxVars

----------------------------------------------------------------------------
(* At most one mailbox of the workspace is the default, though members     *)
(* choose, delete and reconnect mailboxes at the same time.                *)
OneDefaultMailbox ==
    Cardinality({b \in Boxes : boxes[b] # NoBox /\ boxes[b].default}) <= 1
=============================================================================
