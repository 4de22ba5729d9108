----------------------------- MODULE Campaigns -----------------------------
(***************************************************************************)
(* A mass mail campaign: EmailService.createCampaign queues one job per    *)
(* recipient while EmailProcessor already works on the first ones;         *)
(* cancelCampaign and getCampaignStatus come in at any time.  The rate     *)
(* limits only spread the jobs and are left out.                           *)
(*                                                                         *)
(* A crash ends the loop and the worker; the stalled job is delivered once *)
(* more (BullMQ's default), then given up.  The mail service is external:  *)
(* a send that fails may have been delivered.                              *)
(***************************************************************************)
EXTENDS Integers, Sequences, FiniteSets

CONSTANTS
    Recipients,     \* number of recipients of the campaign
    MaxCancels,     \* bound on requests to cancel
    MaxMailCrashes  \* bound on crashes

ASSUME RecipientsAssumption == Recipients \in Nat \ {0} /\ {MaxCancels, MaxMailCrashes} \subseteq Nat

VARIABLES
    campaign,       \* Processing, Completed or Cancelled
    filling,        \* where the loop of createCampaign is
    addressed,      \* status of the recipients created so far
    posts,          \* the queue of recipients
    mailer,         \* what the worker is doing
    mails,          \* recipient |-> mails he has got
    redelivered,    \* recipient |-> redeliveries of his job
    stopped,        \* recipient |-> mails he had when a cancellation stopped his
    cancelling,     \* a cancellation between its two statements
    settling,       \* a getCampaignStatus between its two statements
    cancels, mailCrashes

campaignVars == <<campaign, filling, addressed, posts, mailer, mails, redelivered, stopped,
                  cancelling, settling, cancels, mailCrashes>>

AtRest == [step |-> "idle"]

\* The loop creates the recipient, then queues the job.
AddRecipient ==
    /\ filling = "row" /\ Len(addressed) < Recipients
    /\ addressed' = Append(addressed, "Pending")
    /\ filling' = "post"
    /\ UNCHANGED <<campaign, posts, mailer, mails, redelivered, stopped, cancelling, settling, cancels, mailCrashes>>

AddPost ==
    /\ filling = "post"
    /\ posts' = posts \cup {Len(addressed)}
    /\ filling' = IF Len(addressed) = Recipients THEN "over" ELSE "row"
    /\ UNCHANGED <<campaign, addressed, mailer, mails, redelivered, stopped, cancelling, settling, cancels, mailCrashes>>

\* Delays are random: any job may come first.
TakePost ==
    /\ mailer = AtRest
    /\ \E r \in posts : posts' = posts \ {r} /\ mailer' = [step |-> "check", to |-> r]
    /\ UNCHANGED <<campaign, filling, addressed, mails, redelivered, stopped, cancelling, settling, cancels, mailCrashes>>

\* Mutant: the status of the recipient is not looked at.
SkipsNobody(r) == FALSE
Skips(r) == addressed[r] = "Cancelled"

CheckRecipient ==
    /\ mailer.step = "check"
    /\ mailer' = IF Skips(mailer.to) THEN AtRest ELSE [mailer EXCEPT !.step = "send"]
    /\ UNCHANGED <<campaign, filling, addressed, posts, mails, redelivered, stopped, cancelling, settling, cancels, mailCrashes>>

\* sendMicrosoftEmail, its one retry after a refreshed token included.
SendMail ==
    /\ mailer.step = "send"
    /\ mails' = [mails EXCEPT ![mailer.to] = @ + 1]
    /\ \E step \in {"sent", "failed"} : mailer' = [mailer EXCEPT !.step = step]
    /\ UNCHANGED <<campaign, filling, addressed, posts, redelivered, stopped, cancelling, settling, cancels, mailCrashes>>

SendFails ==
    /\ mailer.step = "send"
    /\ mailer' = [mailer EXCEPT !.step = "failed"]
    /\ UNCHANGED <<campaign, filling, addressed, posts, mails, redelivered, stopped, cancelling, settling, cancels, mailCrashes>>

\* Mutant: a failure is only logged.
ResultSuccessOnly(step) == IF step = "sent" THEN "Sent" ELSE addressed[mailer.to]
Result(step) == IF step = "sent" THEN "Sent" ELSE "Failed"

RecordResult ==
    /\ mailer.step \in {"sent", "failed"}
    /\ addressed' = [addressed EXCEPT ![mailer.to] = Result(mailer.step)]
    /\ mailer' = AtRest
    /\ UNCHANGED <<campaign, filling, posts, mails, redelivered, stopped, cancelling, settling, cancels, mailCrashes>>

\* getCampaignStatus counts the recipients there are, then marks the campaign.
GetCampaignStatus ==
    /\ ~settling /\ campaign # "Completed"
    /\ addressed # <<>> /\ \A r \in DOMAIN addressed : addressed[r] \in {"Sent", "Failed"}
    /\ settling' = TRUE
    /\ UNCHANGED <<campaign, filling, addressed, posts, mailer, mails, redelivered, stopped, cancelling, cancels, mailCrashes>>

MarkCompleted ==
    /\ settling /\ settling' = FALSE
    /\ campaign' = "Completed"
    /\ UNCHANGED <<filling, addressed, posts, mailer, mails, redelivered, stopped, cancelling, cancels, mailCrashes>>

CancelCampaign ==
    /\ ~cancelling /\ cancels < MaxCancels /\ cancels' = cancels + 1
    /\ campaign' = "Cancelled" /\ cancelling' = TRUE
    /\ UNCHANGED <<filling, addressed, posts, mailer, mails, redelivered, stopped, settling, mailCrashes>>

\* The worker may be past its check: that mail goes out.
InFlight(r) == mailer # AtRest /\ mailer.to = r /\ mailer.step # "check"

CancelRecipients ==
    /\ cancelling /\ cancelling' = FALSE
    /\ LET pending == {r \in DOMAIN addressed : addressed[r] = "Pending"}
       IN /\ addressed' = [r \in DOMAIN addressed |-> IF r \in pending THEN "Cancelled" ELSE addressed[r]]
          /\ stopped' = [r \in 1..Recipients |->
                IF r \in pending /\ ~InFlight(r) THEN mails[r] ELSE stopped[r]]
    /\ UNCHANGED <<campaign, filling, posts, mailer, mails, redelivered, settling, cancels, mailCrashes>>

MailCrash ==
    /\ mailCrashes < MaxMailCrashes /\ mailCrashes' = mailCrashes + 1
    /\ filling' = IF filling = "over" THEN "over" ELSE "lost"
    /\ mailer' = AtRest /\ cancelling' = FALSE /\ settling' = FALSE
    /\ IF mailer # AtRest /\ redelivered[mailer.to] < 1
       THEN /\ posts' = posts \cup {mailer.to}
            /\ redelivered' = [redelivered EXCEPT ![mailer.to] = @ + 1]
       ELSE UNCHANGED <<posts, redelivered>>
    /\ UNCHANGED <<campaign, addressed, mails, stopped, cancels>>

----------------------------------------------------------------------------
NotStopped == -1

CampaignsInit ==
    /\ campaign = "Processing" /\ filling = "row" /\ addressed = <<>> /\ posts = {}
    /\ mailer = AtRest /\ cancelling = FALSE /\ settling = FALSE /\ cancels = 0 /\ mailCrashes = 0
    /\ mails = [r \in 1..Recipients |-> 0]
    /\ redelivered = [r \in 1..Recipients |-> 0]
    /\ stopped = [r \in 1..Recipients |-> NotStopped]

MailerStep == TakePost \/ CheckRecipient \/ SendMail \/ SendFails \/ RecordResult

CampaignsNext == AddRecipient \/ AddPost \/ MailerStep \/ GetCampaignStatus \/ MarkCompleted
                 \/ CancelCampaign \/ CancelRecipients \/ MailCrash

CampaignsSpec == CampaignsInit /\ [][CampaignsNext]_campaignVars

CampaignsFairness == WF_campaignVars(MailerStep)

----------------------------------------------------------------------------
(* A recipient whose mail a cancellation stopped gets none after it,       *)
(* whatever the worker was doing, fails or redelivers.                     *)
StoppedStaysUnmailed == \A r \in 1..Recipients : stopped[r] \in {NotStopped, mails[r]}

(* Once the loop has queued everybody, every recipient ends up sent,       *)
(* failed or cancelled, though sends fail and the worker crashes.          *)
CampaignSettles ==
    (filling = "over") ~> \A r \in DOMAIN addressed : addressed[r] # "Pending"
=============================================================================
