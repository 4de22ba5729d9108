------------------------------ MODULE Tracker ------------------------------
(***************************************************************************)
(* What the tracker makes of a submission's row: its tab (bucket), its     *)
(* stage, its work queue, whether it is eligible for an interview, and the *)
(* events it puts on the calendar.  Each is a predicate in SQL of its own, *)
(* written apart from the editor that saves the rows; here they are read   *)
(* off the rows that the editor reaches.  The job is open.                 *)
(***************************************************************************)
EXTENDS SubmissionEditor, FiniteSets

Appointed == {"SCHEDULED", "AWAITING_FEEDBACK"}

\* trackerBucketConditions of a submission whose job is not paused, without "all".
Buckets == {"review", "interviews", "offers", "closures", "closed"}
InBucket(bucket) ==
    CASE bucket = "review"     -> row.final = "PENDING_APPROVAL"
      [] bucket = "interviews" -> row.final = "SUBMITTED" /\ \E r \in Rounds : row.status[r] \in Appointed
      [] bucket = "offers"     -> row.final \in {"SELECTED", "OFFER"}
      [] bucket = "closures"   -> row.final = "JOIN"
      [] bucket = "closed"     -> row.final \in {"REJECTED", "NOT_SELECTED", "WITHDRAWN"}

\* trackerStageSql: review is 0, the final stage 4.
Stage ==
    IF row.final = "PENDING_APPROVAL" THEN 0
    ELSE IF row.final # "SUBMITTED" \/ \A r \in Rounds : row.status[r] = "CLEARED" THEN 4
    ELSE CHOOSE r \in Rounds : IsActiveRound(row, r)

\* trackerRoundStatusSql and the queues built on it.
StageStatus == IF Stage \in Rounds THEN row.status[Stage]
               ELSE IF row.final = "SUBMITTED" THEN "DECISION" ELSE row.final
InQueue(queue) ==
    /\ row.final = "SUBMITTED"
    /\ CASE queue = "scheduling" -> StageStatus = "PENDING"
         [] queue = "feedback"   -> StageStatus = "AWAITING_FEEDBACK"
         [] queue = "upcoming"   -> StageStatus = "SCHEDULED" /\ row.date[Stage] = "future"

Unbooked(r) == row.status[r] \in {"PENDING", "CANCELLED"} /\ (row.status[r] = "CANCELLED" \/ row.date[r] = "none")
Untouched(r) == row.status[r] = "PENDING" /\ row.date[r] = "none"

\* findEligibleForInterview: the round it offers.
EligibleFor(r) ==
    /\ row.final = "SUBMITTED" /\ Unbooked(r)
    /\ \A p \in Rounds : p < r => row.status[p] = "CLEARED"
    /\ \A later \in Rounds : later > r => Untouched(later)

\* findCalendarEvents: the rounds on the calendar, and those that can be managed there.
OnCalendarRound(r) ==
    /\ row.date[r] # "none" /\ row.status[r] \in {"SCHEDULED", "AWAITING_FEEDBACK", "CLEARED", "REJECTED"}
    /\ row.final \notin {"PENDING_APPROVAL", "WITHDRAWN"}
    /\ row.date[r] = "past" \/ row.final \notin {"SELECTED", "OFFER", "JOIN", "NOT_SELECTED"}
Manageable(r) == OnCalendarRound(r) /\ row.final = "SUBMITTED" /\ row.status[r] \in Appointed

\* What the forms of the eligible list and of the calendar send for round r.
FormDto(r, status, date, remarks) ==
    [status |-> [p \in Rounds |-> IF p = r THEN status ELSE Absent],
     date |-> [p \in Rounds |-> IF p = r THEN date ELSE Absent],
     remarks |-> [p \in Rounds |-> IF p = r THEN remarks ELSE Absent],
     final |-> Absent, correction |-> FALSE, reset |-> FALSE, bypass |-> FALSE, note |-> FALSE]

Scheduler == [review |-> FALSE, schedule |-> TRUE, outcome |-> FALSE, results |-> [r \in Rounds |-> FALSE]]
Accepts(r, status, date, remarks) ==
    ValidateTrackerUpdate(row, rejectedFrom, FormDto(r, status, date, remarks), Scheduler)

----------------------------------------------------------------------------
\* The tracker and the editor agree on every row the editor can reach: a
\* submission is on one tab at most; the round it is eligible for, if any, can
\* be scheduled by somebody who may do no more; what waits in the queue for
\* scheduling is eligible; an event to be managed on the calendar is that of
\* the stage it is in, is on the tab of interviews, and can be moved and
\* cancelled.
TrackerAgreesWithEditor ==
    /\ Cardinality({b \in Buckets : InBucket(b)}) <= 1
    /\ \A r \in Rounds : EligibleFor(r) => Stage = r /\ Accepts(r, "SCHEDULED", "future", Absent)
    /\ InQueue("scheduling") => EligibleFor(Stage)
    /\ InQueue("feedback") \/ InQueue("upcoming") => Manageable(Stage) /\ InBucket("interviews")
    /\ \A r \in Rounds : Manageable(r) =>
          /\ Stage = r /\ InBucket("interviews")
          /\ Accepts(r, "SCHEDULED", "future", Absent) /\ Accepts(r, "CANCELLED", Absent, "text")
=============================================================================
