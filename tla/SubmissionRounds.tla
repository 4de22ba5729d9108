-------------------------- MODULE SubmissionRounds --------------------------
(***************************************************************************)
(* The interview workflow of one recruiter submission as pure operators:   *)
(* round-update.ts, validate-tracker-update.ts, submission-capabilities.ts *)
(* and the part of RecruiterSubmissionsService.update that computes the    *)
(* row to be saved.                                                        *)
(*                                                                         *)
(* A row is what the workflow reads and writes of recruiter_submissions:   *)
(* the status, date and remarks of the rounds L1..L3 and the final status. *)
(* Interviewer, colour and meeting link are cleared wherever the date is   *)
(* and guard nothing of their own, so they are left out, like the texts.   *)
(* A dto field that is not sent is Absent; a status sent as null is sent   *)
(* as PENDING, which is what roundUpdate turns it into.  A date or a       *)
(* remark that is sent is a new one, unless both old and new are null.     *)
(***************************************************************************)
EXTENDS Integers

Rounds == 1..3

RoundStatus == {"PENDING", "SCHEDULED", "AWAITING_FEEDBACK", "CLEARED",
                "REJECTED", "CANCELLED"}

Outcome == {"PENDING_APPROVAL", "SUBMITTED", "SELECTED", "OFFER", "JOIN",
            "NOT_SELECTED", "WITHDRAWN", "REJECTED"}

Placed == {"SELECTED", "OFFER", "JOIN"}
Terminal == {"REJECTED", "JOIN", "NOT_SELECTED", "WITHDRAWN"}

Absent == "absent"

\* Dates are told apart only by whether they have passed.
Dates == {"none", "past", "future"}
Remarks == {"none", "text"}

Row == [status : [Rounds -> RoundStatus], date : [Rounds -> Dates],
        remarks : [Rounds -> Remarks], final : Outcome]

Dto == [status : [Rounds -> RoundStatus \union {Absent}],
        date : [Rounds -> Dates \union {Absent}],
        remarks : [Rounds -> Remarks \union {Absent}],
        final : Outcome \union {Absent},
        correction : BOOLEAN, reset : BOOLEAN, bypass : BOOLEAN,
        note : BOOLEAN]

Capabilities == [review : BOOLEAN, schedule : BOOLEAN, outcome : BOOLEAN,
                 results : [Rounds -> BOOLEAN]]

NewRow(final) ==
    [status |-> [r \in Rounds |-> "PENDING"], date |-> [r \in Rounds |-> "none"],
     remarks |-> [r \in Rounds |-> "none"], final |-> final]

\* progressed() of round-update.ts, and its negation.
Pristine(row, r) ==
    row.status[r] = "PENDING" /\ row.date[r] = "none" /\ row.remarks[r] = "none"

SentStatus(row, dto, r) ==
    IF dto.status[r] = Absent THEN row.status[r] ELSE dto.status[r]

\* Cleared rounds that this save un-clears although a later round has begun.
Uncleared(row, dto) ==
    {r \in Rounds : /\ row.status[r] = "CLEARED"
                    /\ SentStatus(row, dto, r) # "CLEARED"
                    /\ \E later \in Rounds : later > r /\ ~Pristine(row, later)}

ResetRounds(row, dto) ==
    {r \in Rounds : \E u \in Uncleared(row, dto) : u < r}

\* The two exceptions of roundUpdate: the reset must be confirmed with a
\* reason, and the dto may not put a round being reset into another status.
RoundUpdateAllowed(row, dto) ==
    /\ Uncleared(row, dto) # {} => dto.reset /\ dto.correction
    /\ \A r \in ResetRounds(row, dto) : dto.status[r] \in {Absent, "PENDING"}

\* Mutant: the dto is merged but later rounds are not reset.
RoundUpdateNoReset(row, dto) ==
    [row EXCEPT
       !.status = [r \in Rounds |-> SentStatus(row, dto, r)],
       !.date = [r \in Rounds |->
           IF dto.status[r] = "PENDING" THEN "none"
           ELSE IF dto.date[r] = Absent THEN row.date[r] ELSE dto.date[r]],
       !.remarks = [r \in Rounds |->
           IF dto.remarks[r] = Absent THEN row.remarks[r] ELSE dto.remarks[r]]]

\* roundUpdate: the row with the dto's round fields and the resets merged in.
RoundUpdate(row, dto) ==
    LET reset == ResetRounds(row, dto)
    IN [row EXCEPT
          !.status = [r \in Rounds |->
              IF r \in reset THEN "PENDING" ELSE SentStatus(row, dto, r)],
          !.date = [r \in Rounds |->
              IF r \in reset \/ dto.status[r] = "PENDING" THEN "none"
              ELSE IF dto.date[r] = Absent THEN row.date[r] ELSE dto.date[r]],
          !.remarks = [r \in Rounds |->
              IF r \in reset THEN "none"
              ELSE IF dto.remarks[r] = Absent THEN row.remarks[r] ELSE dto.remarks[r]]]

Touched(row, dto, r) ==
    \/ dto.status[r] \notin {Absent, row.status[r]}
    \/ dto.date[r] # Absent /\ ~(dto.date[r] = "none" /\ row.date[r] = "none")
    \/ dto.remarks[r] # Absent /\ ~(dto.remarks[r] = "none" /\ row.remarks[r] = "none")

ChangedRound(row, dto) == \E r \in Rounds : Touched(row, dto, r)

\* r is the first round that is not cleared.
IsActiveRound(row, r) ==
    /\ row.status[r] # "CLEARED"
    /\ \A p \in Rounds : p < r => row.status[p] = "CLEARED"

RecordingResult(row, dto, r) ==
    dto.status[r] \in {"CLEARED", "AWAITING_FEEDBACK"} \ {row.status[r]}

\* Scheduling, cancelling or withdrawing an appointment.
AppointmentChange(row, merged, r) ==
    \/ merged.status[r] \in {"SCHEDULED", "CANCELLED"}
    \/ merged.status[r] = "PENDING" /\ row.status[r] \in {"SCHEDULED", "CANCELLED"}

\* Permissions needed for the fields of round r that the dto sends.
RoundPermitted(row, merged, dto, caps, r) ==
    LET appointment == AppointmentChange(row, merged, r)
    IN /\ row.status[r] \in {"CLEARED", "REJECTED"} => caps.results[r]
       /\ dto.status[r] # Absent => caps.results[r] \/ (appointment /\ caps.schedule)
       /\ dto.date[r] # Absent => caps.schedule \/ caps.results[r]
       /\ dto.remarks[r] # Absent => caps.results[r] \/ (appointment /\ caps.schedule)

\* Recording feedback or clearance needs an interview that was scheduled and held.
ResultAllowed(row, merged, dto, r) ==
    RecordingResult(row, dto, r) =>
        /\ row.status[r] \in {"SCHEDULED", "AWAITING_FEEDBACK"}
               \union (IF dto.correction THEN {"CLEARED", "REJECTED"} ELSE {})
        /\ row.date[r] # "none"
        /\ merged.date[r] # "future"

RejectionAllowed(row, dto, r) ==
    dto.status[r] = "REJECTED" /\ row.status[r] # "REJECTED" =>
        /\ \/ dto.correction
           \/ /\ row.final = "SUBMITTED"
              /\ IsActiveRound(row, r)
              /\ row.status[r] \in {"PENDING", "SCHEDULED", "AWAITING_FEEDBACK"}
        /\ dto.remarks[r] = "text"

SchedulingAllowed(row, merged, dto, r) ==
    dto.status[r] = "SCHEDULED" =>
        /\ (IF dto.final = Absent THEN row.final ELSE dto.final) = "SUBMITTED"
        /\ IsActiveRound(merged, r)
        /\ \A later \in Rounds : later > r =>
               merged.status[later] = "PENDING" /\ merged.date[later] = "none"
        /\ row.status[r] \in {"SCHEDULED", "AWAITING_FEEDBACK", "PENDING", "CANCELLED"}

\* "Interviews require an approved, active submission."
RoundsEditable(row, dto, caps) ==
    /\ row.final # "PENDING_APPROVAL"
    /\ row.final \in Terminal =>
           dto.correction /\ caps.outcome /\ dto.final = "SUBMITTED"

\* Mutant: a pending round may keep an appointment.
DateFitsStatusUnlessPending(merged, r) ==
    merged.status[r] \in {"SCHEDULED", "CLEARED", "AWAITING_FEEDBACK"} => merged.date[r] # "none"

DateFitsStatus(merged, r) ==
    /\ merged.status[r] \in {"SCHEDULED", "CLEARED", "AWAITING_FEEDBACK"} =>
           merged.date[r] # "none"
    /\ merged.status[r] = "PENDING" => merged.date[r] = "none"

\* The body of the validator's loop over the rounds the save touches.
RoundValid(row, merged, dto, caps, r) ==
    /\ RoundPermitted(row, merged, dto, caps, r)
    /\ row.status[r] \in {"CLEARED", "REJECTED"} => dto.correction
    /\ RoundsEditable(row, dto, caps)
    /\ r > 1 /\ r \notin ResetRounds(row, dto) =>
           merged.status[r - 1] = "CLEARED" /\ merged.status[1] = "CLEARED"
    /\ ResultAllowed(row, merged, dto, r)
    /\ RejectionAllowed(row, dto, r)
    /\ dto.status[r] = "CANCELLED" => dto.remarks[r] = "text"
    /\ SchedulingAllowed(row, merged, dto, r)
    /\ DateFitsStatus(merged, r)

\* A round that has begun needs every earlier round cleared.
SequenceValid(merged) ==
    \A r \in Rounds : \A p \in Rounds :
        p < r /\ (merged.status[r] # "PENDING" \/ merged.date[r] # "none")
            => merged.status[p] = "CLEARED"

SomeRejected(row) == \E r \in Rounds : row.status[r] = "REJECTED"

Progression(outcome) ==
    CASE outcome = "SUBMITTED" -> 0 [] outcome = "SELECTED" -> 1
      [] outcome = "OFFER" -> 2 [] outcome = "JOIN" -> 3 [] OTHER -> -1

\* Outcomes for which a reason must be recorded because steps are skipped.
SkipsSteps(row, merged, dto) ==
    \/ \E r \in Rounds : merged.status[r] \in {"SCHEDULED", "AWAITING_FEEDBACK"}
    \/ dto.final = "OFFER" /\ row.final \notin {"SELECTED", "OFFER"}
    \/ dto.final = "JOIN" /\ row.final \notin {"OFFER", "JOIN"}

\* Selecting, offering or joining.
PlacementAllowed(row, merged, dto) ==
    /\ merged.status[1] = "CLEARED" /\ ~SomeRejected(merged)
    /\ dto.final # row.final /\ SkipsSteps(row, merged, dto) => dto.bypass

\* The outcome is the consequence of a round the same save rejects.
DerivedRejection(dto) ==
    /\ dto.final \in {"REJECTED", "NOT_SELECTED"}
    /\ \E r \in Rounds : dto.status[r] = "REJECTED"

\* The validator's checks on an explicit finalStatus.
OutcomeValid(row, merged, dto, caps) ==
    IF DerivedRejection(dto) THEN row.final = "SUBMITTED" \/ caps.outcome
    ELSE
      /\ IF row.final = "PENDING_APPROVAL"
         THEN caps.review /\ dto.final \in {"SUBMITTED", "REJECTED"}
         ELSE caps.outcome /\ dto.final # "PENDING_APPROVAL"
      /\ \/ row.final \in Terminal /\ dto.final # row.final
         \/ Progression(dto.final) >= 0 /\ Progression(dto.final) < Progression(row.final)
         => dto.correction
      /\ dto.final \in Placed => PlacementAllowed(row, merged, dto)
      /\ dto.final \in {"NOT_SELECTED", "WITHDRAWN", "REJECTED"} \ {row.final} => dto.note

NothingSent(dto) ==
    /\ dto.final = Absent
    /\ \A r \in Rounds : /\ dto.status[r] = Absent /\ dto.date[r] = Absent
                         /\ dto.remarks[r] = Absent

\* "An internal-review rejection cannot be reopened through the interview editor."
ReviewRejectionKept(row, rejectedFrom, dto) ==
    row.final = "REJECTED" /\ rejectedFrom = "PENDING_APPROVAL" =>
        dto.final \in {Absent, "REJECTED"}

\* "Return the final outcome to In progress when correcting a cleared round."
PlacementKept(row, merged, dto) ==
    (IF dto.final = Absent THEN row.final ELSE dto.final) \in Placed =>
        /\ merged.status[1] = "CLEARED"
        /\ \A r \in Rounds : row.status[r] = "CLEARED" => merged.status[r] = "CLEARED"

\* validateTrackerUpdate: the save is accepted for this row.  rejectedFrom is
\* the outcome that the last event into REJECTED left.
ValidateTrackerUpdate(row, rejectedFrom, dto, caps) ==
    LET merged == RoundUpdate(row, dto)
    IN /\ RoundUpdateAllowed(row, dto)
       /\ ReviewRejectionKept(row, rejectedFrom, dto)
       /\ \A r \in Rounds : Touched(row, dto, r) => RoundValid(row, merged, dto, caps, r)
       /\ ChangedRound(row, dto) => SequenceValid(merged)
       /\ dto.final # Absent => OutcomeValid(row, merged, dto, caps)
       /\ dto.final = "SUBMITTED" /\ row.final # "PENDING_APPROVAL" => ~SomeRejected(merged)
       /\ ChangedRound(row, dto) => PlacementKept(row, merged, dto)
       /\ ~NothingSent(dto)

SavedOutcome(row, merged, dto) ==
    IF SomeRejected(merged) THEN "NOT_SELECTED"
    ELSE IF dto.final = Absent THEN row.final ELSE dto.final

\* The row update() saves: a rejected round decides the outcome and puts every
\* later round back to pending.
SavedRow(row, dto) ==
    LET merged == RoundUpdate(row, dto)
        voided == {r \in Rounds : \E p \in Rounds : p < r /\ merged.status[p] = "REJECTED"}
    IN [status |-> [r \in Rounds |-> IF r \in voided THEN "PENDING" ELSE merged.status[r]],
        date |-> [r \in Rounds |-> IF r \in voided THEN "none" ELSE merged.date[r]],
        remarks |-> [r \in Rounds |-> IF r \in voided THEN "none" ELSE merged.remarks[r]],
        final |-> SavedOutcome(row, merged, dto)]

\* workflowChange of update(): the save touches status, dates or outcome.
WorkflowChange(dto) == ~NothingSent(dto) \/ dto.reset

\* submissionCapabilities: what a permission bundle allows while the job is
\* paused (closed without keeping its submissions open).
PausedCapabilities ==
    [review |-> FALSE, schedule |-> FALSE, outcome |-> FALSE,
     results |-> [r \in Rounds |-> FALSE]]

SubmissionCapabilities(granted, paused) ==
    IF paused THEN PausedCapabilities ELSE granted
=============================================================================
