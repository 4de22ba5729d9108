-------------------------- MODULE SubmissionEditor --------------------------
(***************************************************************************)
(* The life of one submission under any sequence of saves that each see    *)
(* the row they change (the compare-and-set on updatedAt makes committed   *)
(* saves sequential; module Submissions models how they get there).  The   *)
(* job is open throughout.  Dtos are the saves clients send, Grants the    *)
(* capability records of the people who send them.                         *)
(***************************************************************************)
EXTENDS SubmissionRounds

CONSTANTS Dtos, Grants

ASSUME DtosAssumption == Dtos \subseteq Dto
ASSUME GrantsAssumption == Grants \subseteq Capabilities

VARIABLES
    row,          \* the recruiter_submissions row
    rejectedFrom  \* rejection_from_status: the outcome before the last REJECTED event

vars == <<row, rejectedFrom>>

\* Every row update() can save has values of the columns' types.
TypeOK == row \in Row /\ rejectedFrom \in Outcome \union {Absent}

\* create() and the website's apply(): no round has begun, and the outcome
\* depends on the creator's automatic-approval permission alone.
Init ==
    /\ \E final \in {"SUBMITTED", "PENDING_APPROVAL"} : row = NewRow(final)
    /\ rejectedFrom = Absent

\* update(): an accepted save that changes the row, with its history event.
Save(dto, caps) ==
    /\ ValidateTrackerUpdate(row, rejectedFrom, dto, caps)
    /\ row' = SavedRow(row, dto)
    /\ row' # row
    /\ rejectedFrom' = IF row'.final = "REJECTED" /\ row.final # "REJECTED"
                       THEN row.final ELSE rejectedFrom

\* The date of an interview passes.
InterviewTimePasses(r) ==
    /\ row.date[r] = "future"
    /\ row' = [row EXCEPT !.date[r] = "past"]
    /\ UNCHANGED rejectedFrom

Next ==
    \/ \E dto \in Dtos, caps \in Grants : Save(dto, caps)
    \/ \E r \in Rounds : InterviewTimePasses(r)

Spec == Init /\ [][Next]_vars

-----------------------------------------------------------------------------
(* Properties *)

\* Rounds are taken in order: a round that carries a status, a date or remarks
\* has every earlier round cleared, whatever corrections and resets were saved
\* (roundUpdate's reset and update's voiding of the rounds after a rejection).
RoundsInOrder ==
    \A r, p \in Rounds : p < r /\ ~Pristine(row, r) => row.status[p] = "CLEARED"

\* A submission still awaiting internal review has no interview data at all,
\* so approval never inherits rounds nobody reviewed.
ReviewBeforeInterviews ==
    row.final = "PENDING_APPROVAL" => \A r \in Rounds : Pristine(row, r)

\* A rejected round and the outcome agree: the submission is NOT_SELECTED until
\* the round is corrected, even when a save asked for another outcome.
RejectionDecidesOutcome == SomeRejected(row) => row.final = "NOT_SELECTED"

\* Nobody is selected, offered or joined without a cleared first interview.
PlacedAfterFirstRound == row.final \in Placed => row.status[1] = "CLEARED"

\* Appointments and statuses agree: a scheduled, awaited or cleared round has a
\* date, a pending one has none.
AppointmentMatchesStatus ==
    \A r \in Rounds :
        /\ row.status[r] \in {"SCHEDULED", "AWAITING_FEEDBACK", "CLEARED"} => row.date[r] # "none"
        /\ row.status[r] = "PENDING" => row.date[r] = "none"

\* A submission rejected in internal review never gets another outcome.
InternalRejectionIsFinal ==
    [][row.final = "REJECTED" /\ rejectedFrom = "PENDING_APPROVAL"
         => row'.final = "REJECTED"]_vars

\* Taking back a cleared round, directly or by resetting the rounds after an
\* earlier correction, always takes a placed candidate back as well.
UnclearingWithdrawsPlacement ==
    [][(\E r \in Rounds : row.status[r] = "CLEARED" /\ row'.status[r] # "CLEARED")
         => row'.final \notin Placed]_vars

-----------------------------------------------------------------------------
(* The inductive invariant *)

Inv == /\ TypeOK
       /\ RoundsInOrder
       /\ ReviewBeforeInterviews
       /\ RejectionDecidesOutcome
       /\ PlacedAfterFirstRound
       /\ AppointmentMatchesStatus
=============================================================================
