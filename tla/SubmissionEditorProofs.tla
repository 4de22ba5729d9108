----------------------- MODULE SubmissionEditorProofs -----------------------
(* The invariants of SubmissionEditor for every set of saves and grants.     *)
EXTENDS Tracker, FiniteSetTheorems, TLAPS

\* What roundUpdate returns is a row, and its outcome is the one it was given.
LEMMA MergedRow ==
    ASSUME NEW w \in Row, NEW dto \in Dto
    PROVE  /\ RoundUpdate(w, dto) \in Row
           /\ RoundUpdate(w, dto).final = w.final
           /\ \A r \in Rounds :
                /\ RoundUpdate(w, dto).status[r] =
                     IF r \in ResetRounds(w, dto) THEN "PENDING" ELSE SentStatus(w, dto, r)
                /\ RoundUpdate(w, dto).date[r] =
                     IF r \in ResetRounds(w, dto) \/ dto.status[r] = "PENDING" THEN "none"
                     ELSE IF dto.date[r] = Absent THEN w.date[r] ELSE dto.date[r]
                /\ RoundUpdate(w, dto).remarks[r] =
                     IF r \in ResetRounds(w, dto) THEN "none"
                     ELSE IF dto.remarks[r] = Absent THEN w.remarks[r] ELSE dto.remarks[r]
<1> DEFINE m == RoundUpdate(w, dto)
           st == [r \in Rounds |->
                    IF r \in ResetRounds(w, dto) THEN "PENDING" ELSE SentStatus(w, dto, r)]
           dt == [r \in Rounds |->
                    IF r \in ResetRounds(w, dto) \/ dto.status[r] = "PENDING" THEN "none"
                    ELSE IF dto.date[r] = Absent THEN w.date[r] ELSE dto.date[r]]
           rm == [r \in Rounds |->
                    IF r \in ResetRounds(w, dto) THEN "none"
                    ELSE IF dto.remarks[r] = Absent THEN w.remarks[r] ELSE dto.remarks[r]]
<1>1. m = [w EXCEPT !.status = st, !.date = dt, !.remarks = rm]
  BY DEF RoundUpdate
<1>2. st \in [Rounds -> RoundStatus]
  BY DEF SentStatus, Row, Dto, RoundStatus
<1>3. dt \in [Rounds -> Dates]
  BY DEF Row, Dto, Dates
<1>4. rm \in [Rounds -> Remarks]
  BY DEF Row, Dto, Remarks
<1> HIDE DEF st, dt, rm
<1>5. /\ m \in Row /\ m.final = w.final
      /\ m.status = st /\ m.date = dt /\ m.remarks = rm
  BY <1>1, <1>2, <1>3, <1>4 DEF Row
<1> QED
  BY <1>5 DEF st, dt, rm

\* What update() saves is a row.
LEMMA SavedRowType ==
    ASSUME NEW w \in Row, NEW dto \in Dto
    PROVE  SavedRow(w, dto) \in Row
<1> DEFINE m == RoundUpdate(w, dto)
<1>1. m \in Row
  BY MergedRow
<1>2. SavedOutcome(w, m, dto) \in Outcome
  BY <1>1 DEF SavedOutcome, Row, Dto, Outcome
<1> HIDE DEF m
<1>3. \A V : [status |-> [r \in Rounds |-> IF r \in V THEN "PENDING" ELSE m.status[r]],
              date |-> [r \in Rounds |-> IF r \in V THEN "none" ELSE m.date[r]],
              remarks |-> [r \in Rounds |-> IF r \in V THEN "none" ELSE m.remarks[r]],
              final |-> SavedOutcome(w, m, dto)] \in Row
  BY <1>1, <1>2 DEF Row, RoundStatus, Dates, Remarks
<1> QED
  BY <1>3 DEF SavedRow, m

\* The fields of the row that update() saves.
LEMMA SavedFields ==
    ASSUME NEW w \in Row, NEW dto \in Dto, NEW r \in Rounds
    PROVE  LET m == RoundUpdate(w, dto)
               s == SavedRow(w, dto)
               void == \E p \in Rounds : p < r /\ m.status[p] = "REJECTED"
           IN /\ s.status[r] = IF void THEN "PENDING" ELSE m.status[r]
              /\ s.date[r] = IF void THEN "none" ELSE m.date[r]
              /\ s.remarks[r] = IF void THEN "none" ELSE m.remarks[r]
              /\ s.final = SavedOutcome(w, m, dto)
  BY DEF SavedRow

\* A round that the save neither touches nor resets stays as it is.
LEMMA UntouchedRound ==
    ASSUME NEW w \in Row, NEW dto \in Dto, NEW r \in Rounds,
           ~Touched(w, dto, r), r \notin ResetRounds(w, dto),
           w.status[r] = "PENDING" => w.date[r] = "none"
    PROVE  LET m == RoundUpdate(w, dto)
           IN m.status[r] = w.status[r] /\ m.date[r] = w.date[r] /\ m.remarks[r] = w.remarks[r]
  BY MergedRow DEF Touched, SentStatus, Row, RoundStatus, Absent

\* Only a save that touches a round can reset the ones after it.
LEMMA ResetNeedsChange ==
    ASSUME NEW w \in Row, NEW dto \in Dto, ~ChangedRound(w, dto)
    PROVE  ResetRounds(w, dto) = {}
  BY DEF ChangedRound, Touched, ResetRounds, Uncleared, SentStatus

\* The inductive step: an accepted save keeps every conjunct of Inv.
LEMMA SaveKeepsInv ==
    ASSUME Inv, NEW dto \in Dto, NEW caps \in Capabilities, Save(dto, caps)
    PROVE  Inv'
<1> DEFINE m == RoundUpdate(row, dto)
<1>1. /\ row \in Row /\ row' \in Row /\ row' = SavedRow(row, dto)
      /\ m \in Row /\ m.final = row.final
  BY SavedRowType, MergedRow DEF Inv, TypeOK, Save
<1>2. \A r \in Rounds :
        /\ \/ row'.status[r] = m.status[r] /\ row'.date[r] = m.date[r]
              /\ row'.remarks[r] = m.remarks[r]
              /\ \A p \in Rounds : p < r => m.status[p] # "REJECTED"
           \/ row'.status[r] = "PENDING" /\ row'.date[r] = "none" /\ row'.remarks[r] = "none"
        /\ r = 1 => row'.status[r] = m.status[r]
  BY <1>1, SavedFields DEF Rounds
<1>3. row'.final = SavedOutcome(row, m, dto)
  BY <1>1, SavedFields DEF Rounds
<1>4. ASSUME NEW r \in Rounds, ~Touched(row, dto, r), r \notin ResetRounds(row, dto)
      PROVE  m.status[r] = row.status[r] /\ m.date[r] = row.date[r] /\ m.remarks[r] = row.remarks[r]
  BY <1>1, <1>4, UntouchedRound DEF Inv, AppointmentMatchesStatus
<1>5. ASSUME NEW r \in Rounds, r \in ResetRounds(row, dto)
      PROVE  m.status[r] = "PENDING" /\ m.date[r] = "none" /\ m.remarks[r] = "none"
  BY <1>1, <1>5, MergedRow
<1>6. ~ChangedRound(row, dto) =>
        \A r \in Rounds : m.status[r] = row.status[r] /\ m.date[r] = row.date[r]
                          /\ m.remarks[r] = row.remarks[r]
  BY <1>1, <1>4, ResetNeedsChange DEF ChangedRound
<1>7. ValidateTrackerUpdate(row, rejectedFrom, dto, caps)
  BY DEF Save
<1> HIDE DEF m
<1>a. TypeOK'
  BY <1>1 DEF Inv, TypeOK, Save, Row
<1>b. RoundsInOrder'
  <2> SUFFICES ASSUME NEW r \in Rounds, NEW p \in Rounds, p < r, ~Pristine(row, r)'
               PROVE  row'.status[p] = "CLEARED"
    BY DEF RoundsInOrder
  <2>1. /\ \A q \in Rounds : q < r => m.status[q] # "REJECTED"
        /\ ~Pristine(m, r)
    BY <1>2 DEF Pristine
  <2>2. m.status[p] = "CLEARED"
    <3>1. CASE ~ChangedRound(row, dto)
      BY <1>6, <2>1, <3>1 DEF Pristine, Inv, RoundsInOrder
    <3>2. CASE ChangedRound(row, dto) /\ ~(m.status[r] = "PENDING" /\ m.date[r] = "none")
      BY <1>7, <3>2 DEF ValidateTrackerUpdate, SequenceValid, m
    <3>3. CASE ChangedRound(row, dto) /\ m.status[r] = "PENDING" /\ m.date[r] = "none"
      <4>1. r \notin ResetRounds(row, dto)
        BY <1>5, <2>1 DEF Pristine
      <4>2. CASE Touched(row, dto, r)
        <5>1. m.status[r - 1] = "CLEARED" /\ m.status[1] = "CLEARED"
          BY <1>7, <4>1, <4>2 DEF ValidateTrackerUpdate, RoundValid, m, Rounds
        <5> QED
          BY <5>1 DEF Rounds
      <4>3. CASE ~Touched(row, dto, r)
        <5>1. row.status[p] = "CLEARED"
          BY <1>4, <2>1, <4>1, <4>3 DEF Pristine, Inv, RoundsInOrder
        <5>2. ~Pristine(row, r)
          BY <1>4, <2>1, <4>1, <4>3 DEF Pristine
        <5>3. SentStatus(row, dto, p) = "CLEARED"
          BY <4>1, <5>1, <5>2 DEF ResetRounds, Uncleared
        <5>4. p \notin ResetRounds(row, dto)
          BY <4>1 DEF ResetRounds, Uncleared, Rounds
        <5> QED
          BY <1>1, <5>3, <5>4, MergedRow DEF m
      <4> QED
        BY <4>2, <4>3
    <3> QED
      BY <3>1, <3>2, <3>3
  <2>3. \A q \in Rounds : q < p => m.status[q] # "REJECTED"
    BY <2>1 DEF Rounds
  <2> QED
    BY <1>1, <2>2, <2>3, SavedFields DEF m
<1>8. \A r \in Rounds : Touched(row, dto, r) => row.final # "PENDING_APPROVAL"
  BY <1>7 DEF ValidateTrackerUpdate, RoundValid, RoundsEditable
<1>c. ReviewBeforeInterviews'
  <2> SUFFICES ASSUME row'.final = "PENDING_APPROVAL"
               PROVE  \A r \in Rounds : Pristine(row, r)'
    BY DEF ReviewBeforeInterviews
  <2>1. row.final = "PENDING_APPROVAL"
    BY <1>3, <1>7 DEF SavedOutcome, ValidateTrackerUpdate, OutcomeValid, DerivedRejection, Absent
  <2>2. ~ChangedRound(row, dto)
    BY <1>8, <2>1 DEF ChangedRound
  <2> QED
    BY <1>2, <1>6, <2>1, <2>2 DEF Inv, ReviewBeforeInterviews, Pristine
<1>d. RejectionDecidesOutcome'
  BY <1>2, <1>3 DEF RejectionDecidesOutcome, SomeRejected, SavedOutcome
<1>e. PlacedAfterFirstRound'
  <2> SUFFICES ASSUME row'.final \in Placed
               PROVE  m.status[1] = "CLEARED"
    BY <1>2 DEF PlacedAfterFirstRound, Rounds
  <2>1. row'.final = IF dto.final = Absent THEN row.final ELSE dto.final
    BY <1>3 DEF SavedOutcome, Placed
  <2>2. CASE dto.final # Absent
    BY <1>7, <2>1, <2>2 DEF ValidateTrackerUpdate, OutcomeValid, DerivedRejection,
                            PlacementAllowed, Placed, m
  <2>3. CASE dto.final = Absent /\ ChangedRound(row, dto)
    BY <1>7, <2>1, <2>3 DEF ValidateTrackerUpdate, PlacementKept, m
  <2>4. CASE dto.final = Absent /\ ~ChangedRound(row, dto)
    BY <1>6, <2>1, <2>4 DEF Inv, PlacedAfterFirstRound, Rounds
  <2> QED
    BY <2>2, <2>3, <2>4
<1>f. AppointmentMatchesStatus'
  <2>1. ASSUME NEW r \in Rounds
        PROVE  /\ m.status[r] \in {"SCHEDULED", "AWAITING_FEEDBACK", "CLEARED"} => m.date[r] # "none"
               /\ m.status[r] = "PENDING" => m.date[r] = "none"
    <3>1. CASE Touched(row, dto, r)
      BY <1>7, <3>1 DEF ValidateTrackerUpdate, RoundValid, DateFitsStatus, m
    <3>2. CASE ~Touched(row, dto, r) /\ r \in ResetRounds(row, dto)
      BY <1>5, <3>2
    <3>3. CASE ~Touched(row, dto, r) /\ r \notin ResetRounds(row, dto)
      BY <1>4, <3>3 DEF Inv, AppointmentMatchesStatus
    <3> QED
      BY <3>1, <3>2, <3>3
  <2> QED
    BY <1>2, <2>1 DEF AppointmentMatchesStatus
<1> QED
  BY <1>a, <1>b, <1>c, <1>d, <1>e, <1>f DEF Inv

\* Time passing changes a date that is there for one that is there.
LEMMA TimeKeepsInv ==
    ASSUME Inv, NEW r \in Rounds, InterviewTimePasses(r)
    PROVE  Inv'
<1>1. /\ row' \in Row /\ row'.final = row.final /\ row'.status = row.status
      /\ row'.remarks = row.remarks /\ rejectedFrom' = rejectedFrom
      /\ \A q \in Rounds : row'.date[q] = "none" <=> row.date[q] = "none"
  BY DEF Inv, TypeOK, InterviewTimePasses, Row, Dates
<1> QED
  BY <1>1 DEF Inv, TypeOK, RoundsInOrder, ReviewBeforeInterviews, RejectionDecidesOutcome,
              PlacedAfterFirstRound, AppointmentMatchesStatus, Pristine, SomeRejected

\* The rows of a submission satisfy Inv whatever is saved, by whomever.
THEOREM InvariantHolds == Spec => []Inv
<1>1. Init => Inv
  BY DEF Init, NewRow, Inv, TypeOK, Row, RoundStatus, Dates, Remarks, Outcome, RoundsInOrder,
         ReviewBeforeInterviews, RejectionDecidesOutcome, PlacedAfterFirstRound,
         AppointmentMatchesStatus, Pristine, SomeRejected, Placed, Rounds
<1>2. Inv /\ [Next]_vars => Inv'
  <2> SUFFICES ASSUME Inv, [Next]_vars
               PROVE  Inv'
    OBVIOUS
  <2>1. ASSUME NEW dto \in Dtos, NEW caps \in Grants, Save(dto, caps)
        PROVE  Inv'
    BY <2>1, SaveKeepsInv, DtosAssumption, GrantsAssumption
  <2>2. ASSUME NEW r \in Rounds, InterviewTimePasses(r)
        PROVE  Inv'
    BY <2>2, TimeKeepsInv
  <2>3. CASE UNCHANGED vars
    BY <2>3 DEF vars, Inv, TypeOK, RoundsInOrder, ReviewBeforeInterviews,
                RejectionDecidesOutcome, PlacedAfterFirstRound, AppointmentMatchesStatus
  <2> QED
    BY <2>1, <2>2, <2>3 DEF Next
<1> QED
  BY <1>1, <1>2, PTL DEF Spec

\* Every save writes statuses, dates and outcomes the columns know.
THEOREM TypeCorrect == Spec => []TypeOK
<1>1. Inv => TypeOK
  BY DEF Inv
<1> QED
  BY <1>1, InvariantHolds, PTL

\* No sequence of corrections and resets leaves a later round behind an
\* uncleared one (roundUpdate with update's voiding of later rounds).
THEOREM RoundsStayInOrder == Spec => []RoundsInOrder
<1>1. Inv => RoundsInOrder
  BY DEF Inv
<1> QED
  BY <1>1, InvariantHolds, PTL

\* A submission in internal review has no interview data.
THEOREM ReviewComesFirst == Spec => []ReviewBeforeInterviews
<1>1. Inv => ReviewBeforeInterviews
  BY DEF Inv
<1> QED
  BY <1>1, InvariantHolds, PTL

\* A placed candidate has cleared the first interview, and no placed or open
\* submission holds a rejected round.
THEOREM OutcomeFollowsRounds == Spec => [](PlacedAfterFirstRound /\ RejectionDecidesOutcome)
<1>1. Inv => PlacedAfterFirstRound /\ RejectionDecidesOutcome
  BY DEF Inv
<1> QED
  BY <1>1, InvariantHolds, PTL

\* An internal-review rejection is final when every save sees the history that
\* belongs to the row it changes.
THEOREM ReviewRejectionIsFinal == Spec => InternalRejectionIsFinal
<1> DEFINE Keeps == row.final = "REJECTED" /\ rejectedFrom = "PENDING_APPROVAL"
                      => row'.final = "REJECTED"
<1>1. Inv /\ [Next]_vars => [Keeps]_vars
  <2> SUFFICES ASSUME Inv, Next, row.final = "REJECTED", rejectedFrom = "PENDING_APPROVAL"
               PROVE  row'.final = "REJECTED"
    OBVIOUS
  <2>1. ASSUME NEW dto \in Dto, NEW caps \in Capabilities, Save(dto, caps)
        PROVE  row'.final = "REJECTED"
    <3> DEFINE m == RoundUpdate(row, dto)
    <3>1. row \in Row /\ ValidateTrackerUpdate(row, rejectedFrom, dto, caps)
      BY <2>1 DEF Inv, TypeOK, Save
    <3>2. dto.final \in {Absent, "REJECTED"}
      BY <3>1 DEF ValidateTrackerUpdate, ReviewRejectionKept
    <3>3. ~ChangedRound(row, dto)
      BY <3>1, <3>2 DEF ChangedRound, ValidateTrackerUpdate, RoundValid, RoundsEditable,
                        Terminal, Absent
    <3>4. \A r \in Rounds : m.status[r] = row.status[r]
      BY <3>1, <3>3, UntouchedRound, ResetNeedsChange
         DEF ChangedRound, Inv, AppointmentMatchesStatus
    <3>5. ~SomeRejected(m)
      BY <3>4 DEF Inv, RejectionDecidesOutcome, SomeRejected
    <3>6. row'.final = SavedOutcome(row, m, dto)
      BY <2>1 DEF Save, SavedRow
    <3> QED
      BY <3>2, <3>5, <3>6 DEF SavedOutcome
  <2>2. ASSUME NEW r \in Rounds, InterviewTimePasses(r)
        PROVE  row'.final = "REJECTED"
    BY <2>2 DEF InterviewTimePasses, Inv, TypeOK, Row
  <2> QED
    BY <2>1, <2>2, DtosAssumption, GrantsAssumption DEF Next
<1> QED
  BY <1>1, InvariantHolds, PTL DEF Spec, InternalRejectionIsFinal

\* A save that takes back a cleared round never leaves the candidate placed.
THEOREM UnclearingWithdraws == Spec => UnclearingWithdrawsPlacement
<1> DEFINE Withdraws ==
             (\E r \in Rounds : row.status[r] = "CLEARED" /\ row'.status[r] # "CLEARED")
               => row'.final \notin Placed
<1>1. Inv /\ [Next]_vars => [Withdraws]_vars
  <2> SUFFICES ASSUME Inv, Next, NEW r \in Rounds,
                      row.status[r] = "CLEARED", row'.status[r] # "CLEARED"
               PROVE  row'.final \notin Placed
    OBVIOUS
  <2>1. ASSUME NEW dto \in Dto, NEW caps \in Capabilities, Save(dto, caps),
               row'.final \in Placed
        PROVE  FALSE
    <3> DEFINE m == RoundUpdate(row, dto)
    <3>1. /\ row \in Row /\ ValidateTrackerUpdate(row, rejectedFrom, dto, caps)
          /\ row' = SavedRow(row, dto)
      BY <2>1 DEF Inv, TypeOK, Save
    <3>2. row'.final = SavedOutcome(row, m, dto)
      BY <3>1, SavedFields
    <3>3. /\ ~SomeRejected(m)
          /\ row'.final = IF dto.final = Absent THEN row.final ELSE dto.final
      BY <2>1, <3>2 DEF SavedOutcome, Placed
    <3>4. m.status[r] # "CLEARED"
      BY <3>1, <3>3, SavedFields DEF SomeRejected
    <3>5. ChangedRound(row, dto)
      BY <3>1, <3>4, UntouchedRound, ResetNeedsChange
         DEF ChangedRound, Inv, AppointmentMatchesStatus
    <3> QED
      BY <2>1, <3>1, <3>3, <3>4, <3>5 DEF ValidateTrackerUpdate, PlacementKept
  <2>2. ASSUME NEW q \in Rounds, InterviewTimePasses(q)
        PROVE  FALSE
    BY <2>2 DEF InterviewTimePasses, Inv, TypeOK, Row
  <2> QED
    BY <2>1, <2>2, DtosAssumption, GrantsAssumption DEF Next
<1> QED
  BY <1>1, InvariantHolds, PTL DEF Spec, UnclearingWithdrawsPlacement

-----------------------------------------------------------------------------
(* The tracker *)

\* trackerStageSql is the first round that is not cleared.
LEMMA StageOfActiveRound ==
    ASSUME row.final = "SUBMITTED", NEW r \in Rounds, IsActiveRound(row, r)
    PROVE  Stage = r
<1>1. \A p \in Rounds : IsActiveRound(row, p) => p = r
  BY DEF IsActiveRound, Rounds
<1>2. ~\A p \in Rounds : row.status[p] = "CLEARED"
  BY DEF IsActiveRound
<1> QED
  BY <1>1, <1>2 DEF Stage

LEMMA ActiveRoundOfStage ==
    ASSUME row.final = "SUBMITTED", Stage \in Rounds
    PROVE  IsActiveRound(row, Stage)
<1>1. ~\A r \in Rounds : row.status[r] = "CLEARED"
  BY DEF Stage, Rounds
<1>2. \E r \in Rounds : IsActiveRound(row, r)
  BY <1>1 DEF IsActiveRound, Rounds
<1>3. PICK r \in Rounds : IsActiveRound(row, r)
  BY <1>2
<1> QED
  BY <1>3, StageOfActiveRound

\* A form of the eligible list or of the calendar is accepted for the round the
\* submission is in, unless that round is decided.
LEMMA FormAccepted ==
    ASSUME Inv, row.final = "SUBMITTED", NEW r \in Rounds, IsActiveRound(row, r), row.status[r] # "REJECTED",
           NEW status \in {"SCHEDULED", "CANCELLED"}, NEW date \in {"future", Absent}, NEW remarks \in {"text", Absent},
           status = "SCHEDULED" => date = "future",
           status = "CANCELLED" => remarks = "text" /\ date = Absent
    PROVE  Accepts(r, status, date, remarks)
<1>1. PICK dto : dto = FormDto(r, status, date, remarks)
  OBVIOUS
<1>2. /\ \A p \in Rounds : /\ dto.status[p] = IF p = r THEN status ELSE Absent
                           /\ dto.date[p] = IF p = r THEN date ELSE Absent
                           /\ dto.remarks[p] = IF p = r THEN remarks ELSE Absent
      /\ dto.final = Absent
  BY <1>1 DEF FormDto
<1>3. dto \in Dto
  BY <1>1 DEF FormDto, Dto, RoundStatus, Dates, Remarks, Absent
<1>4. Uncleared(row, dto) = {} /\ ResetRounds(row, dto) = {}
  BY <1>2 DEF Uncleared, ResetRounds, SentStatus, IsActiveRound
<1>5. PICK m \in Row : m = RoundUpdate(row, dto)
  BY <1>3, MergedRow DEF Inv, TypeOK
<1>6. \A p \in Rounds : /\ m.status[p] = IF p = r THEN status ELSE row.status[p]
                        /\ m.date[p] = IF p = r /\ date # Absent THEN date ELSE row.date[p]
  <2>1. \A p \in Rounds : /\ m.status[p] = SentStatus(row, dto, p)
                          /\ m.date[p] = IF dto.status[p] = "PENDING" THEN "none"
                                         ELSE IF dto.date[p] = Absent THEN row.date[p] ELSE dto.date[p]
    BY <1>3, <1>4, <1>5, MergedRow DEF Inv, TypeOK
  <2>2. \A p \in Rounds : dto.status[p] # "PENDING" /\ SentStatus(row, dto, p) = IF p = r THEN status ELSE row.status[p]
    BY <1>2 DEF SentStatus, Absent
  <2> QED
    BY <1>2, <2>1, <2>2
<1>7. \A p \in Rounds : p > r => row.status[p] = "PENDING" /\ row.date[p] = "none"
  BY DEF Inv, RoundsInOrder, Pristine, IsActiveRound
<1>8. \A p \in Rounds : p < r => row.status[p] = "CLEARED"
  BY DEF IsActiveRound
<1>9. \A p \in Rounds : Touched(row, dto, p) => p = r
  BY <1>2 DEF Touched
<1>10. Scheduler.schedule
  BY DEF Scheduler
<1>11. RoundValid(row, m, dto, Scheduler, r)
  <2>1. row.status[r] \in {"PENDING", "SCHEDULED", "AWAITING_FEEDBACK", "CANCELLED"}
    BY DEF Inv, TypeOK, Row, RoundStatus, IsActiveRound
  <2>2. RoundPermitted(row, m, dto, Scheduler, r)
    BY <1>2, <1>6, <1>10, <2>1 DEF RoundPermitted, AppointmentChange
  <2>3. RoundsEditable(row, dto, Scheduler)
    BY DEF RoundsEditable, Terminal
  <2>4. r > 1 => m.status[r - 1] = "CLEARED" /\ m.status[1] = "CLEARED"
    BY <1>6, <1>8 DEF Rounds
  <2>5. ResultAllowed(row, m, dto, r) /\ RejectionAllowed(row, dto, r)
    BY <1>2 DEF ResultAllowed, RejectionAllowed, RecordingResult
  <2>6. SchedulingAllowed(row, m, dto, r)
    BY <1>2, <1>6, <1>7, <1>8, <2>1 DEF SchedulingAllowed, IsActiveRound, Rounds
  <2>7. DateFitsStatus(m, r)
    BY <1>6 DEF DateFitsStatus, Absent
  <2>8. dto.status[r] = "CANCELLED" => dto.remarks[r] = "text"
    BY <1>2
  <2> QED
    BY <2>1, <2>2, <2>3, <2>4, <2>5, <2>6, <2>7, <2>8 DEF RoundValid
<1>12. SequenceValid(m)
  BY <1>6, <1>7, <1>8 DEF SequenceValid, Rounds
<1>13. PlacementKept(row, m, dto)
  BY <1>2 DEF PlacementKept, Placed
<1>14. ReviewRejectionKept(row, rejectedFrom, dto) /\ ~NothingSent(dto)
  BY <1>2 DEF ReviewRejectionKept, NothingSent, Absent
<1> QED
  BY <1>1, <1>2, <1>4, <1>5, <1>9, <1>11, <1>12, <1>13, <1>14 DEF Accepts, ValidateTrackerUpdate, RoundUpdateAllowed, Absent

\* trackerBucketConditions are exclusive.
LEMMA OneBucket == Cardinality({b \in Buckets : InBucket(b)}) <= 1
<1>1. PICK B : B = {b \in Buckets : InBucket(b)}
  OBVIOUS
<1>2. \A b, c \in B : b = c
  <2>1. /\ InBucket("review") => row.final = "PENDING_APPROVAL"
        /\ InBucket("interviews") => row.final = "SUBMITTED"
        /\ InBucket("offers") => row.final \in {"SELECTED", "OFFER"}
        /\ InBucket("closures") => row.final = "JOIN"
        /\ InBucket("closed") => row.final \in {"REJECTED", "NOT_SELECTED", "WITHDRAWN"}
    BY DEF InBucket
  <2> QED
    BY <1>1, <2>1 DEF Buckets
<1>3. CASE B = {}
  BY <1>1, <1>3, FS_EmptySet
<1>4. CASE B # {}
  <2>1. PICK b : B = {b}
    BY <1>2, <1>4
  <2>2. Cardinality(B) = 1
    BY <2>1, FS_Singleton
  <2> QED
    BY <1>1, <2>2
<1> QED
  BY <1>3, <1>4

\* recruiter-submissions' queries and validateTrackerUpdate: whatever was saved,
\* the tabs, queues, eligible list and calendar of a submission agree with what
\* the editor accepts for it.
THEOREM TrackerAgrees == Spec => []TrackerAgreesWithEditor
<1>1. Inv => TrackerAgreesWithEditor
  <2> SUFFICES ASSUME Inv PROVE TrackerAgreesWithEditor
    OBVIOUS
  <2>1. ASSUME NEW r \in Rounds, EligibleFor(r)
        PROVE  Stage = r /\ Accepts(r, "SCHEDULED", "future", Absent)
    <3>1. row.final = "SUBMITTED" /\ IsActiveRound(row, r) /\ row.status[r] # "REJECTED"
      BY <2>1 DEF EligibleFor, Unbooked, IsActiveRound
    <3> QED
      BY <3>1, StageOfActiveRound, FormAccepted
  <2>2. ASSUME row.final = "SUBMITTED", StageStatus \in RoundStatus
        PROVE  Stage \in Rounds /\ IsActiveRound(row, Stage) /\ StageStatus = row.status[Stage]
    <3>1. Stage \in Rounds
      BY <2>2 DEF StageStatus, RoundStatus
    <3> QED
      BY <2>2, <3>1, ActiveRoundOfStage DEF StageStatus
  <2>3. InQueue("scheduling") => EligibleFor(Stage)
    <3> SUFFICES ASSUME InQueue("scheduling") PROVE EligibleFor(Stage)
      OBVIOUS
    <3>1. row.final = "SUBMITTED" /\ StageStatus = "PENDING"
      BY DEF InQueue
    <3>2. PICK r \in Rounds : r = Stage /\ IsActiveRound(row, r) /\ row.status[r] = "PENDING"
      BY <2>2, <3>1 DEF RoundStatus
    <3>3. EligibleFor(r)
      BY <3>1, <3>2 DEF EligibleFor, Unbooked, Untouched, IsActiveRound, Inv, RoundsInOrder, Pristine,
                        AppointmentMatchesStatus
    <3> QED
      BY <3>2, <3>3
  <2>4. ASSUME NEW r \in Rounds, row.final = "SUBMITTED", row.status[r] \in Appointed
        PROVE  IsActiveRound(row, r) /\ Stage = r /\ Manageable(r) /\ InBucket("interviews")
    <3>1. IsActiveRound(row, r)
      BY <2>4 DEF IsActiveRound, Appointed, Inv, RoundsInOrder, Pristine
    <3>2. row.date[r] # "none"
      BY <2>4 DEF Appointed, Inv, AppointmentMatchesStatus
    <3>3. Manageable(r)
      BY <2>4, <3>2 DEF Manageable, OnCalendarRound, Appointed
    <3>4. InBucket("interviews")
      BY <2>4 DEF InBucket
    <3> QED
      BY <2>4, <3>1, <3>3, <3>4, StageOfActiveRound
  <2>5. InQueue("feedback") \/ InQueue("upcoming") => Manageable(Stage) /\ InBucket("interviews")
    <3> SUFFICES ASSUME InQueue("feedback") \/ InQueue("upcoming") PROVE Manageable(Stage) /\ InBucket("interviews")
      OBVIOUS
    <3>1. row.final = "SUBMITTED" /\ StageStatus \in Appointed
      BY DEF InQueue, Appointed
    <3>2. PICK r \in Rounds : r = Stage /\ row.status[r] \in Appointed
      BY <2>2, <3>1 DEF RoundStatus, Appointed
    <3> QED
      BY <2>4, <3>1, <3>2
  <2>6. ASSUME NEW r \in Rounds, Manageable(r)
        PROVE  /\ Stage = r /\ InBucket("interviews")
               /\ Accepts(r, "SCHEDULED", "future", Absent) /\ Accepts(r, "CANCELLED", Absent, "text")
    <3>1. row.final = "SUBMITTED" /\ row.status[r] \in Appointed
      BY <2>6 DEF Manageable
    <3>2. row.status[r] # "REJECTED"
      BY <3>1 DEF Appointed
    <3> QED
      BY <2>4, <3>1, <3>2, FormAccepted
  <2> QED
    BY <2>1, <2>3, <2>5, <2>6, OneBucket DEF TrackerAgreesWithEditor
<1> QED
  BY <1>1, InvariantHolds, PTL
=============================================================================
