------------------------- MODULE MCSubmissionEditor -------------------------
(* Saves for TLC: what the tracker's editor sends for one round, with and    *)
(* without an outcome, and the corrections that send two rounds at once.     *)
EXTENDS Tracker

Nothing == [status |-> Absent, date |-> Absent, remarks |-> Absent]

Input(s, d, m) == [status |-> s, date |-> d, remarks |-> m]

RoundInputs ==
    {Input("SCHEDULED", "future", Absent), Input("AWAITING_FEEDBACK", Absent, Absent),
     Input("CLEARED", Absent, Absent), Input("REJECTED", Absent, "text"),
     Input("CANCELLED", Absent, "text"), Input("PENDING", Absent, Absent),
     Input(Absent, "future", Absent), Input(Absent, Absent, "text")}

\* Two rounds in one save: r is corrected and the next one is put back, or r is
\* cleared and the next one scheduled or rejected.
DoubleInputs ==
    {Input("AWAITING_FEEDBACK", Absent, Absent), Input("REJECTED", Absent, "text"),
     Input("CLEARED", Absent, Absent)}
        \X {Input("PENDING", Absent, Absent), Input("SCHEDULED", "future", Absent),
            Input("REJECTED", Absent, "text")}

RoundPlans ==
    {[r \in Rounds |-> Nothing]}
      \union {[r \in Rounds |-> IF r = k THEN i ELSE Nothing] : k \in Rounds, i \in RoundInputs}
      \union {[r \in Rounds |-> IF r = k THEN i[1] ELSE IF r = k + 1 THEN i[2] ELSE Nothing] :
                k \in {1, 2}, i \in DoubleInputs}

DtoOf(f, final, corr, reset) ==
    [status |-> [r \in Rounds |-> f[r].status], date |-> [r \in Rounds |-> f[r].date],
     remarks |-> [r \in Rounds |-> f[r].remarks], final |-> final,
     correction |-> corr, reset |-> reset, bypass |-> final # Absent, note |-> TRUE]

Finals == {Absent, "SUBMITTED", "SELECTED", "JOIN", "REJECTED", "PENDING_APPROVAL"}

\* A reset is confirmed together with a correction reason; a bypass reason only
\* matters when an outcome is sent.
MCDtos ==
    {DtoOf(f, final, flags[1], flags[2]) :
        f \in RoundPlans, final \in Finals,
        flags \in {<<FALSE, FALSE>>, <<TRUE, FALSE>>, <<TRUE, TRUE>>}}

MCGrants ==
    {[review |-> TRUE, schedule |-> TRUE, outcome |-> TRUE, results |-> [r \in Rounds |-> TRUE]]}
=============================================================================
