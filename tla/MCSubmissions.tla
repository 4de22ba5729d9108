---------------------------- MODULE MCSubmissions ----------------------------
(* One job; requests of one user, interchangeable, in flight at once.         *)
EXTENDS Submissions, TLC

CONSTANTS j1, k1, k2, s1, s2, s3, c1, c2, u1, r1, r2

Interchangeable == Permutations(Clients) \union Permutations(Requests)

MCLegacyOf == [s \in Legacy |-> <<j1, k1>>]
MCActor == [c \in Clients |-> u1]

Blank == [status |-> [r \in Rounds |-> Absent], date |-> [r \in Rounds |-> Absent],
          remarks |-> [r \in Rounds |-> Absent], final |-> Absent,
          correction |-> FALSE, reset |-> FALSE, bypass |-> FALSE, note |-> TRUE]

Reject == [Blank EXCEPT !.final = "REJECTED"]
Reopen == [Blank EXCEPT !.final = "SUBMITTED", !.correction = TRUE]
Schedule == [Blank EXCEPT !.status[1] = "SCHEDULED", !.date[1] = "past"]

MCDtos == {Reject, Reopen, Schedule}
MCNoDtos == {}
=============================================================================
