------------------------- MODULE AtomicSubmissions -------------------------
(***************************************************************************)
(* What the submission service promises its callers: every operation on a  *)
(* submission happens at one instant, against the row, the job and the     *)
(* history as they are at that instant, and each request is saved at most  *)
(* once.  Only the origin of a rejection may be a remembered one: update() *)
(* reads it before it reads the row.                                       *)
(***************************************************************************)
EXTENDS SubmissionRounds, Sequences, FiniteSets

CONSTANTS Jobs, Candidates, Subs, Legacy, LegacyOf, Actors, Requests, Dtos

VARIABLES job, sub, events

vars == <<job, sub, events>>

Fresh(j, cand, final) ==
    [state |-> "live", job |-> j, cand |-> cand, row |-> NewRow(final), version |-> 0]

Init ==
    /\ job = [j \in Jobs |->
                [status |-> "Active", keepOpen |-> FALSE, published |-> FALSE,
                 done |-> Cardinality({s \in Legacy : LegacyOf[s][1] = j})]]
    /\ sub = [s \in Subs |-> IF s \in Legacy
                             THEN Fresh(LegacyOf[s][1], LegacyOf[s][2], "SUBMITTED")
                             ELSE [state |-> "unused"]]
    /\ events = [s \in Subs |-> <<>>]

FullAccess == [review |-> TRUE, schedule |-> TRUE, outcome |-> TRUE,
               results |-> [r \in Rounds |-> TRUE]]

\* The history of s grows, and its last event is e.
Recorded(s, e) ==
    /\ events'[s] # events[s]
    /\ SubSeq(events'[s], 1, Len(events[s])) = events[s]
    /\ \A f \in DOMAIN e : events'[s][Len(events'[s])][f] = e[f]
    /\ \A t \in Subs \ {s} : events'[t] = events[t]

Live(s) == sub[s].state = "live"

\* A submission appears on a job that is open to its sender, unless the
\* candidate is on that job already.
Create(s, j, cand, final, website) ==
    /\ sub[s].state = "unused"
    /\ job[j].status = "Active" /\ (website => job[j].published)
    /\ \A t \in Subs : Live(t) => <<sub[t].job, sub[t].cand>> # <<j, cand>>
    /\ sub' = [sub EXCEPT ![s] = Fresh(j, cand, final)]
    /\ job' = [job EXCEPT ![j].done = @ + 1]
    /\ Len(events'[s]) = 1
    /\ \A t \in Subs \ {s} : events'[t] = events[t]

\* A save that is valid for the current row, not seen before and not paused.
Save(s, dto, request, actor) ==
    /\ Live(s)
    /\ sub' = [sub EXCEPT ![s].row = SavedRow(@, dto), ![s].version = @ + 1]
    /\ Recorded(s, [request |-> request, dto |-> dto, actor |-> actor,
                    before |-> sub[s].row, after |-> SavedRow(sub[s].row, dto)])
    /\ ~(job[sub[s].job].status = "Closed" /\ ~job[sub[s].job].keepOpen)
    /\ \A i \in DOMAIN events[s] : events[s][i].request # request
    /\ \E seen \in Outcome \union {Absent} :
          ValidateTrackerUpdate(sub[s].row, seen, dto, FullAccess)
    /\ UNCHANGED job

\* A submission disappears and is no longer counted; without a permanent
\* deletion that is possible only while it has no history.
Delete(s, permanent) ==
    /\ Live(s)
    /\ permanent \/ events[s] = <<>>
    /\ sub' = [sub EXCEPT ![s] = [state |-> "deleted"]]
    /\ events' = [events EXCEPT ![s] = <<>>]
    /\ job' = [job EXCEPT ![sub[s].job].done = @ - 1]

ChangeJob(j, status, keep, publish) ==
    /\ \/ publish = job[j].published
       \/ job[j].status = "Active" /\ status = "Active" /\ keep = job[j].keepOpen
    /\ keep => status = "Closed"
    /\ job' = [job EXCEPT ![j].status = status, ![j].keepOpen = keep, ![j].published = publish]
    /\ UNCHANGED <<sub, events>>

Next ==
    \/ \E s \in Subs, j \in Jobs, cand \in Candidates,
          final \in {"SUBMITTED", "PENDING_APPROVAL"}, website \in BOOLEAN :
          Create(s, j, cand, final, website)
    \/ \E s \in Subs, dto \in Dtos, request \in Requests, actor \in Actors :
          Save(s, dto, request, actor)
    \/ \E s \in Subs, permanent \in BOOLEAN : Delete(s, permanent)
    \/ \E j \in Jobs, status \in {"Active", "On Hold", "Closed"}, keep, publish \in BOOLEAN :
          ChangeJob(j, status, keep, publish)

Spec == Init /\ [][Next]_vars
=============================================================================
