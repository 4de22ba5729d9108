---------------------------- MODULE PodRotation ----------------------------
(***************************************************************************)
(* The distribution of jobs over the pods of a business unit:              *)
(* allocateAutomaticPod, PodsService.resetCycle.                           *)
(*                                                                         *)
(* allocateAutomaticPod locks the row of the unit before it reads the pods *)
(* and runs in the transaction that inserts or publishes the job, so an    *)
(* allocation is one step, and one that is rolled back is no step.         *)
(***************************************************************************)
EXTENDS Integers, FiniteSets

CONSTANTS
    Pods,             \* pods of the unit: numbers, in the order of their creation
    AllowUnassigned   \* the unit's allow_unassigned

ASSUME PodsAssumption == Pods \subseteq Nat /\ IsFiniteSet(Pods)
ASSUME PolicyAssumption == AllowUnassigned \in BOOLEAN

VARIABLES
    eligible, \* pods with an active lead and an active member
    available,\* pods with is_available_for_assignment: their turn is open
    wait      \* wait[q][p]: jobs p was given while q, able to take them, got none

rotation == <<eligible, available, wait>>

NobodyWaits == [p \in Pods |-> 0]

RotationInit ==
    /\ eligible = Pods
    /\ available = Pods
    /\ wait = [q \in Pods |-> NobodyWaits]

Open == eligible \cap available
First(S) == CHOOSE p \in S : \A q \in S : p <= q

Served(next) ==
    wait' = [q \in Pods |->
               IF q = next THEN NobodyWaits
               ELSE IF q \in eligible THEN [wait[q] EXCEPT ![next] = @ + 1]
               ELSE wait[q]]

\* Mutant: a finished cycle opens nobody's turn but that of the pod it serves.
RotateForgetting ==
    LET next == First(IF Open # {} THEN Open ELSE eligible)
    IN /\ available' = IF Open # {} THEN available \ {next} ELSE available \cup {next}
       /\ Served(next)
       /\ UNCHANGED eligible

\* The first pod whose turn is open; when there is none, every eligible pod's
\* turn is opened again.
Rotate ==
    LET next == First(IF Open # {} THEN Open ELSE eligible)
    IN /\ available' = (IF Open # {} THEN available ELSE available \cup eligible) \ {next}
       /\ Served(next)
       /\ UNCHANGED eligible

\* Without an eligible pod the job goes out unassigned, or is refused.
AllocateAutomaticPod ==
    \/ eligible # {} /\ Rotate
    \/ eligible = {} /\ AllowUnassigned /\ UNCHANGED rotation

\* A pod gets or loses its active lead or its last active member.
PodEligibility(p) ==
    /\ eligible' = IF p \in eligible THEN eligible \ {p} ELSE eligible \cup {p}
    /\ wait' = [wait EXCEPT ![p] = NobodyWaits]
    /\ UNCHANGED available

\* PodsService.resetCycle
ResetCycle ==
    /\ available' = Pods
    /\ wait' = [q \in Pods |-> NobodyWaits]
    /\ UNCHANGED eligible

RotationNext ==
    \/ AllocateAutomaticPod
    \/ \E p \in Pods : PodEligibility(p)
    \/ ResetCycle

RotationSpec == RotationInit /\ [][RotationNext]_rotation

-----------------------------------------------------------------------------
(* Properties *)

\* The pods that can take jobs and those whose turn is open are pods of the unit.
RotationTypeOK ==
    /\ eligible \subseteq Pods
    /\ available \subseteq Pods
    /\ wait \in [Pods -> [Pods -> Nat]]

\* "The unit row serializes the cycle": between two jobs of a pod that is able
\* to take them all the time, no other pod is given more than two, whichever
\* pods come and go.
TurnsComeRound == \A p, q \in Pods : wait[q][p] <= 2

\* What the rows say of the turns: a pod that has been passed over has its turn
\* open, or the pod that was served has closed its own, once per job it was given.
OpenTurns(q, p) == (IF q \in available THEN 1 ELSE 0) + (IF p \in available THEN 0 ELSE 1)

\* The flags of allocateAutomaticPod account for every job that went past a pod
\* that could have taken it: it never waits for more jobs than the flags show.
FlagsAccountForWaiting ==
    \A p, q \in Pods :
      wait[q][p] <= IF p = q \/ q \notin eligible THEN 0 ELSE OpenTurns(q, p)
=============================================================================
