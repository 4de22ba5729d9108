------------------------------- MODULE MCJobs -------------------------------
(* One job id, two pods, two requests at a time.  A behaviour either keeps   *)
(* its grants as they are or its pods able to take jobs: JobsProofs covers   *)
(* both changing together.                                                   *)
EXTENDS Jobs, TLC

VARIABLE part

MCInit == Init /\ part \in {"pods", "grants"}
MCNext ==
    /\ Next
    /\ part = "pods" => UNCHANGED grant
    /\ part = "grants" => UNCHANGED eligible
    /\ UNCHANGED part
MCSpec == MCInit /\ [][MCNext]_<<vars, part>>

Interchangeable == Permutations(Clients)
=============================================================================
