SPECIFICATION MCSpec
CONSTANTS
    JobIds = {j1}
    Pods = {1, 2}
    Clients = {c1, c2}
    MaxJobs = 1
    MaxMade = 1
    AllowUnassigned = TRUE
    Operational = {"Draft", "Active", "Closed"}
SYMMETRY Interchangeable
INVARIANTS
    QuotaRespected
    TurnsComeRound
PROPERTIES
    GoesLiveApproved
    PublicationsKeepTheCycle
