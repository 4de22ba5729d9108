SPECIFICATION LiveSpec
CONSTANTS
    m1 = m1
    v1 = v1
    ra = ra
    rb = rb
    w1 = w1
    w2 = w2
    d1 = d1
    d2 = d2
    Members = {m1}
    Reviewers = {v1}
    Roles = {ra}
    Replicas = {w1, w2}
    Deciders = {d1}
    Channels = {"in_app", "roleApprovals"}
    MaxAttempts = 2
    Batch = 1
    MaxVersions = 1
    MaxFailures = 1
INVARIANTS
    SentWithinLimit
PROPERTIES
    SettledStaysSettled
    QueuedIsSettled
CHECK_DEADLOCK FALSE
