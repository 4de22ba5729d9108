SPECIFICATION Spec
CONSTANTS
    m1 = m1
    v1 = v1
    ra = ra
    rb = rb
    w1 = w1
    w2 = w2
    d1 = d1
    d2 = d2
    Members = {m1}
    Reviewers = {v1}
    Roles = {ra, rb}
    Replicas = {w1}
    Deciders = {d1, d2}
    Channels = {"email"}
    MaxAttempts = 1
    Batch = 1
    MaxVersions = 2
    MaxFailures = 0
SYMMETRY Interchangeable
INVARIANTS
    NoNoticeOfClosedRequest

    
CHECK_DEADLOCK FALSE
