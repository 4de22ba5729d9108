SPECIFICATION Spec
CONSTANTS
    j1 = j1
    k1 = k1
    k2 = k2
    s1 = s1
    s2 = s2
    s3 = s3
    c1 = c1
    c2 = c2
    u1 = u1
    r1 = r1
    r2 = r2
    Jobs = {j1}
    Candidates = {k1, k2}
    Subs = {s1, s2, s3}
    Legacy = {s1}
    LegacyOf <- MCLegacyOf
    Clients = {c1, c2}
    Actor <- MCActor
    Requests = {r1}
    Dtos <- MCNoDtos
    MaxVersion = 1
SYMMETRY Interchangeable
INVARIANTS
    NoDuplicateSubmission
PROPERTIES
    AtomicSpec
CHECK_DEADLOCK FALSE
