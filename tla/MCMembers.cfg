SPECIFICATION MCSpec
CONSTANTS
    Users = {u1, u2, u3}
    Founders = {u1, u2}
    Blocked = {u2}
    Clients = {p1, p2}
    Telemetry = TRUE
    Ops = {"status", "delete", "roles", "append", "batch", "unassign", "approve", "reject", "enrol", "limit"}
    Together = {"status", "status-locked", "delete", "delete-locked"}
    Grants <- Plain
    Limits = {1, 2}
    Inviters = {"a1", "a2"}
    Browsers = {"b1", "b2"}
    MaxLinks = 3
    MaxResets = 2
    MaxTurns = 2
    Workspaces = {"w1", "w2"}
    Domains = {q1, q2}
    Chair <- Chairs
    p1 = p1
    p2 = p2
    p3 = p3
    MaxRequests = 3
    NoDomain = "none"
    Logins = {q1, q2}
    Tabs = {p1, p2}
    MaxLeases = 2
    MaxAsked = 5
    Importers <- Uploads
    Founding = {p1, p2}
    Tenants = {q1, q2}
    HostNames = {"h1", "h2"}
    MaxChores = 3
    NoHost = NoHost
SYMMETRY Interchangeable
INVARIANTS
    
    LinksWorkOnce
    VerifiedWasProved
    ChecksAreConsented
    ReadyRowsAreInvited
    
PROPERTY LockedChecksHold
CHECK_DEADLOCK FALSE
