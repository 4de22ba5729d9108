SPECIFICATION MCSpec
CONSTANTS
    Cvs = {"f1", "f2"}
    Addresses = {"e1", "e2"}
    Address <- MCAddress
    Placeholder <- MCPlaceholder
    Uploaders = {"u", "v"}
    Worker = "w"
    MaxSaves = 2
    MaxChanges = 1
    MaxCrashes = 1
    NoAddress = "no address"
    Recipients = 3
    MaxCancels = 2
    MaxMailCrashes = 1
INVARIANTS
    ProfilesNotDoubled
    StoppedStaysUnmailed
PROPERTIES
    
    CampaignSettles
CHECK_DEADLOCK FALSE
