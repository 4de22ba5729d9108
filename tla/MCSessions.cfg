SPECIFICATION Spec
CONSTANTS
    Sessions = {s1}
    Clients = {c1}
    None = None
    MaxGrants = 1
    MaxEpoch = 1
 
PROPERTY WithdrawnStaysWithdrawn
 
CHECK_DEADLOCK FALSE
