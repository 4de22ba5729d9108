SPECIFICATION MCSpec
CONSTANTS
    Staff = {"ann", "una", "bob"}
    Requests = {q1, q2}
    GeneratedIds = {g1}
    ClientNames = {n1, n2}
    Offices = {"b1"}
    Teams = {"m1"}
    May <- People
    Placed <- Desks
    ClientAdmins = {"bob"}
    JobEditors = {"ann"}
    MaxDecisions = 2
    MaxBusy = 2
    Nobody = Nobody
    Pocs = {k1, k2}
    Terms = {"t1", "t2", "t3"}
    Boxes = {"m1", "m2", "m3"}
    Owners = {"x", "y"}
    MailAdmins = {"y"}
    States = {"s1", "s2"}
    MaxBoxCalls = 4
    NoBox = NoBox
    ReaderProfiles <- Readers
SYMMETRY Interchangeable
INVARIANTS
    
    ApprovedByApprover
    
    OnePrimaryContact
    ApprovedTermsResolve
    OneDefaultMailbox
    
    
CHECK_DEADLOCK FALSE
