SPECIFICATION OverlapSpec
CONSTANTS
    Branches = {b1}
    Units = {m1}
    Pods = {p1}
    Users = {u1, u2}
    Clients = {c1, c2}
    MaxBranches = 2
    CustomLeads = {}
    BranchRoles <- NoRoles
    Selections <- Both
    Lists = {{}, {u1, u2}}
    MaxEdits = 0
    None = None
    Same = Same
SYMMETRY Interchangeable
INVARIANT HeadsLead
CHECK_DEADLOCK FALSE
