SPECIFICATION Spec
CONSTANTS
    Branches = {b1, b2}
    Units = {m1, m2}
    Pods = {p1, p2}
    Users = {u1, u2}
    Clients = {c1}
    MaxBranches = 2
    CustomLeads = {l1}
    BranchRoles <- PlainRole
    Selections <- Both
    Lists = {{}, {u1, u2}}
    MaxEdits = 2
    None = None
    Same = Same
SYMMETRY Interchangeable
INVARIANT HeadsBelong
PROPERTY OwnRolesKept
CHECK_DEADLOCK FALSE
