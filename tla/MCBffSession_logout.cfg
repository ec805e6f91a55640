SPECIFICATION Spec
CONSTANTS
    Users = {u1}
    Sids = {s1}
    NONE = NONE
    Procs = {p1, p2}
    RendersWrite = FALSE
    AccessTTL = 3
    Leeway = 0
    Skew = 2
    ApiTimeout = 1
    MaxGen = 1
SYMMETRY Symmetry
INVARIANTS
    LogoutRevokes
