SPECIFICATION Spec
CONSTANTS
    Users = {u1}
    Sids = {s1, s2}
    Tokens = {t1, t2, t3}
    Procs = {p1, p2}
    NONE = NONE
    IdleTTL = 1
    AbsTTL = 2
    RequestTimeout = 1
    MaxTime = 3
SYMMETRY Symmetry
INVARIANTS
    ListShowsActive
CHECK_DEADLOCK FALSE
