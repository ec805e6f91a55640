SPECIFICATION Spec
CONSTANTS
    Users = {u1}
    Sids = {s1}
    Tokens = {t1, t2, t3}
    Procs = {p1, p2}
    NONE = NONE
    IdleTTL = 2
    AbsTTL = 2
    RequestTimeout = 1
    MaxTime = 5
SYMMETRY Symmetry
INVARIANTS
    CapEndsSession
CHECK_DEADLOCK FALSE
