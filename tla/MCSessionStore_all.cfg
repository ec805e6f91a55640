SPECIFICATION Spec
CONSTANTS
    Users = {u1, u2}
    Sids = {s1, s2}
    Tokens = {t1, t2, t3, t4}
    Procs = {p1, p2}
    NONE = NONE
    IdleTTL = 2
    AbsTTL = 3
    RequestTimeout = 1
    MaxTime = 4
SYMMETRY Symmetry
INVARIANTS
    TypeOK
    RefreshChainLinear
    HashNamesToken
    RevocationHolds
    IndexComplete
    CapBound
PROPERTIES
    DeadStaysDead
    DeletesOwnSessions
    ImplementsLifecycle
CHECK_DEADLOCK FALSE
