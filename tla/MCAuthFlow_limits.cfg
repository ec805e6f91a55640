SPECIFICATION Spec
CONSTANTS
    Users = {u1, u2}
    Ips = {i1}
    Procs = {p1, p2, p3}
    MaxAttempts = 2
    LockWindow = 2
    RlMax = 3
    RlWindow = 2
    RequestTimeout = 1
INVARIANTS
    TypeOK
    LockOvershoot
    LockEnds
    QuotaHolds
PROPERTIES
    LockLifts
