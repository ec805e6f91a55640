SPECIFICATION Spec
CONSTANTS
    a1 = a1
    a2 = a2
    p1 = p1
    p2 = p2
    blank = blank
    Blank = blank
    Addrs <- MCAddrs
    Clients <- MCClients
    Proxies <- MCProxies
    Forgeries <- MCForgeries
    TrustedHops = 2
    Burst = 3
    Period = 2
    Window = 4
INVARIANTS
    TypeOK
    ClientBudget
PROPERTIES
    ImplementsClientLimiter
