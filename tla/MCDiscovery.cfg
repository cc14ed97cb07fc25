SPECIFICATION DiscoverySpec
CONSTANTS
    p1 = p1
    p2 = p2
    u1 = u1
    u2 = u2
    Client = d1
    NoHost = none
    Providers = {p1, p2}
    Discoverers = {d1}
    Methods = {m1}
    Callers = {u1, u2}
    Shared <- WithProvider
    MaxRegisters = 1
    MaxDiscovers = 2
SYMMETRY Symmetry
INVARIANTS
    CallersServed
    CacheExact
    NoHostOnlyIfGone
\* Every connection may have closed.
CHECK_DEADLOCK FALSE
