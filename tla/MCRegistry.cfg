SPECIFICATION FairSpec
CONSTANTS
    Providers = {p1, p2}
    Discoverers = {d1}
    Methods = {m1, m2}
    Shared = {{p1, d1}}
    MaxRegisters = 2
    MaxDiscovers = 2
INVARIANTS
    TablesInv
    ViewComplete
    ViewBalanced
PROPERTIES
    RegistrationReaches
\* Every connection may have closed.
CHECK_DEADLOCK FALSE
