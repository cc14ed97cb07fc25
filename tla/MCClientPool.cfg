SPECIFICATION FairSpec
CONSTANTS
    Threads = {t1, t2}
    Hosts = {h1, h2}
    Clients = {k1, k2}
    NoClient = none
    UserModes = {"sync", "async", "callback"}
    CallbackModes = {"sync", "callback"}
    MaxCalls = 2
INVARIANTS
    PoolInv
    CallsServed
PROPERTIES
    CallsReturn
\* Nobody has to call; callbacks that call can lock up the process.
CHECK_DEADLOCK FALSE
