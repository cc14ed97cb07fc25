SPECIFICATION FairSpec
CONSTANTS
    Users = {u1}
    Loop = loop
    Kinds = {"timed", "client"}
    Timeout = 2
    MaxSends = 2
    MaxArrive = 1
    MaxCalls = 2
INVARIANTS
    ClosedOnce
    GracefulFlush
    SendsKeepOrder
PROPERTIES
    DrainEnds
\* Nothing need happen once the connection is closed.
CHECK_DEADLOCK FALSE
