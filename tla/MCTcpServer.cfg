SPECIFICATION FairSpec
CONSTANTS
    MaxWorkers = 2
    MaxConns = 2
    MaxStops = 2
INVARIANTS
    TablesExact
    StopClean
    NothingLeft
PROPERTIES
    StopReturns
\* Start really returns, after Stop().
CHECK_DEADLOCK FALSE
