SPECIFICATION FairSpec
CONSTANTS
    Threads = {t1, t2}
    Loop = loop
    Tasks = {k1, k2, s1, s2}
    StopTasks = {s1, s2}
    Sources = {timer}
    Eventfd = eventfd
INVARIANTS
    IInv
    NoLostWakeup
PROPERTIES
    ImplementsExecutor
    LoopServes
\* Start really returns, after Stop().
CHECK_DEADLOCK FALSE
