SPECIFICATION Spec
CONSTANTS
    Ids = {i, j}
    Capacity = 2
    MaxDelay = 3
    MaxTicks = 5
    MaxTasks = 3
INVARIANTS
    TaskInReach
PROPERTIES
    KeepsDeadlines
\* The ticks are bounded.
CHECK_DEADLOCK FALSE
