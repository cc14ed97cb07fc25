SPECIFICATION Spec
CONSTANTS
    Users = {u1}
    Loop = loop
    Kinds = {"timed"}
    Timeout = 1
    MaxSends = 1
    MaxArrive = 1
    MaxCalls = 2
INVARIANTS
    EstablishedFirst
\* Nothing need happen once the connection is closed.
CHECK_DEADLOCK FALSE
