SPECIFICATION FairHttpSpec
CONSTANTS
    Roles = {"server", "client", "http"}
    Field = 1
    Frames <- MCFrames
    BufferSize = 4
    Limit = 4
    MaxMessages = 3
    MaxLine = 2
    RequestLines <- MCRequestLines
    Headers <- MCHeaders
    Body = 2
    MaxParts = 5
INVARIANTS
    GivenInOrder
    RefusedForCause
    RepliesExact
PROPERTIES
    MessagesArrive
\* The peer may send nothing more.
CHECK_DEADLOCK FALSE
