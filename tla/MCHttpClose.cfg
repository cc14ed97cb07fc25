SPECIFICATION FairHttpSpec
CONSTANTS
    Roles = {"http"}
    Field = 1
    Frames = {}
    BufferSize = 4
    Limit = 4
    MaxMessages = 0
    MaxLine = 2
    RequestLines <- MCRequestLines
    Headers <- MCHeaders
    Body = 2
    MaxParts = 3
PROPERTIES
    ShortClosed
\* The peer may send nothing more.
CHECK_DEADLOCK FALSE
