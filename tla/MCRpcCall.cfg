SPECIFICATION FairSpec
CONSTANTS
    Threads = {t1}
    Conns = {n1, n2}
    Calls = {c1, c2, c3}
    None = none
    UserModes = {"sync", "callback"}
    CallbackModes = {"sync", "async"}
    IllFormed = {c3}
    ParamType = "string"
    ReturnType = "object"
INVARIANTS
    AnswersMatched
    RequestsExact
    ShutdownForCause
PROPERTIES
    NotFoundForCause
    ImplementsAtMostOnce
    AnsweredOrCut
\* Nobody has to make another call.
CHECK_DEADLOCK FALSE
