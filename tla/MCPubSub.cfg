SPECIFICATION PubSubSpec
CONSTANTS
    u1 = u1
    u2 = u2
    Client = c
    Owners = {c, s}
    Subscribers = {c, s}
    Publishers = {c, s, q}
    Callers = {u1, u2}
    NoCallback = NoCallback
    Names = {a}
    Shared = {}
    MaxRequests = 2
    MaxTopics = 2
SYMMETRY Symmetry
INVARIANTS
    MutexInv
    PublishReachesSubscribers
    CancelLasts
    TopicOrderKept
    CallsInTransit
    PublishShown
\* Every connection may have closed, the server may have crashed.
CHECK_DEADLOCK FALSE
