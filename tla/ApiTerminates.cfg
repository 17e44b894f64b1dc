SPECIFICATION FairSpec
CONSTANTS
    k1 = k1
    k2 = k2
    b1 = b1
    b2 = b2
    NoBucket = NoBucket
    Keys = {k1, k2}
    Buckets = {b1}
    HashOf <- NoHeaders
    QueueSize = 3
    MaxRequests = 4
    MaxRemaining = 1
    Replies = {"ok", "cut", "limited", "global", "fatal"}
    TimeoutCompletes = TRUE
PROPERTIES
    LoopTerminates
CHECK_DEADLOCK FALSE
