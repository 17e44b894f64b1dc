SPECIFICATION Spec
CONSTANTS
    k1 = k1
    k2 = k2
    b1 = b1
    b2 = b2
    NoBucket = NoBucket
    Keys = {k1, k2}
    Buckets = {b1}
    HashOf <- SharedBucket
    QueueSize = 3
    MaxRequests = 6
    MaxRemaining = 2
    Replies = {"ok", "limited", "global", "fatal"}
    TimeoutCompletes = TRUE
INVARIANTS
    TypeOK
    QueueShape
    OnholdCount
    FreshCounters
    LoadedOnce
CHECK_DEADLOCK FALSE
