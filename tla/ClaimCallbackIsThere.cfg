SPECIFICATION Spec
CONSTANTS
    k1 = k1
    k2 = k2
    b1 = b1
    b2 = b2
    NoBucket = NoBucket
    Keys = {k1, k2}
    Buckets = {b1}
    HashOf <- SharedBucket
    QueueSize = 2
    MaxRequests = 5
    MaxRemaining = 1
    Replies = {"ok"}
    TimeoutCompletes = FALSE
INVARIANT
    CallbackIsThere
CHECK_DEADLOCK FALSE
