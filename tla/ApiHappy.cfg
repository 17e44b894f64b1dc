SPECIFICATION FairSpec
CONSTANTS
    k1 = k1
    k2 = k2
    b1 = b1
    b2 = b2
    NoBucket = NoBucket
    Keys = {k1, k2}
    Buckets = {b1, b2}
    HashOf <- OwnBuckets
    QueueSize = 5
    MaxRequests = 5
    MaxRemaining = 2
    Replies = {"ok", "global"}
    TimeoutCompletes = FALSE
INVARIANTS
    HeldReady
    NoLostWakeup
    NothingLeftBehind
PROPERTIES
    ImplementsService
    DispatchReturns
    EveryRequestServed
