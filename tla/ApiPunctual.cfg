SPECIFICATION Spec
CONSTANTS
    k1 = k1
    k2 = k2
    b1 = b1
    b2 = b2
    NoBucket = NoBucket
    Keys = {k1}
    Buckets = {b1}
    HashOf <- OneKey
    QueueSize = 6
    MaxRequests = 6
    MaxRemaining = 2
    Replies = {"ok", "limited", "global"}
    TimeoutCompletes = FALSE
INVARIANT
    AnswersOwn
PROPERTY
    LoadsOwnIfPausesEnd
CHECK_DEADLOCK FALSE
