SPECIFICATION Spec
CONSTANTS
    MaxConnects = 2
    MaxSent = 5
    TimerCalls <- AnyTimerCall
    MayFail = TRUE
    ServerMayClose = TRUE
    Patient = FALSE
INVARIANTS
    TypeOK
    CloseIsLast
    IdentifyFirst
    DisconnectedIsTrue
CHECK_DEADLOCK FALSE
