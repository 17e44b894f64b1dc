SPECIFICATION FairSpec
CONSTANTS
    MaxConnects = 2
    MaxSent = 7
    TimerCalls <- AnyTimerCall
    MayFail = FALSE
    ServerMayClose = FALSE
    Patient = TRUE
INVARIANT
    FailsOnlyByClosedTimer
PROPERTY
    DisconnectReturns
CHECK_DEADLOCK FALSE
