SPECIFICATION Spec
CONSTANTS
    MaxConnects = 1
    MaxSent = 3
    TimerCalls <- NoTimerCall
    MayFail = FALSE
    ServerMayClose = TRUE
    Patient = TRUE
INVARIANT
    CleanupIsSafe
CHECK_DEADLOCK FALSE
