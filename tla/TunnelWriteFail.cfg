CONSTANTS
    MaxRetry = 1
    MaxSessions = 1
    MaxReq = 1
    MaxRelayFault = 3
    MaxStop = 0
    PingsPerTimeout = 1
    PingerRuns = TRUE

SPECIFICATION Spec

CHECK_DEADLOCK FALSE
INVARIANT SignalOnlyWritten
