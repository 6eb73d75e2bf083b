CONSTANTS
    MaxRetry = 3
    MaxSessions = 1
    MaxReq = 0
    MaxRelayFault = 0
    MaxStop = 1
    PingsPerTimeout = 1
    PingerRuns = TRUE

SPECIFICATION Spec

CHECK_DEADLOCK FALSE
INVARIANT StopHonoured
