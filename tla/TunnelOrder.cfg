CONSTANTS
    MaxRetry = 1
    MaxSessions = 1
    MaxReq = 2
    MaxRelayFault = 0
    MaxStop = 0
    PingsPerTimeout = 1
    PingerRuns = TRUE

SPECIFICATION Spec

CHECK_DEADLOCK FALSE
INVARIANT ResponseOrder
