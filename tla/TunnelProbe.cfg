CONSTANTS
    MaxRetry = 1
    MaxSessions = 1
    MaxReq = 2
    MaxRelayFault = 1
    MaxStop = 0
    PingsPerTimeout = 1
    PingerRuns = TRUE

SPECIFICATION Spec

CHECK_DEADLOCK FALSE
PROPERTY ProbeDetectsClosed
