CONSTANTS
    MaxRetry = 1
    MaxSessions = 1
    MaxReq = 0
    MaxRelayFault = 0
    MaxStop = 2
    PingsPerTimeout = 1
    PingerRuns = FALSE

SPECIFICATION Spec

CHECK_DEADLOCK FALSE
PROPERTY StopReturns
