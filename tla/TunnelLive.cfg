CONSTANTS
    MaxRetry = 2
    MaxSessions = 1
    MaxReq = 2
    MaxRelayFault = 1
    MaxStop = 0
    PingsPerTimeout = 1
    PingerRuns = TRUE

SPECIFICATION Spec

\* The dial loop ends at the retry ceiling; the pumps then only spin.
CHECK_DEADLOCK FALSE
PROPERTY SessionWindsDown
PROPERTY SilentBackendEndsSession
