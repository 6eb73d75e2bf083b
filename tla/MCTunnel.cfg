CONSTANTS
    MaxRetry <- MCMaxRetry
    MaxSessions <- MCMaxSessions
    MaxReq <- MCMaxReq
    MaxRelayFault <- MCMaxRelayFault
    MaxStop <- MCMaxStop
    PingsPerTimeout <- MCPingsPerTimeout
    PingerRuns <- MCPingerRuns

SPECIFICATION Spec

\* The dial loop ends at the retry ceiling and the remaining goroutines
\* then only spin, so the system may stop.
CHECK_DEADLOCK FALSE

INVARIANT TypeOK
INVARIANT ReplyIntegrity
INVARIANT IdsContiguous
