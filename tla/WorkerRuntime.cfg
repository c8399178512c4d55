SPECIFICATION FairPipelineSpec
CONSTANTS
    Tasks = {t1}
    Workers = {w1, w2}
    MaxAttempts = 2
    MaxToken = 2
    MaxHeartbeats = 0
    Redis = TRUE
    QueueDepth = 1
    Administered = TRUE
    MaxCrashes = 1
CHECK_DEADLOCK FALSE
INVARIANTS
    OneDelivery
    QueuedTaskIsReachable
PROPERTIES
    TerminalIsFinal
    EveryTaskEnds
