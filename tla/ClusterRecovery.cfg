SPECIFICATION FairClusterSpec
CONSTANTS
    Tasks = {t1, t2}
    Workers = {w1}
    MaxAttempts = 3
    MaxToken = 1
    MaxHeartbeats = 0
    Redis = FALSE
    QueueDepth = 1
    Administered = FALSE
    MaxCrashes = 0
    Nodes = {n1}
    Preemptive = FALSE
    MaxLeases = 2
CHECK_DEADLOCK FALSE
INVARIANTS
    RecoveredTaskIsReachable
PROPERTIES
    EveryTaskLeavesQueue
