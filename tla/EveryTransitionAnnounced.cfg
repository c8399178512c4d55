SPECIFICATION ClusterSpec
CONSTANTS
    Tasks = {t1}
    Workers = {w1, w2}
    MaxAttempts = 2
    MaxToken = 1
    MaxHeartbeats = 0
    Redis = FALSE
    QueueDepth = 1
    Administered = FALSE
    MaxCrashes = 0
    Nodes = {n1, n2}
    Preemptive = FALSE
    MaxLeases = 2
CHECK_DEADLOCK FALSE
INVARIANTS
    EveryTransitionAnnounced
