SPECIFICATION ClusterSpec
CONSTANTS
    Tasks = {t1}
    Workers = {w1, w2}
    MaxAttempts = 2
    MaxToken = 1
    MaxHeartbeats = 0
    Redis = TRUE
    QueueDepth = 1
    Administered = FALSE
    MaxCrashes = 1
    Nodes = {n1, n2}
    Preemptive = TRUE
    MaxLeases = 2
SYMMETRY ClusterSymmetry
CHECK_DEADLOCK FALSE
INVARIANTS
    LedgerFollowsRow
    LeaseIdentifiesOwner
    RollbackUndoesOwnMove
