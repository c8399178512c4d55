SPECIFICATION Spec
CONSTANTS
    Tasks = {t1}
    Workers = {w1, w2}
    MaxAttempts = 2
    MaxToken = 2
    MaxHeartbeats = 1
SYMMETRY Symmetry
INVARIANTS
    AuditIsHistory
    EveryTransitionAnnounced
PROPERTIES
    ImplementsTaskAuthority
