CONSTANTS
    Tasks = {t1, t2}
    Workers = {w1}
    Checkpoints = {c1, c2}
    Nodes = {n1}
    MaxAttempts = 1
    Autoflush = FALSE
    MaxGeneration = 1
    Targets = {2}
    MaxEntries = 4
    MaxSaves = 2
    MaxRestores = 2
    MaxDisasters = 1
SPECIFICATION Spec
SYMMETRY Symmetry
INVARIANTS RowFollowsLedger   
CHECK_DEADLOCK FALSE
