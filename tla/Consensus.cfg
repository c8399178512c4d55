CONSTANTS
    Nodes = {n1, n2, n3}
    Resources = {r1, r2}
    Views <- Majorities
    MaxEpoch = 2
    MaxToken = 3
    MaxGrants = 3
    MaxSnapshots = 1
SPECIFICATION Spec
SYMMETRY Symmetry
INVARIANTS LeasesWereGranted StaleGrantNeverValidates
PROPERTIES GenerationNeverRegresses NoDualGrant
CHECK_DEADLOCK FALSE
