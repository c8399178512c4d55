SPECIFICATION Spec
CONSTANTS
    Threads = {t1, t2}
    Registry <- const_Registry
    Rank <- const_Rank
    Policies <- const_Policies
    WindowSize = 2
    MinSamples = 2
    Threshold = 50
    MaxProbes = 1
    MaxFaults = 2
    NoProvider = NoProvider
    k1 = k1
INVARIANTS ProbesBounded
PROPERTY OpenIsProbed
