SPECIFICATION Spec
CONSTANTS
    t1 = t1
    t2 = t2
    Events <- EventsOfTwoTasks
    TaskOf <- TaskOfEvent
    Publishers = {p1, p2}
    Limit = 2
    MaxAttempts = 2
    MaxFaults = 2
SYMMETRY PublisherSymmetry
CHECK_DEADLOCK FALSE
INVARIANTS
    DeliveredUnlessUnheard
    OncePerProcess
    GivenUpWhenExhausted
PROPERTIES
    SettledIsFinal
