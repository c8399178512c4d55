CONSTANTS
    Vars <- MCVars
    Programs <- MCPrograms
    MaxSteps = 40
SPECIFICATION Spec
INVARIANTS VerdictIsProven TaintReachesSink StoppedAtFixpoint
CHECK_DEADLOCK FALSE
