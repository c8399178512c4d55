SPECIFICATION Spec
CONSTANTS
    Requests = {r1, r2}
    Callers = {c1}
    Executors = {e1}
    NoOne = NoOne
    Payloads = {p1, p2}
    TokenLimit = 3
    CostLimit = 1
    Estimates = {2}
    Estimate = 2
    MaxAttempts = 2
    Recorded = {1}
    Hedged = {r2}
    r1 = r1
    r2 = r2
    Charges <- const_Charges
    Asked <- const_Asked
    Payload <- const_Payload
INVARIANTS BudgetIsLedger OverdraftIsOverrun ReservationFollowsStatus AnswerIsCharged
PROPERTY SettledIsFinal
