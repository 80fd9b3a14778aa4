\* Two executions race each other and a Reset.
CONSTANTS
    c1 = c1
    c2 = c2
    r1 = r1
    Callers = {c1, c2}
    Resetters = {r1}
    MaxFailures = 2
    ResetTimeout = 1
    MaxCalls = 7
    MaxTime = 2
SPECIFICATION HistorySpec
SYMMETRY Symmetry
INVARIANTS
    ClosedBelowLimit
    HalfOpenNotWedged
    QuiescentBreakerServes
    TrialsLimited
PROPERTIES
    ClosesFromHalfOpen
    OpenForResetTimeout
    ActsAtOnce
CHECK_DEADLOCK FALSE
