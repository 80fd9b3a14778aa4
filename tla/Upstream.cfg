CONSTANTS
    u1 = u1
    r1 = r1
    r2 = r2
    NoURL = NoURL
    URLs = {u1}
    Names = {u1}
    Requests = {r1, r2}
    UnhealthyThreshold = 2
    HealthyThreshold = 1
    MaxCooldown = 1
    MaxBreakers = 2
    MaxFailures = 2
    ResetTimeout = 1
    Trials = 1
    MaxEdits = 1
SPECIFICATION HistorySpec
SYMMETRY Symmetry
INVARIANTS
    RecordsAgree
    OneBreaker
    ConnectionsReturned
    CountsExact
    NoDeadlock
CHECK_DEADLOCK FALSE
