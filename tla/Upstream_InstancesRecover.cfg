CONSTANTS
    u1 = u1
    r1 = r1
    NoURL = NoURL
    URLs = {u1}
    Names = {u1}
    Requests = {r1}
    UnhealthyThreshold = 2
    HealthyThreshold = 1
    MaxCooldown = 1
    MaxBreakers = 1
    MaxFailures = 2
    ResetTimeout = 1
    Trials = 1
    MaxEdits = 0
SPECIFICATION FairSpec
PROPERTY InstancesRecover
CHECK_DEADLOCK FALSE
