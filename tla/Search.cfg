CONSTANTS
    i1 = i1
    i2 = i2
    i3 = i3
    s1 = s1
    s2 = s2
    NoURL = NoURL
    Instances <- TwoInstances
    Searchers = {s1, s2}
    MaxAttempts = 2
    QuietIntervals = {1}
    ErrorIntervals = {1, 2}
    BaseCooldowns = {1}
    MaxCooldown = 2
    ErrorBase = 1
    ErrorStep = 1
    MaxErrorCooldown = 2
    MaxErrors = 2
SPECIFICATION FairHistorySpec
INVARIANTS
    CountMatchesUse
    CoolingHasErrors
    RoundRobin
PROPERTIES
    EverySearchEnds
    CooldownEnds
CHECK_DEADLOCK FALSE
