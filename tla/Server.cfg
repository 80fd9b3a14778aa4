SPECIFICATION MCSpec
CONSTANTS
    Instances = {i1}
    Profiles = {chrome, firefox}
    Conns = {c1}
    MaxClients = 3
    IdleLimit = 1
    NoClient = NoClient
    Requests = {r1, r2}
    MaxServed = 2
    Timeout = 1
    MaxInstances = 3
    BufferSize = 23
    MaxNodes = 5
    MaxResults = 4
    MaxLength = 7
SYMMETRY Symmetry
INVARIANTS
    PooledWhileUsed
    OpenExact
    CountersAgree
    OrderlyShutdown
    StrategiesSound
    PercentilesOfLast
    HealthSound
    EveryResultListed
    SelectionFits
    OrdinaryNotBarred
CHECK_DEADLOCK FALSE
