CONSTANTS
    c1 = c1
    h1 = h1
    Clients = {c1}
    Handlers = {h1}
    DefaultCapacity = 1
    DefaultRefillRate = 2
    GlobalCapacity = 2
    GlobalRefillRate = 4
    Second = 4
    MaxBuckets = 1
    CleanupAge = 3
    MaxAge = 4
    NoBucket = NoBucket
SPECIFICATION FairSpec
PROPERTY WaiterServed
CHECK_DEADLOCK FALSE
