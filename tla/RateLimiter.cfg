CONSTANTS
    c1 = c1
    c2 = c2
    h1 = h1
    h2 = h2
    Clients = {c1, c2}
    Handlers = {h1, h2}
    DefaultCapacity = 1
    DefaultRefillRate = 1
    GlobalCapacity = 1
    GlobalRefillRate = 1
    Second = 2
    MaxBuckets = 1
    CleanupAge = 1
    MaxAge = 2
    MaxWindow = 2
    Watched = c1
    NoBucket = NoBucket
SPECIFICATION HistorySpec
SYMMETRY Symmetry
INVARIANTS
    GlobalWindow
    ClientWindow
CHECK_DEADLOCK FALSE
