\* Two requests that compete for one place, requeued, cleared and never given up.
CONSTANTS
    i1 = i1
    i2 = i2
    w1 = w1
    Items = {i1, i2}
    Workers = {w1}
    Stoppers = {}
    Impatient = {}
    Tasks <- MCTasks
    Priority <- SamePriority
    QueueSize = 1
    MaxQueueLen = 2
    MaxRetries = 1
    Capacity = 1
    DeadLetterCap = 1
    MaxRequeues = 1
    MayClear = TRUE
    NoTask = NoTask
    NoItem = NoItem
SPECIFICATION QueueSpec
SYMMETRY Symmetry
INVARIANTS
    SingleOwner
    AnsweredOnce
CHECK_DEADLOCK FALSE
