CONSTANTS
    i1 = i1
    i2 = i2
    w1 = w1
    Items = {i1, i2}
    Workers = {w1}
    Stoppers = {}
    Impatient = {i1, i2}
    Tasks <- MCTasks
    Priority <- SamePriority
    QueueSize = 1
    MaxQueueLen = 2
    MaxRetries = 1
    Capacity = 1
    DeadLetterCap = 1
    MaxRequeues = 0
    MayClear = FALSE
    NoTask = NoTask
    NoItem = NoItem
SPECIFICATION QueueSpec
INVARIANT NothingLost
CHECK_DEADLOCK FALSE
