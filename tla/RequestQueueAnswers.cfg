\* One request, requeued twice at most, whose caller may give up, and room for it
\* whenever it is retried.
CONSTANTS
    i1 = i1
    w1 = w1
    w2 = w2
    s1 = s1
    Items = {i1}
    Workers = {w1, w2}
    Stoppers = {s1}
    Impatient = {i1}
    Tasks <- MCTasks
    Priority <- SamePriority
    QueueSize = 1
    MaxQueueLen = 2
    MaxRetries = 1
    Capacity = 1
    DeadLetterCap = 1
    MaxRequeues = 2
    MayClear = FALSE
    NoTask = NoTask
    NoItem = NoItem
SPECIFICATION FairQueueSpec
INVARIANTS
    SingleOwner
    AnsweredOnce
PROPERTIES
    KeepsPromise
    EveryRequestAnswered
CHECK_DEADLOCK FALSE
