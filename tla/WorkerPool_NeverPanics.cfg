CONSTANTS
    t1 = t1
    w1 = w1
    s1 = s1
    Tasks = {t1}
    Workers = {w1}
    Stoppers = {s1}
    QueueSize = 1
    MaxQueueLen = 2
    NoTask = NoTask
SPECIFICATION Spec
INVARIANT NeverPanics
CHECK_DEADLOCK FALSE
