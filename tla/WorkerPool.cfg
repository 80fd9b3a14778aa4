CONSTANTS
    t1 = t1
    t2 = t2
    t3 = t3
    w1 = w1
    w2 = w2
    s1 = s1
    Tasks = {t1, t2, t3}
    Workers = {w1, w2}
    Stoppers = {s1}
    QueueSize = 1
    MaxQueueLen = 2
    NoTask = NoTask
SPECIFICATION FairSpec
INVARIANTS
    OneHolder
    FailedWithinTotal
    StopNilMeansIdle
PROPERTIES
    WorkersExit
    AcceptedRuns
CHECK_DEADLOCK FALSE
