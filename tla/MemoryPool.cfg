SPECIFICATION FairSpec
CONSTANTS
    t1 = t1
    t2 = t2
    t3 = t3
    w1 = w1
    w2 = w2
    Tasks = {t1, t2}
    Workers = {w1, w2}
    Handled = {t1, t2}
    QueueSize = 1
    ErrOnFull = TRUE
    Cancellable = {t1}
    CleanupOn = TRUE
    Stoppable = TRUE
    NoTask = NoTask
CHECK_DEADLOCK FALSE
INVARIANT TypeOK
INVARIANT RefusedNeverRuns
INVARIANT StoppedIsQuiet
INVARIANT WithinReach
PROPERTY LifecycleSpec
PROPERTY RunsEnd
