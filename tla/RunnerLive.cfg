SPECIFICATION FairSpec
CONSTANTS
    Tasks = {1}
    r1 = r1
    r2 = r2
    Runners = {r1, r2}
    Slots = {1}
    CanHandle <- AllTasks
    CanRebuild <- AllTasks
    LeaseDuration = 0
    MaxGap = 0
    Batch = 8
    ErrOnFull = TRUE
    QueueSize = 1
    Cancellable = {1}
    CleanupOn = TRUE
    MaxFaults = 2
    None = None
PROPERTY NoTaskLost
PROPERTY LocalIsDropped
