SPECIFICATION Spec
CONSTANTS
    Tasks = {1, 2}
    r1 = r1
    r2 = r2
    Runners = {r1, r2}
    Slots = {1}
    CanHandle <- AllTasks
    CanRebuild <- OnlyR2
    LeaseDuration = 1
    MaxGap = 1
    Batch = 8
    ErrOnFull = TRUE
    QueueSize = 1
    Cancellable = {}
    CleanupOn = FALSE
    MaxFaults = 1
    None = None
INVARIANT ExclusiveExecution
INVARIANT IInv
PROPERTY LifecycleSpec
