SPECIFICATION StubbornSpec
CONSTANTS
    Tasks = {1}
    r1 = r1
    r2 = r2
    Runners = {r1, r2}
    Slots = {1}
    CanHandle <- AllTasks
    CanRebuild <- OnlyR2
    LeaseDuration = 1
    MaxGap = 2
    Batch = 8
    ErrOnFull = FALSE
    QueueSize = 1
    Cancellable = {1}
    CleanupOn = FALSE
    MaxFaults = 1
    None = None
INVARIANT CancelFnCurrent
PROPERTY LostTaskIsStopped
PROPERTY OnlyHolderSucceeds
PROPERTY TerminalIsFinal
