INIT LockInit
NEXT LockNext
CONSTANTS
    Procs = {11, 12}
    Nobody = 0
    Strangers = {}
CHECK_DEADLOCK FALSE
INVARIANT OneProcess
