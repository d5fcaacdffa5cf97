SPECIFICATION Spec
CONSTANTS
    MaxThread = 2
    Mutexes <- MCMutexes
    Addrs <- MCAddrs
    Programs <- MCPrograms
    ManyCells = 2
    MaxHoles = 1
INVARIANT CellsKept
PROPERTY FirstCheckExact
PROPERTY LossExcused
CHECK_DEADLOCK FALSE
