SPECIFICATION AuxSpec
CONSTANTS
    MaxEvents = 8
    ShmSize = 2
    BufCapacity = 3
    NotifyPeriod = 2
    AuxSize = 2
    RangesNum = 3
INVARIANTS
    LockExcludes
