SPECIFICATION AuxSpec
CONSTANTS
    MaxEvents = 11
    ShmSize = 3
    BufCapacity = 3
    NotifyPeriod = 2
    AuxSize = 2
    RangesNum = 2
INVARIANTS
    StringsIntact
    AgeOrder
    RangeIsOfDropped
