SPECIFICATION ShamonSpec
CONSTANTS
    MaxEvents = 6
    ShmSize = 2
    BufCapacity = 3
    DropThreshold = 1
    NotifyPeriod = 2
    FetchFuns = {"stream_fetch"}
INVARIANTS
    NoEventLeftBehind
    MonitorSeesOrder
PROPERTIES
    ProgramEnds
