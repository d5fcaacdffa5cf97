SPECIFICATION FairBmmSpec
CONSTANTS
    MaxEvents = 7
    ShmSize = 2
    BufCapacity = 3
    DropThreshold = 1
    NotifyPeriod = 2
    FetchFuns = {"stream_fetch", "stream_filter_fetch"}
INVARIANTS
    StateConsistent
    NothingVanishes
    SortedById
    PayloadNotReleased
    ExitsDrained
    HoleCoversDrops
PROPERTIES
    SourceNotBlocked
