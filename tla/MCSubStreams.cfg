SPECIFICATION FairSpec
CONSTANTS
    Budget = 3
    Cap = 1
INVARIANTS
    SubBufferThere
    ControlWritten
    KindsKnown
    NothingUnseen
    NoNameLeft
PROPERTIES
    NoThreadStarves
    MonitorLeaves
