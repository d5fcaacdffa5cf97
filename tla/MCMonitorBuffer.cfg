SPECIFICATION MonitorFairSpec
CONSTANTS
    MonCapacity = 2
    MaxYields = 6
INVARIANTS
    InOrderOnce
PROPERTIES
    YieldReturns
    MonitorEnds
