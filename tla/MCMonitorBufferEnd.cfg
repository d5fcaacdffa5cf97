SPECIFICATION MonitorSpec
CONSTANTS
    MonCapacity = 2
    MaxYields = 4
INVARIANTS
    EndSeesAll
