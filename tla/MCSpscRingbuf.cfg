SPECIFICATION Spec
CONSTANTS
    Capacity = 4
    Values = {a, b}
    Garbage = Garbage
INVARIANTS
    NoSlotRace
    NullOnlyWithoutSpace
PROPERTIES
    RefinesFifo
