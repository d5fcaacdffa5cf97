SPECIFICATION FairSpec
CONSTANTS
  Length <- MCLength
  BufCapacity = 2
  DropThreshold = 1
  MemCapacity = 2
  MonCapacity = 1
INVARIANTS PrimesInv
PROPERTIES PairsInOrder ArbiterEnds
CHECK_DEADLOCK FALSE
