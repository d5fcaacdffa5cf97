SPECIFICATION FairSpec
CONSTANTS
  AccountsOf <- MCAccountsOf
  FirstBalances <- MCFirstBalances
  Sessions <- MCSessions
  BufCapacity = 4
  DropThreshold = 1
  MonCapacity = 1
  MaxBalance = 4
INVARIANTS AssertionsHold 
PROPERTIES ReportsFaithful RefinesMonitor ArbiterEnds
CHECK_DEADLOCK FALSE
