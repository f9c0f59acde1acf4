SPECIFICATION FairSpec
CONSTANTS
  MaxTasks = 4
  MaxId = 2
  MaxSleep = 1
  WaitPids <- AnyChild
  BootWaits = TRUE
PROPERTY BootWaitReturns
