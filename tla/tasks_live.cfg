SPECIFICATION FairSpec
CONSTANTS
  MaxTasks = 3
  MaxId = 3
  MaxSleep = 1
  WaitPids <- ByIdOrAny
  BootWaits = TRUE
PROPERTIES Served WaitReturns 
