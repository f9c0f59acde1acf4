SPECIFICATION Spec
CONSTANTS
  MaxTasks = 4
  MaxId = 3
  MaxSleep = 1
  WaitPids <- AllKinds
  BootWaits = FALSE
INVARIANTS    StatusKept 
