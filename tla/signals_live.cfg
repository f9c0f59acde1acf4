SPECIFICATION FairSpec
CONSTANTS
  Procs = {4, 5}
  Sigs = {2, 9, 17}
  Actions = {"ign"}
  Masks <- KillMask
  Hows = {"block"}
  Groups = {4}
  Sleeps = {"io", "nap"}
  MaxFrames = 1
  EarlyExec = FALSE
PROPERTY KillEnds
CHECK_DEADLOCK FALSE
