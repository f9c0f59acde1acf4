SPECIFICATION Spec
CONSTANTS
  Procs = {4, 5}
  Sigs = {2, 9, 17}
  Actions = {"catch"}
  Masks <- KillMask
  Hows = {"setmask"}
  Groups = {}
  Sleeps = {"io"}
  MaxFrames = 2
  EarlyExec = FALSE
INVARIANTS  KillSeen KillWins NoReentry
CHECK_DEADLOCK FALSE
