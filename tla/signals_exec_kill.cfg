SPECIFICATION Spec
CONSTANTS
  Procs = {4, 5}
  Sigs = {2, 9, 17}
  Actions = {}
  Masks <- NoMask
  Hows = {}
  Groups = {}
  Sleeps = {"io", "nap"}
  MaxFrames = 1
  EarlyExec = TRUE
INVARIANT KillWins
CHECK_DEADLOCK FALSE
