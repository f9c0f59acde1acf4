SPECIFICATION FairSpec
CONSTANTS
  Capacity = 3
  MaxEvents = 7
INVARIANT NeverSpins
PROPERTIES IsQueue FlagRestored Returns
