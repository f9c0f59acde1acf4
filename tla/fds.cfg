SPECIFICATION Spec
CONSTANTS
  Slots = {s1, s2, s3}
  MaxFds = 2
  MaxOpen = 3
  MaxPipes = 1
  Stdio = 1
  RefMod = 7
INVARIANTS TypeOK RefsExact EndsCounted SleeperKept NoLeak
PROPERTY Undisturbed
SYMMETRY SlotSymmetry
