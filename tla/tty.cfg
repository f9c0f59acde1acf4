SPECIFICATION FairSpec
CONSTANTS
  Readers = {r1, r2}
  First = r1
  Keys = {"b", "newline", "kill", "intr", "eof"}
  Modes <- OtherModes
  MidLine = FALSE
  Lens = {1, 3}
  LineMax = 1
  PendMax = 3
  MaxTyped = 3
INVARIANTS TypeOK OneLine Discarded InOrder
PROPERTY Interrupted
CHECK_DEADLOCK FALSE
