SPECIFICATION FairSpec
CONSTANTS
  Readers = {r1}
  Writers = {w1, w2}
  PipeBuf = 3
  Chunk = 2
  Lens = {1, 4}
  MaxSent = 4
  Interrupts = TRUE
INVARIANT InOrder
PROPERTIES  Released Interrupted
CHECK_DEADLOCK FALSE
