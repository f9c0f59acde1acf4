SPECIFICATION Spec
CONSTANTS
  Slots = {1, 2}
  Frames = {1, 2, 3, 4, 5, 6, 7, 8, 9, 10}
  Span = 3
  Image <- MCImage
  UserStack <- MCUserStack
  HeapBase = 3
  MmapBase = 5
  Limit = 8
  StackPages = 1
  MaxVmas = 2
  Calls <- MCCalls
  Breaks = {3, 4}
  Areas = {3}
  Prots = {"none", "ro"}
INVARIANTS Exclusive  
CHECK_DEADLOCK FALSE
