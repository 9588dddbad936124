SPECIFICATION SlabSpec
CONSTANTS
  Cells = 3
  Pages = 2
  LowWords = {"NULL", "OTHER"}
INVARIANTS
  SlabKeepsRunning
CHECK_DEADLOCK FALSE
