SPECIFICATION SlabSpec
CONSTANTS
  Cells = 3
  Pages = 2
  LowWords = {"NULL", "OTHER"}
INVARIANTS
  SlabTypeOK
  FreeListsExact
  GrowsSafely
PROPERTIES
  SlabIsPool
  NewPageOnlyWhenFull
CHECK_DEADLOCK FALSE
