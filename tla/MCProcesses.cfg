SPECIFICATION Spec
CONSTANTS
  PageSize = 100
  WordBits = 8
  Limit = 67
  KernelPages0 = 50
  Bitmap = 48
  Identity = 90
  KernelEntries = 24
  TableSize = 16
  Low = 4
  Top = 16
  StackPages = 1
  MaxPid = 3
  MaxFifo = 3
  MemoryMaps <- MCMemoryMaps
  BootModules <- MCBootModules
  MmapSizes = {1}
  MaxPrivate = 1
  MaxReturned = 2
  MaxRegions = 6
  Residues <- MCResidues
  Uses = {}
CHECK_DEADLOCK FALSE
INVARIANTS
  SpacePartitioned
  FramesPrivate
  FramesTaken
  ReceiversHaveRegions
  StopsOnlyExhausted
  LeakBounded
PROPERTIES
  ForkGivesRights
  ForkCopiesMemory
  WriteLeavesNoTrace
