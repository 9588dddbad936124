SPECIFICATION Spec
CONSTANTS
  PageSize = 100
  WordBits = 8
  Limit = 67
  KernelPages0 = 50
  Bitmap = 48
  Identity = 90
  KernelEntries = 24
  TableSize = 16
  Low = 4
  Top = 16
  StackPages = 1
  MaxPid = 3
  MaxFifo = 1
  MemoryMaps <- MCMemoryMaps
  BootModules <- MCBootModules
  MmapSizes = {1}
  MaxPrivate = 2
  MaxReturned = 2
  MaxRegions = 6
  Residues <- MCResidues
  Uses = {"fork touching regions"}
CHECK_DEADLOCK FALSE
INVARIANT SpacePartitioned
