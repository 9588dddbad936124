SPECIFICATION PathSpec
CONSTANTS
  N = 3
  Timer = 32
  Syscall = 128
  Devices = {0, 14, 33, 39, 40, 47}
  FreshVectors = {0, 32, 128}
  Lines = {0, 1, 8}
  Exceptions = {0, 14}
INVARIANTS
  CpuBelongsToCurrent
  HaltsOnlyWhenNobodyRuns
  ContextsAreOwn
  NothingInService
  FramesAreWhole
PROPERTIES
  CpuSafety
  CpuFairness
  ClockDrivesScheduler
