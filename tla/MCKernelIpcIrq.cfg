SPECIFICATION Safety
CONSTANTS
  N = 2
  Timer = timer
  Syscall = syscall
  Devices = {keyboard}
  FreshVectors = {syscall}
  Size = 2
  MaxFifo = 2
  MaxKqueue = 2
  MaxEvent = 2
  Lens = {1}
  MsgLen = 1
  PollSizes = {0, 1}
  Flags = {"READABLE"}
  IrqLines = {keyboard}
  DevNames = {}
  FreshWords = {0}
INVARIANTS
  IpcTypeOK
  NoLostWakeup
PROPERTIES
  NoSpuriousWakeup
  ArrivalReachesWaiters
