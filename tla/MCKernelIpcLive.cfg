SPECIFICATION Spec
CONSTANTS
  N = 2
  Timer = timer
  Syscall = syscall
  Devices = {keyboard}
  FreshVectors = {syscall}
  Size = 2
  MaxFifo = 2
  MaxKqueue = 1
  MaxEvent = 1
  Lens = {1}
  MsgLen = 1
  PollSizes = {1}
  Flags = {"READABLE", "WRITABLE"}
  IrqLines = {timer}
  DevNames = {kbd}
  FreshWords = {0, 1}
PROPERTIES
  SchedulesFairly
  DataWakesSleeper
