SPECIFICATION SchedSpec
CONSTANTS
  N = 4
  Timer = timer
  Syscall = syscall
  Devices = {keyboard}
  FreshVectors = {syscall, timer}
PROPERTIES
  BlockResultReachesCaller
