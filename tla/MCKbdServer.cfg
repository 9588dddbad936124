SPECIFICATION KbdSpec
CONSTANTS
  N = 2
  Timer = timer
  Syscall = syscall
  Devices = {keyboard}
  FreshVectors = {syscall}
  Size = 4
  MaxFifo = 6
  MaxKqueue = 2
  MaxEvent = 3
  Lens = {1, 2}
  MsgLen = 1
  PollSizes = {}
  Flags = {"READABLE"}
  IrqLines = {keyboard}
  DevNames = {kbd}
  FreshWords = {0, 1}
  Server = 1
  Keyboard = keyboard
  Dev = kbd
  NoteLen = 2
INVARIANTS
  KeysAccounted
  SleepsWithPortEmpty
PROPERTIES
  KeysAreTaken
  FirstClientServed
  KeysAreNoticed
