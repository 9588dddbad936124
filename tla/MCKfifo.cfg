SPECIFICATION RingSpec
CONSTANTS
  Size = 6
  Record = 2
  Mixed = {1, 4, 6}
  Bytes = {a, b}
  Stale = stale
INVARIANTS
  RingTypeOK
PROPERTIES
  WriteAppends
  RecordQueue
