SPECIFICATION RingSpec
CONSTANTS
  Size = 6
  Record = 2
  Mixed = {1, 3}
  Bytes = {a, b}
  Stale = stale
PROPERTIES
  ReadAnswersTruly
