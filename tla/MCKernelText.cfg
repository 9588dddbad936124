SPECIFICATION TextSpec
CONSTANTS
  NUM_COLS = 2
  NUM_ROWS = 2
  IntValues = 32
  Char <- MCChar
  MaxText = 2
  MaxBoth = 0
  Messages <- MCMessages
  Puts <- MCPuts
  NameSize = 2
  Names <- MCNames
  Junk = {0, 1}
  MaxDevnodes = 2
INVARIANTS
  ScreenShowsText
  FindsByName
PROPERTIES
  NumbersDenote
  PutsIsVerbatim
CHECK_DEADLOCK FALSE
