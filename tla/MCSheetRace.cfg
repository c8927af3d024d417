CONSTANTS
  MAX_SHEETS = 8
  NULL = NULL
  Back = 0
  Win = 1
  Cursor = 2
  Login = 3
  MaxName = 1
SPECIFICATION RaceSpec
INVARIANT TableInOrder
