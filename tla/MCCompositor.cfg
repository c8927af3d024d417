CONSTANTS
  MAX_SHEETS = 4
  NULL = NULL
  XSIZE = 4
  YSIZE = 1
  SHAPE <- MCShape
  BootPos <- MCBootPos
  Positions <- MCPositions
  MaxDark = 2
  Back = 0
  Win = 1
  Cursor = 2
  Login = 3
  Strip <- MCStrip
SPECIFICATION Spec
INVARIANTS
  MapIsPainter
  ScreenShowsOwners
PROPERTIES
  DragKeepsPicture
  FullRefreshRepairs
