CONSTANTS
  COUNT = 11
  BITMAP = 2
  UPCASE = 3
  ROOT = 4
  OLD <- MCOld
  SLOTS = 16
  PER_SECT = 4
  INFOS = 3
  OldName <- MCOldName
  Names <- MCNames
  Texts = {x, y}
  Junk = Junk
  None = None
SPECIFICATION VolSpec
INVARIANTS
  EntriesBacked
  
CHECK_DEADLOCK FALSE
