CONSTANTS
  QD = 3
  CID_FIELD = 16
  CID_REG = 256
  MaxCmds = 7
  MaxTimeouts = 1
  SECT = 2
  BUF_SZ = 4
  MAX_SECT = 4
  Lens = {1, 3}
  MaxBytes = 7
SPECIFICATION LogSpec
INVARIANTS
  PhaseTells
  Unfetched
  OwnResult
  StoredInOrder
  NothingLost
PROPERTIES
  FirstLogStays
CHECK_DEADLOCK FALSE
