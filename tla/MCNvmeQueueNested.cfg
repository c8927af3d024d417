CONSTANTS
  QD = 3
  CID_FIELD = 16
  CID_REG = 256
  MaxCmds = 3
  MaxTimeouts = 0
SPECIFICATION NestedSpec
INVARIANT SuccessMeansDone
