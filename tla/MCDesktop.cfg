CONSTANTS
  MAX_SHEETS = 16
  NULL = NULL
  Back = 0
  Win = 1
  Cursor = 2
  Login = 3
  MaxName = 31
SPECIFICATION Spec
INVARIANTS
  StackInOrder
  SlotsMatchStack
  DragTargetLive
  TaskbarCurrent
PROPERTIES
  OneWindowGoes
