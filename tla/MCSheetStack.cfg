CONSTANTS
  MAX_SHEETS = 4
  NULL = NULL
SPECIFICATION Spec
INVARIANT ZOrder
PROPERTY ImplementsWindowOrder
