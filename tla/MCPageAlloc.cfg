CONSTANTS
  PAGE_MAX = 6
  STATIC = 2
SPECIFICATION PoolSpec
INVARIANTS
  CountExact
  BlocksOwnPages
  ScanIsFirstFit
