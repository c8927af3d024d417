CONSTANTS
  Kernels <- MC_Kernels
  PER_PAGE = 2
  MARGIN = 1
  MaxMap = 6
  Paths <- MC_Paths
  Videos <- MC_Videos
  PAGES = 64
  Setups <- MC_Setups
  Buses <- MC_Buses
SPECIFICATION Spec
INVARIANTS
  KernelWhole
  PictureFits
  PoolAgrees
  VolumeKept
  FilesOnVolume
PROPERTY BootEnds
CHECK_DEADLOCK FALSE
