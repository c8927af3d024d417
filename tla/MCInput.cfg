CONSTANTS
  FS = 2
  Keys <- MC_Keys
  Bytes = {"FA", "first", "other"}
  BootKeys = 1
  MaxPackets = 1
  MaxTicks = 1
  MaxFaults = 1
SPECIFICATION Spec
INVARIANTS
  KeysInOrder
  StaysInStep
  SyscallReturns
  DeadOnce
PROPERTIES
  GoesOn
  InputTaken
  KeysHandled
CHECK_DEADLOCK FALSE
