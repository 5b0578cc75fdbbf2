SPECIFICATION FairSpec
CONSTANTS
  SockCap = 1
  ResizeCap = 1
  CtlCap = 1
  MaxChunk = 3
  MaxTyped = 4
  MaxSizes = 4
CHECK_DEADLOCK FALSE
INVARIANTS
  TypeOK
  FirstSpecialWins
  SuspendedIsDetached
PROPERTIES
  SizesInOrder
  SizeConverges
