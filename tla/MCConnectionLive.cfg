SPECIFICATION ConnFairSpec
CONSTANTS
  v = v
  p = p
  Clients = {v, p}
  Viewers = {v}
  RingCap = 2
  BcastCap = 1
  MaxChunk = 2
  MaxBytes = 2
  DownCap = 1
  UpCap = 1
  PushCap = 1
  MaxTyped = 2
CHECK_DEADLOCK FALSE
PROPERTIES
  ViewerCatchesUp
  PushesAreTaken
