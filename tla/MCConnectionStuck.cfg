SPECIFICATION ConnFairSpec
CONSTANTS
  v = v
  p = p
  Clients = {v}
  Viewers = {v}
  RingCap = 2
  BcastCap = 1
  MaxChunk = 1
  MaxBytes = 5
  DownCap = 1
  UpCap = 1
  PushCap = 1
  MaxTyped = 3
CHECK_DEADLOCK FALSE
PROPERTY LaggingClientIsDisconnected
