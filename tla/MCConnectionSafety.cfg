SPECIFICATION ConnSpec
CONSTANTS
  v = v
  p = p
  Clients = {v, p}
  Viewers = {v}
  RingCap = 2
  BcastCap = 1
  MaxChunk = 2
  MaxBytes = 3
  DownCap = 1
  UpCap = 2
  PushCap = 1
  MaxTyped = 2
CHECK_DEADLOCK FALSE
INVARIANTS
  ConnTypeOK
  PipelineExact
  NeverTwice
  InputInOrder
