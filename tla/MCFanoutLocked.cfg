SPECIFICATION LockedSpec
CONSTANTS
  Clients = {c1, c2}
  c1 = c1
  c2 = c2
  Pusher = Pusher
  NoOne = NoOne
  RingCap = 3
  BcastCap = 2
  MaxChunk = 2
  MaxBytes = 6
SYMMETRY ClientsAlike
INVARIANTS
  TypeOK
  ViewContiguous
  ViewReachesCursor
  MutualExclusion
PROPERTY ImplementsFanout
