SPECIFICATION FairSpec
CONSTANTS
  child = child
  job = job
  k = k
  s = s
  Procs = {child, job}
  Leader = child
  InGroup = {child}
  Ignoring = {child}
  Detaching = {child}
  Killers = {k}
  Forced = {}
  Streamers = {s}
  MaxResizes = 1
  CtlCap = 1
  PushCap = 1
  InCap = 1
  OutCap = 1
  MaxWrite = 2
  MaxInbox = 1
  MaxOutput = 1
  MaxLogq = 2
CHECK_DEADLOCK FALSE
INVARIANTS
  TypeOK
  KillWaitsOneWrite
  LogCompleteWhenGone
  ReportIsTrue
PROPERTY KillEndsSession
