SPECIFICATION Spec
CONSTANTS
  None = None
  Path <- MCPath
  File <- MCFile
  FileOf <- MCFileOf
  Segments <- MCSegments
  Creatable <- MCCreatable
  Menu <- MCMenu
  MaxCmds = 3
  MaxCrashes = 1
CHECK_DEADLOCK FALSE
INVARIANTS
  TypeOK
  ServedIsReachable
  StaleNeedsFailure
  SuccessHasSocket
  KillReportIsTrue
  NoSelfAttach
