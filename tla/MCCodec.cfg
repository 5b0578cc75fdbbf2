SPECIFICATION FairSpec
CONSTANTS
  Base = 7
  MaxFrame = 8
  Messages <- MCMessages
  Foreign <- MCForeign
  MaxSent = 2
  MaxRead = 6
INVARIANTS TypeOK FramesInOrder NothingLeftBehind
PROPERTY DeadClientEnds
CHECK_DEADLOCK FALSE
