SPECIFICATION Spec
CONSTANTS
  MaxSize = 2
  Lookback = 3
  MaxChunk = 4
  Streams <- MCStreams
  RivalCaps <- MCRivalCaps
INVARIANTS TypeOK InOrder CountIsExact HistoryKept PanicNeedsTruncation
PROPERTY CutIsSafe
