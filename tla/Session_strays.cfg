SPECIFICATION FairSpec
CONSTANTS
  MaxRuns = 4
  Dest <- ManyHosts
  ChunkCap = 2
  MaxStray = 2
INVARIANTS
  OutputIsOwn
PROPERTIES
  DialReturns
  RunReturns
  ReaderEnds
CHECK_DEADLOCK FALSE
