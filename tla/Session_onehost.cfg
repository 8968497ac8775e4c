SPECIFICATION Spec
CONSTANTS
  MaxRuns = 3
  Dest <- OneHost
  ChunkCap = 1
  MaxStray = 1
INVARIANTS
  OutputIsOwn
CHECK_DEADLOCK FALSE
