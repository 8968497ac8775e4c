SPECIFICATION Spec
CONSTANTS
  MaxRuns = 6
  Dest <- OneHost
  ChunkCap = 2
  MaxStray = 0
INVARIANTS
  TypeOK
  KeptMeansQuiet
  InputIsBounded
  DialIsOver
PROPERTIES
  ImplementsShell
CHECK_DEADLOCK FALSE
