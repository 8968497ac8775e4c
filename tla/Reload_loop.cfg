CONSTANTS
  Labels = {base}
  Posters = {p1}
  MaxHups = 2
  MaxEdits = 1
  MaxRuns = 1
  MaxPings = 1
  None = None
SPECIFICATION FairSpec
CHECK_DEADLOCK FALSE
INVARIANTS
  TypeOK
  NeverPanics
  OneScheduler
  ExportedLossIsReal
  ReloadIsWhole
  PostIsFresh
  HupIsServed
PROPERTIES
  EveryPostIsAnswered
  CollectorComesBack
