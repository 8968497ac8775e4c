SPECIFICATION Spec
CONSTANTS
  Files <- AnyFiles
  Cli <- SomeHosts
  Family <- Families
  Previous <- NoFile
  Absent = Absent
INVARIANTS
  TypeOK
  AcceptedGroupsBuild
  EveryPairScheduled
  
  RemoteAddsNoClash
  SchedulersCanRun
  IntervalsAreAsWritten
CHECK_DEADLOCK FALSE
