SPECIFICATION Spec
CONSTANTS
  Jobs <- SomeJobs
  Slack = 2
  MaxCommands = 2
INVARIANTS
  TypeOK
  NoFalseLoss
  WholeOutputIsUnderstood
  ObeyedCommandEndsInTime
CHECK_DEADLOCK FALSE
