CONSTANTS
  Labels = {base}
  Posters = {p1}
  MaxHups = 1
  MaxEdits = 0
  MaxRuns = 0
  MaxPings = 0
  None = None
SPECIFICATION Spec
CHECK_DEADLOCK FALSE
INVARIANTS
  HupEndsNothing
