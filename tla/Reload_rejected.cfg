CONSTANTS
  Labels = {base}
  Posters = {p1}
  MaxHups = 1
  MaxEdits = 1
  MaxRuns = 1
  MaxPings = 0
  None = None
SPECIFICATION Spec
CHECK_DEADLOCK FALSE
INVARIANTS
  PreviousKeepsReporting
