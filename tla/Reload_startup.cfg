CONSTANTS
  Labels = {base}
  Posters = {p1}
  MaxHups = 0
  MaxEdits = 0
  MaxRuns = 0
  MaxPings = 1
  None = None
SPECIFICATION Spec
CHECK_DEADLOCK FALSE
INVARIANTS
  LocalLossIsReal
