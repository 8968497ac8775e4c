CONSTANTS
  Labels = {base, more}
  Posters = {p1}
  MaxHups = 1
  MaxEdits = 1
  MaxRuns = 0
  MaxPings = 0
  None = None
SPECIFICATION Spec
CHECK_DEADLOCK FALSE
INVARIANTS
  NewLabelsAreAccepted
