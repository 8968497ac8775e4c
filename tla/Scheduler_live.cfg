CONSTANTS
  Targets = {t1, t2}
  Workers = {w1, w2}
  Results <- OneResult
  MinBackoff = 1
  MaxBackoff = 1
  MaxFires = 2
  MaxDialErrors = 1
  NoTarget = NoTarget
SPECIFICATION FairSpec
PROPERTIES
  StopReturns
  PendingIsServed
