CONSTANTS
  Targets = {t1, t2}
  Workers = {w1, w2}
  Results <- ManyResults
  MinBackoff = 2
  MaxBackoff = 7
  MaxFires = 4
  MaxDialErrors = 1
  NoTarget = NoTarget
SPECIFICATION Spec
SYMMETRY Symmetry
INVARIANTS
  TypeOK
  PendingIsOnePlace
  QueueHasRoom
  EveryFireAccounted
  LossIsReal
  GaugeCountsSessions
  StopIsClean
  

  
