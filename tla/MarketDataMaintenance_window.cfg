SPECIFICATION FairGateSpec
CONSTANTS
  j1 = j1
  e1 = e1
  p1 = p1
  u1 = u1
  u2 = u2
  Jobs = {j1}
  Experiments = {e1}
  Managed = {}
  Paper = {p1}
  Updaters = {u1, u2}
  NoUpdater = NoUpdater
  MaxDeaths = 1
INVARIANTS
  NoReadWhileWriting
  DrainIsComplete
  ClosedUntilWhole
  CachesAreCurrent
PROPERTIES
  DrainEnds
CHECK_DEADLOCK FALSE
