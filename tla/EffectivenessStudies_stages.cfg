SPECIFICATION FairSpec
CONSTANTS
  st = st
  d0 = d0
  f0 = f0
  a1 = a1
  a2 = a2
  u1 = u1
  Study = st
  Discovery = d0
  Final = f0
  Annual = {a1, a2}
  MaxTries = 2
  EarlyReports = FALSE
  Jobs = {}
  Experiments = {st, d0, a1, a2, f0}
  Managed = {st, d0, a1, a2, f0}
  Paper = {}
  Updaters = {u1}
  NoUpdater = NoUpdater
  MaxDeaths = 1
INVARIANTS
  StagesInOrder
PROPERTIES
  StudySeesOneVersion
  StudyEnds
CHECK_DEADLOCK FALSE
