SPECIFICATION FairSpec
CONSTANTS
  j1 = j1
  j2 = j2
  j3 = j3
  e1 = e1
  e2 = e2
  w1 = w1
  w2 = w2
  s1 = s1
  s2 = s2
  NoJob = NoJob
  NoWorker = NoWorker
  Children = {e1, e2}
  Jobs = {j1}
  Source <- ResearchOnly
  MaxAttempts = 2
  Coordinators = {w1, w2}
  Coordinator <- TwoCoordinators
  Sweepers = {s1, s2}
  Clients = {"c1"}
  Interleaved = TRUE
  LateChildren = FALSE
  MaxLate = 0
  MaxCrashes = 1
INVARIANTS
  OneChildPerAttempt
PROPERTIES
  CancelRequestSticks
  ActiveJobsEnd
CHECK_DEADLOCK FALSE
