SPECIFICATION Spec
CONSTANTS
  j1 = j1
  j2 = j2
  j3 = j3
  e1 = e1
  e2 = e2
  w1 = w1
  w2 = w2
  s1 = s1
  s2 = s2
  NoJob = NoJob
  NoWorker = NoWorker
  Children = {e1}
  Jobs = {j1, j2, j3}
  Source <- Mixed
  MaxAttempts = 2
  Coordinators = {w1}
  Coordinator <- OneCoordinator
  Sweepers = {s1}
  Clients = {"c1"}
  Interleaved = FALSE
  LateChildren = FALSE
  MaxLate = 0
  MaxCrashes = 1
INVARIANTS
  OneStory
  RetriesInOrder
PROPERTIES
  TerminalIsFinal
SYMMETRY SameKind
CHECK_DEADLOCK FALSE
