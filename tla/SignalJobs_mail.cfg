CONSTANTS
  s1 = s1
  r1 = r1
  d1 = d1
  d2 = d2
  v1 = v1
  w1 = w1
  w2 = w2
  Scans = {s1}
  Reports = {r1}
  Deliveries = {d1}
  Renders = {v1}
  Automatic = {}
  ScanOf <- OneScan
  ReportOf <- OneReport
  Workers = {w1, w2}
  Clients = {"c1"}
  Cleaners = {}
  NoJob = NoJob
  NoWorker = NoWorker
  MaxAttempts = 3
  MailEnabled = TRUE
  LateWorkers = FALSE
  MaxLate = 0
  MaxCrashes = 2
SPECIFICATION Spec
CHECK_DEADLOCK FALSE
SYMMETRY Interchangeable
INVARIANTS Honest
PROPERTIES VerdictStands MailsOnce
