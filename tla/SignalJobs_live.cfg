CONSTANTS
  s1 = s1
  r1 = r1
  d1 = d1
  d2 = d2
  v1 = v1
  w1 = w1
  w2 = w2
  Scans = {s1}
  Reports = {r1}
  Deliveries = {d1}
  Renders = {}
  Automatic = {r1}
  ScanOf <- OneScan
  ReportOf <- OneReport
  Workers = {w1, w2}
  Clients = {}
  Cleaners = {"k1"}
  NoJob = NoJob
  NoWorker = NoWorker
  MaxAttempts = 2
  MailEnabled = TRUE
  LateWorkers = FALSE
  MaxLate = 0
  MaxCrashes = 1
SPECIFICATION LiveSpec
CHECK_DEADLOCK FALSE
PROPERTIES DeliveryEnds ReportFollows NoMailAfterExpiry
