\* Two managers, two jobs, two slots, faults.
SPECIFICATION ManagerSpec
CONSTANTS
  m1 = m1
  m2 = m2
  j1 = j1
  j2 = j2
  Managers = {m1, m2}
  Nobody = Nobody
  Jobs = {j1, j2}
  Slots = 2
  MaxFaults = 2
INVARIANT
  OneGroup
PROPERTY
  QueuedJobsEnd
