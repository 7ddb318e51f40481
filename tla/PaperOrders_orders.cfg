\* Two strategies of a portfolio, the scheduler and a request, a fault.
SPECIFICATION Spec
CONSTANTS
  s1 = s1
  s2 = s2
  a = a
  b = b
  sch = sch
  req = req
  Sleeves = {s1, s2}
  Allocated <- InOrder
  Symbols = {a}
  Runners = {sch, req}
  Schedulers = {sch}
  Capital = 1
  Lot = 1
  MaxPositions = 1
  LastDay = 2
  MaxRuns = 2
  MaxOrders = 2
  MaxFaults = 1
INVARIANTS
  CompletedRunOwnsItsOrders
  ScheduledOnce
  OneLotAtMost
PROPERTY
  OneOrderPerIntent
