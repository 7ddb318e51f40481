SPECIFICATION FairSpec
CONSTANTS
  t1 = t1
  t2 = t2
  t3 = t3
  c1 = c1
  c2 = c2
  NoTrial = NoTrial
  Trials = {t1, t2, t3}
  Round <- TwoRounds
  Evidence = {t1, t3}
  MaxRounds = 2
  Controllers = {c1, c2}
  QueueLimit = 2
  MaxAttempts = 2
  HasPolicy = TRUE
  Overtaken = FALSE
  MaxRuns = 2
  MaxCrashes = 1
INVARIANTS
  SettledIsWhole
  VerdictFits
  PromotionIsEarned
PROPERTIES
  EndsAreFinal
  WorkEnds
CHECK_DEADLOCK FALSE
