SPECIFICATION Spec
CONSTANTS
  r1 = r1
  r2 = r2
  p1 = p1
  Runs = {r1, r2}
  Papers = {p1}
  NoRun = NoRun
  NChunks = 2
  Empty = {}
  MaxCrashes = 1
SYMMETRY RunsAlike
INVARIANTS
  RunsAreWhole
  BuiltOnce
