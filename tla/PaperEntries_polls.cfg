\* Three intents, two of them for one order; one fault.
SPECIFICATION Spec
CONSTANTS
  i1 = i1
  i2 = i2
  i3 = i3
  a = a
  b = b
  Listed <- Sequence
  RunOf <- RunsOf
  Name <- NameOf
  Lot <- Lots
  MaxFaults = 1
INVARIANT
  ReportsAreTrue
PROPERTY
  EntriesEnd
CHECK_DEADLOCK FALSE
