SPECIFICATION PagesSpec
CONSTANTS
  JobIds = {1}
  Claims = {c1}
  Prints = {p1}
  PageKeys = {k1, k2}
  None = None
  MaxRecords = 1
  MaxAttempts = 2
  RetentionS = 1
  TombstoneS = 1
  MaxClock = 2
  StaleBy = 0
  Watched = 1
  MaxItems = 2
SYMMETRY Symmetry
INVARIANTS PagesInOrder CompleteIsWhole CursorStaysValid
PROPERTIES ResultsAppendOnly
