SPECIFICATION PagesSpec
CONSTANTS
  JobIds = {1}
  Claims = {c1}
  Prints = {p1}
  PageKeys = {k1}
  None = None
  MaxRecords = 1
  MaxAttempts = 1
  RetentionS = 1
  TombstoneS = 1
  MaxClock = 3
  StaleBy = 1
  Watched = 1
  MaxItems = 2
SYMMETRY Symmetry
INVARIANTS CompleteMeansEverything
