SPECIFICATION Spec
CONSTANTS
  JobIds = {1}
  Claims = {c1}
  Prints = {p1}
  PageKeys = {k1, k2}
  None = None
  MaxRecords = 1
  MaxAttempts = 2
  RetentionS = 1
  TombstoneS = 1
  MaxClock = 1
  StaleBy = 0
  MaxPages = 2
  MaxCrashes = 1
  MaxFaults = 1
  MaxStrays = 1
SYMMETRY Symmetry
INVARIANTS HonestAccounts
PROPERTIES EveryJobLives UsesStore
