SPECIFICATION FairSpec
CONSTANTS
  JobIds = {1, 2}
  Claims = {c1, c2}
  Prints = {p1}
  PageKeys = {}
  None = None
  MaxRecords = 2
  MaxAttempts = 2
  RetentionS = 1
  TombstoneS = 1
  MaxClock = 0
  StaleBy = 0
  MaxPages = 0
  MaxCrashes = 1
  MaxFaults = 2
  MaxStrays = 0
INVARIANTS NoJobForgotten
PROPERTIES CancelWins JobSettles
