SPECIFICATION Spec
CONSTANTS
  JobIds = {1}
  Claims = {c1}
  Prints = {p1}
  PageKeys = {}
  None = None
  MaxRecords = 1
  MaxAttempts = 1
  RetentionS = 1
  TombstoneS = 1
  MaxClock = 0
  StaleBy = 0
  MaxPages = 1
  MaxCrashes = 0
  MaxFaults = 0
  MaxStrays = 0
PROPERTIES CancelStopsAdmission
