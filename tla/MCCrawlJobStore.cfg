SPECIFICATION StoreSpec
CONSTANTS
  JobIds = {1, 2, 3}
  Claims = {c1}
  Prints = {p1, p2}
  PageKeys = {k1}
  None = None
  MaxRecords = 2
  MaxAttempts = 1
  RetentionS = 1
  TombstoneS = 1
  MaxClock = 2
  StaleBy = 1
SYMMETRY Symmetry
INVARIANTS StoreTypeOK OneOutcomePerPage UniqueClaim RecordCap
PROPERTIES TerminalIsFinal TombstoneKept
