SPECIFICATION Spec
CONSTANTS
  Keys = {k1}
  None = None
  MaxVersion = 2
  TtlS = 1
  StaleS = 1
  RetentionS = 2
  MaxClock = 2
  Requests = {q1, q2}
  Backgrounds = {b1}
  Kinds = {"force", "swr", "watch"}
  MaxFaults = 1
SYMMETRY RequestSymmetry
CHECK_DEADLOCK FALSE
INVARIANTS HonestAnswer RetentionHolds AlarmOnce LockIsLive
PROPERTY NeverBack
