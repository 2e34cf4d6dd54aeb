SPECIFICATION Spec
CONSTANTS
  None = None
  Callers = {c1, c2, c3}
  Hosts = {h, g}
  Locks = {l1, l2, l3, l4}
  Spacings = {1}
  RetryAfters = {0, 3}
  MaxCooldown = 3
  MaxClock = 3
SYMMETRY PoliteSymmetry
CHECK_DEADLOCK FALSE
PROPERTY NeverTooEarly
