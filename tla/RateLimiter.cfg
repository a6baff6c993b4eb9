\* Four requests within two windows; scripts run up to one unit late.
CONSTANTS
  Chains <- MCChains
  Requests = {r1, r2, r3, r4}
  Draws = {1, 2}
  MAX_DELAY = 1
  GRACE = 1
  MaxNow = 5
  MaxFaults = 1
SPECIFICATION Spec
SYMMETRY Symmetry
INVARIANTS
  LimitsKept RetryAfterSuffices RefusedOnlyAtLimit
CHECK_DEADLOCK FALSE
