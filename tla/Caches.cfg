\* One signing secret or one list of configurations, three readers at a time.
CONSTANTS
  TTL <- Life
  Readers = {r1, r2, r3}
  DELAY = 1
  MaxTime = 4
  MaxVersion = 3
  MaxFaults = 1
  MaxJobs = 2
SYMMETRY Symmetry
SPECIFICATION Spec
INVARIANTS StaleBounded InvalidatedIsGone
CHECK_DEADLOCK FALSE
