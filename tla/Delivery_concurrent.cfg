\* Two events for one destination, two slots, one fault of any worker kind.
CONSTANTS
  Events = {e1, e2}
  Destinations = {c1}
  Slots = {s1, s2}
  MAX_RETRIES_PER_JOB = 2
  PAUSE_DESTINATION_AFTER = 3
  JOB_ATTEMPTS = 3
  MAX_STALLED = 1
  FaultKinds = {"lock", "db"}
  MaxFaults = 1
  NoDelivery = NoDelivery
  NoSlot = NoSlot
SYMMETRY Symmetry
SPECIFICATION Spec
INVARIANTS
  BreakerNotEarly PendingHasJobWithoutFaults
CHECK_DEADLOCK FALSE
