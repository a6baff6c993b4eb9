\* Fair workers, two deliveries competing for one slot, one worker fault.
CONSTANTS
  Events = {e1, e2}
  Destinations = {c1}
  Slots = {s1}
  MAX_RETRIES_PER_JOB = 2
  PAUSE_DESTINATION_AFTER = 3
  JOB_ATTEMPTS = 3
  MAX_STALLED = 1
  FaultKinds = {"crash", "lock", "db", "redis"}
  MaxFaults = 1
  NoDelivery = NoDelivery
  NoSlot = NoSlot
SPECIFICATION FairSpec
PROPERTIES
  JobSettles
CHECK_DEADLOCK FALSE
