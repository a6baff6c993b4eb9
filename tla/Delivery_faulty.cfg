\* One delivery, three slots and two faults of every kind: duplicated jobs and stale slots.
CONSTANTS
  Events = {e1}
  Destinations = {c1}
  Slots = {s1, s2, s3}
  MAX_RETRIES_PER_JOB = 2
  PAUSE_DESTINATION_AFTER = 2
  JOB_ATTEMPTS = 3
  MAX_STALLED = 1
  FaultKinds = {"crash", "lock", "db", "redis", "enqueue"}
  MaxFaults = 2
  NoDelivery = NoDelivery
  NoSlot = NoSlot
SYMMETRY Symmetry
SPECIFICATION Spec
INVARIANTS
  IInv BoundedDuplicates SlotsBounded
PROPERTIES
  SettledStays ImplementsContract
CHECK_DEADLOCK FALSE
