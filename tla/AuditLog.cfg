\* Three denied requests and batches of two; every kind of fault, two of them.
CONSTANTS
  Entries = {e1, e2, e3}
  Writers = {w1, w2}
  BATCH_SIZE = 2
  FaultKinds = {"db", "redis", "crash", "stop"}
  MaxFaults = 2
  NoEntry = NoEntry
SPECIFICATION FairSpec
INVARIANTS
  Inv NothingLost BoundedCopies
PROPERTIES
  AuditSettles
CHECK_DEADLOCK FALSE
