\* A payment that fails and one that succeeds, and two lapsing plans.
CONSTANTS
  Orders = {o1}
  Pays = {p1, p2}
  Requests = {r1}
  Hooks = {h1}
  Subscribed = {"captured", "failed"}
  Plans = {"PRO", "SCALE"}
  PERIOD = 1
  FaultKinds = {}
  MaxFaults = 0
  AdminOps = {}
  MaxExtensions = 0
  MaxNow = 3
  NoPay = NoPay
  NoOrder = NoOrder
SPECIFICATION FairSpec
PROPERTIES
  PaidIsGranted LapsedReturnsToFree
CHECK_DEADLOCK FALSE
