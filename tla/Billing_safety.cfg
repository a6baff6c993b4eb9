\* An order paid at the second attempt, a verification request, a webhook handler,
\* every operation of administrators and one fault.
CONSTANTS
  Orders = {o1}
  Pays = {p1, p2}
  Requests = {r1}
  Hooks = {h1}
  Subscribed = {"captured", "failed"}
  Plans = {"PRO"}
  PERIOD = 1
  FaultKinds = {"abort", "capture"}
  MaxFaults = 1
  AdminOps = {"refund", "retry", "extend", "plan", "suspend"}
  MaxExtensions = 1
  MaxNow = 2
  NoPay = NoPay
  NoOrder = NoOrder
SYMMETRY Symmetry
SPECIFICATION Spec
INVARIANTS
  GrantedOnce GrantIsCaptured EntitledHasPaid PeriodIsPaidFor
CHECK_DEADLOCK FALSE
