CONSTANTS
  Tabs = {t1, t2}
  Slots <- MCSlots
  Orders <- MCOrders
  Plans = {p1, p2}
  MaxTasks = 3
  MaxFaults = 1
  None = None
SPECIFICATION Spec
INVARIANTS Inv ActivationIsChosen ToldIsGranted OneOpenOrder
SYMMETRY MCSymmetry
CHECK_DEADLOCK FALSE
