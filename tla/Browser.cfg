\* Every kind of page with two requests and two lists under way, three moves or
\* requests and one missed answer; two tabs and two accounts, four sign-ins, saves,
\* sign-outs or reloads.
CONSTANTS
  Kinds <- MCKinds
  Requests = {t1, t2}
  Loads = 2
  MaxActed = 3
  MaxMissed = 1
  Accounts = {a1, a2}
  Windows = {w1, w2}
  MaxAsked = 4
  Nothing = Nothing
SPECIFICATION MCSpec
INVARIANTS ButtonsComeBack ShownIsAnswered ShownIsSession
PROPERTIES FinalStays
SYMMETRY MCSymmetry
CHECK_DEADLOCK FALSE
