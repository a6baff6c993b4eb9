\* An account with an authenticator and one without, one API key, a FREE organization.
CONSTANTS
  Users = {u1, u2}
  Enrolled = {u1}
  Keys = {k1}
  Requests = {r1, r2}
  LIMIT = 1
  MaxStep = 2
  MaxRequests = 5
  MaxFaults = 1
  None = None
SYMMETRY Symmetry
SPECIFICATION Spec
INVARIANTS
  Inv CodeOnce RevocationIsFinal DestinationsBounded
CHECK_DEADLOCK FALSE
