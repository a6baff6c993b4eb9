\* One organization with an owner and an administrator, one address without an account.
CONSTANTS
  acme = acme
  owner = owner
  admin = admin
  Users = {owner, admin, guest}
  Orgs = {acme, o2, o3}
  Invites = {i1, i2, i3}
  Requests = {r1, r2}
  Registered = {owner, admin}
  Seed <- TeamSeed
  AnswersOverlap = FALSE
  AdminOps = {"delete", "status"}
  MaxRequests = 4
  MaxFaults = 1
  None = None
SYMMETRY Symmetry
SPECIFICATION Spec
INVARIANTS
  Inv CreationsBounded AcceptedHasJoined PasswordlessHasToken
PROPERTY LaterMembershipSpared
CHECK_DEADLOCK FALSE
