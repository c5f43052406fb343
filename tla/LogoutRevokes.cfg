SPECIFICATION Spec
CONSTANTS
  ann = ann
  bob = bob
  u1 = u1
  u2 = u2
  r1 = r1
  r2 = r2
  None = None
  Clients <- MCClients
  Admins <- MCAdmins
  Ids <- MCIds
  Requests <- MCRequests
  Spellings <- MCSpellings
  Canonical <- MCCanonical
  Bodies <- MCBodies
  MaxCalls = 3
  MaxFaults = 1
CHECK_DEADLOCK FALSE
INVARIANTS LogoutRevokes
