\* One user, two handlers or scans at a time, one of them may stop.
SPECIFICATION Spec
CONSTANTS
  None = None
  c1 = c1
  c2 = c2
  u1 = u1
  r1 = r1
  r2 = r2
  g1 = g1
  g2 = g2
  g3 = g3
  Calls = {c1, c2}
  Users = {u1}
  Requests = {r1, r2}
  Grants = {g1, g2, g3}
  MaxTime = 2
  MaxDuration = 2
  MaxCalls = 5
  MaxToggles = 1
  MaxStops = 1
SYMMETRY Symmetry
INVARIANTS
  TypeOK
  GrantsFollowDecisions
PROPERTIES
  DecidedOnceUnlessRaced
  RevocationHolds
  AccessEndsOnPurpose
