\* One handler at a time; a user is disabled, another's grant is over.
SPECIFICATION Spec
CONSTANTS
  None = None
  c1 = c1
  u1 = u1
  u2 = u2
  r1 = r1
  r2 = r2
  g1 = g1
  g2 = g2
  Calls = {c1}
  Users = {u1, u2}
  Requests = {r1, r2}
  Grants = {g1, g2}
  MaxTime = 1
  MaxDuration = 2
  MaxCalls = 4
  MaxToggles = 1
  MaxStops = 0
PROPERTIES
  ScanClosesWhatIsDue
