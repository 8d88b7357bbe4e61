\* Liveness, each component alone.
SPECIFICATION FairSpec
CONSTANTS
  None = None
  NoHash = NoHash
  c1 = c1
  c2 = c2
  p1 = p1
  u1 = u1
  r1 = r1
  e1 = e1
  Calls = {c1, c2}
  Orders = {1}
  Products = {p1}
  Users = {u1}
  Requests = {r1}
  Grants = {1, 2}
  LabelCalls = {c1}
  Labelled = {e1}
  MaxEvents = 2
  Prices = {1, 2}
  MaxLog = 2
  Window = 2
  MaxDay = 3
PROPERTIES
  NothingWaits
  LabelFollows
CHECK_DEADLOCK FALSE
