\* One order, one request at a time: is an item added after the hand-off safe?
SPECIFICATION Spec
CONSTANTS
  o1 = o1
  c1 = c1
  p1 = p1
  Orders = {o1}
  Calls = {c1}
  Products = {p1}
  MaxQty = 2
  MaxEdits = 1
  MaxCalls = 4
  MaxFailures = 0
  CanCrash = FALSE
INVARIANTS
  LaterItemsIntact
CHECK_DEADLOCK FALSE
