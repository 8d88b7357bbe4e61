\* One request at a time; two sales draw the same number.
SPECIFICATION Spec
CONSTANTS
  None = None
  c1 = c1
  p1 = p1
  Products = {p1}
  Calls = {c1}
  MaxQty = 1
  MaxShelf = 2
  MaxDepot = 0
  UsageLimit = 1
  Operations = {"sale"}
  MaxCalls = 2
  MaxStops = 0
INVARIANTS
  StockFollowsDocuments
CHECK_DEADLOCK FALSE
