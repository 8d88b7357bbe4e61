\* The page promises to take the movement back: does cancelling it restore the stock?
SPECIFICATION Spec
CONSTANTS
  None = None
  c1 = c1
  Calls = {c1}
  Batches = {1, 2}
  Expired = {1}
  MaxOpening = 1
  MaxQty = 1
  MaxWrites = 3
  MaxStops = 0
PROPERTIES
  CancelRestores
CHECK_DEADLOCK FALSE
