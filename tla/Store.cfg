\* Documents of two lines, one label, one price, two days; two handlers at a time.
SPECIFICATION SpecParts
CONSTANTS
  None = None
  NoHash = NoHash
  c1 = c1
  c2 = c2
  p1 = p1
  p2 = p2
  e1 = e1
  Products = {p1, p2}
  Calls = {c1, c2}
  MaxQty = 1
  MaxShelf = 1
  MaxDepot = 0
  UsageLimit = 1
  Operations = {"sale", "return"}
  MaxCalls = 3
  MaxStops = 0
  Labelled = {e1}
  LocalStaff = FALSE
  MaxEvents = 2
  MaxStale = 1
  Prices = {1, 2}
  MaxLog = 3
  MaxFails = 1
  Window = 2
  MaxDay = 2
  MaxSales = 1
SYMMETRY Symmetry
INVARIANTS
  DocumentsBooked
  FullMeansReturned
  StoreTypes
  ConfirmedMeansDrawn
  KnownMeansInstalledUnlessRaced
  PriceFollowsLog
  TemporaryPriceEnds
PROPERTIES
  AssignmentChangedOnPurpose
  EndsOnce
  ClosingsOrderly
CHECK_DEADLOCK FALSE
