\* One mobile order; two handlers at a time on stock, transfer requests, suggestions and
\* locations.
SPECIFICATION SpecParts
CONSTANTS
  None = None
  o1 = o1
  c1 = c1
  c2 = c2
  p1 = p1
  r1 = r1
  r2 = r2
  Orders = {o1}
  Calls = {c1, c2}
  Products = {p1}
  MaxQty = 2
  MaxEdits = 1
  MaxCalls = 4
  MaxFailures = 3
  CanCrash = TRUE
  Batches = {1, 2}
  Expired = {1}
  MaxOpening = 0
  MaxMoved = 1
  MaxWrites = 3
  Requests = {r1, r2}
  Depot = 2
  MaxStops = 1
  Suggestions = {r1, r2}
  MaxAsked = 6
  MaxFails = 1
  Locations = {r1, r2}
  Articles = {r1, r2}
  MaxPallet = 2
SYMMETRY Symmetry
INVARIANTS
  HandoffCleansOnce
  CleanedMeansTaken
  HistoryNotDangling
  WarehouseTypes
  BatchesWithinRow
  MovementsAddUp
  TransfersMatch
  SuggestionsMatchOrders
  DepotMatchesLocations
PROPERTIES
  ReopenedOnlyByStaleCall
  CancelRestoresCovered
  TransfersStayClosed
  SuggestionsStayDecided
CHECK_DEADLOCK FALSE
