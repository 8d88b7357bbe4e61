\* One order of two lines, two requests at a time, a restart and an error.
SPECIFICATION Spec
CONSTANTS
  o1 = o1
  c1 = c1
  c2 = c2
  t1 = t1
  t2 = t2
  Orders = {o1}
  Calls = {c1, c2}
  Ticks = {t1, t2}
  NLines = 2
  MaxCalls = 6
  MaxFailures = 1
  CanCrash = TRUE
SYMMETRY Symmetry
INVARIANTS
  TypeOK
  StockAppliedOnce
  BookedMeansStocked
PROPERTIES
  ImplementsStockEntry
CHECK_DEADLOCK FALSE
