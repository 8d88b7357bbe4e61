\* At the tills one product in quantities, two requests at a time, one of them may stop;
\* a catalogue of two products and two imports, two handlers at a time.
SPECIFICATION SpecParts
CONSTANTS
  None = None
  c1 = c1
  c2 = c2
  p1 = p1
  a1 = a1
  a2 = a2
  i1 = i1
  i2 = i2
  Products = {p1}
  Calls = {c1, c2}
  MaxQty = 2
  MaxShelf = 2
  MaxDepot = 0
  UsageLimit = 1
  Operations = {"sale", "cardSale", "return", "toShelf", "toDepot", "settings"}
  MaxCalls = 3
  MaxStops = 1
  Articles = {a1, a2}
  Imports = {i1, i2}
  Withdrawn = {a2}
  Inactive <- EveryFile
  MaxServed = 3
  MaxErrors = 1
SYMMETRY Symmetry
INVARIANTS
  BooksBalance
  ReturnsWithinSaleUnlessRaced
  UsesAreSales
  CatalogueInEffect
CHECK_DEADLOCK FALSE
