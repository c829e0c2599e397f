CONSTANTS
  Retailers = {r1}
  Products = {p1}
  Prices = {100, 2000, 2003}
  Messes <- PriceMesses
  PageSize = 1
  MaxItems = 5
  MaxFailures = 0
  MaxCrashes = 1
SPECIFICATION Spec
SYMMETRY Symmetry
INVARIANTS  SelfHeals
PROPERTY JumpsAreObserved
CHECK_DEADLOCK FALSE
