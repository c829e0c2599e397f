CONSTANTS
  Retailers = {r1, r2}
  Products = {p1, p2}
  Prices = {1}
  Messes <- CatalogMesses
  PageSize = 2
  MaxItems = 2
  MaxFailures = 1
  MaxCrashes = 0
SPECIFICATION Spec
SYMMETRY Symmetry
INVARIANTS OneProduct OffersCoverEvents
PROPERTY NothingVanishes
CHECK_DEADLOCK FALSE
