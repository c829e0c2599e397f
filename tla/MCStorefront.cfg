CONSTANTS
  Retailers <- ThreeShops
  Prices = {80}
  Tables <- ShapeTables
  Rules <- SomeRules
  Queries <- SomeQueries
  CollectionSize = 1
  ScanCap = 4
  CandidateCap = 2
  DealsMax = 1
  MaxWrites = 1
SPECIFICATION Spec
INVARIANTS  PointsAreNamed
PROPERTIES CheapestFirst PageComplete CutIsReported DealsAreDislocations DealsComeBack
CHECK_DEADLOCK FALSE
