SPECIFICATION Spec
CONSTANTS
  Property <- TwoProperties
  PropertySize = 9
  Name <- TwoNames
  Coordinate <- TwoPlaces
  MaxLocations = 2
  MaxServers = 4
INVARIANTS TypeOK ZeroIffSame HalvesSorted PrintedInOrder
PROPERTIES ImplementsRanking Finishes
CHECK_DEADLOCK FALSE
