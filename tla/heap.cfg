SPECIFICATION Spec
CONSTANTS
  Doc <- ThreeDocs
  Relevance <- TwoRelevances
  InitialSize = 2
  MaxOwed = 2
  Careful = TRUE
INVARIANTS TypeOK HistoryFits OwnedOnce OwedOnlyWhenEmpty
PROPERTIES ImplementsSearchQueue DrainEnds
CHECK_DEADLOCK FALSE
