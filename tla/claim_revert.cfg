SPECIFICATION Spec
CONSTANTS
  Doc <- FourDocs
  Relevance <- TwoRelevances
  InitialSize = 2
  MaxOwed = 1
  Careful = FALSE
PROPERTIES RevertRestores
CHECK_DEADLOCK FALSE
