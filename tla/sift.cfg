SPECIFICATION Spec
CONSTANTS
  Doc <- FiveDocs
  Relevance <- TwoRelevances
INVARIANTS TypeOK NoDocTwice OrderedWhenIdle LoopsMeetOperators
PROPERTIES PrintsTheBest LoopsEnd
