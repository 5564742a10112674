\* Five candles of every kind, the fifth arriving while the loop runs and the
\* first leaving the history; pages of two, a target of three.
SPECIFICATION FairSpec
CONSTANTS
  MaxTime = 5
  Start = 4
  Window = 4
  PageSize = 2
  Target = 3
INVARIANTS TypeOK NoCandleSkipped
PROPERTIES CollectionEnds
