\* Batches of up to three points: two series, candles with and without faults,
\* times on and off the grid, one of them in the
\* future; no interval expected, or one of two.
SPECIFICATION Spec
CONSTANTS
  Series = {s1, s2}
  Time <- Times
  Candle <- Mixed
  Deadline = 6
  Interval = {1, 2}
  MaxLength = 3
  None = None
CHECK_DEADLOCK FALSE
SYMMETRY Symmetry
INVARIANTS KeepsRecords Idempotent AccountsForEveryPoint GapsAreTheMissingCandles
PROPERTIES LaterPointsChangeNothing
