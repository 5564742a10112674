---------------------------- MODULE DataValidation ----------------------------
(***************************************************************************)
(* What validate_and_normalize (data_validation.py) makes of a batch of    *)
(* raw candles: the points it keeps, the ones it rejects, the duplicates   *)
(* it removes and the gaps it reports.                                     *)
(*                                                                         *)
(* The algorithm is a function of the batch. The specification lets a      *)
(* batch grow by one point at a time, so that the properties are checked   *)
(* of every batch and of every way to go on with it.                       *)
(*                                                                         *)
(* Times are instants on a clock of whole units: a raw point always has a  *)
(* time zone, its constructor refuses one without. A price of 0 stands for *)
(* any that is not finite and positive.                                    *)
(***************************************************************************)
EXTENDS Naturals, SequencesExt, FiniteSetsExt

CONSTANTS
  Series,     \* broker, asset, timeframe and origin of a point
  Time,       \* timestamps of raw points
  Candle,     \* candles: price (the close), open, high and low
  Deadline,   \* the time of the validation, with the clock skew it tolerates
  Interval,   \* times between two candles that a caller may name
  MaxLength,  \* bound: points of a batch
  None        \* open, high or low, or the expected interval, not given

Candles == [ price : Nat, open : Nat \cup {None}, high : Nat \cup {None}, low : Nat \cup {None} ]

ASSUME NoneAssumption == None \notin Nat
ASSUME CandleAssumption == Candle \subseteq Candles
ASSUME TimeAssumption == Time \subseteq Nat /\ Deadline \in Nat
ASSUME IntervalAssumption == Interval \subseteq Nat \ {0}
ASSUME BoundAssumption == MaxLength \in Nat

VARIABLE batch  \* the raw points, in the order the caller passes them

\* What a caller gives as expected_interval_seconds, nothing by default; one
\* that is not positive raises an error and there is no report.
Expected == Interval \cup {None}

RawPricePoint == [ series : Series, time : Time, candle : Candle ]

-----------------------------------------------------------------------------
(* The checks on one point *)

FinitePositive(x) == x > 0

Given(x) == x # None

ValidCandle(c) ==
  /\ FinitePositive(c.price)
  /\ \A x \in {c.open, c.high, c.low} : Given(x) => FinitePositive(x)
  /\ Given(c.high) /\ Given(c.low) => c.high >= c.low
  /\ Given(c.high) => c.price <= c.high
  /\ Given(c.low) => c.price >= c.low
  /\ Given(c.open) /\ Given(c.high) => c.open <= c.high
  /\ Given(c.open) /\ Given(c.low) => c.open >= c.low

\* The first point names the series of the batch, whether it is kept or not.
Admissible(b, p) ==
  /\ p.series = Head(b).series
  /\ ValidCandle(p.candle)
  /\ p.time <= Deadline

Admitted(b) ==
  FoldLeft(LAMBDA kept, p : IF Admissible(b, p) THEN Append(kept, p) ELSE kept, <<>>, b)

-----------------------------------------------------------------------------
(* The passes over the admitted points *)

\* Mutant: earlier than the point before it, kept or not.
InOrderOfInput(s) ==
  LET kept == SelectSeq([i \in 1 .. Len(s) |-> i],
                        LAMBDA i : i = 1 \/ s[i].time >= s[i - 1].time)
  IN  [i \in 1 .. Len(kept) |-> s[kept[i]]]

\* Mutant: the points are sorted, none is rejected.
Sorted(s) == SortSeq(s, LAMBDA p, q : p.time < q.time)

\* A point earlier than the last one kept is rejected.
InOrder(s) ==
  FoldLeft(LAMBDA kept, p : IF kept # <<>> /\ p.time < Last(kept).time
                            THEN kept ELSE Append(kept, p),
           <<>>, s)

\* Mutant: only a repetition of the very same candle is a duplicate.
DeduplicateEqual(s) ==
  FoldLeft(LAMBDA kept, p : IF Contains(kept, p) THEN kept ELSE Append(kept, p),
           <<>>, s)

\* The first point of each time is kept.
Deduplicate(s) ==
  FoldLeft(LAMBDA kept, p : IF \E q \in ToSet(kept) : q.time = p.time
                            THEN kept ELSE Append(kept, p),
           <<>>, s)

Occurrences(s, t) == Cardinality({ i \in 1 .. Len(s) : s[i].time = t })

Duplicates(s) ==
  { [ time |-> t, occurrences |-> Occurrences(s, t) ] :
      t \in { p.time : p \in { q \in ToSet(s) : Occurrences(s, q.time) > 1 } } }

\* Mutant: longer than two intervals.
IsLongGap(from, to, expected) == to - from > 2 * expected

\* Longer than one and a half intervals.
IsGap(from, to, expected) == 2 * (to - from) > 3 * expected

Gaps(s, expected) ==
  { i \in 1 .. Len(s) - 1 : IsGap(s[i].time, s[i + 1].time, expected) }

-----------------------------------------------------------------------------
(* The batch *)

Kept(b) == Deduplicate(InOrder(Admitted(b)))

\* Mutant: the points out of order are not reported.
RejectedAtOnce(b) == Len(b) - Len(Admitted(b))

Rejected(b) == Len(b) - Len(InOrder(Admitted(b)))

\* Gaps are looked for only when the caller names the interval to expect, and
\* nothing else of the report depends on it.
QualityReport(b, expected) ==
  [ total_input |-> Len(b),
    total_accepted |-> Len(Kept(b)),
    total_rejected |-> Rejected(b),
    duplicates |-> Duplicates(InOrder(Admitted(b))),
    gaps |-> IF Given(expected) THEN Gaps(Kept(b), expected) ELSE {} ]

Init == batch = <<>>

Receive ==
  /\ Len(batch) < MaxLength
  /\ \E p \in RawPricePoint : batch' = Append(batch, p)

Next == Receive

Spec == Init /\ [][Next]_batch

-----------------------------------------------------------------------------
(* Properties *)

Consistent(c) ==
  LET given == { x \in {c.price, c.open, c.high, c.low} : Given(x) }
  IN  \A x \in given : /\ x > 0
                       /\ Given(c.high) => x <= c.high
                       /\ Given(c.low) => x >= c.low

Sound(b) ==
  { i \in 1 .. Len(b) : /\ b[i].series = b[1].series
                        /\ Consistent(b[i].candle)
                        /\ b[i].time <= Deadline }

\* The points kept are the sound ones later than every sound one before them,
\* in the order of the batch: one that is rejected for its candle, its series
\* or a time to come costs no other its place, and neither a point out of
\* order nor one repeated moves the bar for those after it.
KeepsRecords ==
  LET records == { i \in Sound(batch) :
                     \A j \in Sound(batch) : j < i => batch[j].time < batch[i].time }
  IN  /\ Len(Kept(batch)) = Cardinality(records)
      /\ \A i \in records :
           Kept(batch)[Cardinality({ j \in records : j <= i })] = batch[i]

\* Points that come later never change what is kept of the ones before them:
\* a longer download extends the sample, it does not rewrite it.
LaterPointsChangeNothing == [][IsPrefix(Kept(batch), Kept(batch'))]_batch

\* A validated sample is accepted whole: to validate it again rejects nothing,
\* finds no duplicate and keeps every point. promote_to_processed stores such
\* a sample with an empty report and does not validate it again.
Idempotent ==
  LET again == QualityReport(Kept(batch), None)
  IN  /\ Kept(Kept(batch)) = Kept(batch)
      /\ again.total_rejected = 0
      /\ again.duplicates = {}

\* Every point of the batch is kept, rejected or a repetition the report names:
\* none disappears from the audit.
AccountsForEveryPoint ==
  LET report == QualityReport(batch, None)
      Removed(finding) == finding.occurrences - 1
  IN  report.total_input = report.total_accepted + report.total_rejected
                           + MapThenSumSet(Removed, report.duplicates)

\* Of a sample on the grid of the timeframe, when the caller names the interval
\* of that grid, the report has a gap between two neighbours exactly when a
\* candle is missing there: without one the sample is contiguous. It promises
\* nothing of a validation without an interval, which reports no gap whatever is
\* missing (import-data names none, nor does
\* test_gaps_not_computed_without_expected_interval), nor off the grid.
GapsAreTheMissingCandles ==
  \A expected \in Expected :
    LET s == Kept(batch)
        gaps == QualityReport(batch, expected).gaps
        OnGrid == \A i \in 1 .. Len(s) : s[i].time % expected = 0
    IN  Given(expected) /\ OnGrid =>
          \A i \in 1 .. Len(s) - 1 :
            i \in gaps <=> s[i + 1].time # s[i].time + expected

=============================================================================
