------------------------------- MODULE Backtest -------------------------------
(***************************************************************************)
(* The measures of a rule over a series of candles: the signals it gives   *)
(* (strategy.py), the operations simulated from them (backtest_engine.py), *)
(* what they earn and what they do to the capital (metrics.py), and the    *)
(* same window by window (walk_forward.py).                                *)
(*                                                                         *)
(* Indices of candles are the code's, from 0. Fractions are pairs          *)
(* <<numerator, denominator>>, and exact: the floating point of the code   *)
(* is not modelled. A price is a natural number, and 0 one that is absent. *)
(* The capital after k operations is a multiple of its unit at that time,  *)
(* which gets smaller by the factor Unit with every operation.             *)
(***************************************************************************)
EXTENDS Integers, SequencesExt, FiniteSetsExt, Lifecycle

CONSTANTS
  Payout,           \* the payout of the dataset, a fraction
  CapitalScenarios  \* the initial capitals of the simulations

Fraction == { f \in Int \X Nat : f[2] > 0 }

LessThan(f, g) == f[1] * g[2] < g[1] * f[2]
Minus(f, g) == << f[1] * g[2] - g[1] * f[2], f[2] * g[2] >>
Zero == <<0, 1>>

ASSUME PayoutAssumption == Payout \in Nat \X Nat /\ Payout[1] > 0 /\ Payout[2] > 0
ASSUME CapitalAssumption ==
  CapitalScenarios # {} /\ IsFiniteSet(CapitalScenarios) /\ CapitalScenarios \subseteq Nat \ {0}

Absent == 0

\* A candle of the validated series, with the hour of its timestamp.
Point == [ price : Nat \ {0}, open : Nat, high : Nat, low : Nat, hour : 0 .. 23 ]

Always == << >>  \* a rule without an hour window

\* StrategyRule refuses other parameters.
ValidRule(rule) ==
  /\ rule \in [ source : {"MOMENTUM", "STREAK", "ALTERNATION", "BODY_RATIO"},
                mode : {"FOLLOW", "REVERT"}, lookback : Nat \ {0}, expiry : Nat \ {0},
                streak : Nat \ {0}, threshold : Fraction,
                window : {Always} \cup (0 .. 23) \X (0 .. 23) ]
  /\ rule.threshold[1] >= 0
  /\ rule.source = "ALTERNATION" => rule.lookback >= 2

\* The elements that pass, in their order.
Filter(s, Test(_)) ==
  FoldLeft(LAMBDA kept, x : IF Test(x) THEN Append(kept, x) ELSE kept, << >>, s)

-----------------------------------------------------------------------------
(* Signals *)

\* Indexing as Python does it: a negative index counts from the end.
PointAt(points, i) == points[IF i >= 0 THEN i + 1 ELSE Len(points) + i + 1]

Opposite(color) == IF color = "UP" THEN "DOWN" ELSE "UP"

\* The close against the open or, without one, against the close before it.
CandleColor(points, i) ==
  LET p == PointAt(points, i)
      reference == CASE p.open # Absent -> p.open
                     [] p.open = Absent /\ i > 0 -> PointAt(points, i - 1).price
                     [] OTHER -> p.price
  IN  CASE p.price > reference -> "UP"
        [] p.price < reference -> "DOWN"
        [] OTHER -> "DOJI"

DirectionFromColor(color, mode) ==
  CASE color = "DOJI" -> None
    [] color = "UP" -> IF mode = "FOLLOW" THEN "CALL" ELSE "PUT"
    [] color = "DOWN" -> IF mode = "FOLLOW" THEN "PUT" ELSE "CALL"

\* Mutant: a window over midnight taken for one within a day.
WithinSameDay(hour, window) ==
  window = Always \/ (window[1] <= hour /\ hour <= window[2])

WithinHourWindow(hour, window) ==
  \/ window = Always
  \/ /\ window[1] <= window[2]
     /\ window[1] <= hour /\ hour <= window[2]
  \/ /\ window[1] > window[2]
     /\ window[1] <= hour \/ hour <= window[2]

\* Mutant: as many candles as are compared, and none for the first reference.
CandlesCompared(rule) ==
  CASE rule.source = "STREAK" -> rule.streak
    [] rule.source = "BODY_RATIO" -> 1
    [] OTHER -> rule.lookback

MinimumHistory(rule) ==
  CASE rule.source = "STREAK" -> rule.streak + 1
    [] rule.source = "BODY_RATIO" -> 1
    [] OTHER -> rule.lookback + 1

Momentum(points, i, rule) ==
  LET current == PointAt(points, i).price
      past == PointAt(points, i - rule.lookback).price
      change == << IF current > past THEN current - past ELSE past - current, past >>
  IN  IF LessThan(change, rule.threshold) THEN None
      ELSE DirectionFromColor(IF current > past THEN "UP" ELSE "DOWN", rule.mode)

Streak(points, i, rule) ==
  LET last == CandleColor(points, i)
  IN  IF \A j \in (i - rule.streak + 1) .. i : j >= 0 /\ CandleColor(points, j) = last
      THEN DirectionFromColor(last, rule.mode) ELSE None

\* A strict alternation is expected to go on.
Alternation(points, i, rule) ==
  LET start == i - rule.lookback + 1
      Color(j) == CandleColor(points, j)
  IN  IF /\ start >= 0
         /\ \A j \in start .. i : Color(j) # "DOJI"
         /\ \A j \in start + 1 .. i : Color(j) # Color(j - 1)
      THEN DirectionFromColor(Opposite(Color(i)), rule.mode) ELSE None

BodyRatio(points, i, rule) ==
  LET p == PointAt(points, i)
      body == IF p.price > p.open THEN p.price - p.open ELSE p.open - p.price
  IN  IF /\ Absent \notin {p.open, p.high, p.low}
         /\ p.high > p.low
         /\ ~ LessThan(<<body, p.high - p.low>>, rule.threshold)
      THEN DirectionFromColor(CandleColor(points, i), rule.mode) ELSE None

\* evaluate_at: what the rule says once the candle i is closed.
EvaluateAt(points, i, rule) ==
  IF i + 1 < MinimumHistory(rule) \/ ~ WithinHourWindow(PointAt(points, i).hour, rule.window)
  THEN None
  ELSE CASE rule.source = "MOMENTUM" -> Momentum(points, i, rule)
         [] rule.source = "STREAK" -> Streak(points, i, rule)
         [] rule.source = "ALTERNATION" -> Alternation(points, i, rule)
         [] rule.source = "BODY_RATIO" -> BodyRatio(points, i, rule)

\* generate_signals: of every candle whose expiry is still within the series.
GenerateSignals(points, rule) ==
  LET decision == [ i \in 1 .. Max({0, Len(points) - rule.expiry}) |->
                      [ index |-> i - 1, direction |-> EvaluateAt(points, i - 1, rule) ] ]
  IN  Filter(decision, LAMBDA s : s.direction # None)

-----------------------------------------------------------------------------
(* Operations and their results *)

\* Mutant: the stake comes back on a tie, and that is no loss.
ResolveTieAsWin(points, signal, expiry) ==
  LET entry == PointAt(points, signal.index).price
      exit == PointAt(points, signal.index + expiry).price
  IN  [ index |-> signal.index, direction |-> signal.direction,
        won |-> IF signal.direction = "CALL" THEN exit >= entry ELSE exit <= entry ]

\* A tie is a loss.
ResolveTrade(points, signal, expiry) ==
  LET entry == PointAt(points, signal.index).price
      exit == PointAt(points, signal.index + expiry).price
  IN  [ index |-> signal.index, direction |-> signal.direction,
        won |-> IF signal.direction = "CALL" THEN exit > entry ELSE exit < entry ]

Trades(points, rule) ==
  LET signals == GenerateSignals(points, rule)
  IN  [ k \in DOMAIN signals |-> ResolveTrade(points, signals[k], rule.expiry) ]

Outcomes(trades) == [ k \in DOMAIN trades |-> trades[k].won ]

Wins(outcomes) == Cardinality({ k \in DOMAIN outcomes : outcomes[k] })

\* win_rate * payout - loss_rate, and 0 without operations.
Expectancy(outcomes) ==
  LET wins == Wins(outcomes)
      losses == Len(outcomes) - wins
  IN  IF outcomes = << >> THEN Zero
      ELSE << wins * Payout[1] - losses * Payout[2], Payout[2] * Len(outcomes) >>

MaxLossStreak(outcomes) ==
  FoldLeft(LAMBDA acc, won :
             LET current == IF won THEN 0 ELSE acc.current + 1
             IN  [ current |-> current, longest |-> Max({acc.longest, current}) ],
           [ current |-> 0, longest |-> 0 ], outcomes).longest

-----------------------------------------------------------------------------
(* The capital *)

Unit(risk) == risk[2] * Payout[2]

\* Mutant: the same amount whatever is left.
StakeOfStart(equity, start, risk) == start * risk[1]

\* A share of the capital there is, in units of 1 / risk[2].
Stake(equity, start, risk) == equity * risk[1]

\* Mutant: the peak stays where it was at the beginning.
PeakOfStart(peak, equity) == peak

Peak(peak, equity) == Max({peak, equity})

Ruin(curve) == [curve EXCEPT !.ruined = TRUE]

\* One turn of the loop of build_equity_curve.
Operation(risk, curve, won) ==
  LET stake == Stake(curve.equity, curve.start, risk)
      equity == curve.equity * Unit(risk)
                + (IF won THEN stake * Payout[1] ELSE - (stake * Payout[2]))
      peak == Peak(curve.peak * Unit(risk), equity)
  IN  CASE curve.ruined -> curve
        [] ~ curve.ruined /\ (stake <= 0 \/ stake > curve.equity * risk[2]) -> Ruin(curve)
        [] ~ curve.ruined /\ stake > 0 /\ equity <= 0 -> Ruin(curve)
        [] OTHER -> [curve EXCEPT !.equity = equity, !.peak = peak,
                                  !.start = @ * Unit(risk),
                                  !.drops = @ \cup {<<peak - equity, peak>>}]

AtStart(capital) ==
  [ equity |-> capital, peak |-> capital, start |-> capital, drops |-> {}, ruined |-> FALSE ]

\* build_equity_curve. The drops are from the peak so far, each with its peak;
\* max_drawdown is the largest of their ratios.
EquityCurve(outcomes, capital, risk) ==
  FoldLeft(LAMBDA curve, won : Operation(risk, curve, won), AtStart(capital), outcomes)

\* The share of the capital that some operations in a row leave.
Left(outcomes, risk) ==
  FoldLeft(LAMBDA left, won :
             << left[1] * (IF won THEN Unit(risk) + risk[1] * Payout[1]
                                  ELSE (risk[2] - risk[1]) * Payout[2]),
                left[2] * Unit(risk) >>,
           <<1, 1>>, outcomes)

\* max_drawdown > limit
DrawdownExceeds(curve, limit) == \E drop \in curve.drops : LessThan(limit, drop)

RunBacktest(points, rule, risk) ==
  LET trades == Trades(points, rule)
      outcomes == Outcomes(trades)
  IN  [ sample_size |-> Len(points), trades |-> trades, outcomes |-> outcomes,
        expectancy |-> Expectancy(outcomes), max_loss_streak |-> MaxLossStreak(outcomes),
        curves |-> { EquityCurve(outcomes, capital, risk) : capital \in CapitalScenarios } ]

-----------------------------------------------------------------------------
(* Windows *)

\* Mutant: the window shares its last candle with the next one.
SegmentClosed(points, start, end) == SubSeq(points, start + 1, Min({end + 1, Len(points)}))

Segment(points, start, end) == SubSeq(points, start + 1, end)

MinimumWindow(rule) == rule.lookback + rule.expiry + 2

FoldStart(points, folds, k) == k * (Len(points) \div folds)

FoldEnd(points, folds, k) ==
  IF k = folds - 1 THEN Len(points) ELSE FoldStart(points, folds, k + 1)

EnoughForFolds(points, rule, folds) == Len(points) >= folds * MinimumWindow(rule)

\* Mutant: a fold that earns nothing passes.
PassesUnlessLosing(trades) == ~ LessThan(Expectancy(Outcomes(trades)), Zero)

\* With an expectancy above 0 there is an operation.
FoldPasses(trades) == LessThan(Zero, Expectancy(Outcomes(trades)))

\* run_walk_forward: the operations of each fold, as if it were the whole.
WalkForward(points, rule, folds) ==
  [ k \in 0 .. folds - 1 |->
      Trades(Segment(points, FoldStart(points, folds, k), FoldEnd(points, folds, k)), rule) ]
=============================================================================
