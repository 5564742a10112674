------------------------------ MODULE Evaluation ------------------------------
(***************************************************************************)
(* How one rule is judged over a validated series: the second half of      *)
(* ResearchRuntime._evaluate_hypothesis, which module ResearchCampaign     *)
(* leaves open. The agents are called one after the other in one process:  *)
(* backtester, statistician, adversarial, risk, validator; the report on   *)
(* the broker was made when the cycle began.                               *)
(*                                                                         *)
(* The series grows candle by candle, as LaterCandlesChangeNothing asks,   *)
(* and may be judged at any length. A Monte Carlo simulation is random: it *)
(* can find any probability of ruin that its operations make possible.     *)
(* The envelopes of the reports are never missing: the last item of the    *)
(* checklist, documentation_complete, always passes and is left out.       *)
(***************************************************************************)
EXTENDS Backtest

CONSTANTS
  Candle,         \* candles: price, open, high, low
  FirstHour,      \* the hour of the first candle; each next one is an hour later
  Rule,           \* rules the researcher may propose
  Config,         \* configurations
  OutOfSample,    \* _OUT_OF_SAMPLE_FRACTION
  Margin,         \* required_expectancy_margin of the rules tried so far
  Category,       \* REQUIRED_CATEGORIES of evidence on a broker
  Evidence,       \* sets of evidence the intelligence source may have gathered
  MaxPoints       \* bound: candles of the series

ConfigOK(c) ==
  /\ c.risk \in Fraction /\ LessThan(Zero, c.risk) /\ ~ LessThan(<<1, 1>>, c.risk)
  /\ c.max_drawdown \in Fraction /\ LessThan(Zero, c.max_drawdown)
  /\ c.min_fold_pass_ratio \in Fraction /\ LessThan(Zero, c.min_fold_pass_ratio)
  /\ c.folds \in Nat \ {0, 1}
  /\ c.min_sample_size \in Nat \ {0}
  /\ c.blocking \in BOOLEAN

Item == [ category : Category \cup {None}, sourced : BOOLEAN, severity : {"PASS", "WARN", "FAIL"} ]

\* What DataValidation lets through: a price, and the rest of a candle or nothing.
ASSUME CandleAssumption ==
  Candle \subseteq [ price : Nat \ {0}, open : Nat, high : Nat, low : Nat ]
ASSUME RuleAssumption == \A rule \in Rule : ValidRule(rule)
ASSUME ConfigAssumption == \A c \in Config : ConfigOK(c)
ASSUME ShareAssumption ==
  OutOfSample \in Fraction /\ LessThan(Zero, OutOfSample) /\ LessThan(OutOfSample, <<1, 1>>)
ASSUME MarginAssumption == Margin \subseteq Fraction
ASSUME EvidenceAssumption == Evidence \subseteq SUBSET Item
ASSUME PointsAssumption == MaxPoints \in Nat /\ FirstHour \in 0 .. 23

VARIABLES
  points,  \* the series, as validated
  judged   \* the judgement on one rule

vars == <<points, judged>>

-----------------------------------------------------------------------------
(* Statistician *)

\* The ruin found in simulations, against max_risk_of_ruin, which is taken to be
\* below 1. The statistician and the risk agent simulate with one seed and find
\* the same.
Ruins == {"within", "exceeded"}

MonteCarlo(outcomes, risk) ==
  IF LessThan(risk, <<1, 1>>) \/ Wins(outcomes) = Len(outcomes) THEN {"within"}
  ELSE IF Wins(outcomes) = 0 THEN {"exceeded"} ELSE Ruins

SplitIndex(n) == (n * (OutOfSample[2] - OutOfSample[1])) \div OutOfSample[2]

InSample(s) == Segment(s, 0, SplitIndex(Len(s)))
OutOfSampleOf(s) == Segment(s, SplitIndex(Len(s)), Len(s))

\* Otherwise a DataQualityError.
EnoughToAnalyze(s, rule, config) ==
  /\ EnoughForFolds(s, rule, config.folds)
  /\ \A part \in {InSample(s), OutOfSampleOf(s)} : Len(part) >= MinimumWindow(rule)

Analyze(s, rule, config, backtest, ruin) ==
  LET walk == WalkForward(s, rule, config.folds)
      in == Expectancy(Outcomes(Trades(InSample(s), rule)))
      out == Expectancy(Outcomes(Trades(OutOfSampleOf(s), rule)))
  IN  [ sample_size |-> backtest.sample_size,
        trades |-> Len(backtest.outcomes),
        expectancy |-> backtest.expectancy,
        oos_expectancy |-> out,
        degradation |-> Minus(in, out),
        passed |-> Cardinality({ k \in DOMAIN walk : FoldPasses(walk[k]) }),
        folds |-> config.folds,
        ruin |-> ruin ]

-----------------------------------------------------------------------------
(* Adversarial *)

\* Every signal again, on the series cut off where it was given.
NoLookAhead(s, rule) ==
  \A signal \in ToSet(GenerateSignals(s, rule)) :
    LET truncated == Segment(s, 0, signal.index + 1)
    IN  EvaluateAt(truncated, Len(truncated) - 1, rule) = signal.direction

MaxDegradation == <<1, 10>>

\* The findings that make the verdict FAIL; warnings stop nothing. The series
\* is validated, so no timestamp comes twice.
Challenge(s, rule, statistics) ==
  { finding \in {"look_ahead_bias", "overfitting", "out_of_sample_degradation"} :
      CASE finding = "look_ahead_bias" -> ~ NoLookAhead(s, rule)
        [] finding = "overfitting" -> statistics.trades = 0
        [] finding = "out_of_sample_degradation" ->
             LessThan(MaxDegradation, statistics.degradation) }

-----------------------------------------------------------------------------
(* Risk *)

One == <<1, 1>>

\* (1 - risk) ** losses >= 1 - limit
SurvivesStreak(losses, config) ==
  \/ losses = 0
  \/ ~ LessThan(Left([ k \in 1 .. losses |-> FALSE ], config.risk),
                Minus(One, config.max_drawdown))

\* Mutant: the runs of losses stand for the drawdown.
AssessStreakOnly(backtest, config, ruin) ==
  { finding \in {"risk_of_ruin_exceeded", "capital_depletion", "loss_streak_too_deep"} :
      CASE finding = "risk_of_ruin_exceeded" -> ruin = "exceeded"
        [] finding = "capital_depletion" -> \E curve \in backtest.curves : curve.ruined
        [] finding = "loss_streak_too_deep" ->
             ~ SurvivesStreak(backtest.max_loss_streak, config) }

\* Every finding makes the verdict FAIL.
Assess(backtest, config, ruin) ==
  { finding \in {"drawdown_limit_exceeded", "risk_of_ruin_exceeded",
                 "capital_depletion", "loss_streak_too_deep"} :
      CASE finding = "drawdown_limit_exceeded" ->
             \E curve \in backtest.curves : DrawdownExceeds(curve, config.max_drawdown)
        [] finding = "risk_of_ruin_exceeded" -> ruin = "exceeded"
        [] finding = "capital_depletion" -> \E curve \in backtest.curves : curve.ruined
        [] finding = "loss_streak_too_deep" ->
             ~ SurvivesStreak(backtest.max_loss_streak, config) }

-----------------------------------------------------------------------------
(* Broker risk *)

ValidEvidence(item) == item.sourced /\ item.category \in Category

\* Mutant: what there is decides.
BrokerStatusOfItems(items) ==
  LET valid == { item \in items : ValidEvidence(item) }
      severities == { item.severity : item \in valid }
                      \cup (IF valid = items THEN {} ELSE {"WARN"})
  IN  CASE severities = {} \/ "FAIL" \in severities -> "FAIL"
        [] "FAIL" \notin severities /\ "WARN" \in severities -> "WARN"
        [] OTHER -> "PASS"

\* Evidence that is not valid is discarded with a warning; a category without
\* evidence fails, and so does no evidence at all.
BrokerStatus(items) ==
  LET valid == { item \in items : ValidEvidence(item) }
      missing == Category \ { item.category : item \in valid }
      severities == { item.severity : item \in valid }
                      \cup (IF valid = items THEN {} ELSE {"WARN"})
                      \cup (IF missing = {} THEN {} ELSE {"FAIL"})
  IN  CASE severities = {} \/ "FAIL" \in severities -> "FAIL"
        [] "FAIL" \notin severities /\ "WARN" \in severities -> "WARN"
        [] OTHER -> "PASS"

-----------------------------------------------------------------------------
(* Validator *)

Checklist(statistics, adversarial, risk, broker, config, margin) ==
  [ sufficient_sample |-> /\ statistics.sample_size >= config.min_sample_size
                          /\ statistics.trades > 0,
    no_look_ahead_bias |-> "look_ahead_bias" \notin adversarial,
    oos_passed |-> LessThan(margin, statistics.oos_expectancy),
    walk_forward_passed |-> ~ LessThan(<<statistics.passed, statistics.folds>>,
                                       config.min_fold_pass_ratio),
    monte_carlo_passed |-> statistics.ruin = "within",
    temporal_stability |-> ~ LessThan(MaxDegradation, statistics.degradation),
    drawdown_reviewed |-> "drawdown_limit_exceeded" \notin risk,
    loss_streak_reviewed |-> "loss_streak_too_deep" \notin risk,
    adversarial_passed |-> adversarial = {},
    expectancy_positive_net_payout |-> LessThan(margin, statistics.expectancy),
    risk_reviewed |-> risk = {},
    broker_risk_passed |-> broker = "PASS" ]

STRUCTURAL_FAILURES == {"no_look_ahead_bias", "adversarial_passed", "risk_reviewed"}

FailedItems(checklist) == { item \in DOMAIN checklist : ~ checklist[item] }

\* decide: of a strategy that is an IDEA.
Target(checklist, config) ==
  LET waived == IF config.blocking THEN {} ELSE {"broker_risk_passed"}
      failed == FailedItems(checklist) \ waived
  IN  CASE failed = {} -> "BACKTEST"
        [] failed # {} /\ failed \cap STRUCTURAL_FAILURES # {} -> "REJECTED"
        [] OTHER -> "NEEDS_RESEARCH"

-----------------------------------------------------------------------------

Unjudged == [ status |-> None ]

Init == points = << >> /\ judged = Unjudged

\* The collector's next candle.
Receive ==
  /\ judged = Unjudged
  /\ Len(points) < MaxPoints
  /\ \E c \in Candle :
       points' = Append(points, [ price |-> c.price, open |-> c.open, high |-> c.high,
                                  low |-> c.low, hour |-> (FirstHour + Len(points)) % 24 ])
  /\ UNCHANGED judged

Judgement(rule, config, status, items, margin) ==
  [ rule |-> rule, config |-> config, status |-> status, evidence |-> items,
    margin |-> margin ]

\* Without operations a rule goes back to research.
ReturnUntraded(rule, config, backtest) ==
  /\ backtest.outcomes = << >>
  /\ ValidStrategyTransition("IDEA", "NEEDS_RESEARCH")
  /\ judged' = Judgement(rule, config, "NEEDS_RESEARCH", {}, Zero)

\* With too few candles the statistician raises, and the strategy stays as it
\* was registered.
EvaluationFails(rule, config, backtest) ==
  /\ backtest.outcomes # << >>
  /\ ~ EnoughToAnalyze(points, rule, config)
  /\ judged' = Judgement(rule, config, "IDEA", {}, Zero)

\* Otherwise the agents report one after the other, and the validator decides.
Decide(rule, config, backtest) ==
  /\ backtest.outcomes # << >>
  /\ EnoughToAnalyze(points, rule, config)
  /\ \E ruin \in MonteCarlo(backtest.outcomes, config.risk) :
       \E statistics \in {Analyze(points, rule, config, backtest, ruin)} :
         \E adversarial \in {Challenge(points, rule, statistics)},
            risk \in {Assess(backtest, config, ruin)},
            items \in Evidence, margin \in Margin :
           \E status \in {Target(Checklist(statistics, adversarial, risk, BrokerStatus(items),
                                            config, margin), config)} :
             /\ ValidStrategyTransition("IDEA", status)
             /\ judged' = Judgement(rule, config, status, items, margin)

Evaluate ==
  /\ judged = Unjudged
  /\ points # << >>
  /\ \E rule \in Rule, config \in Config :
       \E backtest \in {RunBacktest(points, rule, config.risk)} :
         \/ ReturnUntraded(rule, config, backtest)
         \/ EvaluationFails(rule, config, backtest)
         \/ Decide(rule, config, backtest)
  /\ UNCHANGED points

Next == Receive \/ Evaluate

Spec == Init /\ [][Next]_vars

-----------------------------------------------------------------------------
(* Properties *)

Profitable(trades) == LessThan(Zero, Expectancy(Outcomes(trades)))

\* What a rule did never depends on what came after: a longer sample adds
\* operations at the end of the list, and takes or changes none. minimum_history
\* is what keeps a negative index from reading the end of the series.
LaterCandlesChangeNothing ==
  [][ judged' = judged =>
        \A rule \in Rule : IsPrefix(Trades(points, rule), Trades(points', rule)) ]_vars

\* The operations of the whole whose history and expiry lie within a fold.
TradesWithin(s, rule, folds, k) ==
  Filter(Trades(s, rule),
         LAMBDA trade : /\ trade.index >= FoldStart(s, folds, k) + MinimumHistory(rule) - 1
                        /\ trade.index + rule.expiry < FoldEnd(s, folds, k))

\* A fold sees what the whole sees: it has the operations of the whole whose
\* history and expiry lie within it, and no other, as if nothing were before it.
FoldsAgreeWithTheWhole ==
  judged = Unjudged =>
    \A rule \in Rule, config \in Config : EnoughForFolds(points, rule, config.folds) =>
      LET walk == WalkForward(points, rule, config.folds)
          Shift(k, trade) == [trade EXCEPT !.index = @ + FoldStart(points, config.folds, k)]
      IN  \A k \in DOMAIN walk :
            [ i \in DOMAIN walk[k] |-> Shift(k, walk[k][i]) ]
              = TradesWithin(points, rule, config.folds, k)

Mirror(rule) == [rule EXCEPT !.mode = IF @ = "FOLLOW" THEN "REVERT" ELSE "FOLLOW"]

\* A rule and its mirror operate on the same candles and never both win, for a
\* tie is a loss: at a payout of at most 1 the sample cannot recommend both.
MirrorRulesShareNoWin ==
  judged = Unjudged =>
    \A rule \in Rule :
      LET trades == Trades(points, rule)
          mirrored == Trades(points, Mirror(rule))
      IN  /\ Len(trades) = Len(mirrored)
          /\ \A k \in DOMAIN trades : /\ trades[k].index = mirrored[k].index
                                      /\ ~ (trades[k].won /\ mirrored[k].won)
          /\ ~ LessThan(One, Payout) => ~ (Profitable(trades) /\ Profitable(mirrored))

\* The window leaves hours out.
Partial(window) == window # Always /\ (window[2] + 1) % 24 # window[1]

\* The hours of a window and the hours it leaves out share the operations of the
\* rule without a window, also when the window goes over midnight.
HourWindowsPartition ==
  judged = Unjudged =>
    \A rule \in { r \in Rule : Partial(r.window) } :
      LET Indices(window) ==
            { s.index : s \in ToSet(GenerateSignals(points, [rule EXCEPT !.window = window])) }
          others == << (rule.window[2] + 1) % 24, (rule.window[1] + 23) % 24 >>
      IN  /\ Indices(rule.window) \cup Indices(others) = Indices(Always)
          /\ Indices(rule.window) \cap Indices(others) = {}

\* A simulation is ruined exactly by a loss with everything at stake: while less
\* than all of the capital is at stake, there is no ruin to find.
RuinNeedsFullStake ==
  judged = Unjudged =>
    \A rule \in Rule, config \in Config :
      LET backtest == RunBacktest(points, rule, config.risk)
      IN  \A curve \in backtest.curves :
            curve.ruined <=> ~ LessThan(config.risk, One)
                             /\ Wins(backtest.outcomes) < Len(backtest.outcomes)

\* Some operations in a row leave less than 1 - limit.
LosesMoreThan(outcomes, risk, limit) ==
  \E i, j \in 1 .. Len(outcomes) :
    i <= j /\ LessThan(Left(SubSeq(outcomes, i, j), risk), Minus(One, limit))

\* In every capital scenario the drawdown is over the limit exactly when some
\* operations in a row lose so much: the peak it is measured from is the right one.
DrawdownIsWorstDrop ==
  judged = Unjudged =>
    \A rule \in Rule, config \in Config : LessThan(config.risk, One) =>
      LET backtest == RunBacktest(points, rule, config.risk)
      IN  \A curve \in backtest.curves :
            DrawdownExceeds(curve, config.max_drawdown)
              <=> LosesMoreThan(backtest.outcomes, config.risk, config.max_drawdown)

DangerousRisk(outcomes, config) ==
  IF LessThan(config.risk, One) THEN LosesMoreThan(outcomes, config.risk, config.max_drawdown)
                                ELSE Wins(outcomes) < Len(outcomes)

Degrades(s, rule) ==
  LET Earned(part) == Expectancy(Outcomes(Trades(part, rule)))
  IN  LessThan(MaxDegradation, Minus(Earned(InSample(s)), Earned(OutOfSampleOf(s))))

\* A decided rule is rejected for good exactly when it loses too much of the
\* capital or degrades out of sample; whatever else it lacks, it goes back to
\* research. None of these is an item that build_checklist counts as structural:
\* they get there through the verdicts of the risk and the adversarial agent.
DangerIsRejected ==
  LET outcomes == Outcomes(Trades(points, judged.rule))
  IN  judged.status \in {"BACKTEST", "NEEDS_RESEARCH", "REJECTED"} /\ outcomes # << >> =>
        (judged.status = "REJECTED" <=> DangerousRisk(outcomes, judged.config)
                                        \/ Degrades(points, judged.rule))

\* docs/OPERATIONS.md:157: a rule advances only if it earns in its folds, in all of
\* them where min_fold_pass_ratio is 1. There it has operations of the whole, and
\* they win more than they lose at the payout.
AdvancedEarnsInItsFolds ==
  judged.status = "BACKTEST" =>
    LET config == judged.config
        Earns(k) == LET within == TradesWithin(points, judged.rule, config.folds, k)
                        wins == Wins(Outcomes(within))
                    IN  wins * Payout[1] > (Len(within) - wins) * Payout[2]
    IN  ~ LessThan(<< Cardinality({ k \in 0 .. config.folds - 1 : Earns(k) }), config.folds >>,
                   config.min_fold_pass_ratio)

\* With the gate on the broker shut, a rule advances only if every category is
\* attested and nothing that was gathered is unfavourable or without a source.
BrokerFailsClosed ==
  judged.status = "BACKTEST" /\ judged.config.blocking =>
    /\ \A c \in Category : \E item \in judged.evidence : item.category = c
    /\ \A item \in judged.evidence : ValidEvidence(item) /\ item.severity = "PASS"
=============================================================================
