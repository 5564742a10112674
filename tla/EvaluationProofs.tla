--------------------------- MODULE EvaluationProofs ---------------------------
(***************************************************************************)
(* Every property of Evaluation, for any series, rules, configurations,    *)
(* payout, capitals, categories and evidence.                              *)
(*                                                                         *)
(* The series is the state that grows; what a rule makes of it is a loop   *)
(* over its candles, and what the operations make of the capital another   *)
(* over them. Each loop is an instance of Lemmas for its body, and a       *)
(* property of it is shown by induction over the sequence. All but the     *)
(* decisions follows from the type of the series (TypeOK); a decision is   *)
(* spelled out once (DecidedBy) and stays, as the series does from then on.*)
(***************************************************************************)
EXTENDS Evaluation, FiniteSetTheorems, SequenceTheorems, TLAPS

-----------------------------------------------------------------------------
(* The broker *)

\* What a broker needs for its PASS: broker_risk.evaluate fails on a category
\* without evidence, and warns of an item it discards.
LEMMA PassNeedsEvidence ==
  ASSUME NEW items \in SUBSET Item, BrokerStatus(items) = "PASS"
  PROVE  /\ \A c \in Category : \E item \in items : item.category = c
         /\ \A item \in items : ValidEvidence(item) /\ item.severity = "PASS"
<1> DEFINE valid == { item \in items : ValidEvidence(item) }
           missing == Category \ { item.category : item \in valid }
           severities == { item.severity : item \in valid }
                           \cup (IF valid = items THEN {} ELSE {"WARN"})
                           \cup (IF missing = {} THEN {} ELSE {"FAIL"})
<1>1. BrokerStatus(items) =
        CASE severities = {} \/ "FAIL" \in severities -> "FAIL"
          [] "FAIL" \notin severities /\ "WARN" \in severities -> "WARN"
          [] OTHER -> "PASS"
  BY DEF BrokerStatus
<1>2. "FAIL" \notin severities /\ "WARN" \notin severities
  <2> HIDE DEF severities
  <2> QED
    BY <1>1
<1>3. missing = {} /\ valid = items
  BY <1>2
<1>4. \A item \in items : ValidEvidence(item) /\ item.severity = "PASS"
  <2> SUFFICES ASSUME NEW item \in items
               PROVE  ValidEvidence(item) /\ item.severity = "PASS"
    OBVIOUS
  <2>1. item \in valid
    BY <1>3
  <2>2. item.severity \in severities
    BY <2>1
  <2>3. item.severity \in {"PASS", "WARN", "FAIL"}
    BY DEF Item
  <2> QED
    BY <1>2, <2>1, <2>2, <2>3
<1>5. ASSUME NEW c \in Category
      PROVE  \E item \in items : item.category = c
  BY <1>3
<1> QED
  BY <1>4, <1>5

\* Only the whole checklist advances a rule, and the broker is waived only
\* where the configuration leaves its gate open (validator.decide).
LEMMA AdvanceNeedsBroker ==
  ASSUME NEW checklist, NEW config, config.blocking,
         "broker_risk_passed" \in DOMAIN checklist,
         Target(checklist, config) = "BACKTEST"
  PROVE  checklist.broker_risk_passed
<1> DEFINE failed == FailedItems(checklist)
<1>1. Target(checklist, config) =
        CASE failed = {} -> "BACKTEST"
          [] failed # {} /\ failed \cap STRUCTURAL_FAILURES # {} -> "REJECTED"
          [] OTHER -> "NEEDS_RESEARCH"
  BY DEF Target
<1>2. failed = {}
  <2> HIDE DEF failed
  <2> QED
    BY <1>1
<1> QED
  BY <1>2 DEF FailedItems

\* What a decision that advances a rule was based on.
LEMMA AdvancedOnEvidence ==
  ASSUME NEW rule, NEW config, NEW backtest, Decide(rule, config, backtest),
         judged'.status = "BACKTEST", judged'.config.blocking
  PROVE  /\ judged'.evidence \in Evidence
         /\ BrokerStatus(judged'.evidence) = "PASS"
<1> DEFINE Report(statistics, adversarial, risk, items, margin) ==
             Checklist(statistics, adversarial, risk, BrokerStatus(items), config, margin)
           Decided(statistics, adversarial, risk, items, margin) ==
             \E status \in {Target(Report(statistics, adversarial, risk, items, margin), config)} :
               /\ ValidStrategyTransition("IDEA", status)
               /\ judged' = Judgement(rule, config, status, items, margin)
<1>1. PICK ruin \in MonteCarlo(backtest.outcomes, config.risk) :
        \E statistics \in {Analyze(points, rule, config, backtest, ruin)} :
          \E adversarial \in {Challenge(points, rule, statistics)},
             risk \in {Assess(backtest, config, ruin)},
             items \in Evidence, margin \in Margin :
            Decided(statistics, adversarial, risk, items, margin)
  BY Zenon DEF Decide
<1>2. PICK statistics, adversarial, risk :
        \E items \in Evidence, margin \in Margin :
          Decided(statistics, adversarial, risk, items, margin)
  <2> HIDE DEF Decided
  <2> QED
    BY <1>1
<1>3. PICK items \in Evidence, margin \in Margin :
        Decided(statistics, adversarial, risk, items, margin)
  BY <1>2
<1>4. /\ judged'.config = config
      /\ judged'.evidence = items
      /\ Target(Report(statistics, adversarial, risk, items, margin), config) = "BACKTEST"
  <2> HIDE DEF Report
  <2>1. judged' = Judgement(rule, config,
                            Target(Report(statistics, adversarial, risk, items, margin), config),
                            items, margin)
    BY <1>3
  <2> QED
    BY <2>1 DEF Judgement
<1>5. /\ "broker_risk_passed" \in DOMAIN Report(statistics, adversarial, risk, items, margin)
      /\ Report(statistics, adversarial, risk, items, margin).broker_risk_passed
           = (BrokerStatus(items) = "PASS")
  BY DEF Checklist
<1>6. Report(statistics, adversarial, risk, items, margin).broker_risk_passed
  <2> HIDE DEF Report
  <2> QED
    BY <1>4, <1>5, AdvanceNeedsBroker
<1> QED
  BY <1>4, <1>5, <1>6

\* BrokerFailsClosed: with broker_risk.blocking a strategy leaves IDEA for
\* BACKTEST only if every category is attested and all evidence is a PASS.
THEOREM FailsClosed == Spec => []BrokerFailsClosed
<1>1. Init => BrokerFailsClosed
  BY DEF Init, Unjudged, None, BrokerFailsClosed
<1>2. BrokerFailsClosed /\ [Next]_vars => BrokerFailsClosed'
  <2> SUFFICES ASSUME BrokerFailsClosed, [Next]_vars
               PROVE  BrokerFailsClosed'
    OBVIOUS
  <2>1. CASE UNCHANGED judged
    BY <2>1 DEF BrokerFailsClosed
  <2>2. CASE Evaluate
    <3> SUFFICES ASSUME judged'.status = "BACKTEST", judged'.config.blocking
                 PROVE  /\ \A c \in Category : \E item \in judged'.evidence : item.category = c
                        /\ \A item \in judged'.evidence :
                             ValidEvidence(item) /\ item.severity = "PASS"
      BY DEF BrokerFailsClosed
    <3>1. PICK rule, config, backtest :
            \/ ReturnUntraded(rule, config, backtest)
            \/ EvaluationFails(rule, config, backtest)
            \/ Decide(rule, config, backtest)
      BY <2>2, Zenon DEF Evaluate
    <3>2. Decide(rule, config, backtest)
      BY <3>1 DEF ReturnUntraded, EvaluationFails, Judgement
    <3>3. /\ judged'.evidence \in Evidence
          /\ BrokerStatus(judged'.evidence) = "PASS"
      BY <3>2, AdvancedOnEvidence
    <3> QED
      BY <3>3, PassNeedsEvidence, EvidenceAssumption
  <2> QED
    BY <2>1, <2>2 DEF Next, Receive, vars
<1> QED
  BY <1>1, <1>2, PTL DEF Spec
-----------------------------------------------------------------------------
(* The series *)

Series == Seq(Point)

Receives(longer) == \E p \in Point : longer = Append(points, p)

\* The next candle of the collector is a point of the series.
LEMMA ReceiveAppends ==
  ASSUME points \in Series, Receive
  PROVE  Receives(points')
<1>1. PICK c \in Candle :
        points' = Append(points, [ price |-> c.price, open |-> c.open, high |-> c.high,
                                   low |-> c.low, hour |-> (FirstHour + Len(points)) % 24 ])
  BY DEF Receive
<1>2. Len(points) \in Nat /\ FirstHour \in 0 .. 23
  BY PointsAssumption DEF Series
<1>3. (FirstHour + Len(points)) % 24 \in 0 .. 23
  <2>1. \A n \in Nat : n % 24 \in 0 .. 23
    OBVIOUS
  <2>2. FirstHour + Len(points) \in Nat
    BY <1>2
  <2> QED
    BY <2>1, <2>2
<1>4. [ price |-> c.price, open |-> c.open, high |-> c.high, low |-> c.low,
        hour |-> (FirstHour + Len(points)) % 24 ] \in Point
  BY <1>3, CandleAssumption DEF Point
<1> QED
  BY <1>1, <1>4 DEF Receives

TypeOK == points \in Series

\* The series that run_backtest is given is one of validated points.
THEOREM SeriesType == Spec => []TypeOK
<1>1. Init => TypeOK
  BY DEF Init, Series, TypeOK
<1>2. TypeOK /\ [Next]_vars => TypeOK'
  <2> SUFFICES ASSUME TypeOK, [Next]_vars PROVE TypeOK'
    OBVIOUS
  <2> USE DEF TypeOK
  <2>1. CASE Receive
    BY <2>1, ReceiveAppends DEF Receives, Series
  <2>2. CASE UNCHANGED points
    BY <2>2
  <2> QED
    BY <2>1, <2>2 DEF Next, Evaluate, vars
<1> QED
  BY <1>1, <1>2, PTL DEF Spec

-----------------------------------------------------------------------------
(* Signals *)

\* The window of a series t that begins at a, and a series s, up to a candle i.
Agree(s, t, a, i) ==
  /\ s \in Series /\ t \in Series /\ a \in Nat /\ i \in Nat
  /\ i < Len(s) /\ a + i < Len(t)
  /\ \A j \in 0 .. i : s[j + 1] = t[a + j + 1]

\* The color of a candle is the same in both, if it has a reference in both.
LEMMA SameColor ==
  ASSUME NEW s, NEW t, NEW a, NEW i, Agree(s, t, a, i), NEW j \in 0 .. i,
         j > 0 \/ PointAt(s, j).open # Absent
  PROVE  CandleColor(s, j) = CandleColor(t, a + j)
<1> USE DEF Agree, Series
<1>1. PointAt(s, j) = PointAt(t, a + j)
  BY DEF PointAt
<1>2. j > 0 => PointAt(s, j - 1) = PointAt(t, a + j - 1)
  <2> SUFFICES ASSUME j > 0 PROVE PointAt(s, j - 1) = PointAt(t, a + j - 1)
    OBVIOUS
  <2>1. j - 1 >= 0 /\ a + j - 1 >= 0
    OBVIOUS
  <2>2. s[j - 1 + 1] = t[a + (j - 1) + 1]
    OBVIOUS
  <2>3. j - 1 + 1 = j /\ a + (j - 1) + 1 = a + j /\ a + j - 1 + 1 = a + j
    OBVIOUS
  <2> QED
    BY <2>1, <2>2, <2>3 DEF PointAt
<1> DEFINE Reference(q, k) ==
             CASE PointAt(q, k).open # Absent -> PointAt(q, k).open
               [] PointAt(q, k).open = Absent /\ k > 0 -> PointAt(q, k - 1).price
               [] OTHER -> PointAt(q, k).price
           Color(p, reference) == CASE p.price > reference -> "UP"
                                    [] p.price < reference -> "DOWN"
                                    [] OTHER -> "DOJI"
<1>3. Reference(s, j) = Reference(t, a + j)
  BY <1>1, <1>2
<1>4. \A q, k : CandleColor(q, k) = Color(PointAt(q, k), Reference(q, k))
  BY DEF CandleColor
<1> HIDE DEF Reference, Color
<1> QED
  BY <1>1, <1>3, <1>4

\* Momentum compares two closes.
Moves(current, past, rule) ==
  IF LessThan(<< IF current > past THEN current - past ELSE past - current, past >>,
              rule.threshold) THEN None
  ELSE DirectionFromColor(IF current > past THEN "UP" ELSE "DOWN", rule.mode)

LEMMA MomentumIs ==
  ASSUME NEW q, NEW k, NEW rule
  PROVE  Momentum(q, k, rule) = Moves(PointAt(q, k).price, PointAt(q, k - rule.lookback).price, rule)
BY Zenon DEF Momentum, Moves

\* Streak looks for candles of one colour.
LEMMA StreakSays ==
  ASSUME NEW q, NEW k, NEW rule
  PROVE  Streak(q, k, rule) =
           IF \A j \in k - rule.streak + 1 .. k : j >= 0 /\ CandleColor(q, j) = CandleColor(q, k)
           THEN DirectionFromColor(CandleColor(q, k), rule.mode) ELSE None
BY DEF Streak

\* Alternation looks for candles of changing colours.
Alternates(q, from, to) ==
  /\ \A j \in from .. to : CandleColor(q, j) # "DOJI"
  /\ \A j \in from + 1 .. to : CandleColor(q, j) # CandleColor(q, j - 1)

LEMMA AlternationIs ==
  ASSUME NEW q, NEW k, NEW rule
  PROVE  Alternation(q, k, rule) =
           IF k - rule.lookback + 1 >= 0 /\ Alternates(q, k - rule.lookback + 1, k)
           THEN DirectionFromColor(Opposite(CandleColor(q, k)), rule.mode) ELSE None
BY DEF Alternation, Alternates

\* The first of the k candles that end at i, in the window and in the series
\* it lies in at the offset a.
LEMMA FirstOfLast ==
  ASSUME NEW a \in Nat, NEW i \in Nat, NEW k \in Nat \ {0}, k <= i
  PROVE  /\ i - k + 1 \in 1 .. i
         /\ (a + i) - k + 1 = a + (i - k + 1)
         /\ a + (i - k + 1) >= 0
OBVIOUS

\* A rule that has its history within a window says the same of the window: it
\* reads no candle before it, none after i, and never from the other end.
LEMMA SameSignal ==
  ASSUME NEW s, NEW t, NEW a, NEW i, Agree(s, t, a, i), NEW rule, ValidRule(rule),
         i + 1 >= MinimumHistory(rule)
  PROVE  EvaluateAt(s, i, rule) = EvaluateAt(t, a + i, rule)
<1>1. /\ s \in Series /\ t \in Series /\ a \in Nat /\ i \in Nat
      /\ i < Len(s) /\ a + i < Len(t)
      /\ rule.lookback \in Nat \ {0} /\ rule.streak \in Nat \ {0}
  BY DEF Agree, ValidRule
<1>2. \A j \in 0 .. i : PointAt(s, j) = PointAt(t, a + j)
  BY DEF Agree, PointAt, Series
<1>3. PointAt(s, i) = PointAt(t, a + i)
  BY <1>1, <1>2
<1>4. \A j \in 1 .. i : CandleColor(s, j) = CandleColor(t, a + j)
  <2> SUFFICES ASSUME NEW j \in 1 .. i PROVE CandleColor(s, j) = CandleColor(t, a + j)
    OBVIOUS
  <2>1. j \in 0 .. i /\ j > 0
    BY <1>1
  <2> QED
    BY <2>1, SameColor
<1> DEFINE Says(q, k) == CASE rule.source = "MOMENTUM" -> Momentum(q, k, rule)
                           [] rule.source = "STREAK" -> Streak(q, k, rule)
                           [] rule.source = "ALTERNATION" -> Alternation(q, k, rule)
                           [] rule.source = "BODY_RATIO" -> BodyRatio(q, k, rule)
<1>9. Says(s, i) = Says(t, a + i) => EvaluateAt(s, i, rule) = EvaluateAt(t, a + i, rule)
  <2>1. ~ (i + 1 < MinimumHistory(rule)) /\ ~ (a + i + 1 < MinimumHistory(rule))
    <3>1. MinimumHistory(rule) \in Nat
      BY <1>1 DEF MinimumHistory
    <3> QED
      BY <1>1, <3>1
  <2>2. \A q, k : EvaluateAt(q, k, rule) =
                    IF k + 1 < MinimumHistory(rule)
                       \/ ~ WithinHourWindow(PointAt(q, k).hour, rule.window)
                    THEN None ELSE Says(q, k)
    BY DEF EvaluateAt
  <2> HIDE DEF Says
  <2> QED
    BY <1>3, <2>1, <2>2
<1>5. CASE rule.source = "MOMENTUM"
  <2>1. i - rule.lookback \in 0 .. i
    BY <1>1, <1>5 DEF MinimumHistory
  <2>2. a + (i - rule.lookback) = (a + i) - rule.lookback
    BY <1>1
  <2>3. PointAt(s, i - rule.lookback) = PointAt(t, (a + i) - rule.lookback)
    BY <1>2, <2>1, <2>2
  <2>4. /\ Momentum(s, i, rule)
             = Moves(PointAt(s, i).price, PointAt(s, i - rule.lookback).price, rule)
        /\ Momentum(t, a + i, rule)
             = Moves(PointAt(t, a + i).price, PointAt(t, (a + i) - rule.lookback).price, rule)
    BY MomentumIs
  <2>5. Momentum(s, i, rule) = Momentum(t, a + i, rule)
    BY <1>3, <2>3, <2>4
  <2> QED
    BY <1>5, <1>9, <2>5
<1>6. CASE rule.source = "STREAK"
  <2> DEFINE first == i - rule.streak + 1
             A(j) == j >= 0 /\ CandleColor(s, j) = CandleColor(s, i)
             B(j) == j >= 0 /\ CandleColor(t, j) = CandleColor(t, a + i)
  <2>1. first \in 1 .. i /\ (a + i) - rule.streak + 1 = a + first
    <3>1. i + 1 >= rule.streak + 1
      BY <1>6 DEF MinimumHistory
    <3>2. rule.streak <= i
      BY <1>1, <3>1
    <3> QED
      BY <1>1, <3>2, FirstOfLast
  <2>2. CandleColor(s, i) = CandleColor(t, a + i)
    BY <1>1, <1>4, <2>1
  <2> HIDE DEF first
  <2>3. \A j \in first .. i : A(j) <=> B(a + j)
    <3> SUFFICES ASSUME NEW j \in first .. i PROVE A(j) <=> B(a + j)
      OBVIOUS
    <3>1. j \in 1 .. i /\ j >= 0 /\ a + j >= 0
      BY <1>1, <2>1
    <3>2. CandleColor(s, j) = CandleColor(t, a + j)
      BY <1>4, <3>1
    <3> QED
      BY <2>2, <3>1, <3>2
  <2> HIDE DEF A, B
  <2>4. (\A j \in first .. i : A(j)) <=> (\A j \in (a + first) .. (a + i) : B(j))
    <3>1. ASSUME \A j \in first .. i : A(j), NEW j \in (a + first) .. (a + i) PROVE B(j)
      <4>1. j - a \in first .. i /\ a + (j - a) = j
        BY <1>1, <2>1
      <4> QED
        BY <2>3, <3>1, <4>1
    <3>2. ASSUME \A j \in (a + first) .. (a + i) : B(j), NEW j \in first .. i PROVE A(j)
      <4>1. a + j \in (a + first) .. (a + i)
        BY <1>1, <2>1
      <4> QED
        BY <2>3, <3>2, <4>1
    <3> QED
      BY <3>1, <3>2
  <2>5. Streak(s, i, rule) = IF \A j \in first .. i : A(j)
                             THEN DirectionFromColor(CandleColor(s, i), rule.mode) ELSE None
    BY StreakSays DEF first, A
  <2>6. Streak(t, a + i, rule) = IF \A j \in (a + first) .. (a + i) : B(j)
                                 THEN DirectionFromColor(CandleColor(t, a + i), rule.mode)
                                 ELSE None
    <3>1. (a + i) - rule.streak + 1 = a + first
      BY <2>1
    <3> HIDE DEF first
    <3> QED
      BY <3>1, StreakSays DEF B
  <2>7. Streak(s, i, rule) = Streak(t, a + i, rule)
    BY <2>2, <2>4, <2>5, <2>6
  <2> QED
    BY <1>6, <1>9, <2>7

<1>7. CASE rule.source = "ALTERNATION"
  <2> DEFINE first == i - rule.lookback + 1
  <2>1. first \in 1 .. i /\ (a + i) - rule.lookback + 1 = a + first /\ a + first >= 0
    <3>1. i + 1 >= rule.lookback + 1
      BY <1>7 DEF MinimumHistory
    <3>2. rule.lookback <= i
      BY <1>1, <3>1
    <3> QED
      BY <1>1, <3>2, FirstOfLast
  <2>2. CandleColor(s, i) = CandleColor(t, a + i)
    BY <1>1, <1>4, <2>1
  <2>3. Alternation(s, i, rule) =
          IF first >= 0 /\ Alternates(s, first, i)
          THEN DirectionFromColor(Opposite(CandleColor(s, i)), rule.mode) ELSE None
    BY AlternationIs
  <2>4. Alternation(t, a + i, rule) =
          IF a + first >= 0 /\ Alternates(t, a + first, a + i)
          THEN DirectionFromColor(Opposite(CandleColor(t, a + i)), rule.mode) ELSE None
    <3>1. (a + i) - rule.lookback + 1 = a + first
      BY <2>1
    <3> HIDE DEF first
    <3> QED
      BY <3>1, AlternationIs
  <2> HIDE DEF first
  <2>5. Alternates(s, first, i) <=> Alternates(t, a + first, a + i)
    <3> USE DEF Alternates
    <3>1. ASSUME Alternates(s, first, i) PROVE Alternates(t, a + first, a + i)
      <4>1. ASSUME NEW j \in (a + first) .. (a + i) PROVE CandleColor(t, j) # "DOJI"
        <5>1. j - a \in first .. i /\ j - a \in 1 .. i /\ a + (j - a) = j
          BY <1>1, <2>1
        <5> QED
          BY <1>4, <3>1, <5>1
      <4>2. ASSUME NEW j \in (a + first) + 1 .. (a + i)
            PROVE  CandleColor(t, j) # CandleColor(t, j - 1)
        <5>1. /\ j - a \in first + 1 .. i /\ j - a \in 1 .. i /\ a + (j - a) = j
              /\ j - a - 1 \in 1 .. i /\ a + (j - a - 1) = j - 1
          BY <1>1, <2>1
        <5>2. CandleColor(s, j - a) # CandleColor(s, j - a - 1)
          BY <3>1, <5>1
        <5> QED
          BY <1>4, <5>1, <5>2
      <4> QED
        BY <4>1, <4>2
    <3>2. ASSUME Alternates(t, a + first, a + i) PROVE Alternates(s, first, i)
      <4>1. ASSUME NEW j \in first .. i PROVE CandleColor(s, j) # "DOJI"
        <5>1. a + j \in (a + first) .. (a + i) /\ j \in 1 .. i
          BY <1>1, <2>1
        <5> QED
          BY <1>4, <3>2, <5>1
      <4>2. ASSUME NEW j \in first + 1 .. i PROVE CandleColor(s, j) # CandleColor(s, j - 1)
        <5> DEFINE k == a + j
        <5>1. /\ k \in (a + first) + 1 .. (a + i) /\ j \in 1 .. i
              /\ j - 1 \in 1 .. i /\ a + (j - 1) = k - 1
          BY <1>1, <2>1
        <5>2. CandleColor(t, k) # CandleColor(t, k - 1)
          <6> HIDE DEF k
          <6> QED
            BY <3>2, <5>1
        <5> QED
          BY <1>4, <5>1, <5>2
      <4> QED
        BY <4>1, <4>2
    <3> QED
      BY <3>1, <3>2
  <2>6. Alternation(s, i, rule) = Alternation(t, a + i, rule)
    BY <2>1, <2>2, <2>3, <2>4, <2>5
  <2> QED
    BY <1>7, <1>9, <2>6
<1>8. CASE rule.source = "BODY_RATIO"
  <2> DEFINE Large(p) == LET body == IF p.price > p.open THEN p.price - p.open
                                     ELSE p.open - p.price
                         IN  /\ Absent \notin {p.open, p.high, p.low}
                             /\ p.high > p.low
                             /\ ~ LessThan(<<body, p.high - p.low>>, rule.threshold)
  <2>1. \A q, k : BodyRatio(q, k, rule) =
                    IF Large(PointAt(q, k))
                    THEN DirectionFromColor(CandleColor(q, k), rule.mode) ELSE None
    BY DEF BodyRatio
  <2>2. Large(PointAt(s, i)) => CandleColor(s, i) = CandleColor(t, a + i)
    <3>1. i \in 0 .. i
      BY <1>1
    <3> QED
      BY <3>1, SameColor
  <2> HIDE DEF Large
  <2>3. BodyRatio(s, i, rule) = BodyRatio(t, a + i, rule)
    BY <1>3, <2>1, <2>2
  <2> QED
    BY <1>8, <1>9, <2>3
<1> QED
  BY <1>5, <1>6, <1>7, <1>8 DEF ValidRule

\* A decision is CALL, PUT or none.
LEMMA SignalType ==
  ASSUME NEW s, NEW i, NEW rule, ValidRule(rule)
  PROVE  EvaluateAt(s, i, rule) \in {"CALL", "PUT", None}
<1>1. \A c \in {"UP", "DOWN", "DOJI"} : DirectionFromColor(c, rule.mode) \in {"CALL", "PUT", None}
  BY DEF DirectionFromColor
<1>2. \A j : CandleColor(s, j) \in {"UP", "DOWN", "DOJI"}
  BY DEF CandleColor
<1>3. Momentum(s, i, rule) \in {"CALL", "PUT", None}
  BY <1>1, MomentumIs DEF Moves
<1>4. Streak(s, i, rule) \in {"CALL", "PUT", None}
  BY <1>1, <1>2 DEF Streak
<1>5. Alternation(s, i, rule) \in {"CALL", "PUT", None}
  <2>1. Opposite(CandleColor(s, i)) \in {"UP", "DOWN", "DOJI"}
    BY DEF Opposite
  <2>2. DirectionFromColor(Opposite(CandleColor(s, i)), rule.mode) \in {"CALL", "PUT", None}
    BY <1>1, <2>1
  <2> QED
    BY <2>2 DEF Alternation
<1>6. BodyRatio(s, i, rule) \in {"CALL", "PUT", None}
  BY <1>1, <1>2 DEF BodyRatio
<1> QED
  BY <1>3, <1>4, <1>5, <1>6 DEF EvaluateAt, ValidRule

\* The body of the loop of generate_signals.
Keep(given, kept, s) == IF s.direction # None THEN Append(kept, s) ELSE kept

Signalling == INSTANCE Lemmas WITH Body <- Keep

Decision(s, rule, i) == [ index |-> i - 1, direction |-> EvaluateAt(s, i - 1, rule) ]

\* The signals of the first n candles, and the operations they are resolved to.
SignalsOf(s, rule, n) == Signalling!After(None, << >>, [ i \in 1 .. n |-> Decision(s, rule, i) ])

TradesOf(s, rule, n) ==
  [ k \in DOMAIN SignalsOf(s, rule, n) |->
      ResolveTrade(s, SignalsOf(s, rule, n)[k], rule.expiry) ]

\* The number of candles whose expiry is within the series.
Resolvable(s, rule) == IF Len(s) >= rule.expiry THEN Len(s) - rule.expiry ELSE 0

\* The candles whose expiry is within the series are those but the last ones.
LEMMA ResolvableIs ==
  ASSUME NEW s \in Series, NEW rule, ValidRule(rule)
  PROVE  /\ Resolvable(s, rule) \in Nat /\ Resolvable(s, rule) <= Len(s)
         /\ Max({0, Len(s) - rule.expiry}) = Resolvable(s, rule)
<1>1. Len(s) \in Nat /\ rule.expiry \in Nat
  BY DEF Series, ValidRule
<1>2. PICK m : m = Max({0, Len(s) - rule.expiry})
  OBVIOUS
<1>3. m \in {0, Len(s) - rule.expiry} /\ \A x \in {0, Len(s) - rule.expiry} : m >= x
  <2>1. \E y \in {0, Len(s) - rule.expiry} : \A x \in {0, Len(s) - rule.expiry} : y >= x
    BY <1>1
  <2> QED
    BY <1>2, <2>1 DEF Max
<1>4. m = Resolvable(s, rule)
  BY <1>1, <1>3 DEF Resolvable
<1>5. Resolvable(s, rule) \in Nat /\ Resolvable(s, rule) <= Len(s)
  BY <1>1 DEF Resolvable
<1> QED
  BY <1>2, <1>4, <1>5

\* generate_signals as a loop over the candles that can be resolved.
LEMMA SignalsAre ==
  ASSUME NEW s \in Series, NEW rule, ValidRule(rule)
  PROVE  /\ GenerateSignals(s, rule) = SignalsOf(s, rule, Resolvable(s, rule))
         /\ Trades(s, rule) = TradesOf(s, rule, Resolvable(s, rule))
<1> DEFINE decision == [ i \in 1 .. Max({0, Len(s) - rule.expiry}) |->
                           [ index |-> i - 1, direction |-> EvaluateAt(s, i - 1, rule) ] ]
<1>1. \A d : Filter(d, LAMBDA x : x.direction # None) = Signalling!After(None, << >>, d)
  BY DEF Filter, Keep, Signalling!After, Signalling!FoldLeft, Signalling!MapThenFoldSet,
         Signalling!Max, FoldLeft, MapThenFoldSet, Max
<1>2. GenerateSignals(s, rule) = Signalling!After(None, << >>, decision)
  <2>1. GenerateSignals(s, rule) = Filter(decision, LAMBDA x : x.direction # None)
    BY DEF GenerateSignals
  <2> HIDE DEF decision
  <2> QED
    BY <1>1, <2>1
<1>3. decision = [ i \in 1 .. Resolvable(s, rule) |-> Decision(s, rule, i) ]
  BY ResolvableIs DEF Decision
<1>4. GenerateSignals(s, rule) = SignalsOf(s, rule, Resolvable(s, rule))
  <2> HIDE DEF decision
  <2> QED
    BY <1>2, <1>3 DEF SignalsOf
<1> QED
  BY <1>4 DEF Trades, TradesOf

Signal == [ index : Nat, direction : {"CALL", "PUT"} ]
Trade == [ index : Nat, direction : {"CALL", "PUT"}, won : BOOLEAN ]

\* The loop takes candle after candle.
LEMMA SignalsStep ==
  ASSUME NEW s \in Series, NEW rule, ValidRule(rule), NEW n \in Nat
  PROVE  /\ SignalsOf(s, rule, 0) = << >>
         /\ SignalsOf(s, rule, n + 1) = IF EvaluateAt(s, n, rule) # None
                                        THEN Append(SignalsOf(s, rule, n), Decision(s, rule, n + 1))
                                        ELSE SignalsOf(s, rule, n)
<1> DEFINE E == [ index : Nat, direction : {"CALL", "PUT", None} ]
           d(m) == [ i \in 1 .. m |-> Decision(s, rule, i) ]
<1>1. \A i \in Nat \ {0} : Decision(s, rule, i) \in E
  BY SignalType DEF Decision
<1>2. d(n) \in Seq(E)
  BY <1>1
<1>3. d(n + 1) = Append(d(n), Decision(s, rule, n + 1)) /\ Decision(s, rule, n + 1) \in E
  BY <1>1
<1>4. d(0) = << >>
  OBVIOUS
<1> HIDE DEF d, E
<1>5. Signalling!After(None, << >>, Append(d(n), Decision(s, rule, n + 1)))
        = Keep(None, Signalling!After(None, << >>, d(n)), Decision(s, rule, n + 1))
  BY <1>2, <1>3, Signalling!LoopAppend
<1>6. Signalling!After(None, << >>, << >>) = << >>
  BY Signalling!LoopEmpty
<1>7. \A m : SignalsOf(s, rule, m) = Signalling!After(None, << >>, d(m))
  BY DEF SignalsOf, d
<1>8. Decision(s, rule, n + 1).direction = EvaluateAt(s, n, rule)
  BY DEF Decision
<1> QED
  BY <1>3, <1>4, <1>5, <1>6, <1>7, <1>8 DEF Keep

\* A signal has a direction and the index of a candle that was looked at.
LEMMA SignalsType ==
  ASSUME NEW s \in Series, NEW rule, ValidRule(rule)
  PROVE  \A n \in Nat : /\ SignalsOf(s, rule, n) \in Seq(Signal)
                        /\ \A k \in 1 .. Len(SignalsOf(s, rule, n)) :
                             SignalsOf(s, rule, n)[k].index < n
<1> DEFINE Typed(n) == /\ SignalsOf(s, rule, n) \in Seq(Signal)
                       /\ \A k \in 1 .. Len(SignalsOf(s, rule, n)) :
                            SignalsOf(s, rule, n)[k].index < n
           S == { n \in Nat : Typed(n) }
<1>1. 0 \in S
  <2>1. SignalsOf(s, rule, 0) = << >>
    BY SignalsStep
  <2>2. << >> \in Seq(Signal) /\ 1 .. Len(<< >>) = {}
    OBVIOUS
  <2>3. Typed(0)
    BY <2>1, <2>2, Zenon
  <2> QED
    BY <2>3
<1>2. ASSUME NEW n \in Nat, n \in S PROVE n + 1 \in S
  <2> SUFFICES Typed(n + 1)
    OBVIOUS
  <2> DEFINE this == SignalsOf(s, rule, n)
             next == SignalsOf(s, rule, n + 1)
             d == Decision(s, rule, n + 1)
  <2>1. this \in Seq(Signal) /\ \A k \in 1 .. Len(this) : this[k].index < n
    BY <1>2
  <2>2. next = IF EvaluateAt(s, n, rule) # None THEN Append(this, d) ELSE this
    BY SignalsStep
  <2>3. EvaluateAt(s, n, rule) # None => d \in Signal /\ d.index = n
    BY SignalType DEF Decision, Signal
  <2> HIDE DEF this, next, d
  <2>4. next \in Seq(Signal) /\ \A k \in 1 .. Len(next) : next[k].index < n + 1
    <3>1. CASE EvaluateAt(s, n, rule) # None
      <4>1. next = Append(this, d) /\ d \in Signal /\ d.index = n
        BY <2>2, <2>3, <3>1
      <4>2. ASSUME NEW k \in 1 .. Len(next) PROVE next[k].index < n + 1
        <5>1. CASE k \in 1 .. Len(this)
          <6>1. next[k] = this[k] /\ this[k] \in Signal /\ this[k].index < n
            BY <2>1, <4>1, <5>1
          <6> QED
            BY <6>1 DEF Signal
        <5>2. CASE k = Len(this) + 1
          BY <2>1, <4>1, <5>2
        <5> QED
          BY <2>1, <4>1, <5>1, <5>2
      <4> QED
        BY <2>1, <4>1, <4>2
    <3>2. CASE ~ (EvaluateAt(s, n, rule) # None)
      <4>1. next = this
        BY <2>2, <3>2
      <4>2. ASSUME NEW k \in 1 .. Len(this) PROVE this[k].index < n + 1
        <5>1. this[k] \in Signal /\ this[k].index < n
          BY <2>1
        <5> QED
          BY <5>1 DEF Signal
      <4> QED
        BY <2>1, <4>1, <4>2
    <3> QED
      BY <3>1, <3>2
  <2> QED
    BY <2>4 DEF next
<1>3. \A n \in Nat : n \in S
  <2> HIDE DEF S
  <2> QED
    BY <1>1, <1>2, Signalling!NumbersByInduction
<1> QED
  BY <1>3

\* An operation is resolved within the series.
LEMMA TradeType ==
  ASSUME NEW s \in Series, NEW signal \in Signal, NEW expiry \in Nat,
         signal.index + expiry < Len(s)
  PROVE  /\ ResolveTrade(s, signal, expiry) \in Trade
         /\ ResolveTrade(s, signal, expiry).index = signal.index
<1>1. /\ signal.index \in Nat /\ signal.direction \in {"CALL", "PUT"}
      /\ Len(s) \in Nat /\ s \in Seq(Point)
  BY DEF Signal, Series
<1>2. /\ PointAt(s, signal.index) \in Point
      /\ PointAt(s, signal.index + expiry) \in Point
  BY <1>1 DEF PointAt
<1> DEFINE entry == PointAt(s, signal.index).price
           exit == PointAt(s, signal.index + expiry).price
           won == IF signal.direction = "CALL" THEN exit > entry ELSE exit < entry
<1>3. won \in BOOLEAN
  <2>1. entry \in Int /\ exit \in Int
    BY <1>2 DEF Point
  <2> HIDE DEF entry, exit
  <2>2. (exit > entry) \in BOOLEAN /\ (exit < entry) \in BOOLEAN
    BY <2>1
  <2> QED
    BY <2>2
<1>4. ResolveTrade(s, signal, expiry)
        = [ index |-> signal.index, direction |-> signal.direction, won |-> won ]
  BY DEF ResolveTrade
<1> HIDE DEF won
<1> QED
  BY <1>1, <1>3, <1>4 DEF Trade

\* And so are the operations, one after the other.
LEMMA TradesStep ==
  ASSUME NEW s \in Series, NEW rule, ValidRule(rule), NEW n \in Nat
  PROVE  /\ TradesOf(s, rule, 0) = << >>
         /\ TradesOf(s, rule, n + 1) =
              IF EvaluateAt(s, n, rule) # None
              THEN Append(TradesOf(s, rule, n),
                          ResolveTrade(s, Decision(s, rule, n + 1), rule.expiry))
              ELSE TradesOf(s, rule, n)
<1> DEFINE this == SignalsOf(s, rule, n)
           next == SignalsOf(s, rule, n + 1)
           d == Decision(s, rule, n + 1)
           R(q) == [ k \in DOMAIN q |-> ResolveTrade(s, q[k], rule.expiry) ]
<1>1. next = IF EvaluateAt(s, n, rule) # None THEN Append(this, d) ELSE this
  BY SignalsStep
<1>2. SignalsOf(s, rule, 0) = << >>
  BY SignalsStep
<1>3. this \in Seq(Signal)
  BY SignalsType
<1>4. \A m : TradesOf(s, rule, m) = R(SignalsOf(s, rule, m))
  BY DEF TradesOf
<1>5. R(<< >>) = << >>
  OBVIOUS
<1>6. \A q \in Seq(Signal) : EvaluateAt(s, n, rule) # None =>
        R(Append(q, d)) = Append(R(q), ResolveTrade(s, d, rule.expiry))
  <2> SUFFICES ASSUME NEW q \in Seq(Signal), EvaluateAt(s, n, rule) # None
               PROVE  R(Append(q, d)) = Append(R(q), ResolveTrade(s, d, rule.expiry))
    OBVIOUS
  <2>1. d \in Signal
    BY SignalType DEF Decision, Signal
  <2>2. DOMAIN q = 1 .. Len(q) /\ Len(q) \in Nat
    OBVIOUS
  <2> DEFINE x == ResolveTrade(s, d, rule.expiry)
             E == { ResolveTrade(s, q[k], rule.expiry) : k \in DOMAIN q } \cup {x}
  <2>3. R(q) \in Seq(E) /\ Len(R(q)) = Len(q) /\ x \in E
    BY <2>2
  <2>4. Append(q, d) \in Seq(Signal) /\ Len(Append(q, d)) = Len(q) + 1
    BY <2>1
  <2>5. R(Append(q, d)) = [ k \in 1 .. Len(q) + 1 |-> IF k = Len(q) + 1 THEN x ELSE R(q)[k] ]
    <3> HIDE DEF d
    <3> QED
      BY <2>1, <2>2, <2>4
  <2> HIDE DEF x, E, R, d
  <2>6. /\ Append(R(q), x) \in Seq(E) /\ Len(Append(R(q), x)) = Len(q) + 1
        /\ \A k \in 1 .. Len(q) + 1 :
             Append(R(q), x)[k] = IF k = Len(q) + 1 THEN x ELSE R(q)[k]
    BY <2>2, <2>3
  <2>7. /\ R(Append(q, d)) \in Seq(E) /\ Len(R(Append(q, d))) = Len(q) + 1
        /\ \A k \in 1 .. Len(q) + 1 :
             R(Append(q, d))[k] = IF k = Len(q) + 1 THEN x ELSE R(q)[k]
    BY <2>2, <2>3, <2>5
  <2>8. R(Append(q, d)) = Append(R(q), x)
    BY <2>2, <2>6, <2>7, SeqEqual
  <2> QED
    BY <2>8 DEF x
<1> HIDE DEF this, next, d, R
<1> QED
  BY <1>1, <1>2, <1>3, <1>4, <1>5, <1>6 DEF this, next, d

\* They are operations, on candles whose expiry is within the series.
LEMMA TradesType ==
  ASSUME NEW s \in Series, NEW rule, ValidRule(rule), NEW n \in Nat, n <= Resolvable(s, rule)
  PROVE  /\ TradesOf(s, rule, n) \in Seq(Trade)
         /\ Len(TradesOf(s, rule, n)) = Len(SignalsOf(s, rule, n))
         /\ \A k \in 1 .. Len(TradesOf(s, rule, n)) :
              /\ TradesOf(s, rule, n)[k].index = SignalsOf(s, rule, n)[k].index
              /\ TradesOf(s, rule, n)[k].index < n
<1> DEFINE q == SignalsOf(s, rule, n)
           R(k) == ResolveTrade(s, q[k], rule.expiry)
<1>1. q \in Seq(Signal) /\ \A k \in 1 .. Len(q) : q[k].index < n
  BY SignalsType
<1>2. TradesOf(s, rule, n) = [ k \in 1 .. Len(q) |-> R(k) ]
  BY <1>1 DEF TradesOf
<1> HIDE DEF q
<1>3. Len(q) \in Nat /\ \A k \in 1 .. Len(q) : q[k] \in Signal /\ q[k].index \in Nat
  <2>1. Len(q) \in Nat /\ \A k \in 1 .. Len(q) : q[k] \in Signal
    BY <1>1
  <2> QED
    BY <2>1 DEF Signal
<1>4. \A k \in 1 .. Len(q) : q[k].index + rule.expiry < Len(s)
  <2>1. Len(s) \in Nat /\ rule.expiry \in Nat
    BY DEF Series, ValidRule
  <2> QED
    BY <1>1, <1>3, <2>1 DEF Resolvable
<1>5. rule.expiry \in Nat
  BY DEF ValidRule
<1>6. \A k \in 1 .. Len(q) : R(k) \in Trade /\ R(k).index = q[k].index
  BY <1>3, <1>4, <1>5, TradeType
<1> HIDE DEF R
<1> QED
  BY <1>1, <1>2, <1>3, <1>6 DEF q

-----------------------------------------------------------------------------
(* Nothing is taken back *)

\* A candle more changes no decision on an earlier one: every index stays from
\* the beginning, thanks to minimum_history.
LEMMA DecisionsStay ==
  ASSUME NEW s \in Series, NEW p \in Point, NEW rule, ValidRule(rule),
         NEW i \in Nat, i < Len(s)
  PROVE  EvaluateAt(Append(s, p), i, rule) = EvaluateAt(s, i, rule)
<1> DEFINE t == Append(s, p)
<1>1. /\ t \in Series /\ Len(s) \in Nat /\ Len(t) = Len(s) + 1
      /\ \A j \in 0 .. i : s[j + 1] = t[j + 1]
  BY DEF Series
<1> HIDE DEF t
<1>2. CASE i + 1 < MinimumHistory(rule)
  BY <1>2 DEF EvaluateAt, t
<1>3. CASE ~ (i + 1 < MinimumHistory(rule))
  <2>1. i + 1 >= MinimumHistory(rule)
    BY <1>3 DEF MinimumHistory, ValidRule
  <2>2. Agree(s, t, 0, i)
    BY <1>1 DEF Agree
  <2>3. EvaluateAt(s, i, rule) = EvaluateAt(t, 0 + i, rule)
    BY <2>1, <2>2, SameSignal
  <2> QED
    BY <2>3 DEF t
<1> QED
  BY <1>2, <1>3

\* The loop over the first candles does not see the candle that is new.
LEMMA TradesStay ==
  ASSUME NEW s \in Series, NEW p \in Point, NEW rule, ValidRule(rule)
  PROVE  TradesOf(Append(s, p), rule, Resolvable(s, rule)) = Trades(s, rule)
<1> DEFINE t == Append(s, p)
           n == Resolvable(s, rule)
           q == SignalsOf(s, rule, n)
<1>1. /\ t \in Series /\ Len(s) \in Nat /\ Len(t) = Len(s) + 1 /\ s \in Seq(Point)
      /\ \A i \in 1 .. Len(s) : t[i] = s[i]
  BY DEF Series
<1>2. n \in Nat /\ n <= Len(s) /\ rule.expiry \in Nat
  BY ResolvableIs DEF ValidRule
<1>3. SignalsOf(t, rule, n) = q
  <2>1. \A i \in 1 .. n : Decision(t, rule, i) = Decision(s, rule, i)
    <3> SUFFICES ASSUME NEW i \in 1 .. n PROVE Decision(t, rule, i) = Decision(s, rule, i)
      OBVIOUS
    <3>1. i - 1 \in Nat /\ i - 1 < Len(s)
      BY <1>1, <1>2
    <3> QED
      BY <3>1, DecisionsStay DEF Decision
  <2> HIDE DEF t, n
  <2>2. [ i \in 1 .. n |-> Decision(t, rule, i) ] = [ i \in 1 .. n |-> Decision(s, rule, i) ]
    BY <2>1
  <2> QED
    BY <2>2 DEF SignalsOf
<1>4. q \in Seq(Signal) /\ \A k \in 1 .. Len(q) : q[k].index < n
  BY <1>2, SignalsType
<1>5. ASSUME NEW k \in DOMAIN q
      PROVE  ResolveTrade(t, q[k], rule.expiry) = ResolveTrade(s, q[k], rule.expiry)
  <2>1. q[k] \in Signal /\ q[k].index < n
    BY <1>4
  <2>2. q[k].index \in Nat
    BY <2>1 DEF Signal
  <2>3. q[k].index + rule.expiry < Len(s)
    BY <1>1, <1>2, <2>1, <2>2 DEF Resolvable
  <2> HIDE DEF t, n, q
  <2>4. PointAt(t, q[k].index) = PointAt(s, q[k].index)
    <3>1. q[k].index + 1 \in 1 .. Len(s)
      BY <1>1, <1>2, <2>2, <2>3
    <3>2. t[q[k].index + 1] = s[q[k].index + 1]
      BY <1>1, <3>1
    <3> QED
      BY <2>2, <3>2 DEF PointAt
  <2>5. PointAt(t, q[k].index + rule.expiry) = PointAt(s, q[k].index + rule.expiry)
    <3>1. q[k].index + rule.expiry + 1 \in 1 .. Len(s)
      BY <1>1, <1>2, <2>2, <2>3
    <3>2. t[q[k].index + rule.expiry + 1] = s[q[k].index + rule.expiry + 1]
      BY <1>1, <3>1
    <3>3. q[k].index + rule.expiry >= 0
      BY <1>2, <2>2
    <3> QED
      BY <3>2, <3>3 DEF PointAt
  <2> QED
    BY <2>4, <2>5 DEF ResolveTrade
<1>6. TradesOf(t, rule, n) = TradesOf(s, rule, n)
  <2> HIDE DEF t, n
  <2> QED
    BY <1>3, <1>5 DEF TradesOf, q
<1>7. Trades(s, rule) = TradesOf(s, rule, n)
  BY SignalsAre
<1> QED
  BY <1>6, <1>7

\* A candle more makes the list of operations longer, if anything.
LEMMA TradesOnlyGrow ==
  ASSUME NEW s \in Series, NEW p \in Point, NEW rule, ValidRule(rule)
  PROVE  IsPrefix(Trades(s, rule), Trades(Append(s, p), rule))
<1> DEFINE t == Append(s, p)
           n == Resolvable(s, rule)
           old == Trades(s, rule)
           new == Trades(t, rule)
<1>1. t \in Series /\ Len(s) \in Nat /\ Len(t) = Len(s) + 1 /\ rule.expiry \in Nat
  BY DEF Series, ValidRule
<1>2. n \in Nat /\ (Resolvable(t, rule) = n \/ Resolvable(t, rule) = n + 1)
  BY <1>1 DEF Resolvable
<1>3. TradesOf(t, rule, n) = old /\ old \in Seq(Trade)
  <2>1. old = TradesOf(s, rule, n) /\ n \in Nat /\ n <= n
    BY <1>2, SignalsAre
  <2>2. TradesOf(s, rule, n) \in Seq(Trade)
    BY <2>1, TradesType
  <2> QED
    BY <2>1, <2>2, TradesStay
<1>4. new = TradesOf(t, rule, Resolvable(t, rule))
  BY <1>1, SignalsAre
<1>5. new = old \/ \E x : new = Append(old, x)
  <2>1. CASE Resolvable(t, rule) = n
    BY <1>3, <1>4, <2>1
  <2>2. CASE Resolvable(t, rule) = n + 1
    <3>1. \/ TradesOf(t, rule, n + 1) = TradesOf(t, rule, n)
          \/ \E x : TradesOf(t, rule, n + 1) = Append(TradesOf(t, rule, n), x)
      <4> HIDE DEF n, t
      <4> QED
        BY <1>1, <1>2, TradesStep
    <3> QED
      BY <1>3, <1>4, <2>2, <3>1
  <2> QED
    BY <1>2, <2>1, <2>2
<1> HIDE DEF t, old, new
<1>6. ASSUME NEW x, new = Append(old, x) PROVE IsPrefix(old, new)
  <2>1. old \in Seq(Trade \cup {x}) /\ x \in Trade \cup {x} /\ Len(old) \in Nat
    BY <1>3
  <2>2. Len(old) <= Len(new)
    BY <1>6, <2>1
  <2>3. SubSeq(new, 1, Len(old)) = SubSeq(old, 1, Len(old))
    BY <1>6, <2>1
  <2> QED
    BY <2>2, <2>3 DEF IsPrefix
<1>7. IsPrefix(old, old)
  BY <1>3 DEF IsPrefix
<1> QED
  BY <1>5, <1>6, <1>7 DEF old, new, t

\* LaterCandlesChangeNothing: an operation of a rule depends on nothing that
\* comes after its expiry (strategy.evaluate_at, generate_signals).
THEOREM NothingIsTakenBack == Spec => LaterCandlesChangeNothing
<1>1. TypeOK /\ [Next]_vars =>
        [ judged' = judged =>
            \A rule \in Rule : IsPrefix(Trades(points, rule), Trades(points', rule)) ]_vars
  <2> SUFFICES ASSUME TypeOK, [Next]_vars, NEW rule \in Rule
               PROVE  IsPrefix(Trades(points, rule), Trades(points', rule))
    OBVIOUS
  <2>1. ValidRule(rule)
    BY RuleAssumption
  <2>2. CASE Receive
    <3>1. PICK p \in Point : points' = Append(points, p)
      BY <2>2, ReceiveAppends DEF Receives, TypeOK
    <3> QED
      BY <2>1, <3>1, TradesOnlyGrow DEF TypeOK
  <2>3. CASE UNCHANGED points
    <3>1. Trades(points', rule) = Trades(points, rule)
      BY <2>3
    <3>2. Trades(points, rule) \in Seq(Trade)
      <4>1. Resolvable(points, rule) \in Nat
        BY <2>1, ResolvableIs DEF TypeOK
      <4>2. Resolvable(points, rule) <= Resolvable(points, rule)
        BY <4>1
      <4> QED
        BY <2>1, <4>1, <4>2, SignalsAre, TradesType DEF TypeOK
    <3> QED
      BY <3>1, <3>2 DEF IsPrefix
  <2> QED
    BY <2>2, <2>3 DEF Next, Evaluate, vars
<1> QED
  BY <1>1, SeriesType, PTL DEF Spec, LaterCandlesChangeNothing

-----------------------------------------------------------------------------
(* A rule and its mirror *)

Flip(direction) == CASE direction = "CALL" -> "PUT"
                     [] direction = "PUT" -> "CALL"
                     [] OTHER -> direction

\* A mirrored rule is the rule but for its mode.
LEMMA MirrorIs ==
  ASSUME NEW rule, ValidRule(rule)
  PROVE  /\ ValidRule(Mirror(rule))
         /\ \A f \in {"source", "lookback", "expiry", "streak", "threshold", "window"} :
              Mirror(rule)[f] = rule[f]
         /\ rule.mode = "FOLLOW" => Mirror(rule).mode = "REVERT"
         /\ rule.mode = "REVERT" => Mirror(rule).mode = "FOLLOW"
  BY DEF ValidRule, Mirror

\* It says the opposite of every candle.
LEMMA MirroredSignal ==
  ASSUME NEW s, NEW i, NEW rule, ValidRule(rule)
  PROVE  EvaluateAt(s, i, Mirror(rule)) = Flip(EvaluateAt(s, i, rule))
<1> DEFINE m == Mirror(rule)
<1>1. /\ m.source = rule.source /\ m.lookback = rule.lookback /\ m.expiry = rule.expiry
      /\ m.streak = rule.streak /\ m.threshold = rule.threshold /\ m.window = rule.window
      /\ \/ rule.mode = "FOLLOW" /\ m.mode = "REVERT"
         \/ rule.mode = "REVERT" /\ m.mode = "FOLLOW"
  BY MirrorIs DEF ValidRule
<1> HIDE DEF m
<1>2. Flip(None) = None
  BY DEF Flip, None
<1>3. \A c \in {"UP", "DOWN", "DOJI"} :
        DirectionFromColor(c, m.mode) = Flip(DirectionFromColor(c, rule.mode))
  BY <1>1 DEF DirectionFromColor, Flip, None
<1>4. \A j : CandleColor(s, j) \in {"UP", "DOWN", "DOJI"}
  BY DEF CandleColor
<1>5. Momentum(s, i, m) = Flip(Momentum(s, i, rule))
  BY <1>1, <1>2, <1>3, MomentumIs DEF Moves
<1>6. Streak(s, i, m) = Flip(Streak(s, i, rule))
  BY <1>1, <1>2, <1>3, <1>4 DEF Streak
<1>7. Alternation(s, i, m) = Flip(Alternation(s, i, rule))
  <2>1. Opposite(CandleColor(s, i)) \in {"UP", "DOWN", "DOJI"}
    BY DEF Opposite
  <2>2. DirectionFromColor(Opposite(CandleColor(s, i)), m.mode)
          = Flip(DirectionFromColor(Opposite(CandleColor(s, i)), rule.mode))
    BY <1>3, <2>1
  <2> QED
    BY <1>1, <1>2, <2>2 DEF Alternation
<1>8. BodyRatio(s, i, m) = Flip(BodyRatio(s, i, rule))
  BY <1>1, <1>2, <1>3, <1>4 DEF BodyRatio
<1>9. MinimumHistory(m) = MinimumHistory(rule)
  BY <1>1 DEF MinimumHistory
<1> QED
  BY <1>1, <1>2, <1>5, <1>6, <1>7, <1>8, <1>9 DEF EvaluateAt, ValidRule, m

Mirrored(q, r) ==
  /\ Len(q) = Len(r)
  /\ \A k \in 1 .. Len(q) : r[k].index = q[k].index /\ r[k].direction = Flip(q[k].direction)

\* Candle by candle both rules give signals, of opposite directions, or neither does.
LEMMA MirroredSignals ==
  ASSUME NEW s \in Series, NEW rule, ValidRule(rule)
  PROVE  \A n \in Nat : Mirrored(SignalsOf(s, rule, n), SignalsOf(s, Mirror(rule), n))
<1> DEFINE m == Mirror(rule)
           Both(n) == Mirrored(SignalsOf(s, rule, n), SignalsOf(s, m, n))
           S == { n \in Nat : Both(n) }
<1>0. ValidRule(m)
  BY MirrorIs
<1>1. 0 \in S
  <2>1. SignalsOf(s, rule, 0) = << >> /\ SignalsOf(s, m, 0) = << >>
    BY <1>0, SignalsStep
  <2>2. Len(<< >>) = 0 /\ 1 .. 0 = {}
    OBVIOUS
  <2>3. Both(0)
    BY <2>1, <2>2 DEF Mirrored
  <2> QED
    BY <2>3
<1>2. ASSUME NEW n \in Nat, n \in S PROVE n + 1 \in S
  <2> DEFINE q == SignalsOf(s, rule, n)
             r == SignalsOf(s, m, n)
             d == Decision(s, rule, n + 1)
             e == Decision(s, m, n + 1)
             q1 == SignalsOf(s, rule, n + 1)
             r1 == SignalsOf(s, m, n + 1)
  <2>1. Mirrored(q, r) /\ q \in Seq(Signal) /\ r \in Seq(Signal)
    BY <1>0, <1>2, SignalsType
  <2>2. /\ EvaluateAt(s, n, m) = Flip(EvaluateAt(s, n, rule))
        /\ EvaluateAt(s, n, rule) \in {"CALL", "PUT", None}
    BY <1>0, MirroredSignal, SignalType
  <2>3. EvaluateAt(s, n, m) # None <=> EvaluateAt(s, n, rule) # None
    BY <2>2 DEF Flip, None
  <2>4. /\ q1 = IF EvaluateAt(s, n, rule) # None THEN Append(q, d) ELSE q
        /\ r1 = IF EvaluateAt(s, n, m) # None THEN Append(r, e) ELSE r
    BY <1>0, SignalsStep
  <2>5. e.index = d.index /\ e.direction = Flip(d.direction)
    BY <2>2 DEF Decision
  <2>6. EvaluateAt(s, n, rule) # None => d \in Signal /\ e \in Signal
    BY <1>0, <2>3, SignalType DEF Decision, Signal
  <2> HIDE DEF q, r, d, e, q1, r1
  <2>7. Mirrored(q1, r1)
    <3>1. CASE EvaluateAt(s, n, rule) # None
      <4>1. q1 = Append(q, d) /\ r1 = Append(r, e) /\ d \in Signal /\ e \in Signal
        BY <2>3, <2>4, <2>6, <3>1
      <4>2. Len(q1) = Len(r1)
        BY <2>1, <4>1 DEF Mirrored
      <4>3. ASSUME NEW k \in 1 .. Len(q1)
            PROVE  r1[k].index = q1[k].index /\ r1[k].direction = Flip(q1[k].direction)
        <5>1. CASE k \in 1 .. Len(q)
          <6>1. q1[k] = q[k] /\ r1[k] = r[k]
            BY <2>1, <4>1, <5>1 DEF Mirrored
          <6>2. r[k].index = q[k].index /\ r[k].direction = Flip(q[k].direction)
            BY <2>1, <5>1 DEF Mirrored
          <6> QED
            BY <6>1, <6>2
        <5>2. CASE k = Len(q) + 1
          <6>1. q1[k] = d /\ r1[k] = e
            BY <2>1, <4>1, <5>2 DEF Mirrored
          <6> QED
            BY <2>5, <6>1
        <5>3. Len(q) \in Nat /\ Len(q1) = Len(q) + 1
          BY <2>1, <4>1
        <5>4. k \in 1 .. Len(q) \/ k = Len(q) + 1
          BY <5>3
        <5> QED
          BY <5>1, <5>2, <5>4
      <4> QED
        BY <4>2, <4>3 DEF Mirrored
    <3>2. CASE ~ (EvaluateAt(s, n, rule) # None)
      <4>1. q1 = q /\ r1 = r
        BY <2>3, <2>4, <3>2
      <4> QED
        BY <2>1, <4>1
    <3> QED
      BY <3>1, <3>2
  <2> QED
    BY <2>7 DEF q1, r1
<1>3. \A n \in Nat : n \in S
  <2> HIDE DEF S
  <2> QED
    BY <1>1, <1>2, Signalling!NumbersByInduction
<1> QED
  BY <1>3

\* The two operate on the same candles, and at most one of them wins.
LEMMA MirroredTrades ==
  ASSUME NEW s \in Series, NEW rule, ValidRule(rule)
  PROVE  /\ Trades(s, rule) \in Seq(Trade) /\ Trades(s, Mirror(rule)) \in Seq(Trade)
         /\ Len(Trades(s, rule)) = Len(Trades(s, Mirror(rule)))
         /\ \A k \in 1 .. Len(Trades(s, rule)) :
              /\ Trades(s, rule)[k].index = Trades(s, Mirror(rule))[k].index
              /\ ~ (Trades(s, rule)[k].won /\ Trades(s, Mirror(rule))[k].won)
<1> DEFINE m == Mirror(rule)
           n == Resolvable(s, rule)
           q == SignalsOf(s, rule, n)
           r == SignalsOf(s, m, n)
<1>1. ValidRule(m) /\ m.expiry = rule.expiry /\ Resolvable(s, m) = n /\ n \in Nat
  BY MirrorIs, ResolvableIs DEF Resolvable
<1>2. Trades(s, rule) = TradesOf(s, rule, n) /\ Trades(s, m) = TradesOf(s, m, n)
  BY <1>1, SignalsAre
<1>3. Mirrored(q, r) /\ q \in Seq(Signal) /\ r \in Seq(Signal)
  BY <1>1, MirroredSignals, SignalsType
<1>4. /\ TradesOf(s, rule, n) = [ k \in DOMAIN q |-> ResolveTrade(s, q[k], rule.expiry) ]
      /\ TradesOf(s, m, n) = [ k \in DOMAIN r |-> ResolveTrade(s, r[k], rule.expiry) ]
  BY <1>1 DEF TradesOf
<1>5. TradesOf(s, rule, n) \in Seq(Trade) /\ TradesOf(s, m, n) \in Seq(Trade)
  <2>1. n <= n
    BY <1>1
  <2> QED
    BY <1>1, <2>1, TradesType
<1>6. Len(TradesOf(s, rule, n)) = Len(q) /\ Len(TradesOf(s, m, n)) = Len(r)
  <2>1. n <= n
    BY <1>1
  <2> QED
    BY <1>1, <2>1, TradesType
<1> HIDE DEF m, n, q, r
<1>7. ASSUME NEW k \in 1 .. Len(q)
      PROVE  /\ TradesOf(s, rule, n)[k].index = TradesOf(s, m, n)[k].index
             /\ ~ (TradesOf(s, rule, n)[k].won /\ TradesOf(s, m, n)[k].won)
  <2>1. /\ TradesOf(s, rule, n)[k] = ResolveTrade(s, q[k], rule.expiry)
        /\ TradesOf(s, m, n)[k] = ResolveTrade(s, r[k], rule.expiry)
    BY <1>3, <1>4 DEF Mirrored
  <2>2. /\ r[k].index = q[k].index /\ r[k].direction = Flip(q[k].direction)
        /\ q[k].direction \in {"CALL", "PUT"}
    <3>1. q[k] \in Signal
      BY <1>3
    <3> QED
      BY <1>3, <3>1 DEF Mirrored, Signal
  <2> DEFINE entry == PointAt(s, q[k].index).price
             exit == PointAt(s, q[k].index + rule.expiry).price
  <2>3. /\ TradesOf(s, rule, n)[k].index = q[k].index
        /\ TradesOf(s, m, n)[k].index = q[k].index
        /\ TradesOf(s, rule, n)[k].won = IF q[k].direction = "CALL" THEN exit > entry ELSE exit < entry
        /\ TradesOf(s, m, n)[k].won = IF r[k].direction = "CALL" THEN exit > entry ELSE exit < entry
    BY <2>1, <2>2 DEF ResolveTrade
  <2>4. entry \in Int /\ exit \in Int
    <3>0. q[k] \in Signal /\ q[k].index < n
      BY <1>1, <1>3, SignalsType DEF q
    <3>1. q[k].index \in Nat /\ q[k].index < n
      BY <3>0 DEF Signal
    <3>2. /\ s \in Seq(Point) /\ Len(s) \in Nat /\ rule.expiry \in Nat
          /\ q[k].index + rule.expiry < Len(s)
      BY <3>1 DEF Resolvable, n, Series, ValidRule
    <3>3. PointAt(s, q[k].index) \in Point /\ PointAt(s, q[k].index + rule.expiry) \in Point
      BY <3>1, <3>2 DEF PointAt
    <3> QED
      BY <3>3 DEF Point
  <2> HIDE DEF entry, exit
  <2>5. ~ (exit > entry /\ exit < entry)
    BY <2>4
  <2>6. \/ q[k].direction = "CALL" /\ r[k].direction = "PUT"
        \/ q[k].direction = "PUT" /\ r[k].direction = "CALL"
    BY <2>2 DEF Flip
  <2> QED
    BY <2>3, <2>5, <2>6
<1> QED
  BY <1>2, <1>3, <1>5, <1>6, <1>7 DEF Mirrored, m

\* There are n numbers from 1 to n.
LEMMA UpTo ==
  ASSUME NEW n \in Nat
  PROVE  IsFiniteSet(1 .. n) /\ Cardinality(1 .. n) = n
<1>1. /\ IsFiniteSet(1 .. n)
      /\ Cardinality(1 .. n) = IF 1 > n THEN 0 ELSE n - 1 + 1
  BY FS_Interval
<1> QED
  BY <1>1

\* The operations that are won are some of all.
LEMMA WinsType ==
  ASSUME NEW outcomes \in Seq(BOOLEAN)
  PROVE  /\ IsFiniteSet({ k \in DOMAIN outcomes : outcomes[k] })
         /\ Wins(outcomes) \in Nat /\ Len(outcomes) \in Nat
         /\ Wins(outcomes) <= Len(outcomes)
         /\ Wins(outcomes) = Len(outcomes) <=> \A k \in 1 .. Len(outcomes) : outcomes[k]
<1> DEFINE all == 1 .. Len(outcomes)
           won == { k \in DOMAIN outcomes : outcomes[k] }
<1>1. Len(outcomes) \in Nat /\ DOMAIN outcomes = all
  OBVIOUS
<1>2. IsFiniteSet(all) /\ Cardinality(all) = Len(outcomes)
  BY <1>1, UpTo
<1>3. won \subseteq all
  BY <1>1
<1>4. /\ IsFiniteSet(won) /\ Cardinality(won) <= Cardinality(all)
      /\ Cardinality(all) = Cardinality(won) => all = won
  <2> HIDE DEF all, won
  <2> QED
    BY <1>2, <1>3, FS_Subset
<1>5. Cardinality(won) \in Nat
  BY <1>4, FS_CardinalityType
<1>6. won = all <=> \A k \in 1 .. Len(outcomes) : outcomes[k]
  BY <1>1
<1>7. Wins(outcomes) = Cardinality(won)
  BY DEF Wins
<1> HIDE DEF won, all
<1>8. Cardinality(won) = Len(outcomes) <=> won = all
  BY <1>2, <1>4
<1>9. IsFiniteSet(won) /\ Wins(outcomes) \in Nat /\ Wins(outcomes) <= Len(outcomes)
  BY <1>2, <1>4, <1>5, <1>7
<1> QED
  BY <1>1, <1>6, <1>7, <1>8, <1>9 DEF won

\* The outcomes of the operations are won or lost.
LEMMA OutcomesType ==
  ASSUME NEW trades \in Seq(Trade)
  PROVE  /\ Outcomes(trades) \in Seq(BOOLEAN) /\ Len(Outcomes(trades)) = Len(trades)
         /\ \A k \in 1 .. Len(trades) : Outcomes(trades)[k] = trades[k].won
<1>1. \A k \in 1 .. Len(trades) : trades[k].won \in BOOLEAN
  <2>1. \A k \in 1 .. Len(trades) : trades[k] \in Trade
    OBVIOUS
  <2> QED
    BY <2>1 DEF Trade
<1> QED
  BY <1>1 DEF Outcomes

\* To earn is to win more than is lost at the payout.
LEMMA ProfitIs ==
  ASSUME NEW outcomes \in Seq(BOOLEAN)
  PROVE  LessThan(Zero, Expectancy(outcomes))
           <=> Wins(outcomes) * Payout[1] > (Len(outcomes) - Wins(outcomes)) * Payout[2]
<1> DEFINE w == Wins(outcomes)
           n == Len(outcomes)
<1>1. w \in Nat /\ n \in Nat /\ w <= n
  BY WinsType
<1>2. Payout[1] \in Nat /\ Payout[2] \in Nat
  BY PayoutAssumption
<1>3. CASE outcomes = << >>
  <2>1. n = 0 /\ w = 0
    BY <1>1, <1>3
  <2>2. ~ LessThan(Zero, Expectancy(outcomes))
    BY <1>3 DEF LessThan, Zero, Expectancy
  <2> HIDE DEF w, n
  <2>3. ~ (w * Payout[1] > (n - w) * Payout[2])
    BY <1>2, <2>1
  <2> QED
    BY <2>2, <2>3 DEF w, n
<1>4. CASE outcomes # << >>
  <2> DEFINE earned == w * Payout[1] - (n - w) * Payout[2]
  <2>1. Expectancy(outcomes) = << earned, Payout[2] * n >>
    BY <1>4 DEF Expectancy
  <2>2. LessThan(Zero, Expectancy(outcomes)) <=> 0 * (Payout[2] * n) < earned * 1
    <3> HIDE DEF earned
    <3> QED
      BY <2>1 DEF LessThan, Zero
  <2> HIDE DEF w, n
  <2>3. w * Payout[1] \in Int /\ (n - w) * Payout[2] \in Int /\ Payout[2] * n \in Int
    BY <1>1, <1>2
  <2>4. 0 * (Payout[2] * n) < earned * 1 <=> w * Payout[1] > (n - w) * Payout[2]
    BY <2>3
  <2> QED
    BY <2>2, <2>4 DEF w, n
<1> QED
  BY <1>3, <1>4

\* Two sums of wins and losses over as many operations: with a payout of at most
\* 1 both cannot be above 0, when no operation is won in both.
LEMMA BothEarnNothing ==
  ASSUME NEW n \in Nat, NEW v \in Nat, NEW w \in Nat, v + w <= n,
         NEW x \in Nat, NEW y \in Nat, x <= y
  PROVE  ~ (v * x > (n - v) * y /\ w * x > (n - w) * y)
<1> SUFFICES ASSUME v * x > (n - v) * y, w * x > (n - w) * y PROVE FALSE
  OBVIOUS
<1>1. ASSUME NEW a \in Nat, NEW b \in Nat, a <= b PROVE a * y <= b * y /\ a * x <= a * y
  <2>1. PICK c \in Nat : b = a + c
    <3>1. b - a \in Nat /\ b = a + (b - a)
      BY <1>1
    <3> QED
      BY <3>1
  <2>2. PICK z \in Nat : y = x + z
    <3>1. y - x \in Nat /\ y = x + (y - x)
      OBVIOUS
    <3> QED
      BY <3>1
  <2>3. b * y = a * y + c * y /\ c * y \in Nat
    BY <2>1
  <2>4. a * y = a * x + a * z /\ a * z \in Nat
    BY <2>2
  <2>5. a * y \in Nat /\ a * x \in Nat
    OBVIOUS
  <2> QED
    BY <2>3, <2>4, <2>5
<1>2. n - v \in Nat /\ n - w \in Nat /\ w <= n - v /\ v <= n - w
  OBVIOUS
<1>3. w * x <= (n - v) * y /\ v * x <= (n - w) * y
  <2>1. w * y <= (n - v) * y /\ w * x <= w * y
    BY <1>1, <1>2
  <2>2. v * y <= (n - w) * y /\ v * x <= v * y
    BY <1>1, <1>2
  <2>3. /\ w * y \in Int /\ v * y \in Int /\ w * x \in Int /\ v * x \in Int
        /\ (n - v) * y \in Int /\ (n - w) * y \in Int
    OBVIOUS
  <2> QED
    BY <2>1, <2>2, <2>3
<1>4. /\ w * x \in Int /\ v * x \in Int /\ (n - v) * y \in Int /\ (n - w) * y \in Int
  OBVIOUS
<1> QED
  BY <1>3, <1>4

\* A rule and its mirror, at a payout of at most 1, do not both earn.
LEMMA NotBothEarn ==
  ASSUME NEW s \in Series, NEW rule, ValidRule(rule), ~ LessThan(One, Payout)
  PROVE  ~ (Profitable(Trades(s, rule)) /\ Profitable(Trades(s, Mirror(rule))))
<1> DEFINE q == Outcomes(Trades(s, rule))
           r == Outcomes(Trades(s, Mirror(rule)))
           n == Len(q)
           won == { k \in DOMAIN q : q[k] }
           other == { k \in DOMAIN r : r[k] }
<1>1. /\ q \in Seq(BOOLEAN) /\ r \in Seq(BOOLEAN) /\ Len(r) = n
      /\ \A k \in 1 .. n : ~ (q[k] /\ r[k])
  <2> DEFINE trades == Trades(s, rule)
             mirrored == Trades(s, Mirror(rule))
  <2>1. /\ trades \in Seq(Trade) /\ mirrored \in Seq(Trade) /\ Len(trades) = Len(mirrored)
        /\ \A k \in 1 .. Len(trades) : ~ (trades[k].won /\ mirrored[k].won)
    BY MirroredTrades
  <2> HIDE DEF trades, mirrored
  <2>2. /\ Outcomes(trades) \in Seq(BOOLEAN) /\ Len(Outcomes(trades)) = Len(trades)
        /\ \A k \in 1 .. Len(trades) : Outcomes(trades)[k] = trades[k].won
    BY <2>1, OutcomesType
  <2>3. /\ Outcomes(mirrored) \in Seq(BOOLEAN) /\ Len(Outcomes(mirrored)) = Len(mirrored)
        /\ \A k \in 1 .. Len(mirrored) : Outcomes(mirrored)[k] = mirrored[k].won
    BY <2>1, OutcomesType
  <2>4. ASSUME NEW k \in 1 .. Len(trades)
        PROVE  ~ (Outcomes(trades)[k] /\ Outcomes(mirrored)[k])
    <3>1. Outcomes(trades)[k] = trades[k].won /\ Outcomes(mirrored)[k] = mirrored[k].won
      BY <2>1, <2>2, <2>3
    <3> QED
      BY <2>1, <3>1
  <2> QED
    BY <2>1, <2>2, <2>3, <2>4 DEF trades, mirrored
<1> HIDE DEF q, r
<1>2. /\ IsFiniteSet(won) /\ IsFiniteSet(other) /\ n \in Nat
      /\ Wins(q) \in Nat /\ Wins(r) \in Nat
      /\ Wins(q) = Cardinality(won) /\ Wins(r) = Cardinality(other)
  BY <1>1, WinsType DEF Wins
<1>3. won \cap other = {} /\ won \cup other \subseteq 1 .. n
  BY <1>1
<1> HIDE DEF won, other
<1>4. Wins(q) + Wins(r) <= n
  <2>1. Cardinality(won \cup other) = Cardinality(won) + Cardinality(other) - Cardinality({})
    BY <1>2, <1>3, FS_Union
  <2>2. Cardinality({}) = 0
    BY FS_EmptySet
  <2> HIDE DEF n
  <2>3. IsFiniteSet(1 .. n) /\ Cardinality(1 .. n) = n
    BY <1>2, UpTo
  <2>5. Cardinality(won \cup other) <= n
    BY <1>3, <2>3, FS_Subset
  <2> QED
    BY <1>2, <2>1, <2>2, <2>5
<1>5. Payout[1] \in Nat /\ Payout[2] \in Nat /\ Payout[1] <= Payout[2]
  <2>1. Payout[1] \in Nat /\ Payout[2] \in Nat
    BY PayoutAssumption
  <2>2. ~ (1 * Payout[2] < Payout[1] * 1)
    BY DEF LessThan, One
  <2> QED
    BY <2>1, <2>2
<1>6. /\ Profitable(Trades(s, rule)) <=> Wins(q) * Payout[1] > (n - Wins(q)) * Payout[2]
      /\ Profitable(Trades(s, Mirror(rule)))
           <=> Wins(r) * Payout[1] > (n - Wins(r)) * Payout[2]
  <2>1. /\ Profitable(Trades(s, rule)) <=> LessThan(Zero, Expectancy(q))
        /\ Profitable(Trades(s, Mirror(rule))) <=> LessThan(Zero, Expectancy(r))
    BY DEF Profitable, q, r
  <2> QED
    BY <1>1, <2>1, ProfitIs
<1> QED
  BY <1>2, <1>4, <1>5, <1>6, BothEarnNothing

\* MirrorRulesShareNoWin: FOLLOW and REVERT of one rule operate on the same
\* candles, a tie is a loss for both (backtest_engine.resolve_trade), and the
\* sample cannot recommend both.
THEOREM MirrorsShareNoWin == Spec => []MirrorRulesShareNoWin
<1>1. TypeOK => MirrorRulesShareNoWin
  <2> SUFFICES ASSUME TypeOK, NEW rule \in Rule
               PROVE  LET trades == Trades(points, rule)
                          mirrored == Trades(points, Mirror(rule))
                      IN  /\ Len(trades) = Len(mirrored)
                          /\ \A k \in DOMAIN trades : /\ trades[k].index = mirrored[k].index
                                                      /\ ~ (trades[k].won /\ mirrored[k].won)
                          /\ ~ LessThan(One, Payout) =>
                               ~ (Profitable(trades) /\ Profitable(mirrored))
    BY DEF MirrorRulesShareNoWin
  <2>1. points \in Series /\ ValidRule(rule)
    BY RuleAssumption DEF TypeOK
  <2>2. DOMAIN Trades(points, rule) = 1 .. Len(Trades(points, rule))
    BY <2>1, MirroredTrades
  <2> QED
    BY <2>1, <2>2, MirroredTrades, NotBothEarn
<1> QED
  BY <1>1, SeriesType, PTL DEF Spec

-----------------------------------------------------------------------------
(* Hours *)

Indices(q) == { x.index : x \in ToSet(q) }

\* The candles that a rule operates on.
LEMMA IndicesAre ==
  ASSUME NEW s \in Series, NEW rule, ValidRule(rule)
  PROVE  Indices(GenerateSignals(s, rule))
           = { i \in Nat : i < Resolvable(s, rule) /\ EvaluateAt(s, i, rule) # None }
<1> DEFINE Given(n) == { i \in Nat : i < n /\ EvaluateAt(s, i, rule) # None }
           S == { n \in Nat : Indices(SignalsOf(s, rule, n)) = Given(n) }
<1>1. 0 \in S
  <2>1. SignalsOf(s, rule, 0) = << >>
    BY SignalsStep
  <2>2. Indices(<< >>) = {} /\ Given(0) = {}
    BY DEF Indices, ToSet
  <2> HIDE DEF Given
  <2> QED
    BY <2>1, <2>2
<1>2. ASSUME NEW n \in Nat, n \in S PROVE n + 1 \in S
  <2> DEFINE q == SignalsOf(s, rule, n)
             d == Decision(s, rule, n + 1)
  <2>1. Indices(q) = Given(n) /\ q \in Seq(Signal)
    BY <1>2, SignalsType
  <2>2. SignalsOf(s, rule, n + 1) = IF EvaluateAt(s, n, rule) # None THEN Append(q, d) ELSE q
    BY SignalsStep
  <2>3. CASE EvaluateAt(s, n, rule) # None
    <3>1. d \in Signal /\ d.index = n
      BY <2>3, SignalType DEF Decision, Signal
    <3> HIDE DEF q, d
    <3>2. ToSet(Append(q, d)) = ToSet(q) \cup {d}
      <4>1. /\ DOMAIN Append(q, d) = (1 .. Len(q)) \cup {Len(q) + 1} /\ DOMAIN q = 1 .. Len(q)
            /\ Len(q) \in Nat /\ Append(q, d)[Len(q) + 1] = d
            /\ \A k \in 1 .. Len(q) : Append(q, d)[k] = q[k]
        BY <2>1, <3>1
      <4> QED
        BY <4>1 DEF ToSet
    <3>3. Indices(Append(q, d)) = Indices(q) \cup {n}
      BY <3>1, <3>2 DEF Indices
    <3>4. Given(n + 1) = Given(n) \cup {n}
      BY <2>3
    <3> HIDE DEF Given
    <3>5. Indices(SignalsOf(s, rule, n + 1)) = Given(n + 1)
      BY <2>1, <2>2, <2>3, <3>3, <3>4
    <3> QED
      BY <3>5
  <2>4. CASE ~ (EvaluateAt(s, n, rule) # None)
    <3>1. Given(n + 1) = Given(n)
      BY <2>4
    <3> HIDE DEF Given, q, d
    <3>2. Indices(SignalsOf(s, rule, n + 1)) = Given(n + 1)
      BY <2>1, <2>2, <2>4, <3>1
    <3> QED
      BY <3>2
  <2> QED
    BY <2>3, <2>4
<1>3. \A n \in Nat : n \in S
  <2> HIDE DEF S
  <2> QED
    BY <1>1, <1>2, Signalling!NumbersByInduction
<1>4. Resolvable(s, rule) \in S
  <2> HIDE DEF S
  <2> QED
    BY <1>3, ResolvableIs
<1>5. GenerateSignals(s, rule) = SignalsOf(s, rule, Resolvable(s, rule))
  BY SignalsAre
<1> QED
  BY <1>4, <1>5

During(rule, window) == [rule EXCEPT !.window = window]

Windows == {Always} \cup (0 .. 23) \X (0 .. 23)

\* A rule in another window is the rule but for its window.
LEMMA DuringIs ==
  ASSUME NEW rule, ValidRule(rule), NEW window \in Windows
  PROVE  /\ ValidRule(During(rule, window))
         /\ During(rule, window).window = window
         /\ \A f \in {"source", "mode", "lookback", "expiry", "streak", "threshold"} :
              During(rule, window)[f] = rule[f]
  BY DEF ValidRule, During, Windows

\* A window keeps the decisions of its hours, and changes none.
LEMMA DuringKeeps ==
  ASSUME NEW s, NEW i, NEW rule, ValidRule(rule), NEW window \in Windows
  PROVE  EvaluateAt(s, i, During(rule, window))
           = IF WithinHourWindow(PointAt(s, i).hour, window)
             THEN EvaluateAt(s, i, During(rule, Always)) ELSE None
<1> DEFINE r == During(rule, window)
           a == During(rule, Always)
<1>1. /\ r.source = a.source /\ r.mode = a.mode /\ r.lookback = a.lookback
      /\ r.streak = a.streak /\ r.threshold = a.threshold
      /\ r.window = window /\ a.window = Always
  BY DuringIs DEF Windows
<1> HIDE DEF r, a
<1>2. Momentum(s, i, r) = Momentum(s, i, a)
  BY <1>1, MomentumIs DEF Moves
<1>3. Streak(s, i, r) = Streak(s, i, a)
  BY <1>1 DEF Streak
<1>4. Alternation(s, i, r) = Alternation(s, i, a)
  BY <1>1 DEF Alternation
<1>5. BodyRatio(s, i, r) = BodyRatio(s, i, a)
  BY <1>1 DEF BodyRatio
<1>6. MinimumHistory(r) = MinimumHistory(a)
  BY <1>1 DEF MinimumHistory
<1>7. WithinHourWindow(PointAt(s, i).hour, Always)
  BY DEF WithinHourWindow
<1> DEFINE Says(x) == CASE x.source = "MOMENTUM" -> Momentum(s, i, x)
                        [] x.source = "STREAK" -> Streak(s, i, x)
                        [] x.source = "ALTERNATION" -> Alternation(s, i, x)
                        [] x.source = "BODY_RATIO" -> BodyRatio(s, i, x)
<1>8. Says(r) = Says(a)
  BY <1>1, <1>2, <1>3, <1>4, <1>5
<1>9. \A x : EvaluateAt(s, i, x) =
              IF i + 1 < MinimumHistory(x) \/ ~ WithinHourWindow(PointAt(s, i).hour, x.window)
              THEN None ELSE Says(x)
  BY DEF EvaluateAt
<1> HIDE DEF Says
<1> QED
  BY <1>1, <1>6, <1>7, <1>8, <1>9 DEF r, a

\* The hours that a window leaves out.
Rest(window) == << (window[2] + 1) % 24, (window[1] + 23) % 24 >>

\* The hours that are left out are the window from its end to its beginning.
LEMMA RestIs ==
  ASSUME NEW window \in (0 .. 23) \X (0 .. 23), (window[2] + 1) % 24 # window[1],
         NEW hour \in 0 .. 23
  PROVE  /\ Rest(window) \in (0 .. 23) \X (0 .. 23)
         /\ WithinHourWindow(hour, Rest(window)) <=> ~ WithinHourWindow(hour, window)
<1> DEFINE from == window[1]
           to == window[2]
<1>1. from \in 0 .. 23 /\ to \in 0 .. 23
  OBVIOUS
<1>2. (to + 1) % 24 = IF to = 23 THEN 0 ELSE to + 1
  BY <1>1
<1>3. (from + 23) % 24 = IF from = 0 THEN 23 ELSE from - 1
  BY <1>1
<1>4. \A v \in (0 .. 23) \X (0 .. 23) : v # Always
  BY DEF Always
<1>5. \A v \in (0 .. 23) \X (0 .. 23) :
        WithinHourWindow(hour, v) <=> IF v[1] <= v[2] THEN v[1] <= hour /\ hour <= v[2]
                                                      ELSE v[1] <= hour \/ hour <= v[2]
  BY <1>4 DEF WithinHourWindow
<1>6. /\ Rest(window) \in (0 .. 23) \X (0 .. 23)
      /\ Rest(window)[1] = IF to = 23 THEN 0 ELSE to + 1
      /\ Rest(window)[2] = IF from = 0 THEN 23 ELSE from - 1
  BY <1>1, <1>2, <1>3 DEF Rest
<1> QED
  BY <1>1, <1>2, <1>5, <1>6

\* HourWindowsPartition: TimeWindow.contains takes the hours of a window, also
\* over midnight, and leaves the others.
THEOREM HoursArePartitioned == Spec => []HourWindowsPartition
<1>1. TypeOK => HourWindowsPartition
  <2> SUFFICES ASSUME TypeOK, NEW rule \in Rule, Partial(rule.window)
               PROVE  LET Of(window) == Indices(GenerateSignals(points, During(rule, window)))
                          others == Rest(rule.window)
                      IN  /\ Of(rule.window) \cup Of(others) = Of(Always)
                          /\ Of(rule.window) \cap Of(others) = {}
    BY DEF HourWindowsPartition, During, Indices, Rest
  <2> DEFINE others == Rest(rule.window)
             Given(window) == { i \in Nat : /\ i < Resolvable(points, rule)
                                            /\ EvaluateAt(points, i, During(rule, window)) # None }
  <2>1. points \in Series /\ ValidRule(rule)
    BY RuleAssumption DEF TypeOK
  <2>2. rule.window \in (0 .. 23) \X (0 .. 23) /\ (rule.window[2] + 1) % 24 # rule.window[1]
    BY <2>1 DEF Partial, ValidRule
  <2>3. others \in (0 .. 23) \X (0 .. 23)
    <3>1. 0 \in 0 .. 23
      OBVIOUS
    <3> QED
      BY <2>2, <3>1, RestIs
  <2>4. rule.window \in Windows /\ others \in Windows /\ Always \in Windows
    BY <2>2, <2>3 DEF Windows
  <2>5. \A window \in Windows : Indices(GenerateSignals(points, During(rule, window))) = Given(window)
    <3> SUFFICES ASSUME NEW window \in Windows
                 PROVE  Indices(GenerateSignals(points, During(rule, window))) = Given(window)
      OBVIOUS
    <3>1. ValidRule(During(rule, window)) /\ During(rule, window).expiry = rule.expiry
      BY <2>1, DuringIs
    <3>2. Resolvable(points, During(rule, window)) = Resolvable(points, rule)
      BY <3>1 DEF Resolvable
    <3> QED
      BY <2>1, <3>1, <3>2, IndicesAre
  <2>6. ASSUME NEW i \in Nat, i < Resolvable(points, rule)
        PROVE  /\ i \in Given(rule.window) \/ i \in Given(others) <=> i \in Given(Always)
               /\ ~ (i \in Given(rule.window) /\ i \in Given(others))
    <3>1. PointAt(points, i).hour \in 0 .. 23
      <4>1. Resolvable(points, rule) \in Nat /\ Resolvable(points, rule) <= Len(points)
        BY <2>1, ResolvableIs
      <4>2. points \in Seq(Point) /\ Len(points) \in Nat
        BY <2>1 DEF Series
      <4>3. PointAt(points, i) \in Point
        BY <2>6, <4>1, <4>2 DEF PointAt
      <4> QED
        BY <4>3 DEF Point
    <3>2. WithinHourWindow(PointAt(points, i).hour, others)
            <=> ~ WithinHourWindow(PointAt(points, i).hour, rule.window)
      BY <2>2, <3>1, RestIs
    <3> DEFINE E(window) == EvaluateAt(points, i, During(rule, window))
               In(window) == WithinHourWindow(PointAt(points, i).hour, window)
    <3>3. \A window \in Windows : E(window) = IF In(window) THEN E(Always) ELSE None
      BY <2>1, DuringKeeps
    <3>4. \A window \in Windows : i \in Given(window) <=> E(window) # None
      BY <2>6
    <3> HIDE DEF others, Given, E
    <3> QED
      BY <2>4, <3>2, <3>3, <3>4
  <2>7. \A window \in Windows : \A i \in Given(window) : i \in Nat /\ i < Resolvable(points, rule)
    OBVIOUS
  <2> HIDE DEF others, Given
  <2>8. /\ Given(rule.window) \cup Given(others) = Given(Always)
        /\ Given(rule.window) \cap Given(others) = {}
    BY <2>4, <2>6, <2>7
  <2> QED
    BY <2>4, <2>5, <2>8 DEF others
<1> QED
  BY <1>1, SeriesType, PTL DEF Spec

-----------------------------------------------------------------------------
(* The capital *)

Operating == INSTANCE Lemmas WITH Body <- Operation

\* build_equity_curve as a loop over the outcomes.
LEMMA EquityCurveIs ==
  ASSUME NEW outcomes, NEW capital, NEW risk
  PROVE  EquityCurve(outcomes, capital, risk) = Operating!After(risk, AtStart(capital), outcomes)
  BY DEF EquityCurve, Operating!After, Operating!FoldLeft,
         Operating!MapThenFoldSet, Operating!Max, FoldLeft, MapThenFoldSet, Max

ValidRisk(risk) == risk \in Fraction /\ LessThan(Zero, risk) /\ ~ LessThan(One, risk)

\* The share at stake, without its fraction.
LEMMA RiskIs ==
  ASSUME NEW risk, ValidRisk(risk)
  PROVE  /\ risk[1] \in Nat \ {0} /\ risk[2] \in Nat \ {0} /\ risk[1] <= risk[2]
         /\ ~ LessThan(risk, One) <=> risk[1] = risk[2]
<1>1. risk[1] \in Int /\ risk[2] \in Nat /\ risk[2] > 0
  BY DEF ValidRisk, Fraction
<1>2. 0 * risk[2] < risk[1] * 1 /\ ~ (1 * risk[2] < risk[1] * 1)
  BY DEF ValidRisk, LessThan, Zero, One
<1>3. LessThan(risk, One) <=> risk[1] * 1 < 1 * risk[2]
  BY DEF LessThan, One
<1> QED
  BY <1>1, <1>2, <1>3

\* There is capital until a loss of all of it, and ruin after it.
Solvent(curve, risk, lost) ==
  /\ DOMAIN curve = {"equity", "peak", "start", "drops", "ruined"}
  /\ curve.equity \in Nat \ {0}
  /\ curve.ruined \in BOOLEAN
  /\ curve.ruined <=> risk[1] = risk[2] /\ lost

\* An operation ruins the capital exactly when all of it is at stake and lost.
LEMMA OneOperation ==
  ASSUME NEW risk, ValidRisk(risk), NEW curve, NEW lost \in BOOLEAN, Solvent(curve, risk, lost),
         NEW won \in BOOLEAN
  PROVE  Solvent(Operation(risk, curve, won), risk, lost \/ ~ won)
<1> DEFINE stake == Stake(curve.equity, curve.start, risk)
           equity == curve.equity * Unit(risk)
                     + (IF won THEN stake * Payout[1] ELSE - (stake * Payout[2]))
           peak == Peak(curve.peak * Unit(risk), equity)
           next == Operation(risk, curve, won)
           e == curve.equity
           a == risk[1]
           b == risk[2]
           x == Payout[1]
           y == Payout[2]
<1>1. /\ a \in Nat \ {0} /\ b \in Nat \ {0} /\ a <= b
      /\ x \in Nat \ {0} /\ y \in Nat \ {0} /\ e \in Nat \ {0}
  BY RiskIs, PayoutAssumption DEF Solvent
<1>2. next = CASE curve.ruined -> curve
               [] ~ curve.ruined /\ (stake <= 0 \/ stake > e * b) -> [curve EXCEPT !.ruined = TRUE]
               [] ~ curve.ruined /\ stake > 0 /\ equity <= 0 -> [curve EXCEPT !.ruined = TRUE]
               [] OTHER -> [curve EXCEPT !.equity = equity, !.peak = peak,
                                         !.start = @ * Unit(risk),
                                         !.drops = @ \cup {<<peak - equity, peak>>}]
  BY DEF Operation, Ruin
<1>3. stake = e * a
  BY DEF Stake
<1>4. equity = e * (b * y) + (IF won THEN (e * a) * x ELSE - ((e * a) * y))
  BY DEF Stake, Unit
<1> HIDE DEF stake, equity, peak, next, e, a, b, x, y
<1>5. stake > 0 /\ stake \in Nat /\ ~ (stake > e * b)
  <2>1. PICK c \in Nat : b = a + c
    <3>1. b - a \in Nat /\ b = a + (b - a)
      BY <1>1
    <3> QED
      BY <3>1
  <2>2. e * b = e * a + e * c /\ e * c \in Nat /\ e * a \in Nat /\ e * a > 0
    BY <1>1, <2>1
  <2> QED
    BY <1>3, <2>2
<1>6. /\ equity \in Int
      /\ won => equity > 0
      /\ ~ won => (equity <= 0 <=> a = b)
  <2>1. PICK c \in Nat : b = a + c
    <3>1. b - a \in Nat /\ b = a + (b - a)
      BY <1>1
    <3> QED
      BY <3>1
  <2>2. /\ e * (b * y) \in Nat \ {0} /\ (e * a) * x \in Nat \ {0} /\ (e * a) * y \in Nat \ {0}
        /\ (e * c) * y \in Nat /\ (c # 0 => (e * c) * y > 0) /\ (c = 0 => (e * c) * y = 0)
    BY <1>1, <2>1
  <2>3. e * (b * y) = (e * a) * y + (e * c) * y
    BY <1>1, <2>1
  <2>4. a = b <=> c = 0
    BY <1>1, <2>1
  <2> QED
    BY <1>4, <2>2, <2>3, <2>4
<1>7. DOMAIN curve = {"equity", "peak", "start", "drops", "ruined"} /\ curve.ruined \in BOOLEAN
  BY DEF Solvent
<1>8. CASE curve.ruined
  <2>1. next = curve
    BY <1>2, <1>8
  <2> QED
    BY <1>7, <1>8, <2>1 DEF Solvent, next
<1>9. CASE ~ curve.ruined /\ equity <= 0
  <2>1. next = [curve EXCEPT !.ruined = TRUE]
    BY <1>2, <1>5, <1>9
  <2>2. ~ won /\ a = b
    BY <1>6, <1>9
  <2> QED
    BY <1>7, <2>1, <2>2 DEF Solvent, next, a, b
<1>10. CASE ~ curve.ruined /\ ~ (equity <= 0)
  <2>1. next = [curve EXCEPT !.equity = equity, !.peak = peak,
                             !.start = @ * Unit(risk),
                             !.drops = @ \cup {<<peak - equity, peak>>}]
    BY <1>2, <1>5, <1>10
  <2>2. equity \in Nat \ {0}
    BY <1>6, <1>10
  <2>3. /\ DOMAIN next = {"equity", "peak", "start", "drops", "ruined"}
        /\ next.equity = equity /\ next.ruined = curve.ruined
    BY <1>7, <2>1
  <2>4. ~ (a = b /\ (lost \/ ~ won))
    BY <1>6, <1>10 DEF Solvent, a, b
  <2> QED
    BY <1>7, <1>10, <2>2, <2>3, <2>4 DEF Solvent, next, a, b
<1> QED
  BY <1>7, <1>8, <1>9, <1>10

\* And so do the operations of a rule, by induction over them.
LEMMA RuinIs ==
  ASSUME NEW risk, ValidRisk(risk), NEW capital \in Nat \ {0}
  PROVE  \A outcomes \in Seq(BOOLEAN) :
           Solvent(EquityCurve(outcomes, capital, risk), risk,
                   Wins(outcomes) < Len(outcomes))
<1> DEFINE Lost(q) == \E k \in 1 .. Len(q) : ~ q[k]
           Curve(q) == EquityCurve(q, capital, risk)
           S == { q \in Seq(BOOLEAN) : Solvent(Curve(q), risk, Lost(q)) }
<1>1. << >> \in S
  <2>1. Curve(<< >>) = AtStart(capital)
    BY EquityCurveIs, Operating!LoopEmpty
  <2>2. ~ Lost(<< >>)
    OBVIOUS
  <2>3. Solvent(AtStart(capital), risk, FALSE)
    BY DEF Solvent, AtStart
  <2> HIDE DEF Curve, Lost
  <2>4. Solvent(Curve(<< >>), risk, Lost(<< >>))
    BY <2>1, <2>2, <2>3 DEF Solvent
  <2> QED
    BY <2>4
<1>2. ASSUME NEW q \in Seq(BOOLEAN), NEW won \in BOOLEAN, q \in S PROVE Append(q, won) \in S
  <2>1. Curve(Append(q, won)) = Operation(risk, Curve(q), won)
    BY EquityCurveIs, Operating!LoopAppend
  <2>2. Lost(Append(q, won)) <=> Lost(q) \/ ~ won
    <3>1. /\ Len(q) \in Nat /\ Len(Append(q, won)) = Len(q) + 1
          /\ \A k \in 1 .. Len(q) : Append(q, won)[k] = q[k]
          /\ Append(q, won)[Len(q) + 1] = won
      OBVIOUS
    <3>2. ASSUME NEW k \in 1 .. Len(q) + 1, ~ Append(q, won)[k] PROVE Lost(q) \/ ~ won
      BY <3>1, <3>2
    <3>3. ASSUME NEW k \in 1 .. Len(q), ~ q[k] PROVE Lost(Append(q, won))
      <4>1. k \in 1 .. Len(Append(q, won)) /\ ~ Append(q, won)[k]
        BY <3>1, <3>3
      <4> QED
        BY <4>1
    <3>4. ASSUME ~ won PROVE Lost(Append(q, won))
      <4>1. Len(q) + 1 \in 1 .. Len(Append(q, won)) /\ ~ Append(q, won)[Len(q) + 1]
        BY <3>1, <3>4
      <4> QED
        BY <4>1
    <3> QED
      BY <3>1, <3>2, <3>3, <3>4
  <2>3. Solvent(Curve(q), risk, Lost(q)) /\ Lost(q) \in BOOLEAN
    BY <1>2
  <2> HIDE DEF Curve, Lost
  <2>4. Solvent(Operation(risk, Curve(q), won), risk, Lost(q) \/ ~ won)
    BY <2>3, OneOperation
  <2>5. Solvent(Curve(Append(q, won)), risk, Lost(Append(q, won)))
    BY <2>1, <2>2, <2>4 DEF Solvent
  <2> QED
    BY <2>5
<1>3. \A q \in Seq(BOOLEAN) : q \in S
  <2> HIDE DEF S
  <2> QED
    BY <1>1, <1>2, Operating!SequencesByInduction
<1>4. ASSUME NEW q \in Seq(BOOLEAN) PROVE Wins(q) < Len(q) <=> Lost(q)
  <2>1. /\ Wins(q) \in Nat /\ Len(q) \in Nat /\ Wins(q) <= Len(q)
        /\ Wins(q) = Len(q) <=> \A k \in 1 .. Len(q) : q[k]
    BY WinsType
  <2> QED
    BY <2>1
<1> HIDE DEF Lost
<1> QED
  BY <1>3, <1>4 DEF Solvent

\* RuinNeedsFullStake: build_equity_curve is ruined by a loss with everything at
\* stake and by nothing else, whatever the capital, the payout and the series.
THEOREM OnlyFullStakeRuins == Spec => []RuinNeedsFullStake
<1>1. TypeOK => RuinNeedsFullStake
  <2> SUFFICES ASSUME TypeOK, NEW rule \in Rule, NEW config \in Config,
                      NEW curve \in RunBacktest(points, rule, config.risk).curves
               PROVE  curve.ruined <=>
                        /\ ~ LessThan(config.risk, One)
                        /\ Wins(RunBacktest(points, rule, config.risk).outcomes)
                             < Len(RunBacktest(points, rule, config.risk).outcomes)
    BY DEF RuinNeedsFullStake
  <2> DEFINE outcomes == Outcomes(Trades(points, rule))
  <2>1. points \in Series /\ ValidRule(rule) /\ ValidRisk(config.risk)
    BY RuleAssumption, ConfigAssumption DEF TypeOK, ConfigOK, ValidRisk, One
  <2>2. outcomes \in Seq(BOOLEAN)
    BY <2>1, MirroredTrades, OutcomesType
  <2>3. PICK capital \in CapitalScenarios : curve = EquityCurve(outcomes, capital, config.risk)
    BY DEF RunBacktest
  <2>4. RunBacktest(points, rule, config.risk).outcomes = outcomes
    BY DEF RunBacktest
  <2> HIDE DEF outcomes
  <2>5. Solvent(curve, config.risk, Wins(outcomes) < Len(outcomes))
    <3>1. capital \in Nat \ {0}
      BY CapitalAssumption
    <3> QED
      BY <2>1, <2>2, <2>3, <3>1, RuinIs
  <2>6. ~ LessThan(config.risk, One) <=> config.risk[1] = config.risk[2]
    BY <2>1, RiskIs
  <2> QED
    BY <2>4, <2>5, <2>6 DEF Solvent
<1> QED
  BY <1>1, SeriesType, PTL DEF Spec

-----------------------------------------------------------------------------
(* Folds *)

\* The folds lie within the series.
LEMMA FoldBounds ==
  ASSUME NEW s \in Series, NEW folds \in Nat \ {0}, NEW k \in 0 .. folds - 1
  PROVE  /\ FoldStart(s, folds, k) \in Nat /\ FoldEnd(s, folds, k) \in Nat
         /\ FoldStart(s, folds, k) <= FoldEnd(s, folds, k)
         /\ FoldEnd(s, folds, k) <= Len(s)
<1> DEFINE n == Len(s)
           size == n \div folds
<1>1. n \in Nat
  BY DEF Series
<1> HIDE DEF n
<1>2. size \in Nat /\ folds * size <= n
  BY <1>1
<1> HIDE DEF size
<1>3. PICK z \in Nat : folds = k + 1 + z
  <2>1. folds - (k + 1) \in Nat /\ folds = k + 1 + (folds - (k + 1))
    OBVIOUS
  <2> QED
    BY <2>1
<1>4. /\ folds * size = k * size + size + z * size
      /\ (k + 1) * size = k * size + size
      /\ k * size \in Nat /\ z * size \in Nat
  BY <1>2, <1>3
<1>5. FoldStart(s, folds, k) = k * size /\ FoldStart(s, folds, k + 1) = (k + 1) * size
  BY DEF FoldStart, size, n
<1>6. FoldEnd(s, folds, k) = IF k = folds - 1 THEN n ELSE (k + 1) * size
  BY <1>5 DEF FoldEnd, n
<1>7. /\ k * size \in Nat /\ (k + 1) * size \in Nat
      /\ k * size <= n /\ k * size <= (k + 1) * size /\ (k + 1) * size <= n
  BY <1>1, <1>2, <1>4
<1> QED
  BY <1>1, <1>5, <1>6, <1>7 DEF n

\* A fold is a window of the series.
LEMMA SegmentIs ==
  ASSUME NEW s \in Series, NEW a \in Nat, NEW b \in Nat, a <= b, b <= Len(s)
  PROVE  /\ Segment(s, a, b) \in Series /\ Len(Segment(s, a, b)) = b - a
         /\ \A j \in 1 .. b - a : Segment(s, a, b)[j] = s[a + j]
  BY DEF Segment, Series

\* A rule needs a candle at least.
LEMMA MinimumHistoryType ==
  ASSUME NEW rule, ValidRule(rule)
  PROVE  MinimumHistory(rule) \in Nat \ {0} /\ rule.expiry \in Nat
  BY DEF ValidRule, MinimumHistory

\* The body of the loop of TradesWithin, given the bounds of the fold.
KeepWithin(given, kept, trade) ==
  IF trade.index >= given.from /\ trade.index + given.expiry < given.to
  THEN Append(kept, trade) ELSE kept

Selecting == INSTANCE Lemmas WITH Body <- KeepWithin

Bounds(rule, a, b) ==
  [ from |-> a + MinimumHistory(rule) - 1, to |-> b, expiry |-> rule.expiry ]

KeptOf(s, rule, a, b, n) == Selecting!After(Bounds(rule, a, b), << >>, TradesOf(s, rule, n))

\* Of the operations within the fold, what a candle more adds.
LEMMA KeptStep ==
  ASSUME NEW s \in Series, NEW rule, ValidRule(rule), NEW a \in Nat, NEW b \in Nat,
         NEW n \in Nat, n < Resolvable(s, rule)
  PROVE  /\ KeptOf(s, rule, a, b, 0) = << >>
         /\ KeptOf(s, rule, a, b, n + 1) =
              IF /\ EvaluateAt(s, n, rule) # None
                 /\ n + 1 >= a + MinimumHistory(rule) /\ n + rule.expiry < b
              THEN Append(KeptOf(s, rule, a, b, n),
                          ResolveTrade(s, Decision(s, rule, n + 1), rule.expiry))
              ELSE KeptOf(s, rule, a, b, n)
<1> DEFINE q == TradesOf(s, rule, n)
           d == Decision(s, rule, n + 1)
           t == ResolveTrade(s, d, rule.expiry)
           given == Bounds(rule, a, b)
<1>1. Len(s) \in Nat /\ MinimumHistory(rule) \in Nat \ {0} /\ rule.expiry \in Nat
  BY MinimumHistoryType DEF Series
<1>2. q \in Seq(Trade)
  <2>1. Resolvable(s, rule) \in Nat
    BY ResolvableIs
  <2>2. n <= Resolvable(s, rule)
    BY <2>1
  <2> QED
    BY <2>2, TradesType
<1>3. /\ TradesOf(s, rule, 0) = << >>
      /\ TradesOf(s, rule, n + 1) = IF EvaluateAt(s, n, rule) # None THEN Append(q, t) ELSE q
  BY TradesStep
<1>4. Selecting!After(given, << >>, << >>) = << >>
  BY Selecting!LoopEmpty
<1>5. EvaluateAt(s, n, rule) # None => t \in Trade /\ t.index = n
  <2> SUFFICES ASSUME EvaluateAt(s, n, rule) # None PROVE t \in Trade /\ t.index = n
    OBVIOUS
  <2>1. d \in Signal /\ d.index = n
    BY SignalType DEF Decision, Signal
  <2>2. n + rule.expiry < Len(s)
    BY <1>1 DEF Resolvable
  <2> HIDE DEF d
  <2> QED
    BY <1>1, <2>1, <2>2, TradeType
<1> HIDE DEF q, d, t
<1>6. EvaluateAt(s, n, rule) # None =>
        Selecting!After(given, << >>, Append(q, t))
          = KeepWithin(given, Selecting!After(given, << >>, q), t)
  <2> HIDE DEF given
  <2> QED
    BY <1>2, <1>5, Selecting!LoopAppend
<1>7. EvaluateAt(s, n, rule) # None =>
        ((t.index >= given.from /\ t.index + given.expiry < given.to)
           <=> (n + 1 >= a + MinimumHistory(rule) /\ n + rule.expiry < b))
  <2>1. /\ given.from = a + MinimumHistory(rule) - 1
        /\ given.to = b /\ given.expiry = rule.expiry
    BY DEF Bounds
  <2> HIDE DEF given
  <2> QED
    BY <1>1, <1>5, <2>1
<1> HIDE DEF given
<1>8. \A m : KeptOf(s, rule, a, b, m) = Selecting!After(given, << >>, TradesOf(s, rule, m))
  BY DEF KeptOf, given
<1>9. CASE EvaluateAt(s, n, rule) # None
  BY <1>3, <1>4, <1>6, <1>7, <1>8, <1>9 DEF KeepWithin, q, d, t
<1>10. CASE ~ (EvaluateAt(s, n, rule) # None)
  BY <1>3, <1>4, <1>8, <1>10 DEF q
<1> QED
  BY <1>9, <1>10

Shifted(q, a) == [ k \in DOMAIN q |-> [q[k] EXCEPT !.index = @ + a] ]

\* Indices are shifted one operation at a time.
LEMMA ShiftedAppend ==
  ASSUME NEW q \in Seq(Trade), NEW t \in Trade, NEW a \in Nat
  PROVE  /\ Shifted(<< >>, a) = << >>
         /\ Shifted(Append(q, t), a) = Append(Shifted(q, a), [t EXCEPT !.index = @ + a])
<1> DEFINE Shift(x) == [x EXCEPT !.index = @ + a]
<1>1. \A x \in Trade : Shift(x) \in Trade
  BY DEF Trade
<1>2. \A r : Shifted(r, a) = [ k \in DOMAIN r |-> Shift(r[k]) ]
  BY DEF Shifted
<1> HIDE DEF Shift
<1>3. /\ Len(q) \in Nat /\ DOMAIN q = 1 .. Len(q)
      /\ Append(q, t) \in Seq(Trade) /\ Len(Append(q, t)) = Len(q) + 1
      /\ DOMAIN Append(q, t) = 1 .. Len(q) + 1
      /\ \A k \in 1 .. Len(q) + 1 : Append(q, t)[k] = IF k = Len(q) + 1 THEN t ELSE q[k]
  OBVIOUS
<1>4. Shifted(q, a) \in Seq(Trade) /\ Len(Shifted(q, a)) = Len(q)
  BY <1>1, <1>2, <1>3
<1>5. \A k \in 1 .. Len(q) : Shifted(q, a)[k] = Shift(q[k])
  BY <1>2, <1>3
<1> DEFINE x == Append(Shifted(q, a), Shift(t))
           y == Shifted(Append(q, t), a)
<1>6. /\ x \in Seq(Trade) /\ Len(x) = Len(q) + 1
      /\ \A k \in 1 .. Len(q) + 1 : x[k] = IF k = Len(q) + 1 THEN Shift(t) ELSE Shift(q[k])
  BY <1>1, <1>3, <1>4, <1>5
<1>7. /\ y \in Seq(Trade) /\ Len(y) = Len(q) + 1
      /\ \A k \in 1 .. Len(q) + 1 : y[k] = IF k = Len(q) + 1 THEN Shift(t) ELSE Shift(q[k])
  <2> DEFINE r == Append(q, t)
  <2>1. \A k \in 1 .. Len(q) + 1 : r[k] \in Trade /\ r[k] = IF k = Len(q) + 1 THEN t ELSE q[k]
    BY <1>3
  <2>2. y = [ k \in 1 .. Len(q) + 1 |-> Shift(r[k]) ]
    BY <1>2, <1>3
  <2> HIDE DEF r, y
  <2>3. y \in Seq(Trade) /\ Len(y) = Len(q) + 1
    BY <1>1, <1>3, <2>1, <2>2
  <2>4. \A k \in 1 .. Len(q) + 1 : y[k] = Shift(r[k])
    BY <2>2
  <2> QED
    BY <2>1, <2>3, <2>4
<1> HIDE DEF x, y
<1>8. Len(x) = Len(y) /\ \A k \in 1 .. Len(x) : x[k] = y[k]
  BY <1>6, <1>7
<1>9. x = y
  BY <1>6, <1>7, <1>8, SeqEqual
<1>10. Shifted(<< >>, a) = << >>
  BY DEF Shifted
<1> QED
  BY <1>9, <1>10 DEF x, y, Shift

\* A candle of a fold, and the operation on it, as the whole sees them.
LEMMA SameTrade ==
  ASSUME NEW s \in Series, NEW rule, ValidRule(rule), NEW a \in Nat, NEW b \in Nat,
         a <= b, b <= Len(s), NEW i \in Nat, i < Resolvable(Segment(s, a, b), rule),
         i + 1 >= MinimumHistory(rule)
  PROVE  /\ EvaluateAt(Segment(s, a, b), i, rule) = EvaluateAt(s, a + i, rule)
         /\ [ ResolveTrade(Segment(s, a, b), Decision(Segment(s, a, b), rule, i + 1), rule.expiry)
                EXCEPT !.index = @ + a ]
              = ResolveTrade(s, Decision(s, rule, a + i + 1), rule.expiry)
<1> DEFINE seg == Segment(s, a, b)
<1>1. /\ seg \in Series /\ Len(seg) = b - a
      /\ \A j \in 1 .. b - a : seg[j] = s[a + j]
  BY SegmentIs
<1>2. Len(s) \in Nat /\ rule.expiry \in Nat /\ s \in Seq(Point) /\ seg \in Seq(Point)
  BY <1>1 DEF Series, ValidRule
<1> HIDE DEF seg
<1>3. i + rule.expiry < b - a
  BY <1>1, <1>2 DEF Resolvable, seg
<1>4. Agree(seg, s, a, i)
  <2>1. i < Len(seg) /\ a + i < Len(s)
    BY <1>1, <1>2, <1>3
  <2>2. \A j \in 0 .. i : seg[j + 1] = s[a + j + 1]
    <3> SUFFICES ASSUME NEW j \in 0 .. i PROVE seg[j + 1] = s[a + j + 1]
      OBVIOUS
    <3>1. j + 1 \in 1 .. b - a /\ a + (j + 1) = a + j + 1
      BY <1>2, <1>3
    <3>2. seg[j + 1] = s[a + (j + 1)]
      BY <1>1, <3>1
    <3> QED
      BY <3>1, <3>2
  <2> QED
    BY <1>1, <2>1, <2>2 DEF Agree
<1>5. EvaluateAt(seg, i, rule) = EvaluateAt(s, a + i, rule)
  BY <1>4, SameSignal
<1> DEFINE d == Decision(seg, rule, i + 1)
           e == Decision(s, rule, a + i + 1)
<1>6. d.index = i /\ e.index = a + i /\ d.direction = e.direction
  <2>1. i + 1 - 1 = i /\ a + i + 1 - 1 = a + i
    OBVIOUS
  <2> QED
    BY <1>5, <2>1 DEF Decision
<1> HIDE DEF d, e
<1>7. PointAt(seg, d.index) = PointAt(s, e.index)
  <2>1. i + 1 \in 1 .. b - a /\ a + (i + 1) = a + i + 1 /\ a + i >= 0
    BY <1>2, <1>3
  <2>2. seg[i + 1] = s[a + i + 1]
    BY <1>1, <2>1
  <2> QED
    BY <1>6, <2>1, <2>2 DEF PointAt
<1>8. PointAt(seg, d.index + rule.expiry) = PointAt(s, e.index + rule.expiry)
  <2> DEFINE m == i + rule.expiry
  <2>0. m \in Nat /\ m < b - a /\ a + i + rule.expiry = a + m
    BY <1>2, <1>3
  <2> HIDE DEF m
  <2>1. m \in Nat /\ m + 1 \in 1 .. b - a /\ a + (m + 1) = a + m + 1 /\ a + i + rule.expiry = a + m
    BY <1>2, <2>0
  <2>2. seg[m + 1] = s[a + m + 1]
    BY <1>1, <2>1
  <2>3. PointAt(seg, m) = PointAt(s, a + m)
    BY <2>1, <2>2 DEF PointAt
  <2> QED
    BY <1>6, <2>1, <2>3 DEF m
<1> DEFINE Won(q, x) == IF x.direction = "CALL"
                        THEN PointAt(q, x.index + rule.expiry).price > PointAt(q, x.index).price
                        ELSE PointAt(q, x.index + rule.expiry).price < PointAt(q, x.index).price
<1>9. \A q, x : ResolveTrade(q, x, rule.expiry)
                  = [ index |-> x.index, direction |-> x.direction, won |-> Won(q, x) ]
  BY DEF ResolveTrade
<1>10. Won(seg, d) = Won(s, e)
  BY <1>6, <1>7, <1>8
<1> HIDE DEF Won
<1>11. i + a = a + i
  OBVIOUS
<1>12. [ ResolveTrade(seg, d, rule.expiry) EXCEPT !.index = @ + a ]
         = ResolveTrade(s, e, rule.expiry)
  <2>1. ResolveTrade(seg, d, rule.expiry)
          = [ index |-> i, direction |-> e.direction, won |-> Won(s, e) ]
    BY <1>6, <1>9, <1>10
  <2>2. ResolveTrade(s, e, rule.expiry)
          = [ index |-> i + a, direction |-> e.direction, won |-> Won(s, e) ]
    BY <1>6, <1>9, <1>11
  <2>3. \A x, y : [ [ index |-> i, direction |-> x, won |-> y ] EXCEPT !.index = @ + a ]
                  = [ index |-> i + a, direction |-> x, won |-> y ]
    OBVIOUS
  <2> QED
    BY <2>1, <2>2, <2>3
<1> QED
  BY <1>5, <1>12 DEF seg, d, e

\* How many candles of the fold are among the first n of the whole.
Reached(s, rule, a, b, n) ==
  IF n <= a THEN 0
  ELSE IF n - a <= Resolvable(Segment(s, a, b), rule)
       THEN n - a ELSE Resolvable(Segment(s, a, b), rule)

\* The operations that the whole has in a fold are the ones the fold has, at
\* every candle: before its history and after its expiry neither has one.
LEMMA FoldStep ==
  ASSUME NEW s \in Series, NEW rule, ValidRule(rule), NEW a \in Nat, NEW b \in Nat,
         a <= b, b <= Len(s), NEW n \in Nat, n < Resolvable(s, rule),
         KeptOf(s, rule, a, b, n)
           = Shifted(TradesOf(Segment(s, a, b), rule, Reached(s, rule, a, b, n)), a)
  PROVE  KeptOf(s, rule, a, b, n + 1)
           = Shifted(TradesOf(Segment(s, a, b), rule, Reached(s, rule, a, b, n + 1)), a)
<1> DEFINE seg == Segment(s, a, b)
           r == Resolvable(seg, rule)
           kept(m) == KeptOf(s, rule, a, b, m)
           of(m) == TradesOf(seg, rule, m)
           reached(m) == Reached(s, rule, a, b, m)
           trade == ResolveTrade(s, Decision(s, rule, n + 1), rule.expiry)
           history == MinimumHistory(rule)
<1>1. /\ history \in Nat \ {0} /\ rule.expiry \in Nat
      /\ seg \in Series /\ Len(seg) = b - a /\ Len(s) \in Nat
  <2>1. MinimumHistory(rule) \in Nat \ {0} /\ rule.expiry \in Nat
    BY MinimumHistoryType
  <2>2. Segment(s, a, b) \in Series /\ Len(Segment(s, a, b)) = b - a
    BY SegmentIs
  <2>3. Len(s) \in Nat
    BY DEF Series
  <2> QED
    BY <2>1, <2>2, <2>3
<1>2. r \in Nat /\ r = IF b - a >= rule.expiry THEN b - a - rule.expiry ELSE 0
  <2> HIDE DEF seg
  <2> QED
    BY <1>1 DEF Resolvable
<1>3. kept(n + 1) = IF /\ EvaluateAt(s, n, rule) # None
                       /\ n + 1 >= a + history /\ n + rule.expiry < b
                    THEN Append(kept(n), trade) ELSE kept(n)
  BY KeptStep
<1>4. \A m : reached(m) = IF m <= a THEN 0 ELSE IF m - a <= r THEN m - a ELSE r
  BY DEF Reached
<1> HIDE DEF seg, r, kept, reached, trade, history
<1>5. kept(n) = Shifted(of(reached(n)), a)
  BY DEF seg, kept, reached
<1>6. CASE n < a \/ n - a >= r
  <2>1. reached(n + 1) = reached(n)
    BY <1>2, <1>4, <1>6
  <2>2. ~ (n + 1 >= a + history /\ n + rule.expiry < b)
    BY <1>1, <1>2, <1>6
  <2>3. kept(n + 1) = kept(n)
    BY <1>3, <2>2
  <2> QED
    BY <1>5, <2>1, <2>3 DEF seg, kept, reached
<1>7. CASE n >= a /\ n - a < r
  <2> DEFINE i == n - a
  <2>1. /\ i \in Nat /\ a + i = n /\ a + i + 1 = n + 1 /\ i < r
        /\ reached(n) = i /\ reached(n + 1) = i + 1
    BY <1>2, <1>4, <1>7
  <2> HIDE DEF i
  <2>2. of(i + 1) = IF EvaluateAt(seg, i, rule) # None
                    THEN Append(of(i), ResolveTrade(seg, Decision(seg, rule, i + 1), rule.expiry))
                    ELSE of(i)
    BY <1>1, <2>1, TradesStep
  <2>3. CASE i + 1 < history
    <3>1. EvaluateAt(seg, i, rule) = None
      BY <2>3 DEF EvaluateAt, history
    <3>2. ~ (n + 1 >= a + history)
      BY <1>1, <2>1, <2>3
    <3>3. kept(n + 1) = kept(n)
      BY <1>3, <3>2
    <3> QED
      BY <1>5, <2>1, <2>2, <3>1, <3>3 DEF seg, kept, reached
  <2>4. CASE i + 1 >= history
    <3>1. /\ EvaluateAt(seg, i, rule) = EvaluateAt(s, n, rule)
          /\ [ ResolveTrade(seg, Decision(seg, rule, i + 1), rule.expiry) EXCEPT !.index = @ + a ]
               = trade
      <4>1. i < Resolvable(Segment(s, a, b), rule) /\ i + 1 >= MinimumHistory(rule)
        BY <2>1, <2>4 DEF seg, r, history
      <4>2. /\ EvaluateAt(seg, i, rule) = EvaluateAt(s, a + i, rule)
            /\ [ ResolveTrade(seg, Decision(seg, rule, i + 1), rule.expiry) EXCEPT !.index = @ + a ]
                 = ResolveTrade(s, Decision(s, rule, a + i + 1), rule.expiry)
        BY <2>1, <4>1, SameTrade DEF seg
      <4> QED
        BY <2>1, <4>2 DEF trade
    <3>2. n + 1 >= a + history /\ n + rule.expiry < b
      BY <1>1, <1>2, <2>1, <2>4
    <3>3. CASE EvaluateAt(s, n, rule) # None
      <4> DEFINE d == Decision(seg, rule, i + 1)
                 t == ResolveTrade(seg, d, rule.expiry)
      <4>1. d \in Signal /\ d.index = i
        <5>2. (i + 1) - 1 = i
          BY <2>1
        <5>3. EvaluateAt(seg, i, rule) \in {"CALL", "PUT"}
          BY <3>1, <3>3, SignalType
        <5>4. d = [ index |-> i, direction |-> EvaluateAt(seg, i, rule) ]
          BY <5>2 DEF Decision
        <5> HIDE DEF d
        <5> QED
          BY <2>1, <5>3, <5>4 DEF Signal
      <4>2. i + rule.expiry < Len(seg)
        BY <1>1, <1>2, <2>1
      <4>3. t \in Trade
        <5> HIDE DEF d
        <5> QED
          BY <1>1, <4>1, <4>2, TradeType
      <4>4. of(i) \in Seq(Trade)
        <5>1. i <= Resolvable(seg, rule)
          BY <1>2, <2>1 DEF r
        <5> QED
          BY <1>1, <2>1, <5>1, TradesType
      <4>5. kept(n + 1) = Append(kept(n), trade)
        BY <1>3, <3>2, <3>3
      <4>6. of(i + 1) = Append(of(i), t)
        BY <2>2, <3>1, <3>3
      <4> HIDE DEF t, of
      <4>7. Shifted(Append(of(i), t), a) = Append(Shifted(of(i), a), [t EXCEPT !.index = @ + a])
        BY <4>3, <4>4, ShiftedAppend
      <4>8. kept(n + 1) = Shifted(of(i + 1), a)
        BY <1>5, <2>1, <3>1, <4>5, <4>6, <4>7 DEF t
      <4> QED
        BY <2>1, <4>8 DEF seg, kept, reached, of
    <3>4. CASE ~ (EvaluateAt(s, n, rule) # None)
      <4>1. kept(n + 1) = kept(n) /\ of(i + 1) = of(i)
        BY <1>3, <2>2, <3>1, <3>4
      <4> QED
        BY <1>5, <2>1, <4>1 DEF seg, kept, reached
    <3> QED
      BY <3>3, <3>4
  <2> QED
    BY <1>1, <2>1, <2>3, <2>4
<1> QED
  BY <1>2, <1>6, <1>7

\* A fold that is long enough has the operations of the whole that lie within it.
LEMMA FoldAgrees ==
  ASSUME NEW s \in Series, NEW rule, ValidRule(rule), NEW a \in Nat, NEW b \in Nat,
         a <= b, b <= Len(s)
  PROVE  Selecting!After(Bounds(rule, a, b), << >>, Trades(s, rule))
           = Shifted(Trades(Segment(s, a, b), rule), a)
<1> DEFINE seg == Segment(s, a, b)
           n == Resolvable(s, rule)
           Holds(m) == KeptOf(s, rule, a, b, m)
                         = Shifted(TradesOf(seg, rule, Reached(s, rule, a, b, m)), a)
           S == { m \in Nat : m <= n => Holds(m) }
<1>1. seg \in Series /\ Len(seg) = b - a
  BY SegmentIs
<1>2. n \in Nat /\ Resolvable(seg, rule) \in Nat
  BY <1>1, ResolvableIs
<1>3. 0 \in S
  <2>1. KeptOf(s, rule, a, b, 0) = Selecting!After(Bounds(rule, a, b), << >>, TradesOf(s, rule, 0))
    BY DEF KeptOf
  <2>2. TradesOf(s, rule, 0) = << >>
    BY TradesStep
  <2>3. TradesOf(seg, rule, 0) = << >>
    <3> HIDE DEF seg
    <3> QED
      BY <1>1, TradesStep
  <2>4. Reached(s, rule, a, b, 0) = 0
    BY DEF Reached
  <2>5. Selecting!After(Bounds(rule, a, b), << >>, << >>) = << >> /\ Shifted(<< >>, a) = << >>
    BY Selecting!LoopEmpty DEF Shifted
  <2>6. Holds(0)
    BY <2>1, <2>2, <2>3, <2>4, <2>5
  <2> HIDE DEF Holds
  <2> QED
    BY <2>6
<1>4. ASSUME NEW m \in Nat, m \in S PROVE m + 1 \in S
  <2> SUFFICES ASSUME m + 1 <= n PROVE Holds(m + 1)
    OBVIOUS
  <2>1. m < n /\ m <= n
    BY <1>2
  <2>2. Holds(m)
    BY <1>4, <2>1
  <2> QED
    BY <2>1, <2>2, FoldStep
<1>5. \A m \in Nat : m \in S
  <2> HIDE DEF S
  <2> QED
    BY <1>3, <1>4, Selecting!NumbersByInduction
<1>6. Holds(n)
  <2>1. n \in S /\ n <= n
    BY <1>2, <1>5
  <2> HIDE DEF n, Holds
  <2> QED
    BY <2>1
<1>7. Reached(s, rule, a, b, n) = Resolvable(seg, rule)
  <2>1. Len(s) \in Nat /\ rule.expiry \in Nat
    BY DEF Series, ValidRule
  <2>2. n = IF Len(s) >= rule.expiry THEN Len(s) - rule.expiry ELSE 0
    BY DEF Resolvable
  <2>3. Resolvable(seg, rule) = IF b - a >= rule.expiry THEN b - a - rule.expiry ELSE 0
    <3> HIDE DEF seg
    <3> QED
      BY <1>1 DEF Resolvable
  <2>4. Reached(s, rule, a, b, n) = IF n <= a THEN 0
                                    ELSE IF n - a <= Resolvable(seg, rule)
                                         THEN n - a ELSE Resolvable(seg, rule)
    BY DEF Reached
  <2> HIDE DEF n, seg
  <2> QED
    BY <2>1, <2>2, <2>3, <2>4
<1>8. Trades(s, rule) = TradesOf(s, rule, n) /\ Trades(seg, rule) = TradesOf(seg, rule, Resolvable(seg, rule))
  <2>1. Trades(s, rule) = TradesOf(s, rule, n)
    BY SignalsAre
  <2> HIDE DEF seg
  <2>2. Trades(seg, rule) = TradesOf(seg, rule, Resolvable(seg, rule))
    BY <1>1, SignalsAre
  <2> QED
    BY <2>1, <2>2
<1> HIDE DEF n, S
<1> QED
  BY <1>6, <1>7, <1>8 DEF KeptOf

LEMMA TradesWithinIs ==
  ASSUME NEW s \in Series, NEW rule, ValidRule(rule), NEW folds \in Nat \ {0},
         NEW k \in 0 .. folds - 1
  PROVE  TradesWithin(s, rule, folds, k)
           = Shifted(Trades(Segment(s, FoldStart(s, folds, k), FoldEnd(s, folds, k)), rule),
                     FoldStart(s, folds, k))
<1> DEFINE a == FoldStart(s, folds, k)
           b == FoldEnd(s, folds, k)
           given == Bounds(rule, a, b)
           Test(trade) == trade.index >= a + MinimumHistory(rule) - 1 /\ trade.index + rule.expiry < b
<1>1. a \in Nat /\ b \in Nat /\ a <= b /\ b <= Len(s)
  BY FoldBounds
<1>2. TradesWithin(s, rule, folds, k) = Filter(Trades(s, rule), Test)
  BY DEF TradesWithin
<1>3. /\ given.from = a + MinimumHistory(rule) - 1
      /\ given.to = b /\ given.expiry = rule.expiry
  BY DEF Bounds
<1> HIDE DEF given
<1>4. \A q : Filter(q, Test) = Selecting!After(given, << >>, q)
  BY <1>3 DEF Filter, KeepWithin, Selecting!After, Selecting!FoldLeft, Selecting!MapThenFoldSet,
         Selecting!Max, FoldLeft, MapThenFoldSet, Max
<1>5. Filter(Trades(s, rule), Test) = Selecting!After(given, << >>, Trades(s, rule))
  BY <1>4
<1> HIDE DEF a, b, Test
<1> QED
  BY <1>1, <1>2, <1>5, FoldAgrees DEF given, a, b

\* A fold in the walk, and the same operations in the whole.
LEMMA FoldIs ==
  ASSUME NEW s \in Series, NEW rule, ValidRule(rule), NEW folds \in Nat \ {0},
         NEW k \in 0 .. folds - 1
  PROVE  /\ DOMAIN WalkForward(s, rule, folds) = 0 .. folds - 1
         /\ WalkForward(s, rule, folds)[k] \in Seq(Trade)
         /\ TradesWithin(s, rule, folds, k)
              = Shifted(WalkForward(s, rule, folds)[k], FoldStart(s, folds, k))
<1> DEFINE a == FoldStart(s, folds, k)
           b == FoldEnd(s, folds, k)
           seg == Segment(s, a, b)
<1>1. a \in Nat /\ b \in Nat /\ a <= b /\ b <= Len(s)
  BY FoldBounds
<1>2. seg \in Series
  <2> HIDE DEF a, b
  <2> QED
    BY <1>1, SegmentIs
<1>3. WalkForward(s, rule, folds)[k] = Trades(seg, rule)
  BY DEF WalkForward
<1>4. DOMAIN WalkForward(s, rule, folds) = 0 .. folds - 1
  BY DEF WalkForward
<1>5. TradesWithin(s, rule, folds, k) = Shifted(Trades(seg, rule), a)
  BY TradesWithinIs
<1> HIDE DEF seg
<1>6. Trades(seg, rule) \in Seq(Trade)
  <2>3. Resolvable(seg, rule) \in Nat
    BY <1>2, ResolvableIs
  <2>1. Resolvable(seg, rule) \in Nat /\ Resolvable(seg, rule) <= Resolvable(seg, rule)
    <3>1. \A n \in Nat : n <= n
      OBVIOUS
    <3> QED
      BY <2>3, <3>1
  <2>2. Trades(seg, rule) = TradesOf(seg, rule, Resolvable(seg, rule))
    BY <1>2, SignalsAre
  <2> QED
    BY <1>2, <2>1, <2>2, TradesType
<1> QED
  BY <1>3, <1>4, <1>5, <1>6

\* FoldsAgreeWithTheWhole: run_walk_forward cuts the series into folds and sees in
\* each the operations of the whole that lie within it, no other and none twice.
THEOREM FoldsAgree == Spec => []FoldsAgreeWithTheWhole
<1>1. TypeOK => FoldsAgreeWithTheWhole
  <2> SUFFICES ASSUME TypeOK, NEW rule \in Rule, NEW config \in Config,
                      NEW k \in DOMAIN WalkForward(points, rule, config.folds)
               PROVE  LET q == WalkForward(points, rule, config.folds)[k]
                      IN  [ i \in DOMAIN q |->
                              [q[i] EXCEPT !.index = @ + FoldStart(points, config.folds, k)] ]
                            = TradesWithin(points, rule, config.folds, k)
    BY DEF FoldsAgreeWithTheWhole
  <2>1. points \in Series /\ ValidRule(rule) /\ config.folds \in Nat \ {0}
    BY RuleAssumption, ConfigAssumption DEF TypeOK, ConfigOK
  <2>2. k \in 0 .. config.folds - 1
    BY DEF WalkForward
  <2>3. TradesWithin(points, rule, config.folds, k)
          = Shifted(WalkForward(points, rule, config.folds)[k], FoldStart(points, config.folds, k))
    BY <2>1, <2>2, FoldIs
  <2> QED
    BY <2>3 DEF Shifted
<1> QED
  BY <1>1, SeriesType, PTL DEF Spec

-----------------------------------------------------------------------------
(* Decisions *)

\* The status that a decision gives, with all the reports spelled out.
Verdict(rule, config, backtest, ruin, items, margin) ==
  LET statistics == Analyze(points, rule, config, backtest, ruin)
  IN  Target(Checklist(statistics, Challenge(points, rule, statistics),
                       Assess(backtest, config, ruin), BrokerStatus(items), config, margin), config)

\* What a decision has gone through.
LEMMA DecidedBy ==
  ASSUME NEW rule, NEW config, NEW backtest, Decide(rule, config, backtest)
  PROVE  \E ruin \in MonteCarlo(backtest.outcomes, config.risk), items \in Evidence,
            margin \in Margin :
           judged' = Judgement(rule, config, Verdict(rule, config, backtest, ruin, items, margin),
                               items, margin)
<1> DEFINE Statistics(ruin) == Analyze(points, rule, config, backtest, ruin)
           Report(statistics, adversarial, risk, items, margin) ==
             Checklist(statistics, adversarial, risk, BrokerStatus(items), config, margin)
           Decided(statistics, adversarial, risk, items, margin) ==
             \E status \in {Target(Report(statistics, adversarial, risk, items, margin), config)} :
               /\ ValidStrategyTransition("IDEA", status)
               /\ judged' = Judgement(rule, config, status, items, margin)
<1>1. PICK ruin \in MonteCarlo(backtest.outcomes, config.risk) :
        \E statistics \in {Statistics(ruin)} :
          \E adversarial \in {Challenge(points, rule, statistics)},
             risk \in {Assess(backtest, config, ruin)},
             items \in Evidence, margin \in Margin :
            Decided(statistics, adversarial, risk, items, margin)
  BY Zenon DEF Decide
<1> DEFINE adversarial == Challenge(points, rule, Statistics(ruin))
           risk == Assess(backtest, config, ruin)
<1>2. PICK items \in Evidence, margin \in Margin :
        Decided(Statistics(ruin), adversarial, risk, items, margin)
  <2> HIDE DEF Decided, Statistics
  <2> QED
    BY <1>1
<1>3. judged' = Judgement(rule, config,
                          Target(Report(Statistics(ruin), adversarial, risk, items, margin), config),
                          items, margin)
  <2> HIDE DEF Report
  <2> QED
    BY <1>2
<1>4. Verdict(rule, config, backtest, ruin, items, margin)
        = Target(Report(Statistics(ruin), adversarial, risk, items, margin), config)
  BY DEF Verdict
<1> HIDE DEF Report, Statistics
<1> QED
  BY <1>1, <1>2, <1>3, <1>4

\* What the validator does with the checklist: BACKTEST of all items, for good of
\* a structural one, and the gate on the broker is the only one to be waived.
LEMMA TargetIs ==
  ASSUME NEW checklist, NEW config
  PROVE  LET failed == FailedItems(checklist) \ (IF config.blocking THEN {}
                                                 ELSE {"broker_risk_passed"})
         IN  /\ Target(checklist, config) = "BACKTEST" <=> failed = {}
             /\ Target(checklist, config) = "REJECTED" <=> failed \cap STRUCTURAL_FAILURES # {}
<1> DEFINE failed == FailedItems(checklist) \ (IF config.blocking THEN {}
                                               ELSE {"broker_risk_passed"})
<1>1. Target(checklist, config) =
        CASE failed = {} -> "BACKTEST"
          [] failed # {} /\ failed \cap STRUCTURAL_FAILURES # {} -> "REJECTED"
          [] OTHER -> "NEEDS_RESEARCH"
  BY DEF Target
<1> HIDE DEF failed
<1>2. /\ Target(checklist, config) = "BACKTEST" <=> failed = {}
      /\ Target(checklist, config) = "REJECTED" <=> failed \cap STRUCTURAL_FAILURES # {}
  BY <1>1
<1> QED
  BY <1>2 DEF failed

-----------------------------------------------------------------------------
(* Earning in the folds *)

\* A fold passes when its operations of the whole win more than they lose.
LEMMA PassingIs ==
  ASSUME NEW s \in Series, NEW rule, ValidRule(rule), NEW folds \in Nat \ {0},
         NEW k \in 0 .. folds - 1
  PROVE  LET within == TradesWithin(s, rule, folds, k)
             wins == Wins(Outcomes(within))
         IN  FoldPasses(WalkForward(s, rule, folds)[k])
               <=> wins * Payout[1] > (Len(within) - wins) * Payout[2]
<1> DEFINE q == WalkForward(s, rule, folds)[k]
           within == TradesWithin(s, rule, folds, k)
           a == FoldStart(s, folds, k)
<1>1. q \in Seq(Trade) /\ within = Shifted(q, a)
  BY FoldIs
<1> HIDE DEF q, within, a
<1>2. DOMAIN q = 1 .. Len(q) /\ Len(q) \in Nat
  BY <1>1
<1>3. within = [ j \in 1 .. Len(q) |-> [q[j] EXCEPT !.index = @ + a] ]
  BY <1>1, <1>2 DEF Shifted
<1>4. Len(within) = Len(q) /\ DOMAIN within = DOMAIN q
  <2>1. within \in Seq({ [q[j] EXCEPT !.index = @ + a] : j \in 1 .. Len(q) })
    BY <1>2, <1>3
  <2>2. DOMAIN within = 1 .. Len(q)
    BY <1>3
  <2> QED
    BY <1>2, <2>1, <2>2
<1>5. \A j \in DOMAIN q : within[j].won = q[j].won
  <2> SUFFICES ASSUME NEW j \in 1 .. Len(q) PROVE within[j].won = q[j].won
    BY <1>2
  <2>1. q[j] \in Trade
    BY <1>1
  <2>2. within[j] = [q[j] EXCEPT !.index = @ + a]
    BY <1>3
  <2> QED
    BY <2>1, <2>2 DEF Trade
<1>6. Outcomes(within) = Outcomes(q)
  BY <1>4, <1>5 DEF Outcomes
<1>7. Outcomes(q) \in Seq(BOOLEAN) /\ Len(Outcomes(q)) = Len(q)
  BY <1>1, OutcomesType
<1>8. FoldPasses(q) <=> Wins(Outcomes(q)) * Payout[1]
                          > (Len(q) - Wins(Outcomes(q))) * Payout[2]
  BY <1>7, ProfitIs DEF FoldPasses
<1> QED
  BY <1>4, <1>6, <1>8 DEF q, within

EarningFolds(s, rule, folds) ==
  LET Earns(k) == LET within == TradesWithin(s, rule, folds, k)
                      wins == Wins(Outcomes(within))
                  IN  wins * Payout[1] > (Len(within) - wins) * Payout[2]
  IN  { k \in 0 .. folds - 1 : Earns(k) }

\* A rule that advances has passed in the share of the folds asked for.
LEMMA AdvancedOnFolds ==
  ASSUME points \in Series, NEW rule \in Rule, NEW config \in Config, NEW backtest,
         Decide(rule, config, backtest), judged'.status = "BACKTEST"
  PROVE  /\ judged'.rule = rule /\ judged'.config = config
         /\ ~ LessThan(<< Cardinality(EarningFolds(points, rule, config.folds)), config.folds >>,
                       config.min_fold_pass_ratio)
<1>1. PICK ruin, items, margin :
        judged' = Judgement(rule, config, Verdict(rule, config, backtest, ruin, items, margin),
                            items, margin)
  BY DecidedBy
<1> DEFINE statistics == Analyze(points, rule, config, backtest, ruin)
           adversarial == Challenge(points, rule, statistics)
           risk == Assess(backtest, config, ruin)
           checklist == Checklist(statistics, adversarial, risk, BrokerStatus(items), config, margin)
           walk == WalkForward(points, rule, config.folds)
<1>2. /\ judged'.rule = rule /\ judged'.config = config
      /\ Verdict(rule, config, backtest, ruin, items, margin) = "BACKTEST"
  BY <1>1 DEF Judgement
<1>3. Target(checklist, config) = "BACKTEST"
  BY <1>2 DEF Verdict
<1>4. /\ "walk_forward_passed" \in DOMAIN checklist
      /\ checklist.walk_forward_passed = ~ LessThan(<<statistics.passed, statistics.folds>>,
                                                    config.min_fold_pass_ratio)
  <2> HIDE DEF statistics, adversarial, risk
  <2> QED
    BY DEF Checklist
<1>5. checklist.walk_forward_passed
  <2> HIDE DEF checklist
  <2>1. FailedItems(checklist) \ (IF config.blocking THEN {} ELSE {"broker_risk_passed"}) = {}
    BY <1>3, TargetIs
  <2> QED
    BY <1>4, <2>1 DEF FailedItems
<1>6. /\ statistics.passed = Cardinality({ k \in DOMAIN walk : FoldPasses(walk[k]) })
      /\ statistics.folds = config.folds
  BY DEF Analyze
<1>7. { k \in DOMAIN walk : FoldPasses(walk[k]) } = EarningFolds(points, rule, config.folds)
  <2>1. ValidRule(rule) /\ config.folds \in Nat \ {0}
    BY RuleAssumption, ConfigAssumption DEF ConfigOK
  <2>2. DOMAIN walk = 0 .. config.folds - 1
    BY DEF WalkForward
  <2> HIDE DEF walk
  <2>3. ASSUME NEW k \in 0 .. config.folds - 1
        PROVE  FoldPasses(walk[k]) <=> k \in EarningFolds(points, rule, config.folds)
    BY <2>1, PassingIs DEF EarningFolds, walk
  <2>4. EarningFolds(points, rule, config.folds) \subseteq 0 .. config.folds - 1
    BY DEF EarningFolds
  <2> QED
    BY <2>2, <2>3, <2>4
<1> HIDE DEF statistics, checklist, walk
<1> QED
  BY <1>2, <1>4, <1>5, <1>6, <1>7

\* AdvancedEarnsInItsFolds: validator.build_checklist lets no rule through whose
\* earning folds are a smaller share than min_fold_pass_ratio, and what earns in
\* a fold is what the whole did there.
THEOREM AdvancedEarns == Spec => []AdvancedEarnsInItsFolds
<1>1. Init => AdvancedEarnsInItsFolds
  BY DEF Init, Unjudged, None, AdvancedEarnsInItsFolds
<1>2. TypeOK /\ AdvancedEarnsInItsFolds /\ [Next]_vars => AdvancedEarnsInItsFolds'
  <2> SUFFICES ASSUME TypeOK, AdvancedEarnsInItsFolds, [Next]_vars
               PROVE  AdvancedEarnsInItsFolds'
    OBVIOUS
  <2>1. CASE UNCHANGED vars
    BY <2>1 DEF AdvancedEarnsInItsFolds, vars
  <2>2. CASE Receive
    BY <2>2 DEF AdvancedEarnsInItsFolds, Receive, Unjudged, None
  <2>3. CASE Evaluate
    <3> SUFFICES ASSUME judged'.status = "BACKTEST" PROVE AdvancedEarnsInItsFolds'
      BY DEF AdvancedEarnsInItsFolds
    <3>1. points' = points
      BY <2>3 DEF Evaluate
    <3>2. PICK rule \in Rule, config \in Config :
            \E backtest \in {RunBacktest(points, rule, config.risk)} :
              \/ ReturnUntraded(rule, config, backtest)
              \/ EvaluationFails(rule, config, backtest)
              \/ Decide(rule, config, backtest)
      BY <2>3, Zenon DEF Evaluate
    <3>3. PICK backtest : Decide(rule, config, backtest)
      BY <3>2 DEF ReturnUntraded, EvaluationFails, Judgement
    <3>4. /\ judged'.rule = rule /\ judged'.config = config
          /\ ~ LessThan(<< Cardinality(EarningFolds(points, rule, config.folds)), config.folds >>,
                        config.min_fold_pass_ratio)
      BY <3>3, AdvancedOnFolds DEF TypeOK
    <3> QED
      BY <3>1, <3>4 DEF AdvancedEarnsInItsFolds, EarningFolds
  <2> QED
    BY <2>1, <2>2, <2>3 DEF Next
<1> QED
  BY <1>1, <1>2, SeriesType, PTL DEF Spec

-----------------------------------------------------------------------------
(* Shares of the capital *)

\* Products keep the order of what is multiplied.
LEMMA Cancel ==
  ASSUME NEW a \in Nat \ {0}, NEW b \in Int, NEW c \in Int
  PROVE  /\ a * b < a * c <=> b < c
         /\ a * b <= a * c <=> b <= c
         /\ a * b = a * c <=> b = c
<1>1. ASSUME NEW u \in Int, NEW v \in Int, u < v PROVE a * u < a * v
  <2>1. PICK d \in Nat : v = u + d
    <3>1. v - u \in Nat /\ v = u + (v - u)
      BY <1>1
    <3> QED
      BY <3>1
  <2>2. a * v = a * u + a * d
    BY <2>1
  <2>3. d > 0
    BY <1>1, <2>1
  <2>4. a * d > 0
    BY <2>3
  <2>5. a * u \in Int /\ a * d \in Int
    OBVIOUS
  <2> QED
    BY <2>2, <2>4, <2>5
<1>2. b < c \/ b = c \/ c < b
  OBVIOUS
<1>3. a * b \in Int /\ a * c \in Int
  OBVIOUS
<1>4. b < c => a * b < a * c
  BY <1>1
<1>5. c < b => a * c < a * b
  BY <1>1
<1> QED
  BY <1>2, <1>3, <1>4, <1>5

\* Positive numbers have a positive product.
LEMMA Products ==
  ASSUME NEW a \in Nat \ {0}, NEW b \in Nat \ {0}
  PROVE  a * b \in Nat \ {0}
OBVIOUS

\* What an operation does to the capital, in parts of Unit.
Factor(risk, won) ==
  IF won THEN Unit(risk) + risk[1] * Payout[1] ELSE (risk[2] - risk[1]) * Payout[2]

\* A win makes the capital larger, a loss smaller, and less than all leaves some.
LEMMA FactorIs ==
  ASSUME NEW risk, ValidRisk(risk), NEW won \in BOOLEAN, LessThan(risk, One) \/ won
  PROVE  /\ Unit(risk) \in Nat \ {0} /\ Factor(risk, won) \in Nat \ {0}
         /\ won => Factor(risk, won) > Unit(risk)
         /\ ~ won => Factor(risk, won) < Unit(risk)
<1> DEFINE a == risk[1]
           b == risk[2]
           x == Payout[1]
           y == Payout[2]
<1>1. /\ a \in Nat \ {0} /\ b \in Nat \ {0} /\ a <= b /\ (a < b \/ won)
      /\ x \in Nat \ {0} /\ y \in Nat \ {0}
  <2>1. /\ risk[1] \in Nat \ {0} /\ risk[2] \in Nat \ {0} /\ risk[1] <= risk[2]
        /\ risk[1] # risk[2] \/ won
    BY RiskIs
  <2> QED
    BY <2>1, PayoutAssumption
<1>2. Unit(risk) = b * y /\ Factor(risk, won) = IF won THEN b * y + a * x ELSE (b - a) * y
  BY DEF Unit, Factor
<1> HIDE DEF a, b, x, y
<1>3. PICK c \in Nat : b = a + c
  <2>1. b - a \in Nat /\ b = a + (b - a)
    BY <1>1
  <2> QED
    BY <2>1
<1>4. b - a = c
  BY <1>1, <1>3
<1>5. b * y = a * y + c * y
  BY <1>1, <1>3
<1>6. a * y \in Nat \ {0} /\ a * x \in Nat \ {0} /\ b * y \in Nat \ {0}
  BY <1>1, Products
<1>7. ~ won => c * y \in Nat \ {0}
  <2>1. ~ won => c \in Nat \ {0}
    BY <1>1, <1>3
  <2> QED
    BY <1>1, <2>1, Products
<1> QED
  BY <1>1, <1>2, <1>4, <1>5, <1>6, <1>7

\* The body of the loop of Left.
Leave(risk, left, won) == << left[1] * Factor(risk, won), left[2] * Unit(risk) >>

Leaving == INSTANCE Lemmas WITH Body <- Leave

\* What some operations leave, as a loop over them.
LEMMA LeftIs ==
  ASSUME NEW risk
  PROVE  /\ Left(<< >>, risk) = <<1, 1>>
         /\ \A q \in Seq(BOOLEAN), won \in BOOLEAN :
              Left(Append(q, won), risk) = Leave(risk, Left(q, risk), won)
<1>1. \A q : Left(q, risk) = Leaving!After(risk, <<1, 1>>, q)
  BY DEF Left, Leave, Factor, Leaving!After, Leaving!FoldLeft,
         Leaving!MapThenFoldSet, Leaving!Max, FoldLeft, MapThenFoldSet, Max
<1>2. Leaving!After(risk, <<1, 1>>, << >>) = <<1, 1>>
  BY Leaving!LoopEmpty
<1>3. \A q \in Seq(BOOLEAN), won \in BOOLEAN :
        Leaving!After(risk, <<1, 1>>, Append(q, won))
          = Leave(risk, Leaving!After(risk, <<1, 1>>, q), won)
  BY Leaving!LoopAppend
<1> QED
  BY <1>1, <1>2, <1>3

Share == (Nat \ {0}) \X (Nat \ {0})

\* It is a positive share.
LEMMA LeftType ==
  ASSUME NEW risk, ValidRisk(risk), LessThan(risk, One)
  PROVE  \A q \in Seq(BOOLEAN) : Left(q, risk) \in Share
<1> DEFINE S == { q \in Seq(BOOLEAN) : Left(q, risk) \in Share }
<1>1. << >> \in S
  <2>1. Left(<< >>, risk) = <<1, 1>>
    BY LeftIs
  <2> QED
    BY <2>1 DEF Share
<1>2. ASSUME NEW q \in Seq(BOOLEAN), NEW won \in BOOLEAN, q \in S PROVE Append(q, won) \in S
  <2>1. Left(Append(q, won), risk) = << Left(q, risk)[1] * Factor(risk, won),
                                        Left(q, risk)[2] * Unit(risk) >>
    BY LeftIs DEF Leave
  <2>2. Left(q, risk)[1] \in Nat \ {0} /\ Left(q, risk)[2] \in Nat \ {0}
    BY <1>2 DEF Share
  <2>3. Factor(risk, won) \in Nat \ {0} /\ Unit(risk) \in Nat \ {0}
    BY FactorIs
  <2>4. /\ Left(q, risk)[1] * Factor(risk, won) \in Nat \ {0}
        /\ Left(q, risk)[2] * Unit(risk) \in Nat \ {0}
    BY <2>2, <2>3, Products
  <2> QED
    BY <2>1, <2>4 DEF Share
<1>3. \A q \in Seq(BOOLEAN) : q \in S
  <2> HIDE DEF S
  <2> QED
    BY <1>1, <1>2, Leaving!SequencesByInduction
<1> QED
  BY <1>3

\* The greater of two numbers.
LEMMA PeakIs ==
  ASSUME NEW p \in Nat, NEW e \in Nat
  PROVE  Peak(p, e) = IF p >= e THEN p ELSE e
<1>1. PICK m : m = Max({p, e})
  OBVIOUS
<1>2. m \in {p, e} /\ \A z \in {p, e} : m >= z
  <2>1. \E y \in {p, e} : \A z \in {p, e} : y >= z
    OBVIOUS
  <2> QED
    BY <1>1, <2>1 DEF Max
<1> QED
  BY <1>1, <1>2 DEF Peak

\* The operations from the i-th to the last, and one more.
LEMMA SubSeqOfAppend ==
  ASSUME NEW q \in Seq(BOOLEAN), NEW won \in BOOLEAN, NEW i \in 1 .. Len(q) + 1
  PROVE  /\ Append(q, won) \in Seq(BOOLEAN) /\ Len(Append(q, won)) = Len(q) + 1
         /\ SubSeq(q, i, Len(q)) \in Seq(BOOLEAN)
         /\ SubSeq(Append(q, won), i, Len(q) + 1) = Append(SubSeq(q, i, Len(q)), won)
         /\ \A j \in 1 .. Len(q) : SubSeq(Append(q, won), i, j) = SubSeq(q, i, j)
<1> DEFINE n == Len(q)
           r == Append(q, won)
           part == SubSeq(q, i, n)
<1>1. /\ n \in Nat /\ r \in Seq(BOOLEAN) /\ Len(r) = n + 1 /\ r[n + 1] = won
      /\ \A k \in 1 .. n : r[k] = q[k]
  OBVIOUS
<1>2. /\ part \in Seq(BOOLEAN) /\ Len(part) = n - i + 1
      /\ \A k \in 1 .. n - i + 1 : part[k] = q[i + k - 1]
  <2>1. \A k \in i .. n : k \in 1 .. n
    OBVIOUS
  <2> QED
    BY <1>1, <2>1
<1> HIDE DEF n, r, part
<1>3. SubSeq(r, i, n + 1) = Append(part, won)
  <2>1. /\ SubSeq(r, i, n + 1) \in Seq(BOOLEAN) /\ Len(SubSeq(r, i, n + 1)) = n - i + 2
        /\ \A k \in 1 .. n - i + 2 : SubSeq(r, i, n + 1)[k] = r[i + k - 1]
    <3>1. i \in 1 .. n + 1 /\ \A k \in i .. n + 1 : k \in 1 .. n + 1
      BY <1>1 DEF n
    <3> QED
      BY <1>1, <3>1
  <2>2. /\ Append(part, won) \in Seq(BOOLEAN) /\ Len(Append(part, won)) = n - i + 2
        /\ \A k \in 1 .. n - i + 1 : Append(part, won)[k] = part[k]
        /\ Append(part, won)[n - i + 2] = won
    <3>1. n - i + 1 \in Nat /\ (n - i + 1) + 1 = n - i + 2
      <4>1. i \in 1 .. n + 1
        BY DEF n
      <4> QED
        BY <1>1, <4>1
    <3>2. \A s \in Seq(BOOLEAN), m \in Nat : Len(s) = m =>
            /\ Append(s, won) \in Seq(BOOLEAN) /\ Len(Append(s, won)) = m + 1
            /\ \A k \in 1 .. m : Append(s, won)[k] = s[k]
            /\ Append(s, won)[m + 1] = won
      OBVIOUS
    <3>3. PICK m \in Nat : m = n - i + 1
      BY <3>1
    <3>4. /\ Append(part, won) \in Seq(BOOLEAN) /\ Len(Append(part, won)) = m + 1
          /\ \A k \in 1 .. m : Append(part, won)[k] = part[k]
          /\ Append(part, won)[m + 1] = won
      BY <1>2, <3>2, <3>3
    <3> QED
      BY <3>1, <3>3, <3>4
  <2>3. ASSUME NEW k \in 1 .. n - i + 2 PROVE SubSeq(r, i, n + 1)[k] = Append(part, won)[k]
    <3>0. i \in 1 .. n + 1
      BY <1>1 DEF n
    <3>1. CASE k = n - i + 2
      <4>1. i + k - 1 = n + 1
        BY <1>1, <3>0, <3>1
      <4> QED
        BY <1>1, <2>1, <2>2, <3>1, <4>1
    <3>2. CASE k # n - i + 2
      <4>1. k \in 1 .. n - i + 1 /\ i + k - 1 \in 1 .. n
        BY <1>1, <3>0, <3>2
      <4> QED
        BY <1>1, <1>2, <2>1, <2>2, <4>1
    <3> QED
      BY <3>1, <3>2
  <2> QED
    BY <2>1, <2>2, <2>3, SeqEqual
<1>4. ASSUME NEW j \in 1 .. n PROVE SubSeq(r, i, j) = SubSeq(q, i, j)
  <2>1. q \in Seq(BOOLEAN) /\ Len(q) = n /\ i \in 1 .. n + 1
    BY <1>1 DEF n
  <2>2. \A k \in i .. j : k \in 1 .. n /\ r[k] = q[k]
    BY <1>1, <2>1
  <2> QED
    BY <1>1, <2>1, <2>2
<1> QED
  BY <1>1, <1>2, <1>3, <1>4 DEF n, r, part

\* What the operations from the i-th to the last leave.
Since(q, i, risk) == Left(SubSeq(q, i, Len(q)), risk)

\* What the operations since the i-th leave, with an operation more.
LEMMA SinceStep ==
  ASSUME NEW risk, ValidRisk(risk), LessThan(risk, One), NEW q \in Seq(BOOLEAN), NEW won \in BOOLEAN
  PROVE  /\ Since(q, Len(q) + 1, risk) = <<1, 1>>
         /\ \A i \in 1 .. Len(q) + 1 :
              /\ Since(q, i, risk) \in Share
              /\ Since(Append(q, won), i, risk) = Leave(risk, Since(q, i, risk), won)
<1>1. SubSeq(q, Len(q) + 1, Len(q)) = << >>
  <2>1. Len(q) \in Nat
    OBVIOUS
  <2>2. SubSeq(q, Len(q) + 1, Len(q)) \in Seq(BOOLEAN) /\ Len(SubSeq(q, Len(q) + 1, Len(q))) = 0
    BY <2>1
  <2> QED
    BY <2>2
<1>2. ASSUME NEW i \in 1 .. Len(q) + 1
      PROVE  /\ Since(q, i, risk) \in Share
             /\ Since(Append(q, won), i, risk) = Leave(risk, Since(q, i, risk), won)
  <2>1. /\ SubSeq(q, i, Len(q)) \in Seq(BOOLEAN)
        /\ Len(Append(q, won)) = Len(q) + 1
        /\ SubSeq(Append(q, won), i, Len(q) + 1) = Append(SubSeq(q, i, Len(q)), won)
    BY SubSeqOfAppend
  <2>2. Left(SubSeq(q, i, Len(q)), risk) \in Share
    BY <2>1, LeftType
  <2>3. Left(Append(SubSeq(q, i, Len(q)), won), risk)
          = Leave(risk, Left(SubSeq(q, i, Len(q)), risk), won)
    BY <2>1, LeftIs
  <2> QED
    BY <2>1, <2>2, <2>3 DEF Since
<1>3. Left(<< >>, risk) = <<1, 1>>
  BY LeftIs
<1> QED
  BY <1>1, <1>2, <1>3 DEF Since

\* A turn of the loop that does not lose everything.
Afloat(curve) ==
  /\ DOMAIN curve = {"equity", "peak", "start", "drops", "ruined"}
  /\ curve.equity \in Nat \ {0} /\ curve.peak \in Nat \ {0} /\ ~ curve.ruined

\* An operation with less than all at stake moves capital and peak and records a drop.
LEMMA OperationIs ==
  ASSUME NEW risk, ValidRisk(risk), NEW curve, Afloat(curve),
         NEW won \in BOOLEAN, LessThan(risk, One) \/ won
  PROVE  LET next == Operation(risk, curve, won)
             equity == curve.equity * Factor(risk, won)
             fallen == curve.peak * Unit(risk)
             peak == IF fallen >= equity THEN fallen ELSE equity
         IN  /\ Afloat(next) /\ next.equity = equity /\ next.peak = peak
             /\ next.drops = curve.drops \cup {<<peak - equity, peak>>}
<1> DEFINE e == curve.equity
           a == risk[1]
           b == risk[2]
           x == Payout[1]
           y == Payout[2]
           stake == Stake(curve.equity, curve.start, risk)
           earned == curve.equity * Unit(risk)
                     + (IF won THEN stake * Payout[1] ELSE - (stake * Payout[2]))
           equity == curve.equity * Factor(risk, won)
           fallen == curve.peak * Unit(risk)
           peak == IF fallen >= equity THEN fallen ELSE equity
           reached == Peak(curve.peak * Unit(risk), earned)
           next == Operation(risk, curve, won)
<1>1. a \in Nat \ {0} /\ b \in Nat \ {0} /\ a <= b /\ x \in Nat \ {0} /\ y \in Nat \ {0}
  <2>1. /\ risk[1] \in Nat \ {0} /\ risk[2] \in Nat \ {0} /\ risk[1] <= risk[2]
    BY RiskIs
  <2> QED
    BY <2>1, PayoutAssumption
<1>2. e \in Nat \ {0} /\ curve.peak \in Nat \ {0} /\ ~ curve.ruined
      /\ DOMAIN curve = {"equity", "peak", "start", "drops", "ruined"}
  BY DEF Afloat
<1>3. Unit(risk) = b * y /\ Factor(risk, won) = IF won THEN b * y + a * x ELSE (b - a) * y
  BY DEF Unit, Factor
<1>4. Unit(risk) \in Nat \ {0} /\ Factor(risk, won) \in Nat \ {0}
  BY FactorIs
<1>5. stake = e * a
  BY DEF Stake
<1>6. earned = e * Unit(risk) + (IF won THEN stake * x ELSE - (stake * y))
  OBVIOUS
<1>7. equity = e * Factor(risk, won) /\ fallen = curve.peak * Unit(risk)
  OBVIOUS
<1>8. next = CASE curve.ruined -> curve
               [] ~ curve.ruined /\ (stake <= 0 \/ stake > e * b) -> [curve EXCEPT !.ruined = TRUE]
               [] ~ curve.ruined /\ stake > 0 /\ earned <= 0 -> [curve EXCEPT !.ruined = TRUE]
               [] OTHER -> [curve EXCEPT !.equity = earned, !.peak = reached,
                                         !.start = @ * Unit(risk),
                                         !.drops = @ \cup {<<reached - earned, reached>>}]
  BY DEF Operation, Ruin
<1>9. reached = Peak(fallen, earned)
  OBVIOUS
<1> HIDE DEF stake, earned, equity, fallen, reached, next, e, a, b, x, y
<1>10. stake > 0 /\ ~ (stake > e * b)
  <2>1. e * a <= e * b
    BY <1>1, <1>2, Cancel
  <2>2. e * a \in Nat \ {0} /\ e * b \in Nat
    BY <1>1, <1>2, Products
  <2> QED
    BY <1>5, <2>1, <2>2
<1>11. equity \in Nat \ {0} /\ fallen \in Nat \ {0}
  BY <1>2, <1>4, <1>7, Products
<1>12. earned = equity
  <2>1. CASE won
    <3>1. earned = e * (b * y) + (e * a) * x
      BY <1>3, <1>5, <1>6, <2>1
    <3>2. equity = e * (b * y + a * x)
      BY <1>3, <1>7, <2>1
    <3>3. e * (b * y + a * x) = e * (b * y) + (e * a) * x
      BY <1>1, <1>2
    <3> QED
      BY <3>1, <3>2, <3>3
  <2>2. CASE ~ won
    <3>1. earned = e * (b * y) + (- ((e * a) * y))
      BY <1>3, <1>5, <1>6, <2>2
    <3>2. equity = e * ((b - a) * y)
      BY <1>3, <1>7, <2>2
    <3>3. e * ((b - a) * y) = e * (b * y) + (- ((e * a) * y))
      BY <1>1, <1>2
    <3> QED
      BY <3>1, <3>2, <3>3
  <2> QED
    BY <2>1, <2>2
<1>13. reached = peak
  BY <1>9, <1>11, <1>12, PeakIs
<1>14. peak \in Nat \ {0}
  BY <1>11
<1> HIDE DEF peak
<1>15. ~ (earned <= 0) /\ ~ (stake <= 0)
  <2>1. stake \in Int
    <3>1. e * a \in Nat \ {0}
      BY <1>1, <1>2, Products
    <3> QED
      BY <1>5, <3>1
  <2> QED
    BY <1>10, <1>11, <1>12, <2>1
<1>16. next = [curve EXCEPT !.equity = equity, !.peak = peak, !.start = @ * Unit(risk),
                            !.drops = @ \cup {<<peak - equity, peak>>}]
  BY <1>2, <1>8, <1>10, <1>12, <1>13, <1>15
<1>17. /\ DOMAIN next = {"equity", "peak", "start", "drops", "ruined"}
       /\ next.equity = equity /\ next.peak = peak /\ next.ruined = curve.ruined
       /\ next.drops = curve.drops \cup {<<peak - equity, peak>>}
  BY <1>2, <1>16
<1>18. Afloat(next)
  BY <1>2, <1>11, <1>14, <1>17 DEF Afloat
<1> QED
  BY <1>17, <1>18 DEF next, equity, fallen, peak, e

\* Of two shares that are in order, one times a capital is in order with the other's.
LEMMA Compare ==
  ASSUME NEW e \in Nat \ {0}, NEW p \in Nat \ {0}, NEW f \in Nat \ {0}, NEW g \in Nat \ {0},
         NEW l \in Nat \ {0}, NEW m \in Int
  PROVE  /\ e * g <= f * p /\ f * l < m * g => e * l < p * m
         /\ e * g = f * p => (e * l < p * m <=> f * l < m * g)
<1>1. /\ (e * g) * l = g * (e * l) /\ (f * p) * l = p * (f * l) /\ p * (m * g) = g * (p * m)
      /\ (e * g) * l = l * (e * g) /\ (f * p) * l = l * (f * p)
  OBVIOUS
<1>2. e * g \in Int /\ f * p \in Int /\ f * l \in Int /\ m * g \in Int /\ e * l \in Int /\ p * m \in Int
  OBVIOUS
<1>3. g * (e * l) < g * (p * m) <=> e * l < p * m
  BY <1>2, Cancel
<1>4. p * (f * l) < p * (m * g) <=> f * l < m * g
  BY <1>2, Cancel
<1>5. l * (e * g) <= l * (f * p) <=> e * g <= f * p
  BY <1>2, Cancel
<1>6. /\ g * (e * l) \in Int /\ g * (p * m) \in Int /\ p * (f * l) \in Int
      /\ p * (m * g) \in Int /\ l * (e * g) \in Int /\ l * (f * p) \in Int
  OBVIOUS
<1>7. ASSUME e * g <= f * p, f * l < m * g PROVE e * l < p * m
  <2>1. g * (e * l) <= p * (f * l)
    BY <1>1, <1>5, <1>7
  <2>2. p * (f * l) < g * (p * m)
    BY <1>1, <1>4, <1>7
  <2> QED
    BY <1>3, <1>6, <2>1, <2>2
<1>8. ASSUME e * g = f * p PROVE e * l < p * m <=> f * l < m * g
  <2>1. g * (e * l) = p * (f * l)
    BY <1>1, <1>8
  <2> QED
    BY <1>1, <1>3, <1>4, <2>1
<1> QED
  BY <1>7, <1>8

\* What is left since any operation is no less than the capital's share of its
\* peak, and since one of them, the last peak, it is just that.
Measured(curve, q, risk) ==
  /\ Afloat(curve)
  /\ \A i \in 1 .. Len(q) + 1 :
       curve.equity * Since(q, i, risk)[2] <= Since(q, i, risk)[1] * curve.peak
  /\ \E i \in 1 .. Len(q) + 1 :
       curve.equity * Since(q, i, risk)[2] = Since(q, i, risk)[1] * curve.peak

\* An operation keeps the peak tied to what the operations leave.
LEMMA MeasuredStep ==
  ASSUME NEW risk, ValidRisk(risk), LessThan(risk, One), NEW q \in Seq(BOOLEAN),
         NEW curve, Measured(curve, q, risk), NEW won \in BOOLEAN
  PROVE  Measured(Operation(risk, curve, won), Append(q, won), risk)
<1> DEFINE n == Len(q)
           next == Operation(risk, curve, won)
           longer == Append(q, won)
           f == Factor(risk, won)
           u == Unit(risk)
           e == curve.equity
           p == curve.peak
           This(i) == Since(q, i, risk)
           Then(i) == Since(longer, i, risk)
<1>1. /\ n \in Nat /\ Len(longer) = n + 1 /\ longer \in Seq(BOOLEAN)
  OBVIOUS
<1>2. f \in Nat \ {0} /\ u \in Nat \ {0}
  BY FactorIs
<1>3. e \in Nat \ {0} /\ p \in Nat \ {0}
  BY DEF Measured, Afloat
<1>4. /\ Afloat(next) /\ next.equity = e * f
      /\ next.peak = IF p * u >= e * f THEN p * u ELSE e * f
  BY OperationIs DEF Measured
<1>5. ASSUME NEW i \in 1 .. n + 1
      PROVE  /\ This(i)[1] \in Nat \ {0} /\ This(i)[2] \in Nat \ {0}
             /\ Then(i)[1] = This(i)[1] * f /\ Then(i)[2] = This(i)[2] * u
  <2>1. This(i) \in Share /\ Then(i) = Leave(risk, This(i), won)
    BY SinceStep
  <2> HIDE DEF This, Then, f, u
  <2> QED
    BY <2>1 DEF Share, Leave, f, u
<1>6. Then(n + 2) = <<1, 1>>
  <2>1. Since(longer, Len(longer) + 1, risk) = <<1, 1>>
    BY <1>1, SinceStep
  <2>2. Len(longer) + 1 = n + 2
    BY <1>1
  <2> QED
    BY <2>1, <2>2
<1>7. /\ \A i \in 1 .. n + 1 : e * This(i)[2] <= This(i)[1] * p
      /\ \E i \in 1 .. n + 1 : e * This(i)[2] = This(i)[1] * p
  BY DEF Measured
<1> HIDE DEF n, next, f, u, e, p, This, Then, longer
<1>8. e * f \in Nat \ {0} /\ p * u \in Nat \ {0}
  BY <1>2, <1>3, Products
<1>9. /\ next.equity \in Nat /\ next.peak \in Nat
      /\ next.equity <= next.peak /\ p * u <= next.peak
  BY <1>4, <1>8
<1>10. ASSUME NEW i \in 1 .. n + 1
       PROVE  /\ next.equity * Then(i)[2] <= (This(i)[1] * f) * (p * u)
              /\ (This(i)[1] * f) * (p * u) <= Then(i)[1] * next.peak
              /\ e * This(i)[2] = This(i)[1] * p => next.equity * Then(i)[2] = Then(i)[1] * (p * u)
  <2>1. PICK g \in Nat \ {0}, h \in Nat \ {0} : g = This(i)[1] /\ h = This(i)[2]
    BY <1>5
  <2>2. e * h <= g * p
    BY <1>7, <2>1
  <2>3. /\ (e * f) * (h * u) = (f * u) * (e * h)
        /\ (g * f) * (p * u) = (f * u) * (g * p)
    BY <1>2, <1>3
  <2>4. f * u \in Nat \ {0} /\ g * f \in Nat \ {0}
    BY <1>2, Products
  <2>5. e * h \in Int /\ g * p \in Int
    BY <1>3
  <2>6. (f * u) * (e * h) <= (f * u) * (g * p)
    BY <2>2, <2>4, <2>5, Cancel
  <2>7. (g * f) * (p * u) <= (g * f) * next.peak
    BY <1>8, <1>9, <2>4, Cancel
  <2>8. next.equity = e * f /\ Then(i)[1] = g * f /\ Then(i)[2] = h * u
    BY <1>4, <1>5, <2>1
  <2> QED
    BY <2>1, <2>3, <2>6, <2>7, <2>8
<1>11. ASSUME NEW i \in 1 .. n + 2
       PROVE  next.equity * Then(i)[2] <= Then(i)[1] * next.peak
  <2>1. CASE i = n + 2
    BY <1>6, <1>9, <2>1
  <2>2. CASE i # n + 2
    <3>1. i \in 1 .. n + 1
      BY <1>1, <2>2
    <3>2. PICK g \in Nat \ {0}, h \in Nat \ {0} : g = This(i)[1] /\ h = This(i)[2]
      BY <1>5, <3>1
    <3>3. Then(i)[1] = g * f /\ Then(i)[2] = h * u
      BY <1>5, <3>1, <3>2
    <3>4. /\ next.equity * Then(i)[2] <= (g * f) * (p * u)
          /\ (g * f) * (p * u) <= Then(i)[1] * next.peak
      BY <1>10, <3>1, <3>2
    <3>5. /\ next.equity * (h * u) \in Int /\ (g * f) * (p * u) \in Int /\ (g * f) * next.peak \in Int
      BY <1>2, <1>3, <1>9
    <3> QED
      BY <3>3, <3>4, <3>5
  <2> QED
    BY <2>1, <2>2
<1>12. \E i \in 1 .. n + 2 : next.equity * Then(i)[2] = Then(i)[1] * next.peak
  <2>1. CASE p * u >= e * f
    <3>1. PICK i \in 1 .. n + 1 : e * This(i)[2] = This(i)[1] * p
      BY <1>7
    <3>2. next.equity * Then(i)[2] = Then(i)[1] * next.peak
      BY <1>4, <1>10, <2>1, <3>1
    <3>3. i \in 1 .. n + 2
      BY <1>1
    <3> QED
      BY <3>2, <3>3
  <2>2. CASE ~ (p * u >= e * f)
    <3>1. next.equity = next.peak
      BY <1>4, <2>2
    <3>2. n + 2 \in 1 .. n + 2
      BY <1>1
    <3>3. next.equity * Then(n + 2)[2] = Then(n + 2)[1] * next.peak
      BY <1>6, <1>9, <3>1
    <3> QED
      BY <3>2, <3>3
  <2> QED
    BY <2>1, <2>2
<1>13. Len(longer) + 1 = n + 2
  BY <1>1
<1> QED
  BY <1>4, <1>11, <1>12, <1>13 DEF Measured, Then, next, longer

ValidLimit(limit) == limit \in Fraction /\ LessThan(Zero, limit)

\* The drop from the peak is over the limit when the operations since one of them
\* lost so much.
LEMMA LastDrop ==
  ASSUME NEW risk, ValidRisk(risk), LessThan(risk, One), NEW q \in Seq(BOOLEAN),
         NEW curve, Measured(curve, q, risk), NEW limit, ValidLimit(limit)
  PROVE  LessThan(limit, <<curve.peak - curve.equity, curve.peak>>)
           <=> \E i \in 1 .. Len(q) : LessThan(Since(q, i, risk), Minus(One, limit))
<1> DEFINE n == Len(q)
           e == curve.equity
           p == curve.peak
           l == limit[2]
           m == limit[2] - limit[1]
           This(i) == Since(q, i, risk)
<1>1. /\ l \in Nat \ {0} /\ m \in Int /\ m < l /\ limit[1] \in Nat \ {0}
  <2>1. limit[1] \in Int /\ limit[2] \in Nat \ {0}
    BY DEF ValidLimit, Fraction
  <2>2. 0 * limit[2] < limit[1] * 1
    BY DEF ValidLimit, LessThan, Zero
  <2> QED
    BY <2>1, <2>2
<1>2. e \in Nat \ {0} /\ p \in Nat \ {0} /\ n \in Nat
  BY DEF Measured, Afloat
<1>3. LessThan(limit, <<p - e, p>>) <=> e * l < p * m
  <2>1. LessThan(limit, <<p - e, p>>) <=> limit[1] * p < (p - e) * limit[2]
    BY DEF LessThan
  <2>2. (p - e) * limit[2] = p * limit[2] - e * limit[2]
    BY <1>1, <1>2
  <2>3. p * (limit[2] - limit[1]) = p * limit[2] - limit[1] * p
    BY <1>1, <1>2
  <2>4. p * limit[2] \in Int /\ e * limit[2] \in Int /\ limit[1] * p \in Int
    BY <1>1, <1>2
  <2> QED
    BY <2>1, <2>2, <2>3, <2>4
<1>4. ASSUME NEW i \in 1 .. n + 1
      PROVE  /\ This(i)[1] \in Nat \ {0} /\ This(i)[2] \in Nat \ {0}
             /\ LessThan(This(i), Minus(One, limit)) <=> This(i)[1] * l < m * This(i)[2]
  <2>1. This(i)[1] \in Nat \ {0} /\ This(i)[2] \in Nat \ {0}
    <3>1. This(i) \in Share
      BY SinceStep
    <3> HIDE DEF This
    <3> QED
      BY <3>1 DEF Share
  <2>2. Minus(One, limit) = << 1 * limit[2] - limit[1] * 1, 1 * limit[2] >>
    BY DEF Minus, One
  <2>3. 1 * limit[2] - limit[1] * 1 = m /\ 1 * limit[2] = l
    BY <1>1
  <2> HIDE DEF l, m, This
  <2>4. Minus(One, limit) = <<m, l>>
    BY <2>2, <2>3
  <2> QED
    BY <2>1, <2>4 DEF LessThan
<1>5. /\ \A i \in 1 .. n + 1 : e * This(i)[2] <= This(i)[1] * p
      /\ \E i \in 1 .. n + 1 : e * This(i)[2] = This(i)[1] * p
  BY DEF Measured
<1>6. This(n + 1) = <<1, 1>>
  BY SinceStep
<1> HIDE DEF n, e, p, l, m, This
<1>7. ASSUME e * l < p * m PROVE \E i \in 1 .. n : This(i)[1] * l < m * This(i)[2]
  <2>1. PICK i \in 1 .. n + 1 : e * This(i)[2] = This(i)[1] * p
    BY <1>5
  <2>2. This(i)[1] * l < m * This(i)[2]
    <3>1. PICK f \in Nat \ {0}, g \in Nat \ {0} : f = This(i)[1] /\ g = This(i)[2]
      BY <1>4
    <3>2. e * g = f * p
      BY <2>1, <3>1
    <3>3. f * l < m * g
      BY <1>1, <1>2, <1>7, <3>2, Compare
    <3> QED
      BY <3>1, <3>3
  <2>3. i # n + 1
    <3> SUFFICES ASSUME i = n + 1 PROVE FALSE
      OBVIOUS
    <3>1. 1 * l < m * 1
      BY <1>6, <2>2
    <3> QED
      BY <1>1, <3>1
  <2>4. i \in 1 .. n
    BY <1>2, <2>3
  <2> QED
    BY <2>2, <2>4
<1>8. ASSUME NEW i \in 1 .. n, This(i)[1] * l < m * This(i)[2] PROVE e * l < p * m
  <2>1. i \in 1 .. n + 1
    BY <1>2
  <2>2. PICK f \in Nat \ {0}, g \in Nat \ {0} : f = This(i)[1] /\ g = This(i)[2]
    BY <1>4, <2>1
  <2>3. e * g <= f * p /\ f * l < m * g
    BY <1>5, <1>8, <2>1, <2>2
  <2> QED
    BY <1>1, <1>2, <2>3, Compare
<1>9. \A i \in 1 .. n : LessThan(This(i), Minus(One, limit)) <=> This(i)[1] * l < m * This(i)[2]
  <2>1. \A i \in 1 .. n : i \in 1 .. n + 1
    BY <1>2
  <2> QED
    BY <1>4, <2>1
<1> QED
  BY <1>3, <1>7, <1>8, <1>9 DEF n, e, p, This

\* One more operation adds the runs of operations that end with it.
LEMMA LosesStep ==
  ASSUME NEW q \in Seq(BOOLEAN), NEW won \in BOOLEAN, NEW risk, NEW limit
  PROVE  LosesMoreThan(Append(q, won), risk, limit)
           <=> \/ LosesMoreThan(q, risk, limit)
               \/ \E i \in 1 .. Len(q) + 1 :
                    LessThan(Since(Append(q, won), i, risk), Minus(One, limit))
<1> DEFINE n == Len(q)
           longer == Append(q, won)
           Deep(part) == LessThan(Left(part, risk), Minus(One, limit))
<1>1. n \in Nat /\ Len(longer) = n + 1
  OBVIOUS
<1>2. \A i \in 1 .. n + 1 : \A j \in 1 .. n : SubSeq(longer, i, j) = SubSeq(q, i, j)
  BY SubSeqOfAppend
<1>3. /\ LosesMoreThan(q, risk, limit)
           <=> \E i, j \in 1 .. n : i <= j /\ Deep(SubSeq(q, i, j))
      /\ LosesMoreThan(longer, risk, limit)
           <=> \E i, j \in 1 .. n + 1 : i <= j /\ Deep(SubSeq(longer, i, j))
  BY <1>1 DEF LosesMoreThan
<1>4. \A i : Deep(SubSeq(longer, i, n + 1)) <=> LessThan(Since(longer, i, risk), Minus(One, limit))
  BY <1>1 DEF Since
<1> HIDE DEF n, longer, Deep
<1>6. ASSUME NEW i \in 1 .. n + 1, NEW j \in 1 .. n + 1, i <= j, Deep(SubSeq(longer, i, j))
      PROVE  \/ \E k, m \in 1 .. n : k <= m /\ Deep(SubSeq(q, k, m))
             \/ \E k \in 1 .. n + 1 : Deep(SubSeq(longer, k, n + 1))
  <2>1. CASE j = n + 1
    BY <1>6, <2>1
  <2>2. CASE j # n + 1
    <3>1. j \in 1 .. n /\ i \in 1 .. n
      BY <1>1, <1>6, <2>2
    <3>2. SubSeq(longer, i, j) = SubSeq(q, i, j)
      BY <1>2, <3>1
    <3> QED
      BY <1>6, <3>1, <3>2
  <2> QED
    BY <2>1, <2>2
<1>7. ASSUME NEW i \in 1 .. n, NEW j \in 1 .. n, i <= j, Deep(SubSeq(q, i, j))
      PROVE  \E k, m \in 1 .. n + 1 : k <= m /\ Deep(SubSeq(longer, k, m))
  <2>1. i \in 1 .. n + 1 /\ j \in 1 .. n + 1
    BY <1>1
  <2>2. SubSeq(longer, i, j) = SubSeq(q, i, j)
    BY <1>2, <2>1
  <2> QED
    BY <1>7, <2>1, <2>2
<1>8. ASSUME NEW i \in 1 .. n + 1, Deep(SubSeq(longer, i, n + 1))
      PROVE  \E k, m \in 1 .. n + 1 : k <= m /\ Deep(SubSeq(longer, k, m))
  <2>1. n + 1 \in 1 .. n + 1 /\ i <= n + 1
    BY <1>1
  <2> QED
    BY <1>8, <2>1
<1>9. LosesMoreThan(longer, risk, limit)
        <=> \/ LosesMoreThan(q, risk, limit)
            \/ \E i \in 1 .. n + 1 : Deep(SubSeq(longer, i, n + 1))
  BY <1>3, <1>6, <1>7, <1>8
<1> QED
  BY <1>4, <1>9 DEF n, longer

\* The worst drop recorded is over the limit exactly when some operations in a row lose
\* so much.
LEMMA DrawdownIs ==
  ASSUME NEW risk, ValidRisk(risk), LessThan(risk, One), NEW capital \in Nat \ {0},
         NEW limit, ValidLimit(limit)
  PROVE  \A q \in Seq(BOOLEAN) :
           /\ ~ EquityCurve(q, capital, risk).ruined
           /\ DrawdownExceeds(EquityCurve(q, capital, risk), limit)
                <=> LosesMoreThan(q, risk, limit)
<1> DEFINE Curve(q) == EquityCurve(q, capital, risk)
           Right(q) == /\ Measured(Curve(q), q, risk)
                       /\ DrawdownExceeds(Curve(q), limit) <=> LosesMoreThan(q, risk, limit)
           S == { q \in Seq(BOOLEAN) : Right(q) }
<1>1. << >> \in S
  <2>1. Curve(<< >>) = AtStart(capital)
    BY EquityCurveIs, Operating!LoopEmpty
  <2>2. Afloat(AtStart(capital)) /\ AtStart(capital).drops = {}
        /\ AtStart(capital).equity = capital /\ AtStart(capital).peak = capital
    BY DEF Afloat, AtStart
  <2>3. Since(<< >>, 1, risk) = <<1, 1>>
    <3>1. << >> \in Seq(BOOLEAN) /\ Len(<< >>) = 0
      OBVIOUS
    <3>2. Since(<< >>, Len(<< >>) + 1, risk) = <<1, 1>>
      BY <3>1, SinceStep
    <3> QED
      BY <3>1, <3>2
  <2>4. \A i \in 1 .. Len(<< >>) + 1 : i = 1
    OBVIOUS
  <2>5. 1 \in 1 .. Len(<< >>) + 1
    OBVIOUS
  <2>6. capital * 1 = 1 * capital /\ capital * 1 <= 1 * capital
    OBVIOUS
  <2> DEFINE start == AtStart(capital)
  <2> HIDE DEF start
  <2>7. Measured(start, << >>, risk)
    BY <2>2, <2>3, <2>4, <2>5, <2>6 DEF Measured, start
  <2>8. ~ DrawdownExceeds(start, limit)
    BY <2>2 DEF DrawdownExceeds, start
  <2>9. ~ LosesMoreThan(<< >>, risk, limit)
    BY DEF LosesMoreThan
  <2> HIDE DEF Curve
  <2>10. Right(<< >>)
    BY <2>1, <2>7, <2>8, <2>9 DEF start
  <2> HIDE DEF Right
  <2> QED
    BY <2>10
<1>2. ASSUME NEW q \in Seq(BOOLEAN), NEW won \in BOOLEAN, q \in S PROVE Append(q, won) \in S
  <2> DEFINE curve == Curve(q)
             next == Operation(risk, curve, won)
             longer == Append(q, won)
  <2>1. Curve(longer) = next
    BY EquityCurveIs, Operating!LoopAppend
  <2>2. Measured(curve, q, risk) /\ (DrawdownExceeds(curve, limit) <=> LosesMoreThan(q, risk, limit))
    BY <1>2
  <2> HIDE DEF Curve, curve, next, longer
  <2>3. Measured(next, longer, risk)
    BY <2>2, MeasuredStep DEF next, longer
  <2>4. next.drops = curve.drops \cup {<<next.peak - next.equity, next.peak>>}
    <3> DEFINE equity == curve.equity * Factor(risk, won)
               fallen == curve.peak * Unit(risk)
               peak == IF fallen >= equity THEN fallen ELSE equity
    <3>1. Afloat(curve)
      BY <2>2 DEF Measured
    <3>2. /\ next.equity = equity /\ next.peak = peak
          /\ next.drops = curve.drops \cup {<<peak - equity, peak>>}
      BY <3>1, OperationIs DEF next
    <3> HIDE DEF equity, peak
    <3> QED
      BY <3>2
  <2>5. DrawdownExceeds(next, limit)
          <=> \/ DrawdownExceeds(curve, limit)
              \/ LessThan(limit, <<next.peak - next.equity, next.peak>>)
    BY <2>4 DEF DrawdownExceeds
  <2>6. longer \in Seq(BOOLEAN) /\ Len(longer) = Len(q) + 1
    BY DEF longer
  <2>7. LessThan(limit, <<next.peak - next.equity, next.peak>>)
          <=> \E i \in 1 .. Len(longer) : LessThan(Since(longer, i, risk), Minus(One, limit))
    BY <2>3, <2>6, LastDrop
  <2>8. LosesMoreThan(longer, risk, limit)
          <=> \/ LosesMoreThan(q, risk, limit)
              \/ \E i \in 1 .. Len(q) + 1 : LessThan(Since(longer, i, risk), Minus(One, limit))
    BY LosesStep DEF longer
  <2>9. DrawdownExceeds(next, limit) <=> LosesMoreThan(longer, risk, limit)
    BY <2>2, <2>5, <2>6, <2>7, <2>8
  <2>10. Right(longer)
    BY <2>1, <2>3, <2>9
  <2> HIDE DEF Right
  <2> QED
    BY <2>6, <2>10 DEF longer
<1>3. \A q \in Seq(BOOLEAN) : q \in S
  <2> HIDE DEF S
  <2> QED
    BY <1>1, <1>2, Operating!SequencesByInduction
<1> QED
  BY <1>3 DEF Measured, Afloat

\* DrawdownIsWorstDrop: the drawdown that build_equity_curve measures from the peak
\* so far is the worst that any operations in a row did, in every scenario.
THEOREM DrawdownIsRight == Spec => []DrawdownIsWorstDrop
<1>1. TypeOK => DrawdownIsWorstDrop
  <2> SUFFICES ASSUME TypeOK, NEW rule \in Rule, NEW config \in Config, LessThan(config.risk, One),
                      NEW curve \in RunBacktest(points, rule, config.risk).curves
               PROVE  DrawdownExceeds(curve, config.max_drawdown)
                        <=> LosesMoreThan(RunBacktest(points, rule, config.risk).outcomes,
                                          config.risk, config.max_drawdown)
    BY DEF DrawdownIsWorstDrop
  <2> DEFINE outcomes == Outcomes(Trades(points, rule))
  <2>1. /\ points \in Series /\ ValidRule(rule)
        /\ ValidRisk(config.risk) /\ ValidLimit(config.max_drawdown)
    BY RuleAssumption, ConfigAssumption DEF TypeOK, ConfigOK, ValidRisk, ValidLimit, One
  <2>2. outcomes \in Seq(BOOLEAN)
    BY <2>1, MirroredTrades, OutcomesType
  <2>3. PICK capital \in CapitalScenarios : curve = EquityCurve(outcomes, capital, config.risk)
    BY DEF RunBacktest
  <2>4. RunBacktest(points, rule, config.risk).outcomes = outcomes
    BY DEF RunBacktest
  <2> HIDE DEF outcomes
  <2>5. capital \in Nat \ {0}
    BY CapitalAssumption
  <2> QED
    BY <2>1, <2>2, <2>3, <2>4, <2>5, DrawdownIs
<1> QED
  BY <1>1, SeriesType, PTL DEF Spec

-----------------------------------------------------------------------------
(* Danger *)

\* Every signal is the decision on its candle.
LEMMA SignalIs ==
  ASSUME NEW s \in Series, NEW rule, ValidRule(rule)
  PROVE  \A n \in Nat : \A k \in 1 .. Len(SignalsOf(s, rule, n)) :
           SignalsOf(s, rule, n)[k].direction = EvaluateAt(s, SignalsOf(s, rule, n)[k].index, rule)
<1> DEFINE Of(n) == SignalsOf(s, rule, n)
           Right(n) == \A k \in 1 .. Len(Of(n)) :
                         Of(n)[k].direction = EvaluateAt(s, Of(n)[k].index, rule)
           S == { n \in Nat : Right(n) }
<1>1. 0 \in S
  <2>1. Of(0) = << >>
    BY SignalsStep
  <2> HIDE DEF Of
  <2> QED
    BY <2>1
<1>2. ASSUME NEW n \in Nat, n \in S PROVE n + 1 \in S
  <2> DEFINE d == Decision(s, rule, n + 1)
  <2>1. Of(n) \in Seq(Signal)
    BY SignalsType
  <2>2. Of(n + 1) = IF EvaluateAt(s, n, rule) # None THEN Append(Of(n), d) ELSE Of(n)
    BY SignalsStep
  <2>3. d.direction = EvaluateAt(s, d.index, rule)
    BY DEF Decision
  <2>4. Right(n)
    BY <1>2
  <2> HIDE DEF Of, d
  <2>5. ASSUME NEW k \in 1 .. Len(Append(Of(n), d))
        PROVE  Append(Of(n), d)[k].direction = EvaluateAt(s, Append(Of(n), d)[k].index, rule)
    <3>1. /\ Len(Of(n)) \in Nat /\ Len(Append(Of(n), d)) = Len(Of(n)) + 1
          /\ Append(Of(n), d)[Len(Of(n)) + 1] = d
          /\ \A j \in 1 .. Len(Of(n)) : Append(Of(n), d)[j] = Of(n)[j]
      BY <2>1
    <3>2. CASE k = Len(Of(n)) + 1
      BY <2>3, <3>1, <3>2
    <3>3. CASE k # Len(Of(n)) + 1
      <4>1. k \in 1 .. Len(Of(n))
        BY <3>1, <3>3
      <4> QED
        BY <2>4, <3>1, <4>1
    <3> QED
      BY <3>2, <3>3
  <2>6. Right(n + 1)
    <3>1. CASE EvaluateAt(s, n, rule) # None
      BY <2>2, <2>5, <3>1
    <3>2. CASE ~ (EvaluateAt(s, n, rule) # None)
      BY <2>2, <2>4, <3>2
    <3> QED
      BY <3>1, <3>2
  <2> HIDE DEF Right
  <2> QED
    BY <2>6
<1>3. \A n \in Nat : n \in S
  <2> HIDE DEF S
  <2> QED
    BY <1>1, <1>2, Signalling!NumbersByInduction
<1> QED
  BY <1>3

\* The challenge of adversarial.py for a look ahead never finds one: on the series
\* cut off at its candle a rule says the same.
LEMMA NeverLooksAhead ==
  ASSUME NEW s \in Series, NEW rule, ValidRule(rule)
  PROVE  NoLookAhead(s, rule)
<1> DEFINE n == Resolvable(s, rule)
           q == SignalsOf(s, rule, n)
<1>1. n \in Nat /\ n <= Len(s) /\ Len(s) \in Nat
  <2>1. Resolvable(s, rule) \in Nat /\ Resolvable(s, rule) <= Len(s)
    BY ResolvableIs
  <2>2. Len(s) \in Nat
    BY DEF Series
  <2> QED
    BY <2>1, <2>2
<1>2. GenerateSignals(s, rule) = q
  BY SignalsAre
<1>3. q \in Seq(Signal) /\ \A k \in 1 .. Len(q) : q[k].index < n
  BY <1>1, SignalsType
<1>4. \A k \in 1 .. Len(q) : q[k].direction = EvaluateAt(s, q[k].index, rule)
  BY <1>1, SignalIs
<1> HIDE DEF n, q
<1>5. ASSUME NEW k \in 1 .. Len(q)
      PROVE  LET truncated == Segment(s, 0, q[k].index + 1)
             IN  EvaluateAt(truncated, Len(truncated) - 1, rule) = q[k].direction
  <2> DEFINE i == q[k].index
             truncated == Segment(s, 0, i + 1)
  <2>1. i \in Nat /\ i < Len(s) /\ q[k].direction \in {"CALL", "PUT"}
    <3>1. q[k] \in Signal
      BY <1>3
    <3> QED
      BY <1>1, <1>3, <3>1 DEF Signal
  <2>2. q[k].direction = EvaluateAt(s, i, rule)
    BY <1>4
  <2> HIDE DEF i
  <2>3. /\ truncated \in Series /\ Len(truncated) = i + 1
        /\ \A j \in 1 .. i + 1 : truncated[j] = s[j]
    <3>1. 0 \in Nat /\ i + 1 \in Nat /\ 0 <= i + 1 /\ i + 1 <= Len(s)
      BY <1>1, <2>1
    <3>2. /\ truncated \in Series /\ Len(truncated) = (i + 1) - 0
          /\ \A j \in 1 .. (i + 1) - 0 : truncated[j] = s[0 + j]
      BY <3>1, SegmentIs
    <3>3. (i + 1) - 0 = i + 1 /\ \A j \in 1 .. i + 1 : 0 + j = j
      BY <2>1
    <3> HIDE DEF truncated
    <3> QED
      BY <3>2, <3>3
  <2> HIDE DEF truncated
  <2>4. i + 1 >= MinimumHistory(rule)
    <3>1. MinimumHistory(rule) \in Nat
      BY MinimumHistoryType
    <3>2. EvaluateAt(s, i, rule) # None
      BY <2>1, <2>2 DEF None
    <3>3. ~ (i + 1 < MinimumHistory(rule))
      BY <3>2 DEF EvaluateAt
    <3> QED
      BY <2>1, <3>1, <3>3
  <2>5. Agree(truncated, s, 0, i)
    BY <1>1, <2>1, <2>3 DEF Agree
  <2>6. EvaluateAt(truncated, i, rule) = EvaluateAt(s, 0 + i, rule)
    BY <2>4, <2>5, SameSignal
  <2>7. Len(truncated) - 1 = i /\ 0 + i = i
    BY <2>1, <2>3
  <2> QED
    BY <2>2, <2>6, <2>7 DEF truncated, i
<1>6. ToSet(GenerateSignals(s, rule)) = { q[k] : k \in 1 .. Len(q) }
  BY <1>2, <1>3 DEF ToSet
<1> QED
  BY <1>5, <1>6 DEF NoLookAhead

\* The body of the loop of MaxLossStreak.
Lose(given, acc, won) ==
  LET current == IF won THEN 0 ELSE acc.current + 1
  IN  [ current |-> current, longest |-> Max({acc.longest, current}) ]

Losing == INSTANCE Lemmas WITH Body <- Lose

NoStreak == [ current |-> 0, longest |-> 0 ]

LossesIn(q, i, n) == \A k \in i + 1 .. i + n : ~ q[k]

\* The streak that goes on ends with the last operation, and the longest is there.
Counted(acc, q) ==
  /\ acc \in [ current : Nat, longest : Nat ]
  /\ acc.current <= Len(q) /\ LossesIn(q, Len(q) - acc.current, acc.current)
  /\ \E i \in Nat : i + acc.longest <= Len(q) /\ LossesIn(q, i, acc.longest)

\* max_loss_streak counts the losses that end the list, and the longest run so far.
LEMMA CountedStep ==
  ASSUME NEW q \in Seq(BOOLEAN), NEW won \in BOOLEAN, NEW acc, Counted(acc, q)
  PROVE  Counted(Lose(None, acc, won), Append(q, won))
<1> DEFINE n == Len(q)
           r == Append(q, won)
           current == IF won THEN 0 ELSE acc.current + 1
           longest == Max({acc.longest, current})
           next == Lose(None, acc, won)
<1>1. /\ n \in Nat /\ Len(r) = n + 1 /\ r[n + 1] = won
      /\ \A k \in 1 .. n : r[k] = q[k]
  OBVIOUS
<1>2. /\ acc.current \in Nat /\ acc.longest \in Nat /\ acc.current <= n
      /\ LossesIn(q, n - acc.current, acc.current)
  BY DEF Counted
<1>3. PICK i \in Nat : i + acc.longest <= n /\ LossesIn(q, i, acc.longest)
  BY DEF Counted
<1>4. current = IF won THEN 0 ELSE acc.current + 1
  OBVIOUS
<1>5. longest = Peak(acc.longest, current)
  BY DEF Peak
<1>6. next = [ current |-> current, longest |-> longest ]
  BY DEF Lose
<1> HIDE DEF n, r, current, longest, next
<1>7. current \in Nat /\ current <= n + 1
  BY <1>1, <1>2, <1>4
<1>8. longest = IF acc.longest >= current THEN acc.longest ELSE current
  BY <1>2, <1>5, <1>7, PeakIs
<1>9. LossesIn(r, n + 1 - current, current)
  <2>1. CASE won
    <3>1. \A k \in ((n + 1 - current) + 1) .. ((n + 1 - current) + current) : FALSE
      BY <1>1, <1>4, <2>1
    <3> QED
      BY <3>1 DEF LossesIn
  <2>2. CASE ~ won
    <3> DEFINE a == n - acc.current
    <3>1. a \in Nat /\ n + 1 - current = a /\ a + current = n + 1 /\ a + acc.current = n
      <4>1. current = acc.current + 1
        BY <1>4, <2>2
      <4>2. \A c, m \in Nat : c <= m => /\ m - c \in Nat /\ m + 1 - (c + 1) = m - c
                                       /\ (m - c) + (c + 1) = m + 1 /\ (m - c) + c = m
        OBVIOUS
      <4> QED
        BY <1>1, <1>2, <4>1, <4>2
    <3> HIDE DEF a
    <3>2. \A k \in a + 1 .. n : ~ q[k]
      <4>1. LossesIn(q, a, acc.current)
        BY <1>2 DEF a
      <4> QED
        BY <3>1, <4>1 DEF LossesIn
    <3>3. ASSUME NEW k \in a + 1 .. n + 1 PROVE ~ r[k]
      <4>1. CASE k = n + 1
        BY <1>1, <2>2, <4>1
      <4>2. CASE k # n + 1
        <5>1. k \in a + 1 .. n /\ k \in 1 .. n
          BY <1>1, <3>1, <4>2
        <5> QED
          BY <1>1, <3>2, <5>1
      <4> QED
        BY <4>1, <4>2
    <3> QED
      BY <3>1, <3>3 DEF LossesIn
  <2> QED
    BY <2>1, <2>2
<1>10. \E j \in Nat : j + longest <= n + 1 /\ LossesIn(r, j, longest)
  <2>1. CASE acc.longest >= current
    <3>1. i + longest <= n + 1
      BY <1>1, <1>2, <1>3, <1>8, <2>1
    <3>2. ASSUME NEW k \in i + 1 .. i + acc.longest PROVE ~ r[k]
      <4>1. k \in 1 .. n /\ ~ q[k]
        BY <1>1, <1>2, <1>3 DEF LossesIn
      <4> QED
        BY <1>1, <4>1
    <3>3. LossesIn(r, i, longest)
      BY <1>8, <2>1, <3>2 DEF LossesIn
    <3> QED
      BY <3>1, <3>3
  <2>2. CASE ~ (acc.longest >= current)
    <3>1. n + 1 - current \in Nat /\ (n + 1 - current) + current <= n + 1
      BY <1>1, <1>7
    <3>2. longest = current
      BY <1>8, <2>2
    <3> QED
      BY <1>9, <3>1, <3>2
  <2> QED
    BY <2>1, <2>2
<1>11. longest \in Nat
  BY <1>2, <1>7, <1>8
<1>12. /\ next \in [ current : Nat, longest : Nat ]
       /\ next.current = current /\ next.longest = longest
  BY <1>6, <1>7, <1>11
<1> QED
  BY <1>1, <1>7, <1>9, <1>10, <1>12 DEF Counted, next, r

\* There is a run of losses as long as MaxLossStreak says.
LEMMA StreakIs ==
  ASSUME NEW q \in Seq(BOOLEAN)
  PROVE  /\ MaxLossStreak(q) \in Nat
         /\ \E i \in Nat : /\ i + MaxLossStreak(q) <= Len(q)
                           /\ LossesIn(q, i, MaxLossStreak(q))
<1> DEFINE Acc(s) == Losing!After(None, NoStreak, s)
           S == { s \in Seq(BOOLEAN) : Counted(Acc(s), s) }
<1>1. << >> \in S
  <2>1. Acc(<< >>) = NoStreak
    BY Losing!LoopEmpty
  <2>2. Counted(NoStreak, << >>)
    <3>1. NoStreak \in [ current : Nat, longest : Nat ] /\ NoStreak.current = 0 /\ NoStreak.longest = 0
      BY DEF NoStreak
    <3>2. Len(<< >>) = 0 /\ 0 \in Nat /\ 0 + 0 <= 0 /\ 0 <= 0 /\ 0 - 0 = 0
      OBVIOUS
    <3>3. LossesIn(<< >>, 0, 0)
      BY DEF LossesIn
    <3> QED
      BY <3>1, <3>2, <3>3 DEF Counted
  <2> HIDE DEF Acc
  <2> QED
    BY <2>1, <2>2
<1>2. ASSUME NEW s \in Seq(BOOLEAN), NEW won \in BOOLEAN, s \in S PROVE Append(s, won) \in S
  <2>1. Acc(Append(s, won)) = Lose(None, Acc(s), won)
    BY Losing!LoopAppend
  <2>2. Counted(Acc(s), s)
    BY <1>2
  <2> HIDE DEF Acc
  <2>3. Counted(Acc(Append(s, won)), Append(s, won))
    BY <2>1, <2>2, CountedStep
  <2> QED
    BY <2>3
<1>3. \A s \in Seq(BOOLEAN) : s \in S
  <2> HIDE DEF S
  <2> QED
    BY <1>1, <1>2, Losing!SequencesByInduction
<1>4. MaxLossStreak(q) = Acc(q).longest
  BY DEF MaxLossStreak, Lose, NoStreak, Losing!After, Losing!FoldLeft, Losing!MapThenFoldSet,
         Losing!Max, FoldLeft, MapThenFoldSet, Max
<1>5. Counted(Acc(q), q)
  BY <1>3
<1> HIDE DEF Acc
<1>6. Acc(q).longest \in Nat
  BY <1>5 DEF Counted
<1> QED
  BY <1>4, <1>5, <1>6 DEF Counted

\* The streak of losses that the risk agent works out a drop from is one of the
\* runs of operations: it finds nothing that the drawdown has not found.
LEMMA DeepStreakLoses ==
  ASSUME NEW q \in Seq(BOOLEAN), NEW config, ~ SurvivesStreak(MaxLossStreak(q), config)
  PROVE  LosesMoreThan(q, config.risk, config.max_drawdown)
<1> DEFINE m == MaxLossStreak(q)
           flat == [ k \in 1 .. m |-> FALSE ]
<1>1. m \in Nat /\ \E i \in Nat : i + m <= Len(q) /\ LossesIn(q, i, m)
  BY StreakIs
<1>2. m # 0 /\ LessThan(Left(flat, config.risk), Minus(One, config.max_drawdown))
  BY DEF SurvivesStreak
<1> HIDE DEF m, flat
<1>3. PICK i \in Nat : i + m <= Len(q) /\ LossesIn(q, i, m)
  BY <1>1
<1>4. Len(q) \in Nat /\ i + 1 \in 1 .. Len(q) /\ i + m \in 1 .. Len(q) /\ i + 1 <= i + m
  <2>1. Len(q) \in Nat
    OBVIOUS
  <2> QED
    BY <1>1, <1>2, <1>3, <2>1
<1>5. SubSeq(q, i + 1, i + m) = flat
  <2>1. (i + m) - (i + 1) + 1 = m
    BY <1>1
  <2>2. /\ SubSeq(q, i + 1, i + m) \in Seq(BOOLEAN)
        /\ Len(SubSeq(q, i + 1, i + m)) = m
        /\ \A k \in 1 .. m : SubSeq(q, i + 1, i + m)[k] = q[i + k]
    <3>1. \A k \in i + 1 .. i + m : k \in 1 .. Len(q)
      BY <1>4
    <3>2. \A k \in 1 .. m : (i + 1) + k - 1 = i + k
      BY <1>1
    <3> QED
      BY <1>1, <1>4, <2>1, <3>1, <3>2
  <2>3. \A k \in 1 .. m : q[i + k] = FALSE
    <3> SUFFICES ASSUME NEW k \in 1 .. m PROVE q[i + k] = FALSE
      OBVIOUS
    <3>1. i + k \in i + 1 .. i + m /\ i + k \in 1 .. Len(q)
      BY <1>1, <1>4
    <3>2. ~ q[i + k] /\ q[i + k] \in BOOLEAN
      BY <1>3, <3>1 DEF LossesIn
    <3> QED
      BY <3>2
  <2>4. flat \in Seq(BOOLEAN) /\ Len(flat) = m /\ \A k \in 1 .. m : flat[k] = FALSE
    BY <1>1 DEF flat
  <2> QED
    BY <2>2, <2>3, <2>4, SeqEqual
<1> QED
  BY <1>2, <1>4, <1>5 DEF LosesMoreThan

\* With nothing lost the capital is always at its peak.
LEMMA NoLossNoDrop ==
  ASSUME NEW risk, ValidRisk(risk), NEW capital \in Nat \ {0}, NEW limit, ValidLimit(limit),
         NEW q \in Seq(BOOLEAN), \A k \in 1 .. Len(q) : q[k]
  PROVE  /\ ~ EquityCurve(q, capital, risk).ruined
         /\ ~ DrawdownExceeds(EquityCurve(q, capital, risk), limit)
<1> DEFINE Curve(s) == EquityCurve(s, capital, risk)
           Rising(curve) == /\ Afloat(curve) /\ curve.equity = curve.peak
                            /\ \A drop \in curve.drops : drop[1] = 0 /\ drop[2] \in Nat
           Won(s) == \A k \in 1 .. Len(s) : s[k]
           S == { s \in Seq(BOOLEAN) : Won(s) => Rising(Curve(s)) }
<1>1. << >> \in S
  <2>1. Curve(<< >>) = AtStart(capital)
    BY EquityCurveIs, Operating!LoopEmpty
  <2>2. Rising(AtStart(capital))
    BY DEF Afloat, AtStart
  <2> HIDE DEF Rising, Curve
  <2> QED
    BY <2>1, <2>2
<1>2. ASSUME NEW s \in Seq(BOOLEAN), NEW won \in BOOLEAN, s \in S PROVE Append(s, won) \in S
  <2> SUFFICES ASSUME Won(Append(s, won)) PROVE Rising(Curve(Append(s, won)))
    <3> HIDE DEF Won, Curve, Rising
    <3> QED
      OBVIOUS
  <2>0. Won(s) /\ won
    <3>1. /\ Len(s) \in Nat /\ Len(Append(s, won)) = Len(s) + 1
          /\ \A k \in 1 .. Len(s) : Append(s, won)[k] = s[k]
          /\ Append(s, won)[Len(s) + 1] = won
      OBVIOUS
    <3>2. Len(s) + 1 \in 1 .. Len(s) + 1 /\ \A k \in 1 .. Len(s) : k \in 1 .. Len(s) + 1
      BY <3>1
    <3> QED
      BY <3>1, <3>2
  <2> HIDE DEF Won
  <2> DEFINE curve == Curve(s)
             next == Operation(risk, curve, won)
             equity == curve.equity * Factor(risk, won)
             fallen == curve.peak * Unit(risk)
             peak == IF fallen >= equity THEN fallen ELSE equity
  <2>1. Curve(Append(s, won)) = next
    BY EquityCurveIs, Operating!LoopAppend
  <2>2. Rising(curve)
    BY <1>2, <2>0
  <2> HIDE DEF Curve, curve
  <2>3. /\ Afloat(next) /\ next.equity = equity /\ next.peak = peak
        /\ next.drops = curve.drops \cup {<<peak - equity, peak>>}
    <3>1. Afloat(curve) /\ won
      BY <2>0, <2>2
    <3> QED
      BY <3>1, OperationIs
  <2>4. peak = equity /\ equity \in Nat
    <3>1. curve.equity \in Nat \ {0} /\ curve.peak = curve.equity
      BY <2>2 DEF Afloat
    <3>2. Unit(risk) \in Nat \ {0} /\ Factor(risk, won) \in Nat \ {0} /\ Unit(risk) < Factor(risk, won)
      BY <2>0, FactorIs
    <3>5. PICK e \in Nat \ {0}, f \in Nat \ {0}, u \in Nat \ {0} :
            /\ e = curve.equity /\ f = Factor(risk, won) /\ u = Unit(risk) /\ u < f
      BY <3>1, <3>2
    <3>6. fallen = e * u /\ equity = e * f
      BY <3>1, <3>5
    <3> HIDE DEF fallen, equity
    <3>3. fallen < equity
      BY <3>5, <3>6, Cancel
    <3>4. fallen \in Nat /\ equity \in Nat
      <4>1. e * u \in Nat /\ e * f \in Nat
        BY <3>5, Products
      <4> QED
        BY <3>6, <4>1
    <3> QED
      BY <3>3, <3>4
  <2> HIDE DEF next, equity, peak
  <2>5. Rising(next)
    <3>1. peak - equity = 0 /\ peak \in Nat
      BY <2>4
    <3> QED
      BY <2>2, <2>3, <2>4, <3>1
  <2> HIDE DEF Rising
  <2> QED
    BY <2>1, <2>5
<1>3. \A s \in Seq(BOOLEAN) : s \in S
  <2> HIDE DEF S
  <2> QED
    BY <1>1, <1>2, Operating!SequencesByInduction
<1>5. Rising(Curve(q))
  BY <1>3
<1>6. ASSUME NEW drop \in Curve(q).drops PROVE ~ LessThan(limit, drop)
  <2>1. drop[1] = 0 /\ drop[2] \in Nat
    BY <1>5
  <2>2. limit[1] \in Int /\ limit[2] \in Nat \ {0} /\ 0 * limit[2] < limit[1] * 1
    BY DEF ValidLimit, Fraction, LessThan, Zero
  <2>3. limit[1] \in Nat
    BY <2>2
  <2>4. limit[1] * drop[2] \in Nat
    BY <2>1, <2>3
  <2>5. ~ (limit[1] * drop[2] < 0 * limit[2])
    BY <2>2, <2>4
  <2> QED
    BY <2>1, <2>5 DEF LessThan
<1> HIDE DEF Curve
<1> QED
  BY <1>5, <1>6 DEF Curve, DrawdownExceeds, Afloat

\* What the risk agent finds: too deep a drop or, with everything at stake, a loss.
LEMMA RisksAre ==
  ASSUME NEW config, ValidRisk(config.risk), ValidLimit(config.max_drawdown),
         NEW q \in Seq(BOOLEAN), NEW ruin \in MonteCarlo(q, config.risk), NEW backtest,
         backtest.curves = { EquityCurve(q, capital, config.risk) : capital \in CapitalScenarios },
         backtest.max_loss_streak = MaxLossStreak(q)
  PROVE  Assess(backtest, config, ruin) # {} <=> DangerousRisk(q, config)
<1> DEFINE risk == config.risk
           Drops == \E curve \in backtest.curves : DrawdownExceeds(curve, config.max_drawdown)
           Ruins2 == \E curve \in backtest.curves : curve.ruined
           Survives == SurvivesStreak(backtest.max_loss_streak, config)
<1>1. Assess(backtest, config, ruin) # {} <=> Drops \/ ruin = "exceeded" \/ Ruins2 \/ ~ Survives
  <2>1. /\ "drawdown_limit_exceeded" \in Assess(backtest, config, ruin) <=> Drops
        /\ "risk_of_ruin_exceeded" \in Assess(backtest, config, ruin) <=> ruin = "exceeded"
        /\ "capital_depletion" \in Assess(backtest, config, ruin) <=> Ruins2
        /\ "loss_streak_too_deep" \in Assess(backtest, config, ruin) <=> ~ Survives
    BY DEF Assess
  <2>2. Assess(backtest, config, ruin)
          \subseteq {"drawdown_limit_exceeded", "risk_of_ruin_exceeded",
                     "capital_depletion", "loss_streak_too_deep"}
    BY DEF Assess
  <2> HIDE DEF Drops, Ruins2, Survives
  <2> QED
    BY <2>1, <2>2
<1>2. PICK capital \in CapitalScenarios : capital \in Nat \ {0}
  BY CapitalAssumption
<1>3. \A c \in CapitalScenarios : c \in Nat \ {0}
  BY CapitalAssumption
<1>4. CASE LessThan(risk, One)
  <2>1. ruin = "within"
    BY <1>4 DEF MonteCarlo, One
  <2>2. \A c \in CapitalScenarios :
          /\ ~ EquityCurve(q, c, risk).ruined
          /\ DrawdownExceeds(EquityCurve(q, c, risk), config.max_drawdown)
               <=> LosesMoreThan(q, risk, config.max_drawdown)
    BY <1>3, <1>4, DrawdownIs
  <2>3. Drops <=> LosesMoreThan(q, risk, config.max_drawdown)
    BY <1>2, <2>2
  <2>4. ~ Ruins2
    BY <2>2
  <2>5. ~ Survives => LosesMoreThan(q, risk, config.max_drawdown)
    BY DeepStreakLoses
  <2>6. DangerousRisk(q, config) <=> LosesMoreThan(q, risk, config.max_drawdown)
    BY <1>4 DEF DangerousRisk
  <2> HIDE DEF Drops, Ruins2, Survives
  <2> QED
    BY <1>1, <2>1, <2>3, <2>4, <2>5, <2>6
<1>5. CASE ~ LessThan(risk, One)
  <2>1. DangerousRisk(q, config) <=> Wins(q) < Len(q)
    BY <1>5 DEF DangerousRisk
  <2>2. /\ Wins(q) \in Nat /\ Len(q) \in Nat /\ Wins(q) <= Len(q)
        /\ Wins(q) = Len(q) <=> \A k \in 1 .. Len(q) : q[k]
    BY WinsType
  <2>3. CASE Wins(q) < Len(q)
    <3>1. Solvent(EquityCurve(q, capital, risk), risk, Wins(q) < Len(q))
      BY <1>2, RuinIs
    <3>2. risk[1] = risk[2]
      BY <1>5, RiskIs
    <3>3. EquityCurve(q, capital, risk).ruined
      BY <2>3, <3>1, <3>2 DEF Solvent
    <3>4. Ruins2
      BY <1>2, <3>3
    <3> HIDE DEF Ruins2, Drops, Survives
    <3> QED
      BY <1>1, <2>1, <2>3, <3>4
  <2>4. CASE ~ (Wins(q) < Len(q))
    <3>1. Wins(q) = Len(q) /\ \A k \in 1 .. Len(q) : q[k]
      BY <2>2, <2>4
    <3>2. ruin = "within"
      BY <3>1 DEF MonteCarlo
    <3>3. \A c \in CapitalScenarios :
            /\ ~ EquityCurve(q, c, risk).ruined
            /\ ~ DrawdownExceeds(EquityCurve(q, c, risk), config.max_drawdown)
      BY <1>3, <3>1, NoLossNoDrop
    <3>4. ~ Drops /\ ~ Ruins2
      BY <3>3
    <3>5. MaxLossStreak(q) = 0
      <4>1. PICK i \in Nat : i + MaxLossStreak(q) <= Len(q) /\ LossesIn(q, i, MaxLossStreak(q))
        BY StreakIs
      <4>2. MaxLossStreak(q) \in Nat
        BY StreakIs
      <4> SUFFICES ASSUME MaxLossStreak(q) # 0 PROVE FALSE
        OBVIOUS
      <4>3. i + 1 \in i + 1 .. i + MaxLossStreak(q) /\ i + 1 \in 1 .. Len(q)
        BY <2>2, <4>1, <4>2
      <4> QED
        BY <3>1, <4>1, <4>3 DEF LossesIn
    <3>6. Survives
      BY <3>5 DEF SurvivesStreak
    <3> HIDE DEF Ruins2, Drops, Survives
    <3> QED
      BY <1>1, <2>1, <2>4, <3>2, <3>4, <3>6
  <2> QED
    BY <2>3, <2>4
<1> QED
  BY <1>4, <1>5

\* A decided rule is rejected of a finding of the adversarial or the risk agent,
\* and the broker, the only gate that is ever waived, is no part of it.
LEMMA RejectedIs ==
  ASSUME NEW statistics, NEW adversarial, NEW risk, NEW broker, NEW config, NEW margin
  PROVE  Target(Checklist(statistics, adversarial, risk, broker, config, margin), config) = "REJECTED"
           <=> adversarial # {} \/ risk # {}
<1> DEFINE checklist == Checklist(statistics, adversarial, risk, broker, config, margin)
           waived == IF config.blocking THEN {} ELSE {"broker_risk_passed"}
<1>1. /\ DOMAIN checklist = {"sufficient_sample", "no_look_ahead_bias", "oos_passed",
                             "walk_forward_passed", "monte_carlo_passed", "temporal_stability",
                             "drawdown_reviewed", "loss_streak_reviewed", "adversarial_passed",
                             "expectancy_positive_net_payout", "risk_reviewed",
                             "broker_risk_passed"}
      /\ checklist.no_look_ahead_bias = ("look_ahead_bias" \notin adversarial)
      /\ checklist.adversarial_passed = (adversarial = {})
      /\ checklist.risk_reviewed = (risk = {})
  BY DEF Checklist
<1>2. Target(checklist, config) = "REJECTED"
        <=> (FailedItems(checklist) \ waived) \cap STRUCTURAL_FAILURES # {}
  <2> HIDE DEF checklist
  <2> QED
    BY TargetIs
<1> HIDE DEF checklist
<1>3. /\ "no_look_ahead_bias" \in FailedItems(checklist) <=> "look_ahead_bias" \in adversarial
      /\ "adversarial_passed" \in FailedItems(checklist) <=> adversarial # {}
      /\ "risk_reviewed" \in FailedItems(checklist) <=> risk # {}
  BY <1>1 DEF FailedItems
<1>4. (FailedItems(checklist) \ waived) \cap STRUCTURAL_FAILURES # {}
        <=> \/ "no_look_ahead_bias" \in FailedItems(checklist)
            \/ "adversarial_passed" \in FailedItems(checklist)
            \/ "risk_reviewed" \in FailedItems(checklist)
  BY DEF STRUCTURAL_FAILURES
<1> QED
  BY <1>2, <1>3, <1>4 DEF checklist

\* The adversarial agent fails a rule exactly for its degradation.
LEMMA ChallengedIs ==
  ASSUME NEW s \in Series, NEW rule, ValidRule(rule), NEW config, NEW backtest, NEW ruin,
         backtest.outcomes \in Seq(BOOLEAN), backtest.outcomes # << >>
  PROVE  Challenge(s, rule, Analyze(s, rule, config, backtest, ruin)) # {} <=> Degrades(s, rule)
<1> DEFINE statistics == Analyze(s, rule, config, backtest, ruin)
           found == Challenge(s, rule, statistics)
<1>1. /\ statistics.trades = Len(backtest.outcomes)
      /\ statistics.degradation = Minus(Expectancy(Outcomes(Trades(InSample(s), rule))),
                                        Expectancy(Outcomes(Trades(OutOfSampleOf(s), rule))))
  BY DEF Analyze
<1>2. LessThan(MaxDegradation, statistics.degradation) <=> Degrades(s, rule)
  BY <1>1 DEF Degrades
<1> HIDE DEF statistics
<1>3. statistics.trades # 0
  BY <1>1
<1>4. NoLookAhead(s, rule)
  BY NeverLooksAhead
<1>5. /\ "look_ahead_bias" \in found <=> ~ NoLookAhead(s, rule)
      /\ "overfitting" \in found <=> statistics.trades = 0
      /\ "out_of_sample_degradation" \in found <=> LessThan(MaxDegradation, statistics.degradation)
      /\ found \subseteq {"look_ahead_bias", "overfitting", "out_of_sample_degradation"}
  BY DEF Challenge
<1> HIDE DEF found
<1>6. found # {} <=> Degrades(s, rule)
  BY <1>2, <1>3, <1>4, <1>5
<1> QED
  BY <1>6 DEF found, statistics

\* A decision rejects for good exactly for the danger it has found.
LEMMA RejectedOnDanger ==
  ASSUME points \in Series, NEW rule \in Rule, NEW config \in Config,
         Decide(rule, config, RunBacktest(points, rule, config.risk))
  PROVE  LET outcomes == Outcomes(Trades(points, rule))
         IN  /\ judged'.rule = rule /\ judged'.config = config
             /\ judged'.status = "REJECTED"
                  <=> DangerousRisk(outcomes, config) \/ Degrades(points, rule)
<1> DEFINE backtest == RunBacktest(points, rule, config.risk)
           outcomes == Outcomes(Trades(points, rule))
<1>1. /\ ValidRule(rule) /\ ValidRisk(config.risk) /\ ValidLimit(config.max_drawdown)
  BY RuleAssumption, ConfigAssumption DEF ConfigOK, ValidRisk, ValidLimit, One
<1>2. outcomes \in Seq(BOOLEAN)
  BY <1>1, MirroredTrades, OutcomesType
<1>3. /\ backtest.outcomes = outcomes /\ backtest.max_loss_streak = MaxLossStreak(outcomes)
      /\ backtest.curves = { EquityCurve(outcomes, capital, config.risk)
                             : capital \in CapitalScenarios }
  BY DEF RunBacktest
<1> HIDE DEF backtest, outcomes
<1>4. Decide(rule, config, backtest)
  BY DEF backtest
<1>5. backtest.outcomes # << >>
  BY <1>4 DEF Decide
<1>6. PICK ruin \in MonteCarlo(backtest.outcomes, config.risk), items \in Evidence,
           margin \in Margin :
        judged' = Judgement(rule, config, Verdict(rule, config, backtest, ruin, items, margin),
                            items, margin)
  BY <1>4, DecidedBy
<1> DEFINE statistics == Analyze(points, rule, config, backtest, ruin)
           adversarial == Challenge(points, rule, statistics)
           risk == Assess(backtest, config, ruin)
           status == Verdict(rule, config, backtest, ruin, items, margin)
<1>7. judged'.rule = rule /\ judged'.config = config /\ judged'.status = status
  BY <1>6 DEF Judgement
<1>8. status = Target(Checklist(statistics, adversarial, risk, BrokerStatus(items), config, margin),
                      config)
  BY DEF Verdict
<1>9. adversarial # {} <=> Degrades(points, rule)
  BY <1>1, <1>2, <1>3, <1>5, ChallengedIs
<1>10. risk # {} <=> DangerousRisk(outcomes, config)
  BY <1>1, <1>2, <1>3, RisksAre
<1> HIDE DEF statistics, adversarial, risk, status
<1>11. status = "REJECTED" <=> adversarial # {} \/ risk # {}
  BY <1>8, RejectedIs
<1> QED
  BY <1>7, <1>9, <1>10, <1>11 DEF outcomes

\* DangerIsRejected: of the findings of all agents those of the risk agent come to
\* one, a drop over the limit or ruin, those of the adversarial agent to the
\* degradation, and validator.decide rejects for good of these and of no other.
THEOREM DangerRejected == Spec => []DangerIsRejected
<1>1. Init => DangerIsRejected
  BY DEF Init, Unjudged, None, DangerIsRejected
<1>2. TypeOK /\ DangerIsRejected /\ [Next]_vars => DangerIsRejected'
  <2> SUFFICES ASSUME TypeOK, DangerIsRejected, [Next]_vars
               PROVE  DangerIsRejected'
    OBVIOUS
  <2>1. CASE UNCHANGED vars
    BY <2>1 DEF DangerIsRejected, vars
  <2>2. CASE Receive
    BY <2>2 DEF DangerIsRejected, Receive, Unjudged, None
  <2>3. CASE Evaluate
    <3>1. points' = points
      BY <2>3 DEF Evaluate
    <3>2. PICK rule \in Rule, config \in Config :
            \E backtest \in {RunBacktest(points, rule, config.risk)} :
              \/ ReturnUntraded(rule, config, backtest)
              \/ EvaluationFails(rule, config, backtest)
              \/ Decide(rule, config, backtest)
      BY <2>3, Zenon DEF Evaluate
    <3> DEFINE backtest == RunBacktest(points, rule, config.risk)
    <3>3. \/ ReturnUntraded(rule, config, backtest)
          \/ EvaluationFails(rule, config, backtest)
          \/ Decide(rule, config, backtest)
      <4> HIDE DEF backtest
      <4> QED
        BY <3>2, Zenon DEF backtest
    <3>4. backtest.outcomes = Outcomes(Trades(points, rule))
      BY DEF RunBacktest
    <3>5. CASE ReturnUntraded(rule, config, backtest)
      <4>1. judged'.rule = rule /\ backtest.outcomes = << >>
        BY <3>5 DEF ReturnUntraded, Judgement
      <4> HIDE DEF backtest
      <4> QED
        BY <3>1, <3>4, <4>1 DEF DangerIsRejected
    <3>6. CASE EvaluationFails(rule, config, backtest)
      <4>1. judged'.status = "IDEA"
        BY <3>6 DEF EvaluationFails, Judgement
      <4> QED
        BY <4>1 DEF DangerIsRejected
    <3>7. CASE Decide(rule, config, backtest)
      <4>1. /\ judged'.rule = rule /\ judged'.config = config
            /\ judged'.status = "REJECTED"
                 <=> \/ DangerousRisk(Outcomes(Trades(points, rule)), config)
                     \/ Degrades(points, rule)
        BY <3>7, RejectedOnDanger DEF TypeOK
      <4> QED
        BY <3>1, <4>1 DEF DangerIsRejected
    <3> QED
      BY <3>3, <3>5, <3>6, <3>7
  <2> QED
    BY <2>1, <2>2, <2>3 DEF Next
<1> QED
  BY <1>1, <1>2, SeriesType, PTL DEF Spec
=============================================================================
