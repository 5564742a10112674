----------------------------- MODULE MCEvaluation -----------------------------
(* Instances of Evaluation for TLC. *)
EXTENDS Evaluation

\* A bare close, and a candle whose body is half of its range.
Candles ==
  { [ price |-> 1, open |-> Absent, high |-> Absent, low |-> Absent ],
    [ price |-> 2, open |-> 1, high |-> 3, low |-> 1 ] }

Half == <<1, 2>>

Made(source, mode, lookback, expiry, streak, threshold, window) ==
  [ source |-> source, mode |-> mode, lookback |-> lookback, expiry |-> expiry,
    streak |-> streak, threshold |-> threshold, window |-> window ]

\* Every family; one whose expiry is long, one with a window over midnight.
Rules ==
  { Made("MOMENTUM", "FOLLOW", 1, 1, 3, Half, Always),
    Made("MOMENTUM", "REVERT", 1, 1, 3, Half, Always),
    Made("MOMENTUM", "REVERT", 1, 1, 3, Half, <<22, 3>>),
    Made("MOMENTUM", "REVERT", 2, 2, 3, Half, Always),
    Made("STREAK", "REVERT", 1, 1, 2, Zero, Always),
    Made("STREAK", "FOLLOW", 1, 1, 1, Zero, Always),
    Made("ALTERNATION", "FOLLOW", 2, 1, 3, Zero, Always),
    Made("BODY_RATIO", "REVERT", 1, 1, 3, Half, Always) }

Setting(risk, ratio, blocking) ==
  [ risk |-> risk, max_drawdown |-> Half, min_fold_pass_ratio |-> ratio, folds |-> 2,
    min_sample_size |-> 10, blocking |-> blocking ]

\* The share of the capital at stake, of the folds to pass, and the gate on the
\* broker open or shut.
Settings == { Setting(Half, One, TRUE), Setting(One, Half, FALSE) }

Of(category, sourced, severity) ==
  [ category |-> category, sourced |-> sourced, severity |-> severity ]

Categories == {"regulatory", "complaints"}

\* All categories well attested; one missing; one without a source; a warning.
Evidences ==
  LET clean == { Of(c, TRUE, "PASS") : c \in Categories }
      first == Of("regulatory", TRUE, "PASS")
  IN  { clean, {first}, {first, Of("complaints", FALSE, "PASS")},
        {first, Of("complaints", TRUE, "WARN")} }

Payouts == Half
Share == <<2, 5>>
Margins == { Zero }
Capitals == {1, 3}
=============================================================================
