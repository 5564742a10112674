\* Every series of up to eleven hourly candles of two kinds, from eight in the
\* evening, judged by eight rules of all families.
SPECIFICATION Spec
CONSTANTS
  Payout <- Payouts
  CapitalScenarios <- Capitals
  Candle <- Candles
  FirstHour = 20
  Rule <- Rules
  Config <- Settings
  OutOfSample <- Share
  Margin <- Margins
  Category <- Categories
  Evidence <- Evidences
  MaxPoints = 11
CHECK_DEADLOCK FALSE
INVARIANTS FoldsAgreeWithTheWhole MirrorRulesShareNoWin HourWindowsPartition RuinNeedsFullStake DrawdownIsWorstDrop DangerIsRejected AdvancedEarnsInItsFolds BrokerFailsClosed
PROPERTIES LaterCandlesChangeNothing
