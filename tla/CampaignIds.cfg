CONSTANTS
  OTC = OTC
  M1 = M1
  Proc = {p1}
  Dataset = {OTC}
  Prefix <- Alone
  NRules = 2
  BatchSize = 2
  Budget = 2
  MaxRetries = 2
  MaxId = 3
  MaxInterventions = 0
  MaxFaults = 0
  MayCrash = TRUE
SPECIFICATION Spec
INVARIANTS StrategyIdsNotReused
