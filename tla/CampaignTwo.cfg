CONSTANTS
  OTC = OTC
  M1 = M1
  Proc = {p1, p2}
  Dataset = {OTC}
  Prefix <- Alone
  NRules = 2
  BatchSize = 2
  Budget = 2
  MaxRetries = 2
  MaxId = 3
  MaxInterventions = 1
  MaxFaults = 1
  MayCrash = TRUE
SPECIFICATION Spec
INVARIANTS VerdictIsCreators
SYMMETRY Symmetry
