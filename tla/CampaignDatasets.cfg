CONSTANTS
  OTC = OTC
  M1 = M1
  Proc = {p1}
  Dataset = {OTC, M1}
  Prefix <- Nested
  NRules = 2
  BatchSize = 2
  Budget = 2
  MaxRetries = 2
  MaxId = 4
  MaxInterventions = 0
  MaxFaults = 0
  MayCrash = FALSE
SPECIFICATION Spec
INVARIANTS DatasetsSweptApart
