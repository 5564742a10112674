CONSTANTS
  OTC = OTC
  M1 = M1
  Proc = {p1}
  Dataset = {OTC}
  Prefix <- Alone
  NRules = 3
  BatchSize = 2
  Budget = 3
  MaxRetries = 2
  MaxId = 5
  MaxInterventions = 3
  MaxFaults = 1
  MayCrash = TRUE
SPECIFICATION FairSpec
INVARIANTS TypeOK NoRuleTestedTwice EmergencyHonouredWithinBatch
PROPERTIES CampaignEnds
