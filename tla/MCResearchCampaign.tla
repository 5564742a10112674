-------------------------- MODULE MCResearchCampaign --------------------------
(* Instances of ResearchCampaign for TLC. *)
EXTENDS ResearchCampaign, TLC

CONSTANTS OTC, M1  \* DATA-EURUSD-OTC and DATA-EURUSD-OTC-M1

Alone == {<<OTC, OTC>>}

Nested == {<<OTC, OTC>>, <<M1, M1>>, <<OTC, M1>>}

Symmetry == Permutations(Proc)
=============================================================================
