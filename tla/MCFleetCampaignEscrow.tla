----------------------- MODULE MCFleetCampaignEscrow -----------------------
(* Instances of FleetCampaignEscrow for TLC. *)
EXTENDS FleetCampaignEscrow, TLC

Symmetry == Permutations(Campaigns) \cup Permutations(Keys)
=============================================================================
