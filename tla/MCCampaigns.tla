---------------------------- MODULE MCCampaigns ----------------------------
EXTENDS Campaigns

Symmetry == Permutations(Handlers) \cup Permutations(Instances) \cup Permutations(Slices)
=============================================================================
