----------------------------- MODULE MCFleetPool -----------------------------
(* Instances of FleetPool for TLC: a few wei, a few instants. *)
EXTENDS FleetPool, TLC

Symmetry == Permutations(Depositors) \cup Permutations(Campaigns) \cup Permutations(SpendIds)
=============================================================================
