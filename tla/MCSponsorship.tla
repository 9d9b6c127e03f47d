--------------------------- MODULE MCSponsorship ---------------------------
(* Instances of Sponsorship for TLC. *)
EXTENDS Sponsorship, TLC

MCKeys     == Users \X Nonces
MCPolicies == {[op |-> 3, user |-> 3, sponsor |-> 3]}

Symmetry == Permutations(Handlers) \cup Permutations(Nonces)
=============================================================================
