------------------------------ MODULE MCSales ------------------------------
(* Instances of Sales for TLC. *)
EXTENDS Sales, TLC

Symmetry == Permutations(Instances) \cup Permutations(Transfers)
=============================================================================
