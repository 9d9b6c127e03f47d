---------------------------- MODULE MCOwedLedger ----------------------------
(* Instances of OwedLedger for TLC. *)
EXTENDS OwedLedger, TLC

Symmetry == Permutations(Payouts)
=============================================================================
