--------------------------- MODULE MCVenueCopies ---------------------------
(* Instances of VenueCopies for TLC. *)
EXTENDS VenueCopies

CONSTANTS f1, f2

MCTwo == <<f1, f2>>

=============================================================================
