---------------------------- MODULE ChargeLedger ----------------------------
(***************************************************************************)
(* What the service promises about a charge it has recorded as owed: it    *)
(* ends in the pool's queue exactly once, or it is voided and never gets   *)
(* there.  How the batch is signed, lost, retried and resolved is the      *)
(* business of OwedLedger, which is shown to implement this.               *)
(***************************************************************************)
CONSTANT Rows

VARIABLE fate        \* of each charge

FateInit == fate = [r \in Rows |-> "absent"]

Move(rows, from, to) ==
  /\ rows # {}
  /\ \A r \in rows : fate[r] = from
  /\ fate' = [r \in Rows |-> IF r \in rows THEN to ELSE fate[r]]

FateNext ==
  \E rows \in SUBSET Rows :
    \/ Move(rows, "absent", "owed")
    \/ Move(rows, "owed", "queued")
    \/ Move(rows, "owed", "void")

FateSpec == FateInit /\ [][FateNext]_fate
=============================================================================
