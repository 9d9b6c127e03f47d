---------------------------- MODULE DepositLedger ----------------------------
(***************************************************************************)
(* What the pool promises a depositor, with nothing of how it keeps it.    *)
(*                                                                         *)
(* credit[d] is what depositor d could still take out.  It grows by a      *)
(* deposit, shrinks by a charge that the credit backs, and goes to zero    *)
(* only by being paid out in full.  The three running totals are the       *)
(* counters FleetPool publishes: everything that came in, everything paid  *)
(* out in exits, everything charged.  FleetPool is shown to implement this *)
(* ledger, so that a depositor can lose credit in no other way, whatever   *)
(* draws, reservations, pauses and claims do around it.                    *)
(***************************************************************************)
EXTENDS Integers

CONSTANTS
  Depositors,
  Total(_)       \* the sum of a function into the naturals, Totals!Total

VARIABLES credit, everDeposited, exitsPaid, totalPosted

ledgerVars == <<credit, everDeposited, exitsPaid, totalPosted>>

LedgerTypeOK ==
  /\ credit \in [Depositors -> Nat]
  /\ everDeposited \in Nat
  /\ exitsPaid \in Nat
  /\ totalPosted \in Nat

LedgerInit ==
  /\ credit = [d \in Depositors |-> 0]
  /\ everDeposited = 0
  /\ exitsPaid = 0
  /\ totalPosted = 0

\* Depositor d adds to its credit.
Credit(d) ==
  /\ credit'[d] \in Nat
  /\ credit'[d] > credit[d]
  /\ credit' = [credit EXCEPT ![d] = credit'[d]]
  /\ everDeposited' = everDeposited + (credit'[d] - credit[d])
  /\ UNCHANGED <<exitsPaid, totalPosted>>

\* A posting charges some depositors, each no more than its credit, and
\* accounts for exactly what it charged.
Charge ==
  /\ credit' \in [Depositors -> Nat]
  /\ \A d \in Depositors : credit'[d] <= credit[d]
  /\ totalPosted' = totalPosted + Total([d \in Depositors |-> credit[d] - credit'[d]])
  /\ UNCHANGED <<everDeposited, exitsPaid>>

\* Depositor d leaves with all of its credit and not a wei less.
Leave(d) ==
  /\ credit' = [credit EXCEPT ![d] = 0]
  /\ exitsPaid' = exitsPaid + credit[d]
  /\ UNCHANGED <<everDeposited, totalPosted>>

LedgerNext ==
  \/ \E d \in Depositors : Credit(d) \/ Leave(d)
  \/ Charge

LedgerSpec == LedgerInit /\ [][LedgerNext]_ledgerVars
=============================================================================
