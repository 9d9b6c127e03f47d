----------------------------- MODULE KeyedBudget -----------------------------
(***************************************************************************)
(* What a sponsorship budget promises, with no running totals.  A campaign *)
(* has funds; every request is a key.  A key is held for at most what the  *)
(* funds leave free, and then charged once, for no more than was held, or  *)
(* released; after that it never moves again.  A closed campaign takes no  *)
(* funds and no new key.                                                   *)
(*                                                                         *)
(* What is free is computed from the keys themselves: an implementation    *)
(* that keeps counters has to keep them equal to these sums.               *)
(***************************************************************************)
EXTENDS Integers

CONSTANTS
  Campaigns, Keys,
  Total(_)            \* the sum of a function into the naturals, Totals!Total

VARIABLES
  funds,              \* what each campaign was funded with
  closed,
  fate,               \* of each key: "fresh", "held", "charged" or "released"
  held,               \* what each key is held for, 0 unless it is held
  charge              \* what each key was charged, 0 unless it was

budgetVars == <<funds, closed, fate, held, charge>>

BudgetInit ==
  /\ funds = [c \in Campaigns |-> 0]
  /\ closed = [c \in Campaigns |-> FALSE]
  /\ fate = [c \in Campaigns |-> [k \in Keys |-> "fresh"]]
  /\ held = [c \in Campaigns |-> [k \in Keys |-> 0]]
  /\ charge = [c \in Campaigns |-> [k \in Keys |-> 0]]

\* Campaign c, and no other, has new funds, or a new fate for some keys.
Only(c) ==
  \A d \in Campaigns \ {c} :
    /\ funds'[d] = funds[d] /\ closed'[d] = closed[d]
    /\ fate'[d] = fate[d] /\ held'[d] = held[d] /\ charge'[d] = charge[d]

Fund(c) ==
  /\ ~closed[c]
  /\ funds'[c] > funds[c]
  /\ Only(c)
  /\ UNCHANGED <<closed, fate, held, charge>>

Hold(c, k) ==
  /\ ~closed[c]
  /\ fate[c][k] = "fresh"
  /\ held'[c][k] + Total(held[c]) + Total(charge[c]) <= funds[c]
  /\ fate' = [fate EXCEPT ![c] = [fate[c] EXCEPT ![k] = "held"]]
  /\ held' = [held EXCEPT ![c] = [held[c] EXCEPT ![k] = held'[c][k]]]
  /\ UNCHANGED <<funds, closed, charge>>

Charge(c, k) ==
  /\ fate[c][k] = "held"
  /\ charge'[c][k] <= held[c][k]
  /\ fate' = [fate EXCEPT ![c] = [fate[c] EXCEPT ![k] = "charged"]]
  /\ held' = [held EXCEPT ![c] = [held[c] EXCEPT ![k] = 0]]
  /\ charge' = [charge EXCEPT ![c] = [charge[c] EXCEPT ![k] = charge'[c][k]]]
  /\ UNCHANGED <<funds, closed>>

\* Some held keys are released, and the campaign may close at the same time.
Release(c, keys) ==
  /\ \A k \in keys : fate[c][k] = "held"
  /\ fate' = [fate EXCEPT ![c] = [k \in Keys |-> IF k \in keys THEN "released" ELSE fate[c][k]]]
  /\ held' = [held EXCEPT ![c] = [k \in Keys |-> IF k \in keys THEN 0 ELSE held[c][k]]]
  /\ closed' \in {closed, [closed EXCEPT ![c] = TRUE]}
  /\ UNCHANGED <<funds, charge>>

BudgetNext ==
  \E c \in Campaigns :
    \/ Fund(c)
    \/ \E k \in Keys : Hold(c, k) \/ Charge(c, k)
    \/ \E keys \in SUBSET Keys : Release(c, keys)

BudgetSpec == BudgetInit /\ [][BudgetNext]_budgetVars
=============================================================================
