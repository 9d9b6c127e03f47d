------------------------------ MODULE SaleLedger ------------------------------
(***************************************************************************)
(* What the service promises a depositor who sells: a transfer to the      *)
(* operator counts in one sale at most, and a sale ends paid, once its     *)
(* tokens are sold, or returned, and never moves again.                    *)
(***************************************************************************)
CONSTANTS Transfers, NoOne

VARIABLES
  countedIn,       \* the sale each transfer counts in; a sale is named by one of them
  fate             \* "none", "awaiting", "sold", "paid" or "returned"

saleVars == <<countedIn, fate>>

SaleInit ==
  /\ countedIn = [h \in Transfers |-> NoOne]
  /\ fate = [s \in Transfers |-> "none"]

Open(s, hashes) ==
  /\ s \in hashes
  /\ \A h \in hashes : countedIn[h] = NoOne
  /\ countedIn' = [h \in Transfers |-> IF h \in hashes THEN s ELSE countedIn[h]]
  /\ fate' = [fate EXCEPT ![s] = "awaiting"]

Moves(s, from, to) ==
  /\ fate[s] = from
  /\ fate' = [fate EXCEPT ![s] = to]
  /\ UNCHANGED countedIn

SaleNext ==
  \E s \in Transfers :
    \/ \E hashes \in SUBSET Transfers : Open(s, hashes)
    \/ Moves(s, "awaiting", "sold") \/ Moves(s, "sold", "paid")
    \/ Moves(s, "awaiting", "returned")

SaleSpec == SaleInit /\ [][SaleNext]_saleVars
=============================================================================
