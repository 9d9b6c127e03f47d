----------------------------- MODULE MCBotOrders -----------------------------
(* Instances of BotOrders for TLC. *)
EXTENDS BotOrders, TLC

CONSTANTS l1, d1, x1, s1

MCKind == (l1 :> "limit") @@ (d1 :> "dca") @@ (x1 :> "exit") @@ (s1 :> "shield")
MCKindOf == [o \in Orders |-> MCKind[o]]

=============================================================================
