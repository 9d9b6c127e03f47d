------------------------ MODULE FleetCampaignEscrow ------------------------
(***************************************************************************)
(* contracts/fleet/FleetCampaignEscrow.sol: the ETH that campaigns sponsor *)
(* their requests with, all of it on one balance.                          *)
(*                                                                         *)
(* Each external function is an action, for every function that sends ETH  *)
(* does so after its last effect.  A call that reverts, and a repeated     *)
(* call that the code answers without a change, is no step.  The operator  *)
(* and the settler may make the same calls, so they are one actor.         *)
(***************************************************************************)
EXTENDS Integers, FiniteSets, Totals

CONSTANTS
  Campaigns,          \* campaign ids
  Keys,               \* reservation keys
  Amounts,            \* wei amounts calls are made with
  LOCK_WINDOW,
  MAX_FUNDED,         \* bound: what one campaign is funded with
  MAX_TIME            \* bound: the last instant of block time

ASSUME EscrowFinite == IsFiniteSet(Campaigns) /\ IsFiniteSet(Keys)
ASSUME EscrowNumbers ==
  Amounts \subseteq Nat /\ LOCK_WINDOW \in Nat /\ MAX_FUNDED \in Nat /\ MAX_TIME \in Nat

VARIABLES
  balance,            \* address(this).balance
  campaigns,          \* _campaigns
  reservations,       \* _reservations
  reclaimedEarly,     \* wei reclaimExpiredLock paid out of campaigns still open
  now                 \* block.timestamp

vars == <<balance, campaigns, reservations, reclaimedEarly, now>>

ReservationStates == {"None", "Reserved", "Committed", "RolledBack", "Locked"}

Reservation == [amount : Nat, committed : Nat, lockedUntil : Nat, state : ReservationStates]
Campaign    == [funded : Nat, reserved : Nat, spent : Nat, spentWithdrawn : Nat,
                closed : BOOLEAN, exists : BOOLEAN]

NoReservation == [amount |-> 0, committed |-> 0, lockedUntil |-> 0, state |-> "None"]
NoCampaign    == [funded |-> 0, reserved |-> 0, spent |-> 0, spentWithdrawn |-> 0,
                  closed |-> FALSE, exists |-> FALSE]

Init ==
  /\ balance = 0
  /\ campaigns = [c \in Campaigns |-> NoCampaign]
  /\ reservations = [c \in Campaigns |-> [k \in Keys |-> NoReservation]]
  /\ reclaimedEarly = 0
  /\ now = 1

----------------------------------------------------------------------------
Standing(r) == r.state \in {"Reserved", "Locked"}
unused(c)   == campaigns[c].funded - campaigns[c].spent - campaigns[c].reserved

SetCampaign(c, new)       == campaigns' = [campaigns EXCEPT ![c] = new]
SetReservation(c, k, new) ==
  reservations' = [reservations EXCEPT ![c] = [reservations[c] EXCEPT ![k] = new]]

\* The amounts of some keys of c.
AmountsOf(c, keys) == [k \in Keys |-> IF k \in keys THEN reservations[c][k].amount ELSE 0]

----------------------------------------------------------------------------
RegisterCampaign(c) ==
  /\ ~campaigns[c].exists
  /\ SetCampaign(c, [campaigns[c] EXCEPT !.exists = TRUE])
  /\ UNCHANGED <<balance, reservations, reclaimedEarly, now>>

Fund(c, amount) ==
  /\ amount # 0
  /\ campaigns[c].exists /\ ~campaigns[c].closed
  /\ campaigns[c].funded + amount <= MAX_FUNDED
  /\ SetCampaign(c, [campaigns[c] EXCEPT !.funded = campaigns[c].funded + amount])
  /\ balance' = balance + amount
  /\ UNCHANGED <<reservations, reclaimedEarly, now>>

\* Mutant: a key that was rolled back may be reserved again.
ReserveAgain(c, k, amount) ==
  /\ campaigns[c].exists /\ ~campaigns[c].closed
  /\ amount # 0
  /\ reservations[c][k].state \in {"None", "RolledBack"}
  /\ amount <= unused(c)
  /\ SetReservation(c, k, [reservations[c][k] EXCEPT !.amount = amount, !.state = "Reserved"])
  /\ SetCampaign(c, [campaigns[c] EXCEPT !.reserved = campaigns[c].reserved + amount])
  /\ UNCHANGED <<balance, reclaimedEarly, now>>

Reserve(c, k, amount) ==
  /\ campaigns[c].exists /\ ~campaigns[c].closed
  /\ amount # 0
  /\ reservations[c][k].state = "None"
  /\ amount <= unused(c)
  /\ SetReservation(c, k, [reservations[c][k] EXCEPT !.amount = amount, !.state = "Reserved"])
  /\ SetCampaign(c, [campaigns[c] EXCEPT !.reserved = campaigns[c].reserved + amount])
  /\ UNCHANGED <<balance, reclaimedEarly, now>>

\* Also renews a lock, before or after its window.
Lock(c, k) ==
  /\ campaigns[c].exists
  /\ Standing(reservations[c][k])
  /\ SetReservation(c, k,
       [reservations[c][k] EXCEPT !.lockedUntil = now + LOCK_WINDOW, !.state = "Locked"])
  /\ UNCHANGED <<balance, campaigns, reclaimedEarly, now>>

\* Mutant: only what was used leaves the reserve.
CommitKeepsRest(c, k, actual) ==
  /\ campaigns[c].exists
  /\ Standing(reservations[c][k])
  /\ actual <= reservations[c][k].amount
  /\ SetReservation(c, k,
       [reservations[c][k] EXCEPT !.committed = actual, !.state = "Committed"])
  /\ SetCampaign(c, [campaigns[c] EXCEPT
       !.reserved = campaigns[c].reserved - actual,
       !.spent = campaigns[c].spent + actual])
  /\ UNCHANGED <<balance, reclaimedEarly, now>>

Commit(c, k, actual) ==
  /\ campaigns[c].exists
  /\ Standing(reservations[c][k])
  /\ actual <= reservations[c][k].amount
  /\ SetReservation(c, k,
       [reservations[c][k] EXCEPT !.committed = actual, !.state = "Committed"])
  /\ SetCampaign(c, [campaigns[c] EXCEPT
       !.reserved = campaigns[c].reserved - reservations[c][k].amount,
       !.spent = campaigns[c].spent + actual])
  /\ UNCHANGED <<balance, reclaimedEarly, now>>

Rollback(c, k) ==
  /\ campaigns[c].exists
  /\ Standing(reservations[c][k])
  /\ SetReservation(c, k, [reservations[c][k] EXCEPT !.state = "RolledBack"])
  /\ SetCampaign(c, [campaigns[c] EXCEPT
       !.reserved = campaigns[c].reserved - reservations[c][k].amount])
  /\ UNCHANGED <<balance, reclaimedEarly, now>>

\* What is locked is the operator's until the window has passed.
Expired(r) == r.state = "Locked" /\ now > r.lockedUntil

\* Pays the amount out also while the campaign is open, when the amount goes
\* back to unused as well.
ReclaimExpiredLock(c, k) ==
  LET amount == reservations[c][k].amount IN
  /\ campaigns[c].exists
  /\ Expired(reservations[c][k])
  /\ amount <= balance
  /\ SetReservation(c, k, [reservations[c][k] EXCEPT !.state = "RolledBack"])
  /\ SetCampaign(c, [campaigns[c] EXCEPT !.reserved = campaigns[c].reserved - amount])
  /\ balance' = balance - amount
  /\ reclaimedEarly' = IF campaigns[c].closed THEN reclaimedEarly ELSE reclaimedEarly + amount
  /\ UNCHANGED now

WithdrawSpent(c) ==
  LET amount == campaigns[c].spent - campaigns[c].spentWithdrawn IN
  /\ campaigns[c].exists
  /\ amount # 0 /\ amount <= balance
  /\ SetCampaign(c, [campaigns[c] EXCEPT !.spentWithdrawn = campaigns[c].spentWithdrawn + amount])
  /\ balance' = balance - amount
  /\ UNCHANGED <<reservations, reclaimedEarly, now>>

\* Mutant: a lock does not hold back the owner.
ReleasableAny(c, openKeys) == {k \in openKeys : Standing(reservations[c][k])}

\* What close releases of the keys it is called with.
Releasable(c, openKeys) ==
  {k \in openKeys : reservations[c][k].state = "Reserved" \/ Expired(reservations[c][k])}

\* Mutant: what still stands is returned as well.
CloseReturnsStanding(c, openKeys) ==
  LET released == Releasable(c, openKeys)
      reserved == campaigns[c].reserved - Total(AmountsOf(c, released))
      returned == campaigns[c].funded - campaigns[c].spent
  IN /\ campaigns[c].exists /\ ~campaigns[c].closed
     /\ returned <= balance
     /\ reservations' = [reservations EXCEPT ![c] =
          [k \in Keys |-> IF k \in released THEN [reservations[c][k] EXCEPT !.state = "RolledBack"]
                          ELSE reservations[c][k]]]
     /\ SetCampaign(c, [campaigns[c] EXCEPT !.reserved = reserved, !.closed = TRUE])
     /\ balance' = balance - returned
     /\ UNCHANGED <<reclaimedEarly, now>>

Close(c, openKeys) ==
  LET released == Releasable(c, openKeys)
      reserved == campaigns[c].reserved - Total(AmountsOf(c, released))
      returned == campaigns[c].funded - campaigns[c].spent - reserved
  IN /\ campaigns[c].exists /\ ~campaigns[c].closed
     /\ returned <= balance
     /\ reservations' = [reservations EXCEPT ![c] =
          [k \in Keys |-> IF k \in released THEN [reservations[c][k] EXCEPT !.state = "RolledBack"]
                          ELSE reservations[c][k]]]
     /\ SetCampaign(c, [campaigns[c] EXCEPT !.reserved = reserved, !.closed = TRUE])
     /\ balance' = balance - returned
     /\ UNCHANGED <<reclaimedEarly, now>>

Tick ==
  /\ now < MAX_TIME
  /\ now' = now + 1
  /\ UNCHANGED <<balance, campaigns, reservations, reclaimedEarly>>

----------------------------------------------------------------------------
OwnerNext(c) ==
  \/ \E amount \in Amounts : Fund(c, amount)
  \/ \E k \in Keys : ReclaimExpiredLock(c, k)
  \/ \E openKeys \in SUBSET Keys : Close(c, openKeys)

OperatorNext(c) ==
  \/ RegisterCampaign(c)
  \/ WithdrawSpent(c)
  \/ \E k \in Keys :
       \/ \E amount \in Amounts : Reserve(c, k, amount)
       \/ Lock(c, k)
       \/ \E actual \in 0..reservations[c][k].amount : Commit(c, k, actual)
       \/ Rollback(c, k)

Next == (\E c \in Campaigns : OwnerNext(c) \/ OperatorNext(c)) \/ Tick

Spec == Init /\ [][Next]_vars

----------------------------------------------------------------------------
(* Properties.                                                             *)

\* Every field stays an unsigned number, so no call ever reverts for an
\* underflow of the contract's counters; a campaign that was never
\* registered, or a key never reserved, is blank.
TypeOK ==
  /\ balance \in Nat
  /\ campaigns \in [Campaigns -> Campaign]
  /\ reservations \in [Campaigns -> [Keys -> Reservation]]
  /\ reclaimedEarly \in Nat
  /\ now \in Nat
  /\ \A c \in Campaigns : ~campaigns[c].exists => campaigns[c] = NoCampaign
  /\ \A c \in Campaigns, k \in Keys :
       /\ reservations[c][k].state = "None" => reservations[c][k] = NoReservation
       /\ reservations[c][k].state = "Committed" =>
            reservations[c][k].committed <= reservations[c][k].amount
       /\ reservations[c][k].state # "Committed" => reservations[c][k].committed = 0

\* The counters are the sums they stand for, whatever keys were reserved,
\* locked, retried, committed for less, rolled back or released by a close.
heldOf(c)   == AmountsOf(c, {k \in Keys : Standing(reservations[c][k])})
chargeOf(c) == [k \in Keys |-> reservations[c][k].committed]
CountersAreSums == \A c \in Campaigns :
  /\ campaigns[c].reserved = Total(heldOf(c))
  /\ campaigns[c].spent = Total(chargeOf(c))

\* What one campaign is still entitled to: its owner and its operator
\* together while it is open; once closed, the operator's unpaid spend and
\* the reservations that still stand.
entitled(c) ==
  IF campaigns[c].closed
    THEN campaigns[c].reserved + campaigns[c].spent - campaigns[c].spentWithdrawn
    ELSE campaigns[c].funded - campaigns[c].spentWithdrawn
entitlements == [c \in Campaigns |-> entitled(c)]

\* The one balance covers every campaign's entitlement, short of exactly
\* what was reclaimed from campaigns before they were closed.
Solvent ==
  /\ \A c \in Campaigns : /\ campaigns[c].spent + campaigns[c].reserved <= campaigns[c].funded
                          /\ campaigns[c].spentWithdrawn <= campaigns[c].spent
  /\ Total(entitlements) <= balance + reclaimedEarly

\* "once locked, the owner's close cannot claw the reservation back within
\* LOCK_WINDOW" (FleetCampaignEscrow.sol:168): a live lock is released by a
\* step that pays nothing and closes nothing, the operator's own rollback.
LockOutlastsClose == [][
  \A c \in Campaigns, k \in Keys :
    /\ reservations[c][k].state = "Locked" /\ now <= reservations[c][k].lockedUntil
    /\ reservations'[c][k].state = "RolledBack"
    => balance' = balance /\ campaigns'[c].closed = campaigns[c].closed]_vars

\* The escrow keeps the promise of a keyed budget for every campaign: no key
\* is charged twice or beyond its reservation, and none is new after a close.
Fate(r) == CASE r.state = "None"       -> "fresh"
             [] Standing(r)            -> "held"
             [] r.state = "Committed"  -> "charged"
             [] r.state = "RolledBack" -> "released"

funds  == [c \in Campaigns |-> campaigns[c].funded]
closed == [c \in Campaigns |-> campaigns[c].closed]
fate   == [c \in Campaigns |-> [k \in Keys |-> Fate(reservations[c][k])]]
held   == [c \in Campaigns |-> heldOf(c)]
charge == [c \in Campaigns |-> chargeOf(c)]
Budget == INSTANCE KeyedBudget
BudgetSpec == Budget!BudgetSpec

\* "returns the unused balance to the campaign owner on close"
\* (FleetCampaignEscrow.sol:6): while a campaign is open what it has unused
\* is there to be returned.
UnusedIsHeld ==
  \A c \in Campaigns : campaigns[c].exists /\ ~campaigns[c].closed => unused(c) <= balance

\* "The window bounds the operator's exclusivity so funds are never stranded"
\* (FleetCampaignEscrow.sol:170): when every campaign is closed, nothing
\* stands and all spend is withdrawn, no ETH is left that no call pays out.
NothingStranded ==
  (\A c \in Campaigns : /\ campaigns[c].exists => campaigns[c].closed
                        /\ campaigns[c].reserved = 0
                        /\ campaigns[c].spent = campaigns[c].spentWithdrawn)
  => balance = 0
=============================================================================
