---------------------------- MODULE Sponsorship ----------------------------
(***************************************************************************)
(* Gas sponsorship: sponsor-service.ts with its store and its policy,      *)
(* FleetPaymaster.sol, and the escrow of FleetCampaignEscrow they charge.  *)
(*                                                                         *)
(* A call of the service is a handler that takes a step at every await,    *)
(* and several run at once, on one instance or on two.  An operation is a  *)
(* user and a nonce of its account, and that pair is its reservation key.  *)
(* Once signed it lands when its user likes, for the EntryPoint takes it   *)
(* from anyone, while its window is open.                                  *)
(***************************************************************************)
EXTENDS FleetCampaignEscrow

CONSTANTS
  Users, Nonces,      \* an operation's key is one of each
  Handlers,           \* calls of the service that may be running
  Prefunds,           \* what operations may need at most, in wei
  Costs,              \* what their gas may cost
  Policies,           \* policies a sponsor sets: the ceilings of each
  FEE_BPS,            \* FleetPaymaster.feeBps
  VALIDITY,           \* SPONSORSHIP_VALIDITY_SECONDS
  DAY,                \* seconds in a day
  Faults              \* what may go wrong: "reverts", "postOp"

Ceilings == [op : Nat, user : Nat, sponsor : Nat]

ValidPolicy(p) == 0 < p.op /\ p.op <= p.user /\ p.user <= p.sponsor

ASSUME SponsorKeys == Keys = Users \X Nonces /\ IsFiniteSet(Handlers)
ASSUME SponsorNumbers ==
  /\ Prefunds \subseteq Nat /\ Costs \subseteq Nat /\ FEE_BPS \in Nat /\ VALIDITY \in Nat /\ DAY \in Nat \ {0}
  /\ Policies \subseteq Ceilings /\ \A p \in Policies : ValidPolicy(p)

VARIABLES
  sponsors,           \* fleet_sponsors
  ops,                \* fleet_sponsored_ops
  landed,             \* how each operation landed on chain
  calls               \* the calls of the service that are running

sponsorVars == <<vars, sponsors, ops, landed, calls>>

User(k)  == k[1]
Day(t)   == t \div DAY

\* FleetPaymaster.charged and chargedWithFee.
Charged(cost) == cost + (cost * FEE_BPS) \div 10000

NoSponsor == [known |-> FALSE, paused |-> FALSE, closed |-> FALSE,
              policy |-> [op |-> 0, user |-> 0, sponsor |-> 0]]
NoOp      == [state |-> "none", max |-> 0, signedAt |-> 0, validUntil |-> 0,
              landedAt |-> 0, ok |-> TRUE, charged |-> 0]
Idle      == [doing |-> "nothing"]

SponsorInit ==
  /\ Init
  /\ sponsors = [c \in Campaigns |-> NoSponsor]
  /\ ops = [c \in Campaigns |-> [k \in Keys |-> NoOp]]
  /\ landed = [c \in Campaigns |-> [k \in Keys |-> "no"]]
  /\ calls = [h \in Handlers |-> Idle]

----------------------------------------------------------------------------
(* The store.                                                              *)

SetOp(c, k, new) == ops' = [ops EXCEPT ![c] = [ops[c] EXCEPT ![k] = new]]

\* What one operation counts for on a day: its ceiling until it lands, its
\* charge after, on the day it landed or else was signed.  A failed one is
\* passed over.
CountedOn(op, day) ==
  CASE op.state = "signed" /\ Day(op.signedAt) = day         -> op.max
    [] op.state = "landed" /\ op.ok /\ Day(op.landedAt) = day -> op.charged
    [] OTHER                                                  -> 0

spentOn(c, day, users) ==
  Total([k \in Keys |-> IF User(k) \in users THEN CountedOn(ops[c][k], day) ELSE 0])

\* Signed, never landed, past its window.
staleKeys(c) == {k \in Keys : ops[c][k].state = "signed" /\ ops[c][k].validUntil < now}

----------------------------------------------------------------------------
(* The sponsor's side.                                                     *)

Runs(h, call) == calls' = [calls EXCEPT ![h] = call]
Ends(h)       == Runs(h, Idle)

\* register: the campaign on chain first, the record when it is mined.
RegisterSponsor(c) ==
  RegisterCampaign(c) /\ UNCHANGED <<sponsors, ops, landed, calls>>

PutNewSponsor(c, policy) ==
  /\ campaigns[c].exists /\ ~sponsors[c].known
  /\ sponsors' = [sponsors EXCEPT ![c] = [NoSponsor EXCEPT !.known = TRUE, !.policy = policy]]
  /\ UNCHANGED <<vars, ops, landed, calls>>

\* setPolicy, setPaused and markClosed read the whole record...
ReadSponsor(h, c) ==
  /\ calls[h] = Idle
  /\ sponsors[c].known
  /\ Runs(h, [doing |-> "edit", c |-> c, record |-> sponsors[c]])
  /\ UNCHANGED <<vars, sponsors, ops, landed>>

\* ...and put the whole record back.
Edited(record) == {[record EXCEPT !.policy = p] : p \in Policies}
             \cup {[record EXCEPT !.paused = b] : b \in BOOLEAN}
             \cup {[record EXCEPT !.closed = TRUE]}

PutSponsor(h) ==
  /\ calls[h].doing = "edit"
  /\ \E record \in Edited(calls[h].record) :
       sponsors' = [sponsors EXCEPT ![calls[h].c] = record]
  /\ Ends(h)
  /\ UNCHANGED <<vars, ops, landed>>

----------------------------------------------------------------------------
(* The user's side.                                                        *)

\* sponsor(): the record is read first,
AskSponsor(h, c, k, prefund) ==
  /\ calls[h] = Idle
  /\ sponsors[c].known /\ ~sponsors[c].closed /\ ~sponsors[c].paused
  /\ Runs(h, [doing |-> "ask", c |-> c, k |-> k, max |-> Charged(prefund),
              policy |-> sponsors[c].policy, at |-> now])
  /\ UNCHANGED <<vars, sponsors, ops, landed>>

\* Mutant: what is left is compared, not what would be.
PolicyAllowsOneOver(c, k, max, policy, day) ==
  /\ max <= policy.op
  /\ spentOn(c, day, {User(k)}) <= policy.user
  /\ spentOn(c, day, Users) <= policy.sponsor
  /\ ~campaigns[c].closed /\ max <= unused(c)

\* The ceilings, the caps and the money; what the call names is not modelled.
PolicyAllows(c, k, max, policy, day) ==
  /\ max <= policy.op
  /\ spentOn(c, day, {User(k)}) + max <= policy.user
  /\ spentOn(c, day, Users) + max <= policy.sponsor
  /\ ~campaigns[c].closed /\ max <= unused(c)

\* then what the day and the budget have left,
CheckSponsorship(h) ==
  /\ calls[h].doing = "ask"
  /\ PolicyAllows(calls[h].c, calls[h].k, calls[h].max, calls[h].policy, Day(calls[h].at))
  /\ Runs(h, [calls[h] EXCEPT !.doing = "sign"])
  /\ UNCHANGED <<vars, sponsors, ops, landed>>

\* and the operation is recorded, once, before the caller has the signature.
AddOp(h) ==
  LET call == calls[h] IN
  /\ call.doing = "sign"
  /\ ops[call.c][call.k].state = "none"
  /\ SetOp(call.c, call.k, [NoOp EXCEPT !.state = "signed", !.max = call.max,
                              !.signedAt = call.at, !.validUntil = call.at + VALIDITY])
  /\ Ends(h)
  /\ UNCHANGED <<vars, sponsors, landed>>

\* A refusal, an error, a timeout, or the death of the instance.
Abandon(h) ==
  /\ calls[h] # Idle
  /\ Ends(h)
  /\ UNCHANGED <<vars, sponsors, ops, landed>>

\* submit(): a record that has not landed, inside its window, is broadcast.
Submit(h, c, k) ==
  /\ calls[h] = Idle
  /\ ops[c][k].state = "signed"
  /\ now <= ops[c][k].validUntil
  /\ Runs(h, [doing |-> "submit", c |-> c, k |-> k])
  /\ UNCHANGED <<vars, sponsors, ops, landed>>

\* Mutant: what the EntryPoint reports is recorded, which has no fee in it.
SettleOpNoFee(h) ==
  LET c == calls[h].c
      k == calls[h].k
  IN /\ calls[h].doing = "submit"
     /\ landed[c][k] # "no"
     /\ \E cost \in 0..ops[c][k].max :
          /\ reservations[c][k].state = "Committed" => Charged(cost) = reservations[c][k].committed
          /\ SetOp(c, k, [ops[c][k] EXCEPT !.state = "landed", !.landedAt = now,
                            !.ok = landed[c][k] = "ok", !.charged = cost])
     /\ Ends(h)
     /\ UNCHANGED <<vars, sponsors, landed>>

committedOf(c, k) == reservations[c][k].committed

SettleOp(h) ==
  LET c == calls[h].c
      k == calls[h].k
  IN /\ calls[h].doing = "submit"
     /\ landed[c][k] # "no"
     /\ SetOp(c, k, [ops[c][k] EXCEPT !.state = "landed", !.landedAt = now,
                       !.ok = landed[c][k] = "ok", !.charged = committedOf(c, k)])
     /\ Ends(h)
     /\ UNCHANGED <<vars, sponsors, landed>>

----------------------------------------------------------------------------
(* The EntryPoint and the paymaster, in one transaction.                   *)

\* Mutant: the window is the service's to keep.
MayLandLate(c, k) ==
  /\ ops[c][k].state # "none"
  /\ landed[c][k] = "no"
  /\ campaigns[c].exists /\ ~campaigns[c].closed
  /\ reservations[c][k].state = "None" /\ ops[c][k].max # 0
  /\ ops[c][k].max <= unused(c)

\* validatePaymasterUserOp reserves the ceiling of an operation that carries
\* the operator's signature, inside its window.
MayLand(c, k) ==
  /\ ops[c][k].state # "none"
  /\ landed[c][k] = "no" /\ now <= ops[c][k].validUntil
  /\ campaigns[c].exists /\ ~campaigns[c].closed
  /\ reservations[c][k].state = "None" /\ ops[c][k].max # 0
  /\ ops[c][k].max <= unused(c)

Land(c, k, how) == landed' = [landed EXCEPT ![c] = [landed[c] EXCEPT ![k] = how]]

\* postOp commits what the gas cost, fee included, whether the call the
\* operation made succeeded or not.
LandCommitted(c, k, cost, how) ==
  /\ MayLand(c, k)
  /\ how = "reverted" => "reverts" \in Faults
  /\ Charged(cost) <= ops[c][k].max
  /\ SetReservation(c, k, [reservations[c][k] EXCEPT
       !.amount = ops[c][k].max, !.committed = Charged(cost), !.state = "Committed"])
  /\ SetCampaign(c, [campaigns[c] EXCEPT !.spent = campaigns[c].spent + Charged(cost)])
  /\ Land(c, k, how)
  /\ UNCHANGED <<balance, reclaimedEarly, now, sponsors, ops, calls>>

\* postOp itself fails: the EntryPoint keeps the operation and what was
\* validated, and undoes the rest.
LandUncommitted(c, k) ==
  /\ "postOp" \in Faults
  /\ MayLand(c, k)
  /\ SetReservation(c, k, [reservations[c][k] EXCEPT !.amount = ops[c][k].max, !.state = "Reserved"])
  /\ SetCampaign(c, [campaigns[c] EXCEPT !.reserved = campaigns[c].reserved + ops[c][k].max])
  /\ Land(c, k, "reverted")
  /\ UNCHANGED <<balance, reclaimedEarly, now, sponsors, ops, calls>>

\* The calls made of the escrow itself: the sponsor funds and closes, the
\* operator rolls back a key that can no longer land.
EscrowCall(c) ==
  /\ \/ \E amount \in Amounts : Fund(c, amount)
     \/ \E k \in staleKeys(c) : Rollback(c, k)
     \/ Close(c, staleKeys(c))
  /\ UNCHANGED <<sponsors, ops, landed, calls>>

Passes == Tick /\ UNCHANGED <<sponsors, ops, landed, calls>>

----------------------------------------------------------------------------
HandlerNext(h) ==
  \/ \E c \in Campaigns : ReadSponsor(h, c)
  \/ PutSponsor(h)
  \/ \E c \in Campaigns, k \in Keys, prefund \in Prefunds : AskSponsor(h, c, k, prefund)
  \/ CheckSponsorship(h)
  \/ AddOp(h)
  \/ \E c \in Campaigns, k \in Keys : Submit(h, c, k)
  \/ SettleOp(h)
  \/ Abandon(h)

ChainNext(c) ==
  \/ \E k \in Keys :
       \/ \E cost \in Costs, how \in {"ok", "reverted"} : LandCommitted(c, k, cost, how)
       \/ LandUncommitted(c, k)
  \/ EscrowCall(c)

SponsorNext ==
  \/ \E h \in Handlers : HandlerNext(h)
  \/ \E c \in Campaigns : \/ RegisterSponsor(c)
                          \/ \E p \in Policies : PutNewSponsor(c, p)
                          \/ ChainNext(c)
  \/ Passes

SponsorSpec == SponsorInit /\ [][SponsorNext]_sponsorVars

----------------------------------------------------------------------------
(* Properties.                                                             *)

Call ==
  {Idle}
  \cup [doing : {"edit"}, c : Campaigns,
        record : [known : BOOLEAN, paused : BOOLEAN, closed : BOOLEAN, policy : Ceilings]]
  \cup [doing : {"ask", "sign"}, c : Campaigns, k : Keys, max : Nat, policy : Ceilings, at : Nat]
  \cup [doing : {"submit"}, c : Campaigns, k : Keys]

\* The shapes; and the service knows only sponsors the escrow has registered.
SponsorTypeOK ==
  /\ \A c \in Campaigns :
       /\ sponsors[c].known => campaigns[c].exists
       /\ sponsors[c].policy \in Ceilings
  /\ ops \in [Campaigns -> [Keys -> [state : {"none", "signed", "landed"}, max : Nat,
       signedAt : Nat, validUntil : Nat, landedAt : Nat, ok : BOOLEAN, charged : Nat]]]
  /\ landed \in [Campaigns -> [Keys -> {"no", "ok", "reverted"}]]
  /\ \A h \in Handlers : calls[h] \in Call

\* What a user, or all of them, had sponsored with success on the day it was
\* signed for.
SignedOn(c, day, users) ==
  Total([k \in Keys |->
    IF User(k) \in users /\ Day(ops[c][k].signedAt) = day THEN CountedOn(ops[c][k], day) ELSE 0])

\* The highest of each ceiling among the policies a sponsor sets.
HighestCeilings ==
  {top \in [op : {p.op : p \in Policies}, user : {p.user : p \in Policies},
            sponsor : {p.sponsor : p \in Policies}] :
     \A p \in Policies : p.op <= top.op /\ p.user <= top.user /\ p.sponsor <= top.sponsor}

\* The daily caps are read before the operation is recorded (sponsor-service.ts
\* 316-343).  Requests that overlap can so pass them, but never by more than one
\* operation's ceiling for every other request that was running.
OverlapOvershootsByOneEach ==
  \A c \in Campaigns, d \in {Day(t) : t \in 0..MAX_TIME}, top \in HighestCeilings :
    LET over == (Cardinality(Handlers) - 1) * top.op IN
    /\ \A u \in Users : SignedOn(c, d, {u}) <= top.user + over
    /\ SignedOn(c, d, Users) <= top.sponsor + over

\* "What the budget was really charged is the escrow's word"
\* (sponsor-service.ts:390): a landed operation is recorded with the charge the
\* escrow holds, whatever was rolled back, closed, submitted twice or left by a
\* handler that died.
LandedChargeIsEscrows ==
  \A c \in Campaigns, k \in Keys :
    ops[c][k].state = "landed" =>
      /\ landed[c][k] # "no"
      /\ ops[c][k].charged = reservations[c][k].committed

\* The budget pays for nothing the service did not sign and record first, and
\* never more than the ceiling it recorded, fee included; and not for an
\* operation past the window of its signature, which a close may have released.
BudgetPaysWhatWasSigned == [][
  \A c \in Campaigns, k \in Keys :
    reservations'[c][k].committed # reservations[c][k].committed =>
      /\ ops[c][k].state # "none" /\ now <= ops[c][k].validUntil
      /\ reservations'[c][k].committed <= ops[c][k].max]_sponsorVars

\* "Ceiling on what one user may have sponsored in a UTC day, in wei"
\* (sponsor-policy.ts:29), of what the escrow was charged for operations
\* recorded as landed that day.
UserDailyCap ==
  \A c \in Campaigns, u \in Users, d \in {Day(t) : t \in 0..MAX_TIME} : \E p \in Policies :
    Total([k \in Keys |->
      IF User(k) = u /\ ops[c][k].state = "landed" /\ Day(ops[c][k].signedAt) = d
                     /\ Day(ops[c][k].landedAt) = d
        THEN ops[c][k].charged ELSE 0]) <= p.user
=============================================================================
