------------------------- MODULE SponsorshipProofs -------------------------
(***************************************************************************)
(* What holds of the escrow for any campaigns, keys, amounts and window,   *)
(* and then of sponsorship, which works through it, for any users, nonces, *)
(* calls at a time, policies and faults.                                   *)
(*                                                                         *)
(* A step of the escrow changes the books of one campaign: its record and  *)
(* its reservations.  BooksOK says what they have to satisfy by            *)
(* themselves, Frame that good books and a balance that moves with the     *)
(* campaign's entitlement keep the whole invariant.                        *)
(***************************************************************************)
EXTENDS Sponsorship, TotalsProofs

HeldBy(r)     == IF Standing(r) THEN r.amount ELSE 0
HeldIn(res)   == [k \in Keys |-> HeldBy(res[k])]
ChargesIn(res) == [k \in Keys |-> res[k].committed]

KeyOK(r) ==
  /\ r \in Reservation
  /\ r.state = "None" => r = NoReservation
  /\ r.state = "Committed" => r.committed <= r.amount
  /\ r.state # "Committed" => r.committed = 0

EntitledBy(rec) ==
  IF rec.closed THEN rec.reserved + rec.spent - rec.spentWithdrawn
                ELSE rec.funded - rec.spentWithdrawn

BooksOK(rec, res) ==
  /\ rec \in Campaign
  /\ ~rec.exists => rec = NoCampaign
  /\ res \in [Keys -> Reservation]
  /\ \A k \in Keys : KeyOK(res[k])
  /\ rec.reserved = Total(HeldIn(res))
  /\ rec.spent = Total(ChargesIn(res))
  /\ rec.spent + rec.reserved <= rec.funded
  /\ rec.spentWithdrawn <= rec.spent

IInv == TypeOK /\ CountersAreSums /\ Solvent

----------------------------------------------------------------------------
(* The invariant is good books everywhere and a balance that covers them.  *)

LEMMA HeldIsHeld ==
  ASSUME NEW c \in Campaigns
  PROVE  heldOf(c) = HeldIn(reservations[c]) /\ chargeOf(c) = ChargesIn(reservations[c])
BY DEF heldOf, chargeOf, HeldIn, ChargesIn, HeldBy, AmountsOf

LEMMA BooksIffInv ==
  IInv <=> /\ balance \in Nat /\ reclaimedEarly \in Nat /\ now \in Nat
           /\ campaigns \in [Campaigns -> Campaign]
           /\ reservations \in [Campaigns -> [Keys -> Reservation]]
           /\ \A c \in Campaigns : BooksOK(campaigns[c], reservations[c])
           /\ Total(entitlements) <= balance + reclaimedEarly
<1>1. TypeOK <=>
        /\ balance \in Nat /\ reclaimedEarly \in Nat /\ now \in Nat
        /\ campaigns \in [Campaigns -> Campaign]
        /\ reservations \in [Campaigns -> [Keys -> Reservation]]
        /\ \A c \in Campaigns : ~campaigns[c].exists => campaigns[c] = NoCampaign
        /\ \A c \in Campaigns, k \in Keys : KeyOK(reservations[c][k])
  BY DEF TypeOK, KeyOK
<1>2. CountersAreSums <=> \A c \in Campaigns :
        /\ campaigns[c].reserved = Total(HeldIn(reservations[c]))
        /\ campaigns[c].spent = Total(ChargesIn(reservations[c]))
  BY HeldIsHeld DEF CountersAreSums
<1> QED BY <1>1, <1>2 DEF IInv, Solvent, BooksOK

\* The sums of a campaign's books are natural numbers, and no key holds
\* more than all keys together.
LEMMA BookSums ==
  ASSUME NEW res \in [Keys -> Reservation]
  PROVE  /\ HeldIn(res) \in [Keys -> Nat] /\ ChargesIn(res) \in [Keys -> Nat]
         /\ Total(HeldIn(res)) \in Nat /\ Total(ChargesIn(res)) \in Nat
         /\ \A k \in Keys : HeldBy(res[k]) \in Nat /\ HeldBy(res[k]) <= Total(HeldIn(res))
<1>1. \A k \in Keys : res[k].amount \in Nat /\ res[k].committed \in Nat /\ HeldBy(res[k]) \in Nat
  BY DEF Reservation, HeldBy
<1>2. HeldIn(res) \in [Keys -> Nat] /\ ChargesIn(res) \in [Keys -> Nat]
  BY <1>1 DEF HeldIn, ChargesIn
<1>3. \A k \in Keys : HeldIn(res)[k] <= Total(HeldIn(res))
  BY <1>2, EscrowFinite, TotalBounds
<1>4. \A k \in Keys : HeldIn(res)[k] = HeldBy(res[k])
  BY DEF HeldIn
<1> QED BY <1>1, <1>2, <1>3, <1>4, EscrowFinite, TotalType

LEMMA KeySums ==
  ASSUME NEW k \in Keys, NEW f \in [Keys -> Nat], NEW g \in [Keys -> Nat],
         \A j \in Keys : j # k => g[j] = f[j]
  PROVE  Total(g) = Total(f) - f[k] + g[k]
BY EscrowFinite, TotalUpdate

\* Changing one key moves both sums by that key.
LEMMA OneKey ==
  ASSUME NEW res \in [Keys -> Reservation], NEW k \in Keys, NEW r \in Reservation,
         NEW new, new = [res EXCEPT ![k] = r]
  PROVE  /\ new \in [Keys -> Reservation]
         /\ Total(HeldIn(new)) = Total(HeldIn(res)) - HeldBy(res[k]) + HeldBy(r)
         /\ Total(ChargesIn(new)) = Total(ChargesIn(res)) - res[k].committed + r.committed
<1>1. new \in [Keys -> Reservation] /\ new[k] = r /\ \A j \in Keys : j # k => new[j] = res[j]
  OBVIOUS
<1>2. /\ HeldIn(res) \in [Keys -> Nat] /\ ChargesIn(res) \in [Keys -> Nat]
      /\ HeldIn(new) \in [Keys -> Nat] /\ ChargesIn(new) \in [Keys -> Nat]
  BY <1>1, BookSums
<1>3. /\ \A j \in Keys : j # k => HeldIn(new)[j] = HeldIn(res)[j]
      /\ \A j \in Keys : j # k => ChargesIn(new)[j] = ChargesIn(res)[j]
      /\ HeldIn(new)[k] = HeldBy(r) /\ HeldIn(res)[k] = HeldBy(res[k])
      /\ ChargesIn(new)[k] = r.committed /\ ChargesIn(res)[k] = res[k].committed
  BY <1>1 DEF HeldIn, ChargesIn
<1>4. /\ Total(HeldIn(new)) = Total(HeldIn(res)) - HeldIn(res)[k] + HeldIn(new)[k]
      /\ Total(ChargesIn(new)) = Total(ChargesIn(res)) - ChargesIn(res)[k] + ChargesIn(new)[k]
  BY <1>2, <1>3, KeySums
<1> QED BY <1>1, <1>3, <1>4

LEMMA EntitledNat ==
  ASSUME NEW rec, NEW res, BooksOK(rec, res)
  PROVE  EntitledBy(rec) \in Nat
BY DEF BooksOK, EntitledBy, Campaign

\* Good books for one campaign, and a balance that moves no lower than its
\* entitlement does, keep the invariant.
LEMMA Frame ==
  ASSUME IInv, NEW c \in Campaigns, NEW rec, NEW res,
         campaigns' = [campaigns EXCEPT ![c] = rec],
         reservations' = [reservations EXCEPT ![c] = res],
         BooksOK(rec, res),
         balance' \in Nat, reclaimedEarly' \in Nat, now' \in Nat,
         EntitledBy(rec) + balance + reclaimedEarly
           <= EntitledBy(campaigns[c]) + balance' + reclaimedEarly'
  PROVE  IInv'
<1>0. /\ balance \in Nat /\ reclaimedEarly \in Nat
      /\ campaigns \in [Campaigns -> Campaign]
      /\ reservations \in [Campaigns -> [Keys -> Reservation]]
      /\ \A d \in Campaigns : BooksOK(campaigns[d], reservations[d])
      /\ Total(entitlements) <= balance + reclaimedEarly
  BY BooksIffInv
<1>1. rec \in Campaign /\ res \in [Keys -> Reservation]
  BY DEF BooksOK
<1>2. /\ campaigns' \in [Campaigns -> Campaign] /\ campaigns'[c] = rec
      /\ reservations' \in [Campaigns -> [Keys -> Reservation]] /\ reservations'[c] = res
      /\ \A d \in Campaigns : d # c => campaigns'[d] = campaigns[d] /\ reservations'[d] = reservations[d]
  BY <1>0, <1>1
<1>3. \A d \in Campaigns : BooksOK(campaigns'[d], reservations'[d])
  BY <1>0, <1>2
<1>4. /\ entitlements \in [Campaigns -> Nat] /\ entitlements' \in [Campaigns -> Nat]
      /\ entitlements[c] = EntitledBy(campaigns[c]) /\ entitlements'[c] = EntitledBy(rec)
      /\ \A d \in Campaigns : d # c => entitlements'[d] = entitlements[d]
  <2>1. /\ \A d \in Campaigns : entitlements[d] = EntitledBy(campaigns[d])
        /\ \A d \in Campaigns : entitlements'[d] = EntitledBy(campaigns'[d])
        /\ entitlements = [d \in Campaigns |-> entitlements[d]]
        /\ entitlements' = [d \in Campaigns |-> entitlements'[d]]
    BY DEF entitlements, entitled, EntitledBy
  <2>2. \A d \in Campaigns : EntitledBy(campaigns[d]) \in Nat /\ EntitledBy(campaigns'[d]) \in Nat
    BY <1>0, <1>3, EntitledNat
  <2> QED BY <1>2, <2>1, <2>2
<1>5. Total(entitlements') = Total(entitlements) - entitlements[c] + entitlements'[c]
  BY <1>4, EscrowFinite, TotalUpdate
<1>6. /\ Total(entitlements) \in Nat /\ entitlements[c] \in Nat /\ entitlements'[c] \in Nat
  BY <1>4, EscrowFinite, TotalType
<1>7. Total(entitlements') <= balance' + reclaimedEarly'
  BY <1>0, <1>4, <1>5, <1>6
<1>8. Total(entitlements)' = Total(entitlements')
  BY DEF Total, Units
<1>9. TypeOK'
  BY <1>2, <1>3 DEF TypeOK, BooksOK, KeyOK
<1>10. CountersAreSums'
  <2>1. \A d \in Campaigns : /\ heldOf(d)' = HeldIn(reservations'[d])
                             /\ chargeOf(d)' = ChargesIn(reservations'[d])
    BY DEF heldOf, chargeOf, HeldIn, ChargesIn, HeldBy, AmountsOf
  <2> QED BY <1>3, <2>1 DEF CountersAreSums, BooksOK
<1> QED BY <1>3, <1>7, <1>8, <1>9, <1>10 DEF IInv, Solvent, BooksOK

\* What every step on a campaign starts from.
LEMMA CampaignFacts ==
  ASSUME IInv, NEW c \in Campaigns
  PROVE  /\ BooksOK(campaigns[c], reservations[c])
         /\ campaigns[c] \in Campaign /\ reservations[c] \in [Keys -> Reservation]
         /\ campaigns[c].funded \in Nat /\ campaigns[c].reserved \in Nat
         /\ campaigns[c].spent \in Nat /\ campaigns[c].spentWithdrawn \in Nat
         /\ campaigns[c].spent + campaigns[c].reserved <= campaigns[c].funded
         /\ campaigns[c].spentWithdrawn <= campaigns[c].spent
         /\ balance \in Nat /\ reclaimedEarly \in Nat /\ now \in Nat
<1>1. /\ BooksOK(campaigns[c], reservations[c])
      /\ balance \in Nat /\ reclaimedEarly \in Nat /\ now \in Nat
  BY BooksIffInv
<1> QED BY <1>1 DEF BooksOK, Campaign

LEMMA KeyFacts ==
  ASSUME IInv, NEW c \in Campaigns, NEW k \in Keys
  PROVE  /\ KeyOK(reservations[c][k])
         /\ reservations[c][k] \in Reservation
         /\ reservations[c][k].amount \in Nat /\ reservations[c][k].committed \in Nat
         /\ reservations[c][k].lockedUntil \in Nat
         /\ HeldBy(reservations[c][k]) <= campaigns[c].reserved
<1>1. BooksOK(campaigns[c], reservations[c])
  BY CampaignFacts
<1>2. KeyOK(reservations[c][k]) /\ HeldBy(reservations[c][k]) <= campaigns[c].reserved
  BY <1>1, BookSums DEF BooksOK
<1> QED BY <1>2 DEF KeyOK, Reservation

\* A step on one key: the campaign's record follows the key.
LEMMA KeyStep ==
  ASSUME IInv, NEW c \in Campaigns, NEW k \in Keys, NEW r, NEW rec,
         campaigns' = [campaigns EXCEPT ![c] = rec],
         reservations' = [reservations EXCEPT ![c] = [reservations[c] EXCEPT ![k] = r]],
         KeyOK(r), rec \in Campaign, rec.exists,
         rec.reserved = campaigns[c].reserved - HeldBy(reservations[c][k]) + HeldBy(r),
         rec.spent = campaigns[c].spent - reservations[c][k].committed + r.committed,
         rec.spent + rec.reserved <= rec.funded,
         rec.spentWithdrawn <= rec.spent,
         balance' \in Nat, reclaimedEarly' \in Nat, now' = now,
         EntitledBy(rec) + balance + reclaimedEarly
           <= EntitledBy(campaigns[c]) + balance' + reclaimedEarly'
  PROVE  IInv'
<1> DEFINE res == [reservations[c] EXCEPT ![k] = r]
<1>1. /\ BooksOK(campaigns[c], reservations[c]) /\ reservations[c] \in [Keys -> Reservation]
      /\ now \in Nat
  BY CampaignFacts
<1>2. r \in Reservation
  BY DEF KeyOK
<1>3. /\ res \in [Keys -> Reservation]
      /\ Total(HeldIn(res)) = Total(HeldIn(reservations[c])) - HeldBy(reservations[c][k]) + HeldBy(r)
      /\ Total(ChargesIn(res)) = Total(ChargesIn(reservations[c])) - reservations[c][k].committed
                                    + r.committed
  BY <1>1, <1>2, OneKey
<1>4. \A j \in Keys : KeyOK(res[j])
  BY <1>1 DEF BooksOK
<1>5. rec.reserved = Total(HeldIn(res)) /\ rec.spent = Total(ChargesIn(res))
  BY <1>1, <1>3 DEF BooksOK
<1>6. BooksOK(rec, res)
  BY <1>3, <1>4, <1>5 DEF BooksOK
<1> HIDE DEF res
<1>7. reservations' = [reservations EXCEPT ![c] = res]
  BY DEF res
<1> QED BY <1>1, <1>6, <1>7, Frame

----------------------------------------------------------------------------
(* One lemma per action.                                                   *)

LEMMA RegisterInv == ASSUME IInv, NEW c \in Campaigns, RegisterCampaign(c) PROVE IInv'
<1> DEFINE rec == [campaigns[c] EXCEPT !.exists = TRUE]
<1>1. /\ BooksOK(campaigns[c], reservations[c]) /\ campaigns[c] \in Campaign
      /\ balance \in Nat /\ reclaimedEarly \in Nat /\ now \in Nat
      /\ EntitledBy(campaigns[c]) \in Nat
      /\ reservations \in [Campaigns -> [Keys -> Reservation]]
  BY CampaignFacts, EntitledNat, BooksIffInv
<1>2. /\ rec \in Campaign /\ rec.exists /\ rec.closed = campaigns[c].closed
      /\ rec.funded = campaigns[c].funded /\ rec.reserved = campaigns[c].reserved
      /\ rec.spent = campaigns[c].spent /\ rec.spentWithdrawn = campaigns[c].spentWithdrawn
  BY <1>1 DEF Campaign
<1>3. /\ campaigns' = [campaigns EXCEPT ![c] = rec]
      /\ UNCHANGED <<balance, reservations, reclaimedEarly, now>>
  BY DEF RegisterCampaign, SetCampaign
<1>4. reservations' = [reservations EXCEPT ![c] = reservations[c]]
  BY <1>1, <1>3
<1> HIDE DEF rec
<1>5. BooksOK(rec, reservations[c]) /\ EntitledBy(rec) = EntitledBy(campaigns[c])
  BY <1>1, <1>2 DEF BooksOK, EntitledBy
<1>6. /\ balance' \in Nat /\ reclaimedEarly' \in Nat /\ now' \in Nat
      /\ EntitledBy(rec) + balance + reclaimedEarly
           <= EntitledBy(campaigns[c]) + balance' + reclaimedEarly'
  BY <1>1, <1>3, <1>5
<1> QED BY <1>3, <1>4, <1>5, <1>6, Frame

LEMMA FundInv ==
  ASSUME IInv, NEW c \in Campaigns, NEW amount \in Amounts, Fund(c, amount) PROVE IInv'
<1> DEFINE rec == [campaigns[c] EXCEPT !.funded = campaigns[c].funded + amount]
<1>1. /\ BooksOK(campaigns[c], reservations[c]) /\ campaigns[c] \in Campaign
      /\ campaigns[c].funded \in Nat /\ campaigns[c].spentWithdrawn \in Nat
      /\ campaigns[c].reserved \in Nat /\ campaigns[c].spent \in Nat
      /\ balance \in Nat /\ reclaimedEarly \in Nat /\ now \in Nat /\ amount \in Nat
      /\ reservations \in [Campaigns -> [Keys -> Reservation]]
  BY CampaignFacts, BooksIffInv, EscrowNumbers
<1>2. /\ rec \in Campaign /\ rec.exists = campaigns[c].exists /\ rec.closed = campaigns[c].closed
      /\ rec.funded = campaigns[c].funded + amount /\ rec.reserved = campaigns[c].reserved
      /\ rec.spent = campaigns[c].spent /\ rec.spentWithdrawn = campaigns[c].spentWithdrawn
  BY <1>1 DEF Campaign
<1>3. /\ campaigns' = [campaigns EXCEPT ![c] = rec] /\ balance' = balance + amount
      /\ UNCHANGED <<reservations, reclaimedEarly, now>>
      /\ campaigns[c].exists /\ ~campaigns[c].closed
  BY DEF Fund, SetCampaign
<1>4. reservations' = [reservations EXCEPT ![c] = reservations[c]]
  BY <1>1, <1>3
<1> HIDE DEF rec
<1>5. BooksOK(rec, reservations[c]) /\ EntitledBy(rec) = EntitledBy(campaigns[c]) + amount
  BY <1>1, <1>2, <1>3 DEF BooksOK, EntitledBy
<1>6. EntitledBy(campaigns[c]) \in Nat /\ balance' \in Nat /\ reclaimedEarly' \in Nat /\ now' \in Nat
  BY <1>1, <1>3, EntitledNat
<1>7. EntitledBy(rec) + balance + reclaimedEarly
        <= EntitledBy(campaigns[c]) + balance' + reclaimedEarly'
  BY <1>1, <1>3, <1>5, <1>6
<1> QED BY <1>3, <1>4, <1>5, <1>6, <1>7, Frame

LEMMA WithdrawInv == ASSUME IInv, NEW c \in Campaigns, WithdrawSpent(c) PROVE IInv'
<1> DEFINE amount == campaigns[c].spent - campaigns[c].spentWithdrawn
           rec == [campaigns[c] EXCEPT !.spentWithdrawn = campaigns[c].spentWithdrawn + amount]
<1>1. /\ BooksOK(campaigns[c], reservations[c]) /\ campaigns[c] \in Campaign
      /\ campaigns[c].funded \in Nat /\ campaigns[c].spentWithdrawn \in Nat
      /\ campaigns[c].reserved \in Nat /\ campaigns[c].spent \in Nat
      /\ campaigns[c].spentWithdrawn <= campaigns[c].spent
      /\ balance \in Nat /\ reclaimedEarly \in Nat /\ now \in Nat /\ amount \in Nat
      /\ reservations \in [Campaigns -> [Keys -> Reservation]]
  BY CampaignFacts, BooksIffInv
<1>2. /\ rec \in Campaign /\ rec.exists = campaigns[c].exists /\ rec.closed = campaigns[c].closed
      /\ rec.funded = campaigns[c].funded /\ rec.reserved = campaigns[c].reserved
      /\ rec.spent = campaigns[c].spent /\ rec.spentWithdrawn = campaigns[c].spent
  BY <1>1 DEF Campaign
<1>3. /\ campaigns' = [campaigns EXCEPT ![c] = rec] /\ balance' = balance - amount
      /\ UNCHANGED <<reservations, reclaimedEarly, now>>
      /\ campaigns[c].exists /\ amount <= balance
  BY DEF WithdrawSpent, SetCampaign
<1>4. reservations' = [reservations EXCEPT ![c] = reservations[c]]
  BY <1>1, <1>3
<1>5. amount = campaigns[c].spent - campaigns[c].spentWithdrawn
  OBVIOUS
<1> HIDE DEF rec, amount
<1>6. BooksOK(rec, reservations[c]) /\ EntitledBy(rec) = EntitledBy(campaigns[c]) - amount
  BY <1>1, <1>2, <1>3, <1>5 DEF BooksOK, EntitledBy
<1>7. EntitledBy(campaigns[c]) \in Nat /\ balance' \in Nat /\ reclaimedEarly' \in Nat /\ now' \in Nat
  BY <1>1, <1>3, EntitledNat
<1>8. EntitledBy(rec) + balance + reclaimedEarly
        <= EntitledBy(campaigns[c]) + balance' + reclaimedEarly'
  BY <1>1, <1>3, <1>6, <1>7
<1> QED BY <1>3, <1>4, <1>6, <1>7, <1>8, Frame

LEMMA ReserveInv ==
  ASSUME IInv, NEW c \in Campaigns, NEW k \in Keys, NEW amount \in Amounts, Reserve(c, k, amount)
  PROVE  IInv'
<1> DEFINE was == reservations[c][k]
           r   == [was EXCEPT !.amount = amount, !.state = "Reserved"]
           rec == [campaigns[c] EXCEPT !.reserved = campaigns[c].reserved + amount]
<1>1. /\ campaigns[c] \in Campaign /\ was \in Reservation /\ KeyOK(was)
      /\ campaigns[c].funded \in Nat /\ campaigns[c].spentWithdrawn \in Nat
      /\ campaigns[c].reserved \in Nat /\ campaigns[c].spent \in Nat
      /\ campaigns[c].spentWithdrawn <= campaigns[c].spent
      /\ balance \in Nat /\ reclaimedEarly \in Nat /\ amount \in Nat
  BY CampaignFacts, KeyFacts, EscrowNumbers
<1>2. /\ campaigns' = [campaigns EXCEPT ![c] = rec]
      /\ reservations' = [reservations EXCEPT ![c] = [reservations[c] EXCEPT ![k] = r]]
      /\ UNCHANGED <<balance, reclaimedEarly, now>>
      /\ campaigns[c].exists /\ ~campaigns[c].closed
      /\ was.state = "None"
      /\ amount <= campaigns[c].funded - campaigns[c].spent - campaigns[c].reserved
  BY DEF Reserve, SetCampaign, SetReservation, unused
<1>3. /\ r \in Reservation /\ r.state = "Reserved" /\ r.amount = amount /\ r.committed = was.committed
      /\ rec \in Campaign /\ rec.exists = campaigns[c].exists /\ rec.closed = campaigns[c].closed
      /\ rec.funded = campaigns[c].funded /\ rec.reserved = campaigns[c].reserved + amount
      /\ rec.spent = campaigns[c].spent /\ rec.spentWithdrawn = campaigns[c].spentWithdrawn
  <2>1. campaigns[c].reserved + amount \in Nat
    BY <1>1
  <2> HIDE DEF was
  <2> QED BY <1>1, <2>1 DEF Campaign, Reservation, ReservationStates
<1> HIDE DEF r, rec, was
<1>4. /\ was.committed = 0 /\ HeldBy(was) = 0 /\ HeldBy(r) = amount /\ KeyOK(r)
  BY <1>1, <1>2, <1>3 DEF KeyOK, HeldBy, Standing
<1>5. EntitledBy(rec) = EntitledBy(campaigns[c])
  BY <1>2, <1>3 DEF EntitledBy
<1>6. was = reservations[c][k]
  BY DEF was
<1>7. /\ rec.reserved = campaigns[c].reserved - HeldBy(was) + HeldBy(r)
      /\ rec.spent = campaigns[c].spent - was.committed + r.committed
      /\ rec.spent + rec.reserved <= rec.funded /\ rec.spentWithdrawn <= rec.spent
      /\ balance' \in Nat /\ reclaimedEarly' \in Nat
      /\ EntitledBy(rec) + balance + reclaimedEarly
           <= EntitledBy(campaigns[c]) + balance' + reclaimedEarly'
  <2>1. EntitledBy(campaigns[c]) \in Nat
    BY CampaignFacts, EntitledNat
  <2> QED BY <1>1, <1>2, <1>3, <1>4, <1>5, <2>1
<1> QED BY <1>2, <1>3, <1>4, <1>6, <1>7, KeyStep

LEMMA LockInv ==
  ASSUME IInv, NEW c \in Campaigns, NEW k \in Keys, Lock(c, k)
  PROVE  IInv'
<1> DEFINE was == reservations[c][k]
           r   == [was EXCEPT !.lockedUntil = now + LOCK_WINDOW, !.state = "Locked"]
<1>1. /\ campaigns[c] \in Campaign /\ was \in Reservation /\ KeyOK(was)
      /\ campaigns[c].reserved \in Nat /\ campaigns[c].spent \in Nat
      /\ campaigns[c].spent + campaigns[c].reserved <= campaigns[c].funded
      /\ campaigns[c].spentWithdrawn <= campaigns[c].spent
      /\ balance \in Nat /\ reclaimedEarly \in Nat /\ now + LOCK_WINDOW \in Nat
      /\ campaigns \in [Campaigns -> Campaign]
  BY CampaignFacts, KeyFacts, EscrowNumbers, BooksIffInv
<1>2. /\ UNCHANGED <<balance, campaigns, reclaimedEarly, now>>
      /\ reservations' = [reservations EXCEPT ![c] = [reservations[c] EXCEPT ![k] = r]]
      /\ campaigns[c].exists /\ Standing(was)
  BY DEF Lock, SetReservation
<1>3. /\ r \in Reservation /\ r.state = "Locked" /\ r.amount = was.amount
      /\ r.committed = was.committed
  BY <1>1 DEF Reservation, ReservationStates
<1>4. campaigns' = [campaigns EXCEPT ![c] = campaigns[c]]
  BY <1>1, <1>2
<1>5. was = reservations[c][k]
  OBVIOUS
<1> HIDE DEF r, was
<1>6. KeyOK(r) /\ HeldBy(was) = was.amount /\ HeldBy(r) = was.amount
  BY <1>1, <1>2, <1>3 DEF KeyOK, HeldBy, Standing
<1>7. /\ EntitledBy(campaigns[c]) \in Nat
      /\ was.amount \in Nat /\ was.committed \in Nat
  BY <1>1, CampaignFacts, EntitledNat DEF Reservation
<1>8. /\ campaigns[c].reserved = campaigns[c].reserved - HeldBy(was) + HeldBy(r)
      /\ campaigns[c].spent = campaigns[c].spent - was.committed + r.committed
      /\ balance' \in Nat /\ reclaimedEarly' \in Nat
      /\ EntitledBy(campaigns[c]) + balance + reclaimedEarly
           <= EntitledBy(campaigns[c]) + balance' + reclaimedEarly'
  BY <1>1, <1>2, <1>3, <1>6, <1>7
<1> QED BY <1>1, <1>2, <1>4, <1>5, <1>6, <1>8, KeyStep

LEMMA CommitInv ==
  ASSUME IInv, NEW c \in Campaigns, NEW k \in Keys,
         NEW actual \in 0..reservations[c][k].amount, Commit(c, k, actual)
  PROVE  IInv'
<1> DEFINE was == reservations[c][k]
           r   == [was EXCEPT !.committed = actual, !.state = "Committed"]
           rec == [campaigns[c] EXCEPT !.reserved = campaigns[c].reserved - was.amount,
                                       !.spent = campaigns[c].spent + actual]
<1>1. /\ campaigns[c] \in Campaign /\ was \in Reservation /\ KeyOK(was)
      /\ campaigns[c].funded \in Nat /\ campaigns[c].spentWithdrawn \in Nat
      /\ campaigns[c].reserved \in Nat /\ campaigns[c].spent \in Nat
      /\ campaigns[c].spent + campaigns[c].reserved <= campaigns[c].funded
      /\ campaigns[c].spentWithdrawn <= campaigns[c].spent
      /\ balance \in Nat /\ reclaimedEarly \in Nat
      /\ was.amount \in Nat /\ actual \in Nat /\ actual <= was.amount
      /\ HeldBy(was) <= campaigns[c].reserved
  BY CampaignFacts, KeyFacts
<1>2. /\ campaigns' = [campaigns EXCEPT ![c] = rec]
      /\ reservations' = [reservations EXCEPT ![c] = [reservations[c] EXCEPT ![k] = r]]
      /\ UNCHANGED <<balance, reclaimedEarly, now>>
      /\ campaigns[c].exists /\ Standing(was)
  BY DEF Commit, SetCampaign, SetReservation
<1>3. HeldBy(was) = was.amount /\ was.committed = 0 /\ was.amount <= campaigns[c].reserved
  BY <1>1, <1>2 DEF HeldBy, Standing, KeyOK
<1>4. /\ r \in Reservation /\ r.state = "Committed" /\ r.amount = was.amount /\ r.committed = actual
      /\ rec \in Campaign /\ rec.exists = campaigns[c].exists /\ rec.closed = campaigns[c].closed
      /\ rec.funded = campaigns[c].funded /\ rec.reserved = campaigns[c].reserved - was.amount
      /\ rec.spent = campaigns[c].spent + actual /\ rec.spentWithdrawn = campaigns[c].spentWithdrawn
  <2>1. campaigns[c].reserved - was.amount \in Nat /\ campaigns[c].spent + actual \in Nat
    BY <1>1, <1>3
  <2> HIDE DEF was
  <2> QED BY <1>1, <2>1 DEF Campaign, Reservation, ReservationStates
<1>5. was = reservations[c][k]
  OBVIOUS
<1> HIDE DEF r, rec, was
<1>6. HeldBy(r) = 0 /\ KeyOK(r)
  BY <1>1, <1>4 DEF KeyOK, HeldBy, Standing
<1>7. EntitledBy(rec) <= EntitledBy(campaigns[c])
  BY <1>1, <1>3, <1>4 DEF EntitledBy
<1>8. /\ rec.reserved = campaigns[c].reserved - HeldBy(was) + HeldBy(r)
      /\ rec.spent = campaigns[c].spent - was.committed + r.committed
      /\ rec.spent + rec.reserved <= rec.funded /\ rec.spentWithdrawn <= rec.spent
  BY <1>1, <1>3, <1>4, <1>6
<1>9. EntitledBy(campaigns[c]) \in Nat /\ EntitledBy(rec) \in Int
  BY <1>1, <1>4, CampaignFacts, EntitledNat DEF EntitledBy, Campaign
<1>10. /\ balance' \in Nat /\ reclaimedEarly' \in Nat
       /\ EntitledBy(rec) + balance + reclaimedEarly
            <= EntitledBy(campaigns[c]) + balance' + reclaimedEarly'
  BY <1>1, <1>2, <1>7, <1>9
<1> QED BY <1>2, <1>4, <1>5, <1>6, <1>8, <1>10, KeyStep

LEMMA RollbackInv ==
  ASSUME IInv, NEW c \in Campaigns, NEW k \in Keys, Rollback(c, k)
  PROVE  IInv'
<1> DEFINE was == reservations[c][k]
           r   == [was EXCEPT !.state = "RolledBack"]
           rec == [campaigns[c] EXCEPT !.reserved = campaigns[c].reserved - was.amount]
<1>1. /\ campaigns[c] \in Campaign /\ was \in Reservation /\ KeyOK(was)
      /\ campaigns[c].funded \in Nat /\ campaigns[c].spentWithdrawn \in Nat
      /\ campaigns[c].reserved \in Nat /\ campaigns[c].spent \in Nat
      /\ campaigns[c].spent + campaigns[c].reserved <= campaigns[c].funded
      /\ campaigns[c].spentWithdrawn <= campaigns[c].spent
      /\ balance \in Nat /\ reclaimedEarly \in Nat
      /\ was.amount \in Nat /\ HeldBy(was) <= campaigns[c].reserved
  BY CampaignFacts, KeyFacts
<1>2. /\ campaigns' = [campaigns EXCEPT ![c] = rec]
      /\ reservations' = [reservations EXCEPT ![c] = [reservations[c] EXCEPT ![k] = r]]
      /\ balance' = balance /\ reclaimedEarly' = reclaimedEarly
      /\ campaigns[c].exists /\ Standing(was) /\ now' = now
  BY DEF Rollback, SetCampaign, SetReservation
<1>3. HeldBy(was) = was.amount /\ was.committed = 0 /\ was.amount <= campaigns[c].reserved
  BY <1>1, <1>2 DEF HeldBy, Standing, KeyOK
<1>4. /\ r \in Reservation /\ r.state = "RolledBack" /\ r.committed = was.committed
      /\ rec \in Campaign /\ rec.exists = campaigns[c].exists /\ rec.closed = campaigns[c].closed
      /\ rec.funded = campaigns[c].funded /\ rec.reserved = campaigns[c].reserved - was.amount
      /\ rec.spent = campaigns[c].spent /\ rec.spentWithdrawn = campaigns[c].spentWithdrawn
  <2>1. campaigns[c].reserved - was.amount \in Nat
    BY <1>1, <1>3
  <2> HIDE DEF was
  <2> QED BY <1>1, <2>1 DEF Campaign, Reservation, ReservationStates
<1>5. was = reservations[c][k]
  OBVIOUS
<1> HIDE DEF r, rec, was
<1>6. HeldBy(r) = 0 /\ KeyOK(r)
  BY <1>1, <1>3, <1>4 DEF KeyOK, HeldBy, Standing
<1>7. /\ EntitledBy(rec) = IF campaigns[c].closed THEN EntitledBy(campaigns[c]) - was.amount
                                                  ELSE EntitledBy(campaigns[c])
  BY <1>1, <1>3, <1>4 DEF EntitledBy
<1>8. /\ rec.reserved = campaigns[c].reserved - HeldBy(was) + HeldBy(r)
      /\ rec.spent = campaigns[c].spent - was.committed + r.committed
      /\ rec.spent + rec.reserved <= rec.funded /\ rec.spentWithdrawn <= rec.spent
  BY <1>1, <1>3, <1>4, <1>6
<1>9. EntitledBy(campaigns[c]) \in Nat
  BY CampaignFacts, EntitledNat
<1>10. /\ balance' \in Nat /\ reclaimedEarly' \in Nat
       /\ EntitledBy(rec) + balance + reclaimedEarly
            <= EntitledBy(campaigns[c]) + balance' + reclaimedEarly'
  BY <1>1, <1>2, <1>7, <1>9
<1> QED BY <1>2, <1>4, <1>5, <1>6, <1>8, <1>10, KeyStep

\* While the campaign is open what the balance loses is written down as
\* reclaimed early; once it is closed the entitlement falls with it.
LEMMA ReclaimInv ==
  ASSUME IInv, NEW c \in Campaigns, NEW k \in Keys, ReclaimExpiredLock(c, k)
  PROVE  IInv'
<1> DEFINE was == reservations[c][k]
           r   == [was EXCEPT !.state = "RolledBack"]
           rec == [campaigns[c] EXCEPT !.reserved = campaigns[c].reserved - was.amount]
<1>1. /\ campaigns[c] \in Campaign /\ was \in Reservation /\ KeyOK(was)
      /\ campaigns[c].funded \in Nat /\ campaigns[c].spentWithdrawn \in Nat
      /\ campaigns[c].reserved \in Nat /\ campaigns[c].spent \in Nat
      /\ campaigns[c].spent + campaigns[c].reserved <= campaigns[c].funded
      /\ campaigns[c].spentWithdrawn <= campaigns[c].spent
      /\ balance \in Nat /\ reclaimedEarly \in Nat
      /\ was.amount \in Nat /\ HeldBy(was) <= campaigns[c].reserved
  BY CampaignFacts, KeyFacts
<1>2. /\ campaigns' = [campaigns EXCEPT ![c] = rec]
      /\ reservations' = [reservations EXCEPT ![c] = [reservations[c] EXCEPT ![k] = r]]
      /\ was.amount <= balance /\ balance' = balance - was.amount
      /\ reclaimedEarly' = IF campaigns[c].closed THEN reclaimedEarly ELSE reclaimedEarly + was.amount
      /\ campaigns[c].exists /\ Standing(was) /\ now' = now
  BY DEF ReclaimExpiredLock, SetCampaign, SetReservation, Expired, Standing
<1>3. HeldBy(was) = was.amount /\ was.committed = 0 /\ was.amount <= campaigns[c].reserved
  BY <1>1, <1>2 DEF HeldBy, Standing, KeyOK
<1>4. /\ r \in Reservation /\ r.state = "RolledBack" /\ r.committed = was.committed
      /\ rec \in Campaign /\ rec.exists = campaigns[c].exists /\ rec.closed = campaigns[c].closed
      /\ rec.funded = campaigns[c].funded /\ rec.reserved = campaigns[c].reserved - was.amount
      /\ rec.spent = campaigns[c].spent /\ rec.spentWithdrawn = campaigns[c].spentWithdrawn
  <2>1. campaigns[c].reserved - was.amount \in Nat
    BY <1>1, <1>3
  <2> HIDE DEF was
  <2> QED BY <1>1, <2>1 DEF Campaign, Reservation, ReservationStates
<1>5. was = reservations[c][k]
  OBVIOUS
<1> HIDE DEF r, rec, was
<1>6. HeldBy(r) = 0 /\ KeyOK(r)
  BY <1>1, <1>3, <1>4 DEF KeyOK, HeldBy, Standing
<1>7. /\ EntitledBy(rec) = IF campaigns[c].closed THEN EntitledBy(campaigns[c]) - was.amount
                                                  ELSE EntitledBy(campaigns[c])
  BY <1>1, <1>3, <1>4 DEF EntitledBy
<1>8. /\ rec.reserved = campaigns[c].reserved - HeldBy(was) + HeldBy(r)
      /\ rec.spent = campaigns[c].spent - was.committed + r.committed
      /\ rec.spent + rec.reserved <= rec.funded /\ rec.spentWithdrawn <= rec.spent
  BY <1>1, <1>3, <1>4, <1>6
<1>9. EntitledBy(campaigns[c]) \in Nat
  BY CampaignFacts, EntitledNat
<1>10. /\ balance' \in Nat /\ reclaimedEarly' \in Nat
       /\ EntitledBy(rec) + balance + reclaimedEarly
            <= EntitledBy(campaigns[c]) + balance' + reclaimedEarly'
  BY <1>1, <1>2, <1>7, <1>9
<1> QED BY <1>2, <1>4, <1>5, <1>6, <1>8, <1>10, KeyStep

\* The keys a close releases leave the sum of what is held by their amounts.
LEMMA ReleaseSums ==
  ASSUME IInv, NEW c \in Campaigns, NEW released \in SUBSET Keys,
         \A k \in released : Standing(reservations[c][k]),
         NEW res, res = [k \in Keys |-> IF k \in released
                                         THEN [reservations[c][k] EXCEPT !.state = "RolledBack"]
                                         ELSE reservations[c][k]]
  PROVE  /\ res \in [Keys -> Reservation]
         /\ \A k \in Keys : KeyOK(res[k])
         /\ ChargesIn(res) = ChargesIn(reservations[c])
         /\ AmountsOf(c, released) \in [Keys -> Nat] /\ Total(AmountsOf(c, released)) \in Nat
         /\ Total(HeldIn(res)) \in Nat
         /\ Total(HeldIn(reservations[c])) = Total(HeldIn(res)) + Total(AmountsOf(c, released))
<1>1. \A k \in Keys :
        /\ reservations[c][k] \in Reservation /\ KeyOK(reservations[c][k])
        /\ reservations[c][k].amount \in Nat
  BY KeyFacts
<1>2. \A k \in Keys \ released : res[k] = reservations[c][k]
  OBVIOUS
<1>3. \A k \in released :
        /\ res[k] \in Reservation /\ res[k].state = "RolledBack"
        /\ res[k].committed = reservations[c][k].committed
  BY <1>1 DEF Reservation, ReservationStates
<1>4. \A k \in released : reservations[c][k].committed = 0
  BY <1>1 DEF KeyOK, Standing
<1>5. \A k \in Keys : KeyOK(res[k])
  BY <1>1, <1>2, <1>3, <1>4 DEF KeyOK
<1>6. res \in [Keys -> Reservation]
  <2>1. \A k \in Keys : res[k] \in Reservation
    BY <1>5 DEF KeyOK
  <2> QED BY <2>1
<1>7. ChargesIn(res) = ChargesIn(reservations[c])
  BY <1>2, <1>3 DEF ChargesIn
<1>8. AmountsOf(c, released) \in [Keys -> Nat]
  BY <1>1 DEF AmountsOf
<1>9. /\ reservations[c] \in [Keys -> Reservation]
      /\ HeldIn(res) \in [Keys -> Nat] /\ HeldIn(reservations[c]) \in [Keys -> Nat]
      /\ Total(HeldIn(res)) \in Nat
  BY <1>6, BookSums, CampaignFacts
<1>10. \A k \in Keys : HeldIn(reservations[c])[k] = HeldIn(res)[k] + AmountsOf(c, released)[k]
  <2>1. ASSUME NEW k \in released
        PROVE  HeldIn(reservations[c])[k] = HeldIn(res)[k] + AmountsOf(c, released)[k]
    BY <1>1, <1>3 DEF HeldIn, HeldBy, Standing, AmountsOf
  <2>2. ASSUME NEW k \in Keys \ released
        PROVE  HeldIn(reservations[c])[k] = HeldIn(res)[k] + AmountsOf(c, released)[k]
    BY <1>1, <1>2 DEF HeldIn, HeldBy, Standing, AmountsOf
  <2> QED BY <2>1, <2>2
<1>11. Total(HeldIn(reservations[c])) = Total(HeldIn(res)) + Total(AmountsOf(c, released))
  BY <1>8, <1>9, <1>10, EscrowFinite, TotalSum
<1>12. Total(AmountsOf(c, released)) \in Nat
  BY <1>8, EscrowFinite, TotalType
<1> QED BY <1>5, <1>6, <1>7, <1>8, <1>9, <1>11, <1>12

LEMMA CloseInv ==
  ASSUME IInv, NEW c \in Campaigns, NEW openKeys \in SUBSET Keys, Close(c, openKeys)
  PROVE  IInv'
<1> DEFINE released == Releasable(c, openKeys)
           reserved == campaigns[c].reserved - Total(AmountsOf(c, released))
           returned == campaigns[c].funded - campaigns[c].spent - reserved
           rec      == [campaigns[c] EXCEPT !.reserved = reserved, !.closed = TRUE]
           res      == [k \in Keys |-> IF k \in released
                                       THEN [reservations[c][k] EXCEPT !.state = "RolledBack"]
                                       ELSE reservations[c][k]]
<1>1. /\ campaigns' = [campaigns EXCEPT ![c] = rec]
      /\ reservations' = [reservations EXCEPT ![c] = res]
      /\ campaigns[c].exists /\ ~campaigns[c].closed
      /\ returned <= balance /\ balance' = balance - returned
      /\ reclaimedEarly' = reclaimedEarly /\ now' = now
  BY DEF Close, SetCampaign
<1>2. released \in SUBSET Keys /\ \A k \in released : Standing(reservations[c][k])
  BY DEF Releasable, Expired, Standing
<1> HIDE DEF released
<1>3. /\ res \in [Keys -> Reservation] /\ \A k \in Keys : KeyOK(res[k])
      /\ ChargesIn(res) = ChargesIn(reservations[c])
      /\ Total(AmountsOf(c, released)) \in Nat /\ Total(HeldIn(res)) \in Nat
      /\ Total(HeldIn(reservations[c])) = Total(HeldIn(res)) + Total(AmountsOf(c, released))
  <2>1. res = [k \in Keys |-> IF k \in released
                              THEN [reservations[c][k] EXCEPT !.state = "RolledBack"]
                              ELSE reservations[c][k]]
    OBVIOUS
  <2> HIDE DEF res
  <2> QED BY <1>2, <2>1, ReleaseSums
<1> HIDE DEF res
<1>4. /\ campaigns[c] \in Campaign /\ BooksOK(campaigns[c], reservations[c])
      /\ campaigns[c].funded \in Nat /\ campaigns[c].spentWithdrawn \in Nat
      /\ campaigns[c].reserved \in Nat /\ campaigns[c].spent \in Nat
      /\ campaigns[c].spent + campaigns[c].reserved <= campaigns[c].funded
      /\ campaigns[c].spentWithdrawn <= campaigns[c].spent
      /\ balance \in Nat /\ reclaimedEarly \in Nat /\ now \in Nat
  BY CampaignFacts
<1>5. /\ campaigns[c].reserved = Total(HeldIn(reservations[c]))
      /\ campaigns[c].spent = Total(ChargesIn(reservations[c]))
  BY <1>4 DEF BooksOK
<1>6. /\ reserved = Total(HeldIn(res)) /\ reserved \in Nat /\ reserved <= campaigns[c].reserved
      /\ returned \in Nat /\ returned = campaigns[c].funded - campaigns[c].spent - reserved
  BY <1>3, <1>4, <1>5
<1> HIDE DEF reserved, returned
<1>7. /\ rec \in Campaign /\ rec.exists = campaigns[c].exists /\ rec.closed = TRUE
      /\ rec.funded = campaigns[c].funded /\ rec.reserved = reserved
      /\ rec.spent = campaigns[c].spent /\ rec.spentWithdrawn = campaigns[c].spentWithdrawn
  BY <1>4, <1>6 DEF Campaign
<1> HIDE DEF rec
<1>8. rec.spent + rec.reserved <= rec.funded /\ rec.spentWithdrawn <= rec.spent
  BY <1>4, <1>6, <1>7
<1>9. BooksOK(rec, res)
  BY <1>1, <1>3, <1>5, <1>6, <1>7, <1>8 DEF BooksOK
<1>10. EntitledBy(rec) = EntitledBy(campaigns[c]) - returned
  BY <1>1, <1>4, <1>6, <1>7 DEF EntitledBy
<1>11. EntitledBy(campaigns[c]) \in Nat
  BY <1>4, EntitledNat
<1>12. /\ balance' \in Nat /\ reclaimedEarly' \in Nat /\ now' \in Nat
       /\ EntitledBy(rec) + balance + reclaimedEarly
            <= EntitledBy(campaigns[c]) + balance' + reclaimedEarly'
  BY <1>1, <1>4, <1>6, <1>10, <1>11
<1> QED BY <1>1, <1>9, <1>12, Frame

LEMMA TickInv == ASSUME IInv, Tick \/ UNCHANGED vars PROVE IInv'
<1>1. /\ balance' = balance /\ campaigns' = campaigns /\ reservations' = reservations
      /\ reclaimedEarly' = reclaimedEarly /\ now' \in Nat
  BY DEF Tick, vars, IInv, TypeOK
<1> QED BY <1>1
  DEF IInv, TypeOK, CountersAreSums, heldOf, chargeOf, AmountsOf, Solvent, entitlements, entitled

LEMMA StepInv == IInv /\ [Next]_vars => IInv'
BY RegisterInv, FundInv, WithdrawInv, ReserveInv, LockInv, CommitInv, RollbackInv,
   ReclaimInv, CloseInv, TickInv DEF Next, OwnerNext, OperatorNext

LEMMA InitInv == Init => IInv
<1> SUFFICES ASSUME Init PROVE IInv
  OBVIOUS
<1>1. /\ NoCampaign \in Campaign /\ NoReservation \in Reservation
      /\ ~Standing(NoReservation) /\ NoReservation.committed = 0 /\ NoReservation.state = "None"
  BY DEF NoCampaign, Campaign, NoReservation, Reservation, ReservationStates, Standing
<1>2. /\ balance \in Nat /\ reclaimedEarly \in Nat /\ now \in Nat
      /\ campaigns \in [Campaigns -> Campaign]
      /\ reservations \in [Campaigns -> [Keys -> Reservation]]
      /\ \A c \in Campaigns : campaigns[c] = NoCampaign
      /\ \A c \in Campaigns, k \in Keys : reservations[c][k] = NoReservation
      /\ \A c \in Campaigns : reservations[c] \in [Keys -> Reservation]
  BY <1>1 DEF Init
<1>3. ASSUME NEW c \in Campaigns PROVE BooksOK(campaigns[c], reservations[c])
  <2>1. \A k \in Keys : KeyOK(reservations[c][k])
    BY <1>1, <1>2 DEF KeyOK
  <2>2. /\ HeldIn(reservations[c]) \in [Keys -> Nat] /\ ChargesIn(reservations[c]) \in [Keys -> Nat]
    BY <1>2, BookSums
  <2>3. \A k \in Keys : HeldIn(reservations[c])[k] = 0 /\ ChargesIn(reservations[c])[k] = 0
    BY <1>1, <1>2 DEF HeldIn, HeldBy, ChargesIn
  <2>4. Total(HeldIn(reservations[c])) = 0
    BY <2>2, <2>3, TotalZero
  <2>5. Total(ChargesIn(reservations[c])) = 0
    BY <2>2, <2>3, TotalZero
  <2>6. /\ campaigns[c].reserved = 0 /\ campaigns[c].spent = 0 /\ campaigns[c].funded = 0
        /\ campaigns[c].spentWithdrawn = 0
    BY <1>2 DEF NoCampaign
  <2> QED BY <1>1, <1>2, <2>1, <2>4, <2>5, <2>6 DEF BooksOK
<1>4. Total(entitlements) = 0
  <2>1. entitlements \in [Campaigns -> Nat] /\ \A c \in Campaigns : entitlements[c] = 0
    BY <1>2 DEF entitlements, entitled, NoCampaign
  <2> QED BY <2>1, TotalZero
<1> QED BY <1>2, <1>3, <1>4, BooksIffInv

LEMMA AlwaysInv == Spec => []IInv
BY InitInv, StepInv, PTL DEF Spec

----------------------------------------------------------------------------
(* What the escrow guarantees in every state.                              *)

\* No counter of the escrow ever goes below zero, for any campaigns and keys.
THEOREM EscrowTyped == Spec => []TypeOK
<1>1. IInv => TypeOK
  BY DEF IInv
<1> QED BY AlwaysInv, <1>1, PTL

\* reserved and spent are the sums over the keys in every reachable state.
THEOREM EscrowCounts == Spec => []CountersAreSums
<1>1. IInv => CountersAreSums
  BY DEF IInv
<1> QED BY AlwaysInv, <1>1, PTL

\* The balance covers every campaign, short of what was reclaimed before a
\* close and of nothing else.
THEOREM EscrowSolvent == Spec => []Solvent
<1>1. IInv => Solvent
  BY DEF IInv
<1> QED BY AlwaysInv, <1>1, PTL

----------------------------------------------------------------------------
(* What no step may do.                                                    *)

\* The steps that put a key into RolledBack.
LEMMA ReleaseSteps ==
  ASSUME IInv, [Next]_vars, NEW c \in Campaigns, NEW k \in Keys,
         reservations[c][k].state = "Locked", reservations'[c][k].state = "RolledBack"
  PROVE  \/ \E d \in Campaigns, j \in Keys : Rollback(d, j)
         \/ ReclaimExpiredLock(c, k)
         \/ \E openKeys \in SUBSET Keys : Close(c, openKeys) /\ k \in Releasable(c, openKeys)
<1>0. /\ reservations \in [Campaigns -> [Keys -> Reservation]]
      /\ \A d \in Campaigns : reservations[d] \in [Keys -> Reservation]
      /\ \A d \in Campaigns, j \in Keys : reservations[d][j] \in Reservation
  BY DEF IInv, TypeOK
<1>1. reservations' # reservations
  OBVIOUS
<1>2. ASSUME NEW d \in Campaigns, NEW j \in Keys, NEW r,
             SetReservation(d, j, r)
      PROVE  (d = c /\ j = k) /\ r.state = "RolledBack"
  <2>1. CASE d = c /\ j = k
    BY <1>0, <1>2, <2>1 DEF SetReservation
  <2>2. CASE ~(d = c /\ j = k)
    <3>1. reservations'[c][k] = reservations[c][k]
      BY <1>0, <1>2, <2>2 DEF SetReservation
    <3> QED BY <3>1
  <2> QED BY <2>1, <2>2
<1>3. ASSUME NEW d \in Campaigns, NEW j \in Keys, NEW amount \in Amounts, Reserve(d, j, amount)
      PROVE  FALSE
  <2>1. [reservations[d][j] EXCEPT !.amount = amount, !.state = "Reserved"].state = "Reserved"
    BY <1>0 DEF Reservation
  <2> QED BY <1>2, <1>3, <2>1 DEF Reserve
<1>4. ASSUME NEW d \in Campaigns, NEW j \in Keys, Lock(d, j)
      PROVE  FALSE
  <2>1. [reservations[d][j] EXCEPT !.lockedUntil = now + LOCK_WINDOW, !.state = "Locked"].state = "Locked"
    BY <1>0 DEF Reservation
  <2> QED BY <1>2, <1>4, <2>1 DEF Lock
<1>5. ASSUME NEW d \in Campaigns, NEW j \in Keys, NEW actual \in 0..reservations[d][j].amount,
             Commit(d, j, actual)
      PROVE  FALSE
  <2>1. [reservations[d][j] EXCEPT !.committed = actual, !.state = "Committed"].state = "Committed"
    BY <1>0 DEF Reservation
  <2> QED BY <1>2, <1>5, <2>1 DEF Commit
<1>6. ASSUME NEW d \in Campaigns, NEW j \in Keys, ReclaimExpiredLock(d, j)
      PROVE  ReclaimExpiredLock(c, k)
  BY <1>2, <1>6 DEF ReclaimExpiredLock
<1>7. ASSUME NEW d \in Campaigns, NEW openKeys \in SUBSET Keys, Close(d, openKeys)
      PROVE  Close(c, openKeys) /\ k \in Releasable(c, openKeys)
  <2> DEFINE released == Releasable(d, openKeys)
             res == [i \in Keys |-> IF i \in released
                                    THEN [reservations[d][i] EXCEPT !.state = "RolledBack"]
                                    ELSE reservations[d][i]]
  <2>1. reservations' = [reservations EXCEPT ![d] = res]
    BY <1>7 DEF Close
  <2> HIDE DEF released
  <2>2. d = c
    BY <1>0, <2>1
  <2>3. k \in released
    <3>1. CASE k \notin released
      <4>1. reservations'[c][k] = reservations[c][k]
        BY <1>0, <2>1, <2>2, <3>1
      <4> QED BY <4>1
    <3> QED BY <3>1
  <2> QED BY <1>7, <2>2, <2>3 DEF released
<1>8. ASSUME NEW d \in Campaigns,
             RegisterCampaign(d) \/ WithdrawSpent(d) \/ (\E amount \in Amounts : Fund(d, amount))
      PROVE  FALSE
  BY <1>1, <1>8 DEF RegisterCampaign, WithdrawSpent, Fund
<1>9. ~Tick /\ ~UNCHANGED vars
  BY <1>1 DEF Tick, vars
<1> QED BY <1>3, <1>4, <1>5, <1>6, <1>7, <1>8, <1>9 DEF Next, OwnerNext, OperatorNext

LEMMA LockHolds ==
  IInv /\ [Next]_vars =>
    \A c \in Campaigns, k \in Keys :
      /\ reservations[c][k].state = "Locked" /\ now <= reservations[c][k].lockedUntil
      /\ reservations'[c][k].state = "RolledBack"
      => balance' = balance /\ campaigns'[c].closed = campaigns[c].closed
<1> SUFFICES ASSUME IInv, [Next]_vars, NEW c \in Campaigns, NEW k \in Keys,
                    reservations[c][k].state = "Locked", now <= reservations[c][k].lockedUntil,
                    reservations'[c][k].state = "RolledBack"
             PROVE  balance' = balance /\ campaigns'[c].closed = campaigns[c].closed
  OBVIOUS
<1>1. ~Expired(reservations[c][k])
  BY KeyFacts, CampaignFacts DEF Expired
<1>2. ~ReclaimExpiredLock(c, k)
  BY <1>1 DEF ReclaimExpiredLock
<1>3. \A openKeys \in SUBSET Keys : k \notin Releasable(c, openKeys)
  BY <1>1 DEF Releasable
<1>4. PICK d \in Campaigns, j \in Keys : Rollback(d, j)
  BY <1>2, <1>3, ReleaseSteps
<1>5. /\ balance' = balance
      /\ campaigns' = [campaigns EXCEPT ![d] = [campaigns[d] EXCEPT
           !.reserved = campaigns[d].reserved - reservations[d][j].amount]]
  BY <1>4 DEF Rollback, SetCampaign
<1>6. campaigns[d] \in Campaign /\ campaigns \in [Campaigns -> Campaign]
  BY CampaignFacts, BooksIffInv
<1> QED BY <1>5, <1>6 DEF Campaign

\* Whatever a campaign's owner does, a reservation inside its window stays
\* the operator's: only the operator's own rollback releases it.
THEOREM EscrowLockHolds == Spec => LockOutlastsClose
<1>1. IInv /\ [Next]_vars =>
        [\A c \in Campaigns, k \in Keys :
           /\ reservations[c][k].state = "Locked" /\ now <= reservations[c][k].lockedUntil
           /\ reservations'[c][k].state = "RolledBack"
           => balance' = balance /\ campaigns'[c].closed = campaigns[c].closed]_vars
  BY LockHolds
<1> QED BY AlwaysInv, <1>1, PTL DEF Spec, LockOutlastsClose

----------------------------------------------------------------------------
(* The escrow implements the keyed budget.                                 *)

LEMMA BudgetInit == Init => Budget!BudgetInit
<1> SUFFICES ASSUME Init PROVE Budget!BudgetInit
  OBVIOUS
<1>1. \A c \in Campaigns : campaigns[c].funded = 0 /\ campaigns[c].closed = FALSE
  BY DEF Init, NoCampaign
<1>2. \A c \in Campaigns, k \in Keys : reservations[c][k] = NoReservation
  BY DEF Init
<1>3. NoReservation.committed = 0 /\ ~Standing(NoReservation) /\ Fate(NoReservation) = "fresh"
  BY DEF NoReservation, Standing, Fate
<1>4. funds = [c \in Campaigns |-> 0] /\ closed = [c \in Campaigns |-> FALSE]
  BY <1>1 DEF funds, closed
<1>5. fate = [c \in Campaigns |-> [k \in Keys |-> "fresh"]]
  BY <1>2, <1>3 DEF fate
<1>6. held = [c \in Campaigns |-> [k \in Keys |-> 0]]
  BY <1>2, <1>3 DEF held, heldOf, AmountsOf
<1>7. charge = [c \in Campaigns |-> [k \in Keys |-> 0]]
  BY <1>2, <1>3 DEF charge, chargeOf
<1> QED BY <1>4, <1>5, <1>6, <1>7 DEF Budget!BudgetInit

\* The budget reads off the reservations and the records, nothing else.
LEMMA KeysMapped ==
  /\ fate = [c \in Campaigns |-> [k \in Keys |-> Fate(reservations[c][k])]]
  /\ held = [c \in Campaigns |-> HeldIn(reservations[c])]
  /\ charge = [c \in Campaigns |-> ChargesIn(reservations[c])]
  /\ fate' = [c \in Campaigns |-> [k \in Keys |-> Fate(reservations'[c][k])]]
  /\ held' = [c \in Campaigns |-> HeldIn(reservations'[c])]
  /\ charge' = [c \in Campaigns |-> ChargesIn(reservations'[c])]
BY DEF fate, held, charge, heldOf, chargeOf, HeldIn, HeldBy, ChargesIn, AmountsOf

LEMMA SameKeys ==
  ASSUME reservations' = reservations
  PROVE  fate' = fate /\ held' = held /\ charge' = charge
BY KeysMapped

LEMMA OneKeyMapped ==
  ASSUME NEW c \in Campaigns, NEW k \in Keys, NEW r,
         reservations \in [Campaigns -> [Keys -> Reservation]],
         SetReservation(c, k, r)
  PROVE  /\ fate' = [fate EXCEPT ![c] = [fate[c] EXCEPT ![k] = Fate(r)]]
         /\ held' = [held EXCEPT ![c] = [held[c] EXCEPT ![k] = HeldBy(r)]]
         /\ charge' = [charge EXCEPT ![c] = [charge[c] EXCEPT ![k] = r.committed]]
<1>1. /\ reservations'[c] = [reservations[c] EXCEPT ![k] = r]
      /\ reservations[c] \in [Keys -> Reservation]
      /\ \A d \in Campaigns : d # c => reservations'[d] = reservations[d]
  BY DEF SetReservation
<1>2. /\ reservations'[c][k] = r
      /\ \A j \in Keys : j # k => reservations'[c][j] = reservations[c][j]
  BY <1>1
<1>3. [j \in Keys |-> Fate(reservations'[c][j])]
        = [[j \in Keys |-> Fate(reservations[c][j])] EXCEPT ![k] = Fate(r)]
  BY <1>2
<1>4. HeldIn(reservations'[c]) = [HeldIn(reservations[c]) EXCEPT ![k] = HeldBy(r)]
  BY <1>2 DEF HeldIn
<1>5. ChargesIn(reservations'[c]) = [ChargesIn(reservations[c]) EXCEPT ![k] = r.committed]
  BY <1>2 DEF ChargesIn
<1>6. fate' = [fate EXCEPT ![c] = [fate[c] EXCEPT ![k] = Fate(r)]]
  BY <1>1, <1>3, KeysMapped
<1>7. held' = [held EXCEPT ![c] = [held[c] EXCEPT ![k] = HeldBy(r)]]
  BY <1>1, <1>4, KeysMapped
<1>8. charge' = [charge EXCEPT ![c] = [charge[c] EXCEPT ![k] = r.committed]]
  BY <1>1, <1>5, KeysMapped
<1> QED BY <1>6, <1>7, <1>8

LEMMA RecordMapped ==
  ASSUME NEW c \in Campaigns, NEW rec,
         campaigns \in [Campaigns -> Campaign], SetCampaign(c, rec)
  PROVE  /\ funds' = [funds EXCEPT ![c] = rec.funded]
         /\ closed' = [closed EXCEPT ![c] = rec.closed]
         /\ rec.funded = campaigns[c].funded => funds' = funds
         /\ rec.closed = campaigns[c].closed => closed' = closed
BY DEF SetCampaign, funds, closed

LEMMA SameRecords ==
  ASSUME campaigns' = campaigns
  PROVE  funds' = funds /\ closed' = closed
BY DEF funds, closed

\* Every step of the escrow is a step of the budget, or none.
LEMMA BudgetStep == IInv /\ [Next]_vars => [Budget!BudgetNext]_(Budget!budgetVars)
<1> SUFFICES ASSUME IInv, [Next]_vars PROVE [Budget!BudgetNext]_(Budget!budgetVars)
  OBVIOUS
<1>0. /\ campaigns \in [Campaigns -> Campaign]
      /\ reservations \in [Campaigns -> [Keys -> Reservation]]
      /\ \A c \in Campaigns : campaigns[c] \in Campaign
      /\ \A c \in Campaigns, k \in Keys :
           /\ reservations[c][k] \in Reservation /\ KeyOK(reservations[c][k])
  BY BooksIffInv, KeyFacts
<1>1. \A c \in Campaigns :
        /\ funds[c] = campaigns[c].funded /\ closed[c] = campaigns[c].closed
        /\ Total(held[c]) = campaigns[c].reserved /\ Total(charge[c]) = campaigns[c].spent
        /\ \A k \in Keys : /\ fate[c][k] = Fate(reservations[c][k])
                            /\ held[c][k] = HeldBy(reservations[c][k])
                            /\ charge[c][k] = reservations[c][k].committed
  <2>1. \A c \in Campaigns : BooksOK(campaigns[c], reservations[c])
    BY BooksIffInv
  <2>2. \A c \in Campaigns :
          /\ Total(HeldIn(reservations[c])) = campaigns[c].reserved
          /\ Total(ChargesIn(reservations[c])) = campaigns[c].spent
    BY <2>1 DEF BooksOK
  <2>3. \A c \in Campaigns :
          /\ held[c] = HeldIn(reservations[c]) /\ charge[c] = ChargesIn(reservations[c])
          /\ fate[c] = [k \in Keys |-> Fate(reservations[c][k])]
          /\ funds[c] = campaigns[c].funded /\ closed[c] = campaigns[c].closed
    BY KeysMapped DEF funds, closed
  <2>4. ASSUME NEW c \in Campaigns, NEW k \in Keys
        PROVE  /\ fate[c][k] = Fate(reservations[c][k])
               /\ held[c][k] = HeldBy(reservations[c][k])
               /\ charge[c][k] = reservations[c][k].committed
    BY <2>3 DEF HeldIn, ChargesIn
  <2>5. \A c \in Campaigns :
          Total(held[c]) = campaigns[c].reserved /\ Total(charge[c]) = campaigns[c].spent
    BY <2>2, <2>3
  <2> QED BY <2>3, <2>4, <2>5
<1>2. /\ funds = [c \in Campaigns |-> funds[c]] /\ closed = [c \in Campaigns |-> closed[c]]
      /\ fate = [c \in Campaigns |-> [k \in Keys |-> fate[c][k]]]
      /\ held = [c \in Campaigns |-> [k \in Keys |-> held[c][k]]]
      /\ charge = [c \in Campaigns |-> [k \in Keys |-> charge[c][k]]]
  BY DEF funds, closed, fate, held, heldOf, AmountsOf, charge, chargeOf
<1>3. ASSUME NEW c \in Campaigns, NEW amount \in Amounts, Fund(c, amount) PROVE Budget!BudgetNext
  <2> DEFINE rec == [campaigns[c] EXCEPT !.funded = campaigns[c].funded + amount]
  <2>1. SetCampaign(c, rec) /\ reservations' = reservations /\ ~campaigns[c].closed /\ amount # 0
    BY <1>3 DEF Fund
  <2>2. rec.funded = campaigns[c].funded + amount /\ rec.closed = campaigns[c].closed
    BY <1>0 DEF Campaign
  <2> HIDE DEF rec
  <2>3. funds' = [funds EXCEPT ![c] = rec.funded] /\ closed' = closed
    BY <1>0, <2>1, <2>2, RecordMapped
  <2>4. UNCHANGED <<fate, held, charge>>
    BY <2>1, SameKeys
  <2>5. /\ funds'[c] = funds[c] + amount /\ funds[c] \in Nat /\ amount \in Nat
        /\ \A d \in Campaigns \ {c} : funds'[d] = funds[d]
    BY <1>0, <1>1, <1>2, <2>2, <2>3, EscrowNumbers DEF Campaign
  <2>6. funds'[c] > funds[c]
    BY <2>1, <2>5
  <2>7. Budget!Only(c)
    BY <2>3, <2>4, <2>5 DEF Budget!Only
  <2>8. Budget!Fund(c)
    BY <1>1, <2>1, <2>3, <2>4, <2>6, <2>7 DEF Budget!Fund
  <2> QED BY <2>8 DEF Budget!BudgetNext
<1>4. ASSUME NEW c \in Campaigns, NEW k \in Keys, NEW amount \in Amounts, Reserve(c, k, amount)
      PROVE  Budget!BudgetNext
  <2> DEFINE r   == [reservations[c][k] EXCEPT !.amount = amount, !.state = "Reserved"]
             rec == [campaigns[c] EXCEPT !.reserved = campaigns[c].reserved + amount]
  <2>1. /\ SetReservation(c, k, r) /\ SetCampaign(c, rec)
        /\ ~campaigns[c].closed /\ reservations[c][k].state = "None"
        /\ amount <= campaigns[c].funded - campaigns[c].spent - campaigns[c].reserved
    BY <1>4 DEF Reserve, unused
  <2>2. /\ r.state = "Reserved" /\ r.amount = amount /\ r.committed = reservations[c][k].committed
        /\ rec.funded = campaigns[c].funded /\ rec.closed = campaigns[c].closed
    BY <1>0 DEF Reservation, Campaign
  <2> HIDE DEF r, rec
  <2>3. Fate(r) = "held" /\ HeldBy(r) = amount /\ r.committed = charge[c][k]
    BY <1>1, <2>2 DEF Fate, HeldBy, Standing
  <2>4. UNCHANGED <<funds, closed>>
    BY <1>0, <2>1, <2>2, RecordMapped
  <2>5. /\ fate' = [fate EXCEPT ![c] = [fate[c] EXCEPT ![k] = "held"]]
        /\ held' = [held EXCEPT ![c] = [held[c] EXCEPT ![k] = amount]]
        /\ charge' = [charge EXCEPT ![c] = [charge[c] EXCEPT ![k] = charge[c][k]]]
    BY <1>0, <2>1, <2>3, OneKeyMapped
  <2>6. charge' = charge /\ held'[c][k] = amount
    BY <1>2, <2>5
  <2>7. /\ amount \in Nat /\ funds[c] \in Nat /\ Total(held[c]) \in Nat /\ Total(charge[c]) \in Nat
        /\ amount <= funds[c] - Total(charge[c]) - Total(held[c])
    BY <1>0, <1>1, <2>1, EscrowNumbers DEF Campaign
  <2>8. fate[c][k] = "fresh" /\ ~closed[c]
    <3>1. Fate(reservations[c][k]) = "fresh"
      BY <2>1 DEF Fate, Standing
    <3> QED BY <1>1, <2>1, <3>1
  <2>9. held'[c][k] + Total(held[c]) + Total(charge[c]) <= funds[c]
    BY <2>6, <2>7
  <2>10. Budget!Hold(c, k)
    BY <2>4, <2>5, <2>6, <2>8, <2>9 DEF Budget!Hold
  <2> QED BY <2>10 DEF Budget!BudgetNext
<1>5. ASSUME NEW c \in Campaigns, NEW k \in Keys, Lock(c, k) PROVE UNCHANGED Budget!budgetVars
  <2> DEFINE r == [reservations[c][k] EXCEPT !.lockedUntil = now + LOCK_WINDOW, !.state = "Locked"]
  <2>1. SetReservation(c, k, r) /\ campaigns' = campaigns /\ Standing(reservations[c][k])
    BY <1>5 DEF Lock
  <2>2. /\ r.state = "Locked" /\ r.amount = reservations[c][k].amount
        /\ r.committed = reservations[c][k].committed
    BY <1>0 DEF Reservation
  <2> HIDE DEF r
  <2>3. Fate(r) = fate[c][k] /\ HeldBy(r) = held[c][k] /\ r.committed = charge[c][k]
    BY <1>1, <2>1, <2>2 DEF Fate, HeldBy, Standing
  <2>4. /\ fate' = [fate EXCEPT ![c] = [fate[c] EXCEPT ![k] = fate[c][k]]]
        /\ held' = [held EXCEPT ![c] = [held[c] EXCEPT ![k] = held[c][k]]]
        /\ charge' = [charge EXCEPT ![c] = [charge[c] EXCEPT ![k] = charge[c][k]]]
    BY <1>0, <2>1, <2>3, OneKeyMapped
  <2>5. UNCHANGED <<fate, held, charge>>
    BY <1>2, <2>4
  <2> QED BY <2>1, <2>5, SameRecords DEF Budget!budgetVars
<1>6. ASSUME NEW c \in Campaigns, NEW k \in Keys,
             NEW actual \in 0..reservations[c][k].amount, Commit(c, k, actual)
      PROVE  Budget!BudgetNext
  <2> DEFINE r   == [reservations[c][k] EXCEPT !.committed = actual, !.state = "Committed"]
             rec == [campaigns[c] EXCEPT
                       !.reserved = campaigns[c].reserved - reservations[c][k].amount,
                       !.spent = campaigns[c].spent + actual]
  <2>1. /\ SetReservation(c, k, r) /\ SetCampaign(c, rec) /\ Standing(reservations[c][k])
        /\ actual <= reservations[c][k].amount
    BY <1>6 DEF Commit
  <2>2. /\ r.state = "Committed" /\ r.committed = actual
        /\ rec.funded = campaigns[c].funded /\ rec.closed = campaigns[c].closed
    BY <1>0 DEF Reservation, Campaign
  <2> HIDE DEF r, rec
  <2>3. Fate(r) = "charged" /\ HeldBy(r) = 0
    BY <2>2 DEF Fate, HeldBy, Standing
  <2>4. UNCHANGED <<funds, closed>>
    BY <1>0, <2>1, <2>2, RecordMapped
  <2>5. /\ fate' = [fate EXCEPT ![c] = [fate[c] EXCEPT ![k] = "charged"]]
        /\ held' = [held EXCEPT ![c] = [held[c] EXCEPT ![k] = 0]]
        /\ charge' = [charge EXCEPT ![c] = [charge[c] EXCEPT ![k] = actual]]
    BY <1>0, <2>1, <2>2, <2>3, OneKeyMapped
  <2>6. charge'[c][k] = actual
    BY <1>2, <2>5
  <2>7. fate[c][k] = "held" /\ held[c][k] = reservations[c][k].amount
    BY <1>1, <2>1 DEF Fate, HeldBy, Standing
  <2>8. Budget!Charge(c, k)
    BY <2>1, <2>4, <2>5, <2>6, <2>7 DEF Budget!Charge
  <2> QED BY <2>8 DEF Budget!BudgetNext
<1>7. ASSUME NEW c \in Campaigns, NEW k \in Keys, Rollback(c, k) PROVE Budget!BudgetNext
  <2> DEFINE r   == [reservations[c][k] EXCEPT !.state = "RolledBack"]
             rec == [campaigns[c] EXCEPT !.reserved = campaigns[c].reserved - reservations[c][k].amount]
  <2>1. SetReservation(c, k, r) /\ SetCampaign(c, rec) /\ Standing(reservations[c][k])
    BY <1>7 DEF Rollback, Expired, Standing
  <2>2. /\ r.state = "RolledBack" /\ r.committed = reservations[c][k].committed
        /\ rec.funded = campaigns[c].funded /\ rec.closed = campaigns[c].closed
    BY <1>0 DEF Reservation, Campaign
  <2> HIDE DEF r, rec
  <2>3. Fate(r) = "released" /\ HeldBy(r) = 0 /\ r.committed = charge[c][k]
    BY <1>1, <2>2 DEF Fate, HeldBy, Standing
  <2>4. UNCHANGED <<funds, closed>>
    BY <1>0, <2>1, <2>2, RecordMapped
  <2>5. /\ fate' = [fate EXCEPT ![c] = [fate[c] EXCEPT ![k] = "released"]]
        /\ held' = [held EXCEPT ![c] = [held[c] EXCEPT ![k] = 0]]
        /\ charge' = [charge EXCEPT ![c] = [charge[c] EXCEPT ![k] = charge[c][k]]]
    BY <1>0, <2>1, <2>3, OneKeyMapped
  <2>6. /\ fate[c] = [j \in Keys |-> fate[c][j]] /\ held[c] = [j \in Keys |-> held[c][j]]
        /\ charge[c] = [j \in Keys |-> charge[c][j]]
        /\ charge = [d \in Campaigns |-> charge[d]]
    BY <1>2
  <2>7. /\ [fate[c] EXCEPT ![k] = "released"]
             = [j \in Keys |-> IF j \in {k} THEN "released" ELSE fate[c][j]]
        /\ [held[c] EXCEPT ![k] = 0] = [j \in Keys |-> IF j \in {k} THEN 0 ELSE held[c][j]]
    BY <2>6
  <2>8. charge' = charge
    BY <2>5, <2>6
  <2>9. fate[c][k] = "held"
    BY <1>1, <2>1 DEF Fate, Standing
  <2>10. Budget!Release(c, {k})
    BY <2>4, <2>5, <2>7, <2>8, <2>9 DEF Budget!Release
  <2> QED BY <2>10 DEF Budget!BudgetNext
<1>8. ASSUME NEW c \in Campaigns, NEW k \in Keys, ReclaimExpiredLock(c, k) PROVE Budget!BudgetNext
  <2> DEFINE r   == [reservations[c][k] EXCEPT !.state = "RolledBack"]
             rec == [campaigns[c] EXCEPT !.reserved = campaigns[c].reserved - reservations[c][k].amount]
  <2>1. SetReservation(c, k, r) /\ SetCampaign(c, rec) /\ Standing(reservations[c][k])
    BY <1>8 DEF ReclaimExpiredLock, Expired, Standing
  <2>2. /\ r.state = "RolledBack" /\ r.committed = reservations[c][k].committed
        /\ rec.funded = campaigns[c].funded /\ rec.closed = campaigns[c].closed
    BY <1>0 DEF Reservation, Campaign
  <2> HIDE DEF r, rec
  <2>3. Fate(r) = "released" /\ HeldBy(r) = 0 /\ r.committed = charge[c][k]
    BY <1>1, <2>2 DEF Fate, HeldBy, Standing
  <2>4. UNCHANGED <<funds, closed>>
    BY <1>0, <2>1, <2>2, RecordMapped
  <2>5. /\ fate' = [fate EXCEPT ![c] = [fate[c] EXCEPT ![k] = "released"]]
        /\ held' = [held EXCEPT ![c] = [held[c] EXCEPT ![k] = 0]]
        /\ charge' = [charge EXCEPT ![c] = [charge[c] EXCEPT ![k] = charge[c][k]]]
    BY <1>0, <2>1, <2>3, OneKeyMapped
  <2>6. /\ fate[c] = [j \in Keys |-> fate[c][j]] /\ held[c] = [j \in Keys |-> held[c][j]]
        /\ charge[c] = [j \in Keys |-> charge[c][j]]
        /\ charge = [d \in Campaigns |-> charge[d]]
    BY <1>2
  <2>7. /\ [fate[c] EXCEPT ![k] = "released"]
             = [j \in Keys |-> IF j \in {k} THEN "released" ELSE fate[c][j]]
        /\ [held[c] EXCEPT ![k] = 0] = [j \in Keys |-> IF j \in {k} THEN 0 ELSE held[c][j]]
    BY <2>6
  <2>8. charge' = charge
    BY <2>5, <2>6
  <2>9. fate[c][k] = "held"
    BY <1>1, <2>1 DEF Fate, Standing
  <2>10. Budget!Release(c, {k})
    BY <2>4, <2>5, <2>7, <2>8, <2>9 DEF Budget!Release
  <2> QED BY <2>10 DEF Budget!BudgetNext
<1>9. ASSUME NEW c \in Campaigns, NEW openKeys \in SUBSET Keys, Close(c, openKeys)
      PROVE  Budget!BudgetNext
  <2> DEFINE released == Releasable(c, openKeys)
             reserved == campaigns[c].reserved - Total(AmountsOf(c, released))
             rec == [campaigns[c] EXCEPT !.reserved = reserved, !.closed = TRUE]
             res == [k \in Keys |-> IF k \in released
                                    THEN [reservations[c][k] EXCEPT !.state = "RolledBack"]
                                    ELSE reservations[c][k]]
  <2>1. SetCampaign(c, rec) /\ reservations' = [reservations EXCEPT ![c] = res]
    BY <1>9 DEF Close
  <2>2. released \in SUBSET Keys /\ \A k \in released : Standing(reservations[c][k])
    BY DEF Releasable, Expired, Standing
  <2> HIDE DEF released, reserved
  <2>3. rec.funded = campaigns[c].funded /\ rec.closed = TRUE
    BY <1>0 DEF Campaign
  <2> HIDE DEF rec
  <2>4. funds' = funds /\ closed' = [closed EXCEPT ![c] = TRUE]
    BY <1>0, <2>1, <2>3, RecordMapped
  <2>5. /\ \A k \in released : /\ Fate(res[k]) = "released" /\ HeldBy(res[k]) = 0
                                /\ res[k].committed = reservations[c][k].committed
        /\ \A k \in Keys \ released : res[k] = reservations[c][k]
    BY <1>0, <2>2 DEF Reservation, Fate, HeldBy, Standing
  <2> HIDE DEF res
  <2>6. /\ reservations'[c] = res
        /\ \A d \in Campaigns : d # c => reservations'[d] = reservations[d]
    BY <1>0, <2>1
  <2>7. [k \in Keys |-> Fate(res[k])]
          = [k \in Keys |-> IF k \in released THEN "released" ELSE fate[c][k]]
    BY <1>1, <2>2, <2>5
  <2>8. HeldIn(res) = [k \in Keys |-> IF k \in released THEN 0 ELSE held[c][k]]
    BY <1>1, <2>2, <2>5 DEF HeldIn
  <2>9. ChargesIn(res) = ChargesIn(reservations[c])
    BY <2>2, <2>5 DEF ChargesIn
  <2>10. fate' = [fate EXCEPT ![c] = [k \in Keys |-> IF k \in released THEN "released" ELSE fate[c][k]]]
    BY <2>6, <2>7, KeysMapped
  <2>11. held' = [held EXCEPT ![c] = [k \in Keys |-> IF k \in released THEN 0 ELSE held[c][k]]]
    BY <2>6, <2>8, KeysMapped
  <2>12. charge' = charge
    <3>1. \A d \in Campaigns : ChargesIn(reservations'[d]) = ChargesIn(reservations[d])
      BY <2>6, <2>9
    <3> QED BY <3>1, KeysMapped
  <2>13. \A k \in released : fate[c][k] = "held"
    BY <1>1, <2>2 DEF Fate, Standing
  <2>14. Budget!Release(c, released)
    BY <2>4, <2>10, <2>11, <2>12, <2>13 DEF Budget!Release
  <2> QED BY <2>2, <2>14 DEF Budget!BudgetNext
<1>10. ASSUME NEW c \in Campaigns, RegisterCampaign(c) \/ WithdrawSpent(c)
       PROVE  UNCHANGED Budget!budgetVars
  <2>1. PICK rec : /\ SetCampaign(c, rec) /\ reservations' = reservations
                   /\ rec.funded = campaigns[c].funded /\ rec.closed = campaigns[c].closed
    <3>1. /\ [campaigns[c] EXCEPT !.exists = TRUE].funded = campaigns[c].funded
          /\ [campaigns[c] EXCEPT !.exists = TRUE].closed = campaigns[c].closed
      BY <1>0 DEF Campaign
    <3>2. \A n : /\ [campaigns[c] EXCEPT !.spentWithdrawn = n].funded = campaigns[c].funded
                 /\ [campaigns[c] EXCEPT !.spentWithdrawn = n].closed = campaigns[c].closed
      BY <1>0 DEF Campaign
    <3> QED BY <1>10, <3>1, <3>2 DEF RegisterCampaign, WithdrawSpent
  <2> QED BY <1>0, <2>1, RecordMapped, SameKeys DEF Budget!budgetVars
<1>11. ASSUME Tick \/ UNCHANGED vars PROVE UNCHANGED Budget!budgetVars
  BY <1>11, SameKeys, SameRecords DEF Tick, vars, Budget!budgetVars
<1> QED BY <1>3, <1>4, <1>5, <1>6, <1>7, <1>8, <1>9, <1>10, <1>11 DEF Next, OwnerNext, OperatorNext

\* For any campaigns, keys and amounts, every behaviour of the escrow is a
\* behaviour of the keyed budget: a key is charged at most once and within
\* what the funds left free, and a closed campaign takes on nothing new.
THEOREM EscrowImplementsBudget == Spec => BudgetSpec
<1>1. Spec => [][Budget!BudgetNext]_(Budget!budgetVars)
  BY AlwaysInv, BudgetStep, PTL DEF Spec
<1> QED BY BudgetInit, <1>1, PTL DEF Spec, BudgetSpec, Budget!BudgetSpec

(***************************************************************************)
(* Sponsorship.  The paymaster's charge is a reserve and a commit of the   *)
(* escrow in one step, so the escrow's books stay good under it.  An       *)
(* operation's record follows its key (OpOK).  For the daily caps, a day's *)
(* ledger counts what is recorded with what is checked and not yet         *)
(* recorded: recording moves between the two, and a check leaves at most   *)
(* the cap, and a ceiling for each of the other calls.                     *)
(***************************************************************************)

Sponsor == [known : BOOLEAN, paused : BOOLEAN, closed : BOOLEAN, policy : Ceilings]
Op      == [state : {"none", "signed", "landed"}, max : Nat, signedAt : Nat, validUntil : Nat,
            landedAt : Nat, ok : BOOLEAN, charged : Nat]
Hows    == {"no", "ok", "reverted"}

SponsorTyped ==
  /\ sponsors \in [Campaigns -> Sponsor]
  /\ ops \in [Campaigns -> [Keys -> Op]]
  /\ landed \in [Campaigns -> [Keys -> Hows]]
  /\ calls \in [Handlers -> Call]

\* What a sponsor is known with, and what a call goes by, is one of the policies.
SponsorOK(sponsor) == sponsor.known => sponsor.policy \in Policies

CallOK(call, o, t) ==
  /\ call.doing = "edit" => SponsorOK(call.record) /\ call.record.known
  /\ call.doing \in {"ask", "sign"} => call.policy \in Policies /\ call.at <= t
  /\ call.doing = "sign" => call.max <= call.policy.op
  /\ call.doing = "submit" => o[call.c][call.k].state # "none"

\* An operation's record, how it landed, and what its key was charged, at t.
OpOK(op, how, paid, t) ==
  /\ op.state = "none" => op = NoOp /\ how = "no"
  /\ op.signedAt <= t
  /\ op.state = "landed" =>
       /\ op.signedAt <= op.landedAt /\ op.landedAt <= t
       /\ how # "no" /\ (op.ok <=> how = "ok")
       /\ op.charged = paid
  /\ how = "no" => paid = 0
  /\ paid <= op.max

RecordsOK ==
  /\ \A c \in Campaigns : SponsorOK(sponsors[c])
  /\ \A c \in Campaigns, k \in Keys :
       OpOK(ops[c][k], landed[c][k], reservations[c][k].committed, now)
  /\ \A h \in Handlers : CallOK(calls[h], ops, now)

\* What is recorded as signed for a day, and what is checked for it.
recordedFor(op, k, d, users) ==
  IF User(k) \in users /\ Day(op.signedAt) = d THEN CountedOn(op, d) ELSE 0
checkedFor(call, c, d, users) ==
  IF call.doing = "sign"
  THEN IF call.c = c /\ Day(call.at) = d /\ User(call.k) \in users THEN call.max ELSE 0
  ELSE 0

RecordedIn(o, d, users)      == [k \in Keys |-> recordedFor(o[k], k, d, users)]
CheckedIn(running, c, d, users) == [h \in Handlers |-> checkedFor(running[h], c, d, users)]
Ledger(o, running, c, d, users) ==
  Total(RecordedIn(o, d, users)) + Total(CheckedIn(running, c, d, users))

over(top) == (Cardinality(Handlers) - 1) * top.op

LedgersOK ==
  \A c \in Campaigns, d \in Nat, top \in HighestCeilings :
    /\ \A u \in Users : Ledger(ops[c], calls, c, d, {u}) <= top.user + over(top)
    /\ Ledger(ops[c], calls, c, d, Users) <= top.sponsor + over(top)

SponsorInv == IInv /\ SponsorTyped /\ RecordsOK /\ LedgersOK

----------------------------------------------------------------------------
(* Numbers and shapes.                                                     *)

LEMMA DayFacts ==
  /\ \A t \in Nat : Day(t) \in Nat
  /\ \A s, t \in Nat : s <= t => Day(s) <= Day(t)
<1>1. ASSUME NEW s \in Nat, NEW t \in Nat, NEW d \in Nat \ {0}, s <= t
      PROVE  s \div d \in Nat /\ s \div d <= t \div d
  BY <1>1, Z3
<1>2. DAY \in Nat \ {0}
  BY SponsorNumbers
<1> QED BY <1>1, <1>2 DEF Day

LEMMA ChargedNat == ASSUME NEW cost \in Nat PROVE Charged(cost) \in Nat
<1>1. cost * FEE_BPS \in Nat
  BY SponsorNumbers
<1>2. ASSUME NEW n \in Nat PROVE n \div 10000 \in Nat
  BY Z3
<1> QED BY <1>1, <1>2 DEF Charged

LEMMA KeyUser == ASSUME NEW k \in Keys PROVE User(k) \in Users
BY SponsorKeys DEF User

LEMMA Tops ==
  ASSUME NEW top \in HighestCeilings
  PROVE  /\ top.op \in Nat /\ top.user \in Nat /\ top.sponsor \in Nat
         /\ top.op <= top.user /\ top.op <= top.sponsor
         /\ over(top) \in Int /\ 0 <= top.op + over(top)
         /\ \A p \in Policies : p.op <= top.op /\ p.user <= top.user /\ p.sponsor <= top.sponsor
<1>1. PICK p \in Policies : top.op = p.op
  BY DEF HighestCeilings
<1>2. PICK q \in Policies : top.user = q.user
  BY DEF HighestCeilings
<1>3. PICK e \in Policies : top.sponsor = e.sponsor
  BY DEF HighestCeilings
<1>4. \A r \in Policies : r.op <= top.op /\ r.user <= top.user /\ r.sponsor <= top.sponsor
  BY DEF HighestCeilings
<1>5. \A r \in Policies : /\ r.op \in Nat /\ r.user \in Nat /\ r.sponsor \in Nat
                          /\ r.op <= r.user /\ r.user <= r.sponsor
  BY SponsorNumbers DEF Ceilings, ValidPolicy
<1>6. top.op \in Nat /\ top.user \in Nat /\ top.sponsor \in Nat
  BY <1>1, <1>2, <1>3, <1>5
<1>7. top.op <= top.user /\ top.op <= top.sponsor
  BY <1>1, <1>4, <1>5, <1>6
<1>8. over(top) \in Int /\ 0 <= top.op + over(top)
  <2>1. Cardinality(Handlers) \in Nat
    BY SponsorKeys, FS_CardinalityType
  <2>2. ASSUME NEW n \in Nat, NEW b \in Nat PROVE (n - 1) * b \in Int /\ 0 <= b + (n - 1) * b
    <3>1. n * b \in Nat /\ b + (n - 1) * b = n * b
      BY Z3
    <3> QED BY <3>1
  <2> QED BY <1>6, <2>1, <2>2 DEF over
<1> QED BY <1>4, <1>6, <1>7, <1>8

LEMMA OpFacts ==
  ASSUME SponsorTyped, NEW c \in Campaigns, NEW k \in Keys
  PROVE  /\ ops[c][k] \in Op /\ landed[c][k] \in Hows
         /\ ops[c][k].max \in Nat /\ ops[c][k].signedAt \in Nat /\ ops[c][k].validUntil \in Nat
         /\ ops[c][k].landedAt \in Nat /\ ops[c][k].charged \in Nat /\ ops[c][k].ok \in BOOLEAN
<1>1. ops[c][k] \in Op /\ landed[c][k] \in Hows
  BY DEF SponsorTyped
<1> QED BY <1>1 DEF Op

\* What a call has in it, by what it does.
LEMMA CallFacts ==
  ASSUME NEW call \in Call
  PROVE  /\ call.doing = "edit" => call.c \in Campaigns /\ call.record \in Sponsor
         /\ call.doing \in {"ask", "sign"} =>
              /\ call.c \in Campaigns /\ call.k \in Keys /\ call.max \in Nat /\ call.at \in Nat
              /\ call.policy \in Ceilings
         /\ call.doing = "submit" => call.c \in Campaigns /\ call.k \in Keys
         /\ call.doing \notin {"edit", "ask", "sign", "submit"} => call = Idle
BY DEF Call, Sponsor, Idle

----------------------------------------------------------------------------
(* The escrow under sponsorship.                                           *)

\* A charge goes through the books as a reserve of the ceiling and a commit.
LEMMA CommittedKept ==
  ASSUME IInv, SponsorTyped, NEW c \in Campaigns, NEW k \in Keys, NEW cost \in Costs,
         NEW how \in {"ok", "reverted"}, LandCommitted(c, k, cost, how)
  PROVE  IInv'
<1> DEFINE was  == reservations[c][k]
           paid == Charged(cost)
           max  == ops[c][k].max
           r    == [was EXCEPT !.amount = max, !.committed = paid, !.state = "Committed"]
           rec  == [campaigns[c] EXCEPT !.spent = campaigns[c].spent + paid]
<1>1. /\ campaigns[c] \in Campaign /\ was \in Reservation /\ KeyOK(was)
      /\ campaigns[c].funded \in Nat /\ campaigns[c].spentWithdrawn \in Nat
      /\ campaigns[c].reserved \in Nat /\ campaigns[c].spent \in Nat
      /\ campaigns[c].spentWithdrawn <= campaigns[c].spent
      /\ balance \in Nat /\ reclaimedEarly \in Nat
  BY CampaignFacts, KeyFacts
<1>2. /\ campaigns' = [campaigns EXCEPT ![c] = rec]
      /\ reservations' = [reservations EXCEPT ![c] = [reservations[c] EXCEPT ![k] = r]]
      /\ balance' = balance /\ reclaimedEarly' = reclaimedEarly /\ now' = now
      /\ campaigns[c].exists /\ ~campaigns[c].closed /\ was.state = "None"
      /\ max <= campaigns[c].funded - campaigns[c].spent - campaigns[c].reserved /\ paid <= max
  BY DEF LandCommitted, MayLand, SetCampaign, SetReservation, unused
<1>3. max \in Nat /\ paid \in Nat
  BY OpFacts, ChargedNat, SponsorNumbers
<1>4. HeldBy(was) = 0 /\ was.committed = 0
  BY <1>1, <1>2 DEF HeldBy, Standing, KeyOK, NoReservation
<1>5. was = reservations[c][k]
  OBVIOUS
<1> HIDE DEF max, paid, was
<1>6. /\ r \in Reservation /\ r.state = "Committed" /\ r.committed = paid /\ r.amount = max
      /\ rec \in Campaign /\ rec.exists = campaigns[c].exists /\ rec.closed = campaigns[c].closed
      /\ rec.funded = campaigns[c].funded /\ rec.reserved = campaigns[c].reserved
      /\ rec.spent = campaigns[c].spent + paid
      /\ rec.spentWithdrawn = campaigns[c].spentWithdrawn
  <2>1. campaigns[c].spent + paid \in Nat
    BY <1>1, <1>3
  <2> QED BY <1>1, <1>3, <2>1 DEF Campaign, Reservation, ReservationStates
<1> HIDE DEF r, rec
<1>7. HeldBy(r) = 0 /\ KeyOK(r)
  BY <1>2, <1>3, <1>6 DEF KeyOK, HeldBy, Standing
<1>8. EntitledBy(rec) = EntitledBy(campaigns[c])
  BY <1>2, <1>6 DEF EntitledBy
<1>9. /\ rec.reserved = campaigns[c].reserved - HeldBy(was) + HeldBy(r)
      /\ rec.spent = campaigns[c].spent - was.committed + r.committed
      /\ rec.spent + rec.reserved <= rec.funded /\ rec.spentWithdrawn <= rec.spent
  BY <1>1, <1>2, <1>3, <1>4, <1>6, <1>7
<1>10. EntitledBy(campaigns[c]) \in Nat
  BY CampaignFacts, EntitledNat
<1>11. /\ balance' \in Nat /\ reclaimedEarly' \in Nat
       /\ EntitledBy(rec) + balance + reclaimedEarly
            <= EntitledBy(campaigns[c]) + balance' + reclaimedEarly'
  BY <1>1, <1>2, <1>8, <1>10
<1> QED BY <1>2, <1>5, <1>6, <1>7, <1>9, <1>11, KeyStep

\* The ceiling alone is reserved when the EntryPoint undoes the rest.
LEMMA UncommittedKept ==
  ASSUME IInv, SponsorTyped, NEW c \in Campaigns, NEW k \in Keys, LandUncommitted(c, k)
  PROVE  IInv'
<1> DEFINE was == reservations[c][k]
           max == ops[c][k].max
           r   == [was EXCEPT !.amount = max, !.state = "Reserved"]
           rec == [campaigns[c] EXCEPT !.reserved = campaigns[c].reserved + max]
<1>1. /\ campaigns[c] \in Campaign /\ was \in Reservation /\ KeyOK(was)
      /\ campaigns[c].funded \in Nat /\ campaigns[c].spentWithdrawn \in Nat
      /\ campaigns[c].reserved \in Nat /\ campaigns[c].spent \in Nat
      /\ campaigns[c].spentWithdrawn <= campaigns[c].spent
      /\ balance \in Nat /\ reclaimedEarly \in Nat
  BY CampaignFacts, KeyFacts
<1>2. /\ campaigns' = [campaigns EXCEPT ![c] = rec]
      /\ reservations' = [reservations EXCEPT ![c] = [reservations[c] EXCEPT ![k] = r]]
      /\ balance' = balance /\ reclaimedEarly' = reclaimedEarly /\ now' = now
      /\ campaigns[c].exists /\ ~campaigns[c].closed /\ was.state = "None"
      /\ max <= campaigns[c].funded - campaigns[c].spent - campaigns[c].reserved
  BY DEF LandUncommitted, MayLand, SetCampaign, SetReservation, unused
<1>3. max \in Nat
  BY OpFacts
<1>4. HeldBy(was) = 0 /\ was.committed = 0
  BY <1>1, <1>2 DEF HeldBy, Standing, KeyOK, NoReservation
<1>5. was = reservations[c][k]
  OBVIOUS
<1> HIDE DEF max, was
<1>6. /\ r \in Reservation /\ r.state = "Reserved" /\ r.committed = was.committed /\ r.amount = max
      /\ rec \in Campaign /\ rec.exists = campaigns[c].exists /\ rec.closed = campaigns[c].closed
      /\ rec.funded = campaigns[c].funded /\ rec.reserved = campaigns[c].reserved + max
      /\ rec.spent = campaigns[c].spent /\ rec.spentWithdrawn = campaigns[c].spentWithdrawn
  <2>1. campaigns[c].reserved + max \in Nat
    BY <1>1, <1>3
  <2> QED BY <1>1, <1>3, <2>1 DEF Campaign, Reservation, ReservationStates
<1> HIDE DEF r, rec
<1>7. HeldBy(r) = max /\ KeyOK(r)
  BY <1>4, <1>6 DEF KeyOK, HeldBy, Standing
<1>8. EntitledBy(rec) = EntitledBy(campaigns[c])
  BY <1>2, <1>6 DEF EntitledBy
<1>9. /\ rec.reserved = campaigns[c].reserved - HeldBy(was) + HeldBy(r)
      /\ rec.spent = campaigns[c].spent - was.committed + r.committed
      /\ rec.spent + rec.reserved <= rec.funded /\ rec.spentWithdrawn <= rec.spent
  BY <1>1, <1>2, <1>3, <1>4, <1>6, <1>7
<1>10. EntitledBy(campaigns[c]) \in Nat
  BY CampaignFacts, EntitledNat
<1>11. /\ balance' \in Nat /\ reclaimedEarly' \in Nat
       /\ EntitledBy(rec) + balance + reclaimedEarly
            <= EntitledBy(campaigns[c]) + balance' + reclaimedEarly'
  BY <1>1, <1>2, <1>8, <1>10
<1> QED BY <1>2, <1>5, <1>6, <1>7, <1>9, <1>11, KeyStep

LEMMA EscrowKept ==
  ASSUME IInv, SponsorTyped, [SponsorNext]_sponsorVars
  PROVE  IInv'
<1>1. ASSUME NEW c \in Campaigns, EscrowCall(c) PROVE IInv'
  <2>1. staleKeys(c) \in SUBSET Keys
    BY DEF staleKeys
  <2> QED BY <1>1, <2>1, FundInv, RollbackInv, CloseInv DEF EscrowCall
<1>2. ASSUME NEW c \in Campaigns, ChainNext(c) PROVE IInv'
  BY <1>1, <1>2, CommittedKept, UncommittedKept DEF ChainNext
<1>3. ASSUME NEW h \in Handlers, HandlerNext(h) PROVE IInv'
  <2>1. UNCHANGED vars
    BY <1>3 DEF HandlerNext, ReadSponsor, PutSponsor, AskSponsor, CheckSponsorship, AddOp, Submit,
                SettleOp, Abandon
  <2> QED BY <2>1, TickInv
<1>4. ASSUME NEW c \in Campaigns, NEW policy \in Policies, PutNewSponsor(c, policy) PROVE IInv'
  BY <1>4, TickInv DEF PutNewSponsor
<1>5. ASSUME NEW c \in Campaigns, RegisterSponsor(c) PROVE IInv'
  BY <1>5, RegisterInv DEF RegisterSponsor
<1>6. CASE Passes
  BY <1>6, TickInv DEF Passes
<1>7. CASE UNCHANGED sponsorVars
  BY <1>7, TickInv DEF sponsorVars
<1> QED BY <1>2, <1>3, <1>4, <1>5, <1>6, <1>7 DEF SponsorNext
----------------------------------------------------------------------------
(* Records, calls and charges.                                             *)

LEMMA RecordsPrimed ==
  RecordsOK' <=>
    /\ \A c \in Campaigns : SponsorOK(sponsors'[c])
    /\ \A c \in Campaigns, k \in Keys :
         OpOK(ops'[c][k], landed'[c][k], reservations'[c][k].committed, now')
    /\ \A h \in Handlers : CallOK(calls'[h], ops', now')
BY DEF RecordsOK, SponsorOK, OpOK, CallOK

\* Time passes, and an operation once recorded stays recorded.
LEMMA Later ==
  ASSUME NEW s \in Nat, NEW t \in Nat, s <= t
  PROVE  /\ \A op \in Op, how \in Hows, paid \in Nat : OpOK(op, how, paid, s) => OpOK(op, how, paid, t)
         /\ \A call \in Call : \A o, n :
              /\ CallOK(call, o, s)
              /\ call.doing = "submit" =>
                   (o[call.c][call.k].state # "none" => n[call.c][call.k].state # "none")
              => CallOK(call, n, t)
<1>1. ASSUME NEW op \in Op, NEW how \in Hows, NEW paid \in Nat, OpOK(op, how, paid, s)
      PROVE  OpOK(op, how, paid, t)
  BY <1>1 DEF OpOK, Op
<1>2. ASSUME NEW call \in Call, NEW o, NEW n, CallOK(call, o, s),
             call.doing = "submit" =>
               (o[call.c][call.k].state # "none" => n[call.c][call.k].state # "none")
      PROVE  CallOK(call, n, t)
  <2>1. call.doing \in {"ask", "sign"} => call.at <= t
    BY <1>2, CallFacts DEF CallOK
  <2> QED BY <1>2, <2>1 DEF CallOK
<1> QED BY <1>1, <1>2

LEMMA StateFacts ==
  ASSUME IInv, SponsorTyped, RecordsOK
  PROVE  /\ now \in Nat /\ reservations \in [Campaigns -> [Keys -> Reservation]]
         /\ \A c \in Campaigns, k \in Keys :
              /\ ops[c][k] \in Op /\ landed[c][k] \in Hows /\ reservations[c][k].committed \in Nat
              /\ OpOK(ops[c][k], landed[c][k], reservations[c][k].committed, now)
         /\ \A h \in Handlers : calls[h] \in Call /\ CallOK(calls[h], ops, now)
<1>1. now \in Nat /\ reservations \in [Campaigns -> [Keys -> Reservation]]
  BY BooksIffInv
<1>2. \A c \in Campaigns, k \in Keys : reservations[c][k].committed \in Nat
  BY KeyFacts
<1> QED BY <1>1, <1>2 DEF SponsorTyped, RecordsOK

\* The escrow's own calls, and the clock, charge no key.
Beside == /\ \A c \in Campaigns, k \in Keys :
                reservations'[c][k].committed = reservations[c][k].committed
          /\ now <= now' /\ now' \in Nat
          /\ UNCHANGED <<ops, landed, calls>>

LEMMA EscrowCharges ==
  ASSUME IInv, NEW c \in Campaigns, RegisterSponsor(c) \/ EscrowCall(c) \/ Passes
  PROVE  Beside /\ sponsors' = sponsors
<1>0. now \in Nat /\ reservations \in [Campaigns -> [Keys -> Reservation]]
  BY BooksIffInv
<1>1. UNCHANGED <<sponsors, ops, landed, calls>>
  BY DEF RegisterSponsor, EscrowCall, Passes
<1>2. now <= now' /\ now' \in Nat
  <2>1. RegisterSponsor(c) => now' = now
    BY DEF RegisterSponsor, RegisterCampaign
  <2>2. EscrowCall(c) => now' = now
    BY DEF EscrowCall, Fund, Rollback, Close
  <2>3. Passes => now' = now + 1
    BY DEF Passes, Tick
  <2> QED BY <1>0, <2>1, <2>2, <2>3
<1>3. CASE reservations' = reservations
  BY <1>1, <1>2, <1>3 DEF Beside
<1>4. ASSUME NEW k \in staleKeys(c), Rollback(c, k)
      PROVE  \A d \in Campaigns, j \in Keys :
               reservations'[d][j].committed = reservations[d][j].committed
  <2>1. PICK r : /\ r = [reservations[c][k] EXCEPT !.state = "RolledBack"]
                 /\ reservations' = [reservations EXCEPT ![c] = [reservations[c] EXCEPT ![k] = r]]
    BY <1>4 DEF Rollback, SetReservation
  <2>2. k \in Keys /\ reservations[c][k] \in Reservation
    BY <1>0 DEF staleKeys
  <2>3. r.committed = reservations[c][k].committed
    BY <2>1, <2>2 DEF Reservation
  <2> QED BY <1>0, <2>1, <2>2, <2>3
<1>5. ASSUME NEW openKeys, Close(c, openKeys)
      PROVE  \A d \in Campaigns, j \in Keys :
               reservations'[d][j].committed = reservations[d][j].committed
  <2>1. PICK res : /\ res = [k \in Keys |-> IF k \in Releasable(c, openKeys)
                                            THEN [reservations[c][k] EXCEPT !.state = "RolledBack"]
                                            ELSE reservations[c][k]]
                   /\ reservations' = [reservations EXCEPT ![c] = res]
    BY <1>5 DEF Close
  <2>2. \A k \in Keys : res[k].committed = reservations[c][k].committed
    BY <1>0, <2>1 DEF Reservation
  <2> QED BY <1>0, <2>1, <2>2
<1>6. reservations' = reservations \/ (\E k \in staleKeys(c) : Rollback(c, k))
        \/ Close(c, staleKeys(c))
  BY DEF RegisterSponsor, RegisterCampaign, EscrowCall, Fund, Passes, Tick
<1> QED BY <1>1, <1>2, <1>3, <1>4, <1>5, <1>6 DEF Beside

\* What leaves operations and calls alone keeps the records and the ledgers.
LEMMA RecordsBeside ==
  ASSUME IInv, SponsorTyped, RecordsOK, Beside, \A c \in Campaigns : SponsorOK(sponsors'[c])
  PROVE  RecordsOK'
<1>1. ASSUME NEW c \in Campaigns, NEW k \in Keys
      PROVE  OpOK(ops'[c][k], landed'[c][k], reservations'[c][k].committed, now')
  BY StateFacts, Later DEF Beside
<1>2. ASSUME NEW h \in Handlers PROVE CallOK(calls'[h], ops', now')
  BY StateFacts, Later DEF Beside
<1> QED BY <1>1, <1>2, RecordsPrimed
\* A call goes on with what agrees with the records.
LEMMA CallStep ==
  ASSUME IInv, SponsorTyped, RecordsOK, NEW h \in Handlers, NEW call \in Call,
         Runs(h, call), CallOK(call, ops, now), UNCHANGED <<vars, ops, landed>>,
         sponsors' \in [Campaigns -> Sponsor], \A c \in Campaigns : SponsorOK(sponsors'[c])
  PROVE  SponsorTyped' /\ RecordsOK'
<1>1. /\ calls \in [Handlers -> Call] /\ calls' = [calls EXCEPT ![h] = call]
      /\ UNCHANGED <<ops, landed, reservations, now>>
  BY DEF SponsorTyped, Runs, vars
<1>2. SponsorTyped'
  BY <1>1 DEF SponsorTyped
<1>3. \A g \in Handlers : CallOK(calls'[g], ops, now)
  BY <1>1, StateFacts
<1>4. \A c \in Campaigns, k \in Keys :
        OpOK(ops[c][k], landed[c][k], reservations[c][k].committed, now)
  BY StateFacts
<1>5. RecordsOK'
  BY <1>1, <1>3, <1>4, RecordsPrimed
<1> QED BY <1>2, <1>5

\* A call ends with a record of an operation written.
LEMMA OpStep ==
  ASSUME IInv, SponsorTyped, RecordsOK, NEW h \in Handlers, NEW c \in Campaigns, NEW k \in Keys,
         NEW op \in Op, SetOp(c, k, op), Ends(h), UNCHANGED <<vars, sponsors, landed>>,
         op.state # "none", OpOK(op, landed[c][k], reservations[c][k].committed, now)
  PROVE  SponsorTyped' /\ RecordsOK'
<1>1. /\ calls \in [Handlers -> Call] /\ calls' = [calls EXCEPT ![h] = Idle]
      /\ ops \in [Campaigns -> [Keys -> Op]]
      /\ ops' = [ops EXCEPT ![c] = [ops[c] EXCEPT ![k] = op]]
      /\ UNCHANGED <<sponsors, landed, reservations, now>>
  BY DEF SponsorTyped, Runs, Ends, SetOp, vars
<1>2. Idle \in Call /\ Idle.doing = "nothing"
  BY DEF Call, Idle
<1>3. /\ ops' \in [Campaigns -> [Keys -> Op]] /\ ops'[c][k] = op
      /\ \A d \in Campaigns, j \in Keys : ~(d = c /\ j = k) => ops'[d][j] = ops[d][j]
  BY <1>1
<1>4. SponsorTyped'
  BY <1>1, <1>2, <1>3 DEF SponsorTyped
<1>5. ASSUME NEW d \in Campaigns, NEW j \in Keys
      PROVE  OpOK(ops'[d][j], landed'[d][j], reservations'[d][j].committed, now')
  BY <1>1, <1>3, StateFacts
<1>6. ASSUME NEW g \in Handlers PROVE CallOK(calls'[g], ops', now')
  <2>1. CASE g = h
    BY <1>1, <1>2, <2>1 DEF CallOK
  <2>2. CASE g # h
    <3>1. calls'[g] = calls[g] /\ calls[g] \in Call /\ CallOK(calls[g], ops, now) /\ now \in Nat
      BY <1>1, <2>2, StateFacts
    <3>2. calls[g].doing = "submit" =>
            (ops[calls[g].c][calls[g].k].state # "none" => ops'[calls[g].c][calls[g].k].state # "none")
      BY <1>3, <3>1, CallFacts
    <3>3. CallOK(calls[g], ops', now)
      BY <3>1, <3>2 DEF CallOK
    <3> QED BY <1>1, <3>1, <3>3
  <2> QED BY <2>1, <2>2
<1>7. \A d \in Campaigns : SponsorOK(sponsors'[d])
  BY <1>1 DEF RecordsOK
<1>8. RecordsOK'
  BY <1>5, <1>6, <1>7, RecordsPrimed
<1> QED BY <1>4, <1>8

\* The charge of a key moves only as an operation of the service's lands.
ChargeSigned ==
  \A c \in Campaigns, k \in Keys :
    reservations'[c][k].committed # reservations[c][k].committed =>
      /\ ops[c][k].state # "none" /\ now <= ops[c][k].validUntil
      /\ reservations'[c][k].committed <= ops[c][k].max

\* An operation lands, and its key is charged no more than its ceiling.
LEMMA LandStep ==
  ASSUME IInv, SponsorTyped, RecordsOK, NEW c \in Campaigns, NEW k \in Keys, MayLand(c, k),
         NEW how \in {"ok", "reverted"}, Land(c, k, how), UNCHANGED <<sponsors, ops, calls, now>>,
         NEW r \in Reservation, SetReservation(c, k, r), r.committed <= ops[c][k].max
  PROVE  SponsorTyped' /\ RecordsOK' /\ ChargeSigned
<1>1. /\ landed \in [Campaigns -> [Keys -> Hows]]
      /\ landed' = [landed EXCEPT ![c] = [landed[c] EXCEPT ![k] = how]]
      /\ reservations \in [Campaigns -> [Keys -> Reservation]]
      /\ reservations' = [reservations EXCEPT ![c] = [reservations[c] EXCEPT ![k] = r]]
      /\ landed[c][k] = "no" /\ ops[c][k].state # "none" /\ now <= ops[c][k].validUntil
  BY StateFacts DEF SponsorTyped, Land, SetReservation, MayLand
<1>2. /\ landed' \in [Campaigns -> [Keys -> Hows]] /\ landed'[c][k] = how
      /\ reservations'[c][k] = r
      /\ \A d \in Campaigns, j \in Keys : ~(d = c /\ j = k) =>
           landed'[d][j] = landed[d][j] /\ reservations'[d][j] = reservations[d][j]
  BY <1>1 DEF Hows
<1>3. SponsorTyped'
  BY <1>2 DEF SponsorTyped
<1>4. OpOK(ops[c][k], how, r.committed, now)
  <2>1. PICK op \in Op : op = ops[c][k] /\ OpOK(op, landed[c][k], reservations[c][k].committed, now)
    BY StateFacts
  <2> QED BY <1>1, <2>1 DEF OpOK
<1>5. ASSUME NEW d \in Campaigns, NEW j \in Keys
      PROVE  OpOK(ops'[d][j], landed'[d][j], reservations'[d][j].committed, now')
  BY <1>2, <1>4, StateFacts
<1>6. /\ \A d \in Campaigns : SponsorOK(sponsors'[d])
      /\ \A h \in Handlers : CallOK(calls'[h], ops', now')
  BY DEF RecordsOK
<1>7. RecordsOK'
  BY <1>5, <1>6, RecordsPrimed
<1>8. ASSUME NEW d \in Campaigns, NEW j \in Keys,
             reservations'[d][j].committed # reservations[d][j].committed
      PROVE  d = c /\ j = k
  BY <1>2, <1>8
<1> QED BY <1>1, <1>2, <1>3, <1>7, <1>8 DEF ChargeSigned
\* What a handler does with the records, one step at a time.
LEMMA HandlerRecords ==
  ASSUME IInv, SponsorTyped, RecordsOK, NEW h \in Handlers, HandlerNext(h)
  PROVE  SponsorTyped' /\ RecordsOK'
<1>1. /\ calls[h] \in Call /\ CallOK(calls[h], ops, now) /\ now \in Nat
      /\ sponsors \in [Campaigns -> Sponsor] /\ \A c \in Campaigns : SponsorOK(sponsors[c])
  BY StateFacts DEF SponsorTyped, RecordsOK
<1>2. Idle \in Call /\ CallOK(Idle, ops, now)
  BY DEF Call, Idle, CallOK
<1>3. ASSUME NEW c \in Campaigns, ReadSponsor(h, c) PROVE SponsorTyped' /\ RecordsOK'
  <2>1. PICK call : call = [doing |-> "edit", c |-> c, record |-> sponsors[c]]
    OBVIOUS
  <2>2. Runs(h, call) /\ sponsors[c].known /\ UNCHANGED <<vars, sponsors, ops, landed>>
    BY <1>3, <2>1 DEF ReadSponsor
  <2>3. call \in Call
    BY <1>1, <2>1 DEF Call, Sponsor
  <2>4. CallOK(call, ops, now)
    BY <1>1, <2>1, <2>2 DEF CallOK
  <2> QED BY <1>1, <2>2, <2>3, <2>4, CallStep
<1>4. ASSUME PutSponsor(h) PROVE SponsorTyped' /\ RecordsOK'
  <2>1. PICK record \in Edited(calls[h].record) : sponsors' = [sponsors EXCEPT ![calls[h].c] = record]
    BY <1>4 DEF PutSponsor
  <2>2. /\ calls[h].record \in Sponsor /\ calls[h].record.known /\ calls[h].c \in Campaigns
        /\ calls[h].record.policy \in Policies
    BY <1>1, <1>4, CallFacts DEF PutSponsor, CallOK, SponsorOK
  <2>3. \A p \in Policies : p \in Ceilings
    BY SponsorNumbers
  <2>4. record \in Sponsor /\ record.policy \in Policies
    BY <2>2, <2>3 DEF Edited, Sponsor
  <2>5. sponsors' \in [Campaigns -> Sponsor] /\ \A c \in Campaigns : SponsorOK(sponsors'[c])
    BY <1>1, <2>1, <2>2, <2>4 DEF SponsorOK
  <2>6. Runs(h, Idle) /\ UNCHANGED <<vars, ops, landed>>
    BY <1>4 DEF PutSponsor, Ends
  <2> QED BY <1>2, <2>5, <2>6, CallStep
<1>5. ASSUME NEW c \in Campaigns, NEW k \in Keys, NEW prefund \in Prefunds,
             AskSponsor(h, c, k, prefund)
      PROVE  SponsorTyped' /\ RecordsOK'
  <2>1. PICK call : call = [doing |-> "ask", c |-> c, k |-> k, max |-> Charged(prefund),
                            policy |-> sponsors[c].policy, at |-> now]
    OBVIOUS
  <2>2. Runs(h, call) /\ sponsors[c].known /\ UNCHANGED <<vars, sponsors, ops, landed>>
    BY <1>5, <2>1 DEF AskSponsor
  <2>3. Charged(prefund) \in Nat /\ sponsors[c].policy \in Ceilings
    BY <1>1, ChargedNat, SponsorNumbers DEF Sponsor
  <2>4. call \in Call
    BY <1>1, <2>1, <2>3 DEF Call
  <2>5. CallOK(call, ops, now)
    BY <1>1, <2>1, <2>2 DEF CallOK, SponsorOK
  <2> QED BY <1>1, <2>2, <2>4, <2>5, CallStep
<1>6. ASSUME CheckSponsorship(h) PROVE SponsorTyped' /\ RecordsOK'
  <2>1. PICK call : call = [calls[h] EXCEPT !.doing = "sign"]
    OBVIOUS
  <2>2. PICK was \in Call : was = calls[h]
    BY <1>1
  <2>3. /\ Runs(h, call) /\ was.doing = "ask" /\ was.max <= was.policy.op
        /\ UNCHANGED <<vars, sponsors, ops, landed>>
    BY <1>6, <2>1, <2>2 DEF CheckSponsorship, PolicyAllows
  <2>4. was \in [doing : {"ask", "sign"}, c : Campaigns, k : Keys, max : Nat, policy : Ceilings, at : Nat]
    BY <2>3 DEF Call, Idle
  <2>5. /\ call \in Call /\ call.doing = "sign" /\ call.max = was.max /\ call.policy = was.policy
        /\ call.at = was.at
    BY <2>1, <2>2, <2>4 DEF Call
  <2>6. CallOK(call, ops, now)
    BY <1>1, <2>2, <2>3, <2>5 DEF CallOK
  <2> QED BY <1>1, <2>3, <2>5, <2>6, CallStep
<1>7. ASSUME AddOp(h) PROVE SponsorTyped' /\ RecordsOK'
  <2>1. PICK call \in Call : call = calls[h]
    BY <1>1
  <2>2. PICK op : op = [NoOp EXCEPT !.state = "signed", !.max = call.max, !.signedAt = call.at,
                                    !.validUntil = call.at + VALIDITY]
    OBVIOUS
  <2>3. /\ call.doing = "sign" /\ ops[call.c][call.k].state = "none"
        /\ SetOp(call.c, call.k, op) /\ Ends(h) /\ UNCHANGED <<vars, sponsors, landed>>
    BY <1>7, <2>1, <2>2 DEF AddOp
  <2>4. /\ call.c \in Campaigns /\ call.k \in Keys /\ call.max \in Nat /\ call.at \in Nat
        /\ call.at <= now
    BY <1>1, <2>1, <2>3, CallFacts DEF CallOK
  <2>5. /\ op \in Op /\ op.state = "signed" /\ op.max = call.max /\ op.signedAt = call.at
    <3>1. call.at + VALIDITY \in Nat
      BY <2>4, SponsorNumbers
    <3> QED BY <2>2, <2>4, <3>1 DEF Op, NoOp
  <2>6. OpOK(op, landed[call.c][call.k], reservations[call.c][call.k].committed, now)
    <3>1. OpOK(ops[call.c][call.k], landed[call.c][call.k], reservations[call.c][call.k].committed, now)
      BY <2>4, StateFacts
    <3> QED BY <2>3, <2>4, <2>5, <3>1 DEF OpOK
  <2> QED BY <2>3, <2>4, <2>5, <2>6, OpStep
<1>8. ASSUME NEW c \in Campaigns, NEW k \in Keys, Submit(h, c, k) PROVE SponsorTyped' /\ RecordsOK'
  <2>1. PICK call : call = [doing |-> "submit", c |-> c, k |-> k]
    OBVIOUS
  <2>2. /\ Runs(h, call) /\ ops[c][k].state = "signed" /\ UNCHANGED <<vars, sponsors, ops, landed>>
    BY <1>8, <2>1 DEF Submit
  <2>3. call \in Call /\ CallOK(call, ops, now)
    BY <2>1, <2>2 DEF Call, CallOK
  <2> QED BY <1>1, <2>2, <2>3, CallStep
<1>9. ASSUME SettleOp(h) PROVE SponsorTyped' /\ RecordsOK'
  <2>1. PICK c \in Campaigns, k \in Keys : c = calls[h].c /\ k = calls[h].k
    BY <1>1, <1>9, CallFacts DEF SettleOp
  <2>2. PICK was \in Op, how \in Hows, paid \in Nat :
          /\ was = ops[c][k] /\ how = landed[c][k] /\ paid = reservations[c][k].committed
          /\ OpOK(was, how, paid, now)
    BY StateFacts
  <2>3. PICK op : op = [was EXCEPT !.state = "landed", !.landedAt = now, !.ok = how = "ok", !.charged = paid]
    OBVIOUS
  <2>4. /\ SetOp(c, k, op) /\ Ends(h) /\ UNCHANGED <<vars, sponsors, landed>> /\ how # "no"
        /\ calls[h].doing = "submit"
    BY <1>9, <2>1, <2>2, <2>3 DEF SettleOp, committedOf
  <2>5. /\ op \in Op /\ op.state = "landed" /\ op.landedAt = now /\ op.signedAt = was.signedAt
        /\ (op.ok <=> how = "ok") /\ op.charged = paid /\ op.max = was.max
    BY <1>1, <2>2, <2>3 DEF Op
  <2>6. OpOK(op, how, paid, now)
    BY <1>1, <2>2, <2>4, <2>5 DEF OpOK
  <2> QED BY <2>2, <2>4, <2>5, <2>6, OpStep
<1>10. ASSUME Abandon(h) PROVE SponsorTyped' /\ RecordsOK'
  BY <1>1, <1>2, <1>10, CallStep DEF Abandon, Ends
<1> QED BY <1>3, <1>4, <1>5, <1>6, <1>7, <1>8, <1>9, <1>10 DEF HandlerNext
\* A new sponsor's record goes by one of the policies.
LEMMA NewSponsorRecords ==
  ASSUME IInv, SponsorTyped, RecordsOK, NEW c \in Campaigns, NEW policy \in Policies,
         PutNewSponsor(c, policy)
  PROVE  SponsorTyped' /\ RecordsOK' /\ Beside
<1>1. PICK sponsor : /\ sponsor = [NoSponsor EXCEPT !.known = TRUE, !.policy = policy]
                     /\ sponsors' = [sponsors EXCEPT ![c] = sponsor]
  BY DEF PutNewSponsor
<1>2. policy \in Ceilings
  BY SponsorNumbers
<1>3. sponsor \in Sponsor /\ SponsorOK(sponsor)
  BY <1>1, <1>2 DEF Sponsor, NoSponsor, SponsorOK
<1>4. UNCHANGED <<reservations, now, ops, landed, calls>> /\ now \in Nat
  BY StateFacts DEF PutNewSponsor, vars
<1>5. /\ sponsors' \in [Campaigns -> Sponsor] /\ \A d \in Campaigns : SponsorOK(sponsors'[d])
  BY <1>1, <1>3 DEF SponsorTyped, RecordsOK
<1>6. Beside
  BY <1>4 DEF Beside
<1> QED BY <1>4, <1>5, <1>6, RecordsBeside DEF SponsorTyped

\* Landing, committed or not.
LEMMA LandRecords ==
  ASSUME IInv, SponsorTyped, RecordsOK, NEW c \in Campaigns, NEW k \in Keys,
         \/ \E cost \in Costs, how \in {"ok", "reverted"} : LandCommitted(c, k, cost, how)
         \/ LandUncommitted(c, k)
  PROVE  SponsorTyped' /\ RecordsOK' /\ ChargeSigned /\ UNCHANGED <<ops, calls, now>>
<1>1. PICK was \in Reservation : was = reservations[c][k]
  BY StateFacts
<1>2. PICK max \in Nat : max = ops[c][k].max
  BY OpFacts
<1>3. ASSUME NEW cost \in Costs, NEW how \in {"ok", "reverted"}, LandCommitted(c, k, cost, how)
      PROVE  \E h \in {"ok", "reverted"}, r \in Reservation :
               /\ Land(c, k, h) /\ SetReservation(c, k, r) /\ r.committed <= ops[c][k].max
               /\ MayLand(c, k) /\ UNCHANGED <<sponsors, ops, calls, now>>
  <2>1. PICK paid \in Nat : paid = Charged(cost)
    BY ChargedNat, SponsorNumbers
  <2>2. PICK r : r = [was EXCEPT !.amount = max, !.committed = paid, !.state = "Committed"]
    OBVIOUS
  <2>3. r \in Reservation /\ r.committed = paid
    BY <2>2 DEF Reservation, ReservationStates
  <2>4. /\ SetReservation(c, k, r) /\ paid <= max
        /\ Land(c, k, how) /\ MayLand(c, k) /\ UNCHANGED <<sponsors, ops, calls, now>>
    BY <1>1, <1>2, <1>3, <2>1, <2>2 DEF LandCommitted
  <2> QED BY <1>2, <2>3, <2>4
<1>4. ASSUME LandUncommitted(c, k)
      PROVE  \E h \in {"ok", "reverted"}, r \in Reservation :
               /\ Land(c, k, h) /\ SetReservation(c, k, r) /\ r.committed <= ops[c][k].max
               /\ MayLand(c, k) /\ UNCHANGED <<sponsors, ops, calls, now>>
  <2>1. PICK r : r = [was EXCEPT !.amount = max, !.state = "Reserved"]
    OBVIOUS
  <2>2. r \in Reservation /\ r.committed = was.committed
    BY <2>1 DEF Reservation, ReservationStates
  <2>3. was.committed <= max
    BY <1>1, <1>2, StateFacts DEF OpOK
  <2>4. /\ SetReservation(c, k, r) /\ Land(c, k, "reverted") /\ MayLand(c, k)
        /\ UNCHANGED <<sponsors, ops, calls, now>>
    BY <1>1, <1>2, <1>4, <2>1 DEF LandUncommitted
  <2> QED BY <1>2, <2>2, <2>3, <2>4
<1>5. PICK h \in {"ok", "reverted"}, r \in Reservation :
        /\ Land(c, k, h) /\ SetReservation(c, k, r) /\ r.committed <= ops[c][k].max
        /\ MayLand(c, k) /\ UNCHANGED <<sponsors, ops, calls, now>>
  BY <1>3, <1>4
<1> QED BY <1>5, LandStep

LEMMA StepRecords ==
  ASSUME IInv, SponsorTyped, RecordsOK, [SponsorNext]_sponsorVars
  PROVE  SponsorTyped' /\ RecordsOK' /\ ChargeSigned
<1>1. ASSUME NEW h \in Handlers, HandlerNext(h) PROVE SponsorTyped' /\ RecordsOK' /\ ChargeSigned
  <2>1. UNCHANGED vars
    BY <1>1 DEF HandlerNext, ReadSponsor, PutSponsor, AskSponsor, CheckSponsorship, AddOp, Submit,
                SettleOp, Abandon
  <2> QED BY <1>1, <2>1, HandlerRecords DEF ChargeSigned, vars
<1>2. ASSUME NEW c \in Campaigns, RegisterSponsor(c) \/ EscrowCall(c) \/ Passes
      PROVE  SponsorTyped' /\ RecordsOK' /\ ChargeSigned
  <2>1. Beside /\ sponsors' = sponsors
    BY <1>2, EscrowCharges
  <2>2. \A d \in Campaigns : SponsorOK(sponsors'[d])
    BY <2>1 DEF RecordsOK
  <2>3. SponsorTyped'
    BY <2>1 DEF SponsorTyped, Beside
  <2> QED BY <2>1, <2>2, <2>3, RecordsBeside DEF ChargeSigned, Beside
<1>3. ASSUME NEW c \in Campaigns, NEW policy \in Policies, PutNewSponsor(c, policy)
      PROVE  SponsorTyped' /\ RecordsOK' /\ ChargeSigned
  BY <1>3, NewSponsorRecords DEF ChargeSigned, Beside
<1>4. ASSUME NEW c \in Campaigns, ChainNext(c) PROVE SponsorTyped' /\ RecordsOK' /\ ChargeSigned
  <2>1. CASE EscrowCall(c)
    BY <1>2, <2>1
  <2>2. ASSUME NEW k \in Keys,
               \/ \E cost \in Costs, how \in {"ok", "reverted"} : LandCommitted(c, k, cost, how)
               \/ LandUncommitted(c, k)
        PROVE  SponsorTyped' /\ RecordsOK' /\ ChargeSigned
    BY <2>2, LandRecords
  <2> QED BY <1>4, <2>1, <2>2 DEF ChainNext
<1>5. CASE Passes
  <2>1. Passes => UNCHANGED <<reservations, sponsors, ops, landed, calls>> /\ now <= now' /\ now' \in Nat
    BY StateFacts DEF Passes, Tick
  <2>2. Beside
    BY <1>5, <2>1 DEF Beside
  <2>3. \A d \in Campaigns : SponsorOK(sponsors'[d])
    BY <1>5, <2>1 DEF RecordsOK
  <2>4. SponsorTyped'
    BY <1>5, <2>1 DEF SponsorTyped
  <2> QED BY <2>2, <2>3, <2>4, RecordsBeside DEF ChargeSigned, Beside
<1>6. CASE UNCHANGED sponsorVars
  <2>1. UNCHANGED <<reservations, now, sponsors, ops, landed, calls>>
    BY <1>6 DEF sponsorVars, vars
  <2>2. SponsorTyped' /\ RecordsOK'
    BY <2>1, RecordsPrimed DEF SponsorTyped, RecordsOK
  <2> QED BY <2>1, <2>2 DEF ChargeSigned
<1> QED BY <1>1, <1>2, <1>3, <1>4, <1>5, <1>6 DEF SponsorNext
----------------------------------------------------------------------------
(* A day's ledger.                                                         *)

LEMMA LedgersPrimed ==
  LedgersOK' <=>
    \A c \in Campaigns, d \in Nat, top \in HighestCeilings :
      /\ \A u \in Users : Ledger(ops'[c], calls', c, d, {u}) <= top.user + over(top)
      /\ Ledger(ops'[c], calls', c, d, Users) <= top.sponsor + over(top)
BY DEF LedgersOK, Ledger, RecordedIn, CheckedIn, recordedFor, checkedFor, Total, Units, CountedOn

LEMMA ShareTypes ==
  ASSUME NEW d \in Nat, NEW users, NEW c
  PROVE  /\ \A op \in Op, k \in Keys :
              /\ CountedOn(op, d) \in Nat /\ recordedFor(op, k, d, users) \in Nat
              /\ recordedFor(op, k, d, users) <= CountedOn(op, d)
         /\ \A call \in Call : checkedFor(call, c, d, users) \in Nat
<1>1. \A op \in Op : CountedOn(op, d) \in Nat
  BY DEF CountedOn, Op
<1>2. \A call \in Call : checkedFor(call, c, d, users) \in Nat
  BY CallFacts DEF checkedFor
<1> QED BY <1>1, <1>2 DEF recordedFor

LEMMA HandlersFinite == IsFiniteSet(Handlers)
BY SponsorKeys

LEMMA RecordedTypes ==
  ASSUME NEW d \in Nat, NEW users, NEW o \in [Keys -> Op]
  PROVE  /\ RecordedIn(o, d, users) \in [Keys -> Nat]
         /\ \A k \in Keys : /\ RecordedIn(o, d, users)[k] = recordedFor(o[k], k, d, users)
                            /\ recordedFor(o[k], k, d, users) \in Nat
         /\ Total(RecordedIn(o, d, users)) \in Nat
<1>1. \A k \in Keys : recordedFor(o[k], k, d, users) \in Nat
  BY ShareTypes
<1> QED BY <1>1, EscrowFinite, TotalType DEF RecordedIn

LEMMA CheckedTypes ==
  ASSUME NEW d \in Nat, NEW users, NEW c, NEW running \in [Handlers -> Call]
  PROVE  /\ CheckedIn(running, c, d, users) \in [Handlers -> Nat]
         /\ \A h \in Handlers :
              /\ CheckedIn(running, c, d, users)[h] = checkedFor(running[h], c, d, users)
              /\ checkedFor(running[h], c, d, users) \in Nat
         /\ Total(CheckedIn(running, c, d, users)) \in Nat
<1>1. \A h \in Handlers : checkedFor(running[h], c, d, users) \in Nat
  BY ShareTypes
<1> QED BY <1>1, HandlersFinite, TotalType DEF CheckedIn

\* What raises no share raises no ledger.
LEMMA LedgerFalls ==
  ASSUME NEW d \in Nat, NEW users, NEW c,
         NEW o \in [Keys -> Op], NEW n \in [Keys -> Op],
         NEW running \in [Handlers -> Call], NEW next \in [Handlers -> Call],
         \A k \in Keys : recordedFor(n[k], k, d, users) <= recordedFor(o[k], k, d, users),
         \A h \in Handlers : checkedFor(next[h], c, d, users) <= checkedFor(running[h], c, d, users)
  PROVE  Ledger(n, next, c, d, users) <= Ledger(o, running, c, d, users)
<1>1. Total(RecordedIn(n, d, users)) <= Total(RecordedIn(o, d, users))
  BY RecordedTypes, EscrowFinite, TotalMonotone
<1>2. Total(CheckedIn(next, c, d, users)) <= Total(CheckedIn(running, c, d, users))
  BY CheckedTypes, HandlersFinite, TotalMonotone
<1> QED BY <1>1, <1>2, RecordedTypes, CheckedTypes DEF Ledger

\* Recording what was checked moves it from one side to the other.
LEMMA LedgerMoves ==
  ASSUME NEW d \in Nat, NEW users, NEW c, NEW k \in Keys, NEW h \in Handlers,
         NEW o \in [Keys -> Op], NEW n \in [Keys -> Op],
         NEW running \in [Handlers -> Call], NEW next \in [Handlers -> Call],
         \A j \in Keys : j # k => n[j] = o[j], \A g \in Handlers : g # h => next[g] = running[g],
         recordedFor(o[k], k, d, users) = 0, checkedFor(next[h], c, d, users) = 0,
         recordedFor(n[k], k, d, users) = checkedFor(running[h], c, d, users)
  PROVE  Ledger(n, next, c, d, users) = Ledger(o, running, c, d, users)
<1>1. Total(RecordedIn(n, d, users)) = Total(RecordedIn(o, d, users)) - 0 + RecordedIn(n, d, users)[k]
  <2>1. \A j \in Keys : j # k => RecordedIn(n, d, users)[j] = RecordedIn(o, d, users)[j]
    BY RecordedTypes
  <2>2. RecordedIn(o, d, users)[k] = 0
    BY RecordedTypes
  <2> QED BY <2>1, <2>2, RecordedTypes, EscrowFinite, TotalUpdate
<1>2. Total(CheckedIn(next, c, d, users))
        = Total(CheckedIn(running, c, d, users)) - CheckedIn(running, c, d, users)[h] + 0
  <2>1. \A g \in Handlers : g # h => CheckedIn(next, c, d, users)[g] = CheckedIn(running, c, d, users)[g]
    BY CheckedTypes
  <2>2. CheckedIn(next, c, d, users)[h] = 0
    BY CheckedTypes
  <2> QED BY <2>1, <2>2, CheckedTypes, HandlersFinite, TotalUpdate
<1>3. /\ RecordedIn(n, d, users)[k] = recordedFor(n[k], k, d, users)
      /\ recordedFor(n[k], k, d, users) \in Nat
      /\ Total(RecordedIn(o, d, users)) \in Nat
  BY RecordedTypes
<1>4. /\ CheckedIn(running, c, d, users)[h] = checkedFor(running[h], c, d, users)
      /\ Total(CheckedIn(running, c, d, users)) \in Nat
  BY CheckedTypes
<1> QED BY <1>1, <1>2, <1>3, <1>4 DEF Ledger

\* A check that finds room for its own leaves at most the cap, and a ceiling for each
\* of the others.
LEMMA LedgerChecked ==
  ASSUME NEW d \in Nat, NEW users, NEW c, NEW h \in Handlers, NEW top \in HighestCeilings,
         NEW cap \in Nat, NEW o \in [Keys -> Op],
         NEW running \in [Handlers -> Call], NEW next \in [Handlers -> Call],
         \A g \in Handlers : g # h => next[g] = running[g],
         \A g \in Handlers : checkedFor(running[g], c, d, users) <= top.op,
         checkedFor(running[h], c, d, users) = 0,
         Ledger(o, running, c, d, users) <= cap + over(top),
         checkedFor(next[h], c, d, users) # 0 =>
           Total(RecordedIn(o, d, users)) + checkedFor(next[h], c, d, users) <= cap
  PROVE  Ledger(o, next, c, d, users) <= cap + over(top)
<1> DEFINE new == CheckedIn(next, c, d, users)
<1>1. /\ new \in [Handlers -> Nat] /\ new[h] = checkedFor(next[h], c, d, users)
      /\ \A g \in Handlers : g # h => new[g] <= top.op
      /\ Total(new) \in Nat /\ Total(RecordedIn(o, d, users)) \in Nat
  BY RecordedTypes, CheckedTypes
<1>2. CASE new[h] = 0
  <2>1. \A g \in Handlers : checkedFor(next[g], c, d, users) <= checkedFor(running[g], c, d, users)
    BY <1>1, <1>2, CheckedTypes
  <2>2. \A k \in Keys : recordedFor(o[k], k, d, users) <= recordedFor(o[k], k, d, users)
    <3>1. \A k \in Keys : recordedFor(o[k], k, d, users) \in Nat
      BY RecordedTypes
    <3> QED BY <3>1
  <2>3. Ledger(o, next, c, d, users) <= Ledger(o, running, c, d, users)
    BY <2>1, <2>2, LedgerFalls
  <2>4. Ledger(o, next, c, d, users) \in Nat /\ Ledger(o, running, c, d, users) \in Nat
    BY RecordedTypes, CheckedTypes DEF Ledger
  <2> QED BY <2>3, <2>4, Tops
<1>3. CASE new[h] # 0
  <2>1. Total(new) <= new[h] + over(top)
    <3>1. top.op \in Nat
      BY Tops
    <3> HIDE DEF new
    <3> QED BY <1>1, <3>1, HandlersFinite, TotalOthers DEF over
  <2> HIDE DEF new
  <2>2. Total(RecordedIn(o, d, users)) + new[h] <= cap
    BY <1>1, <1>3
  <2>3. Total(RecordedIn(o, d, users)) + Total(new) <= cap + over(top)
    BY <1>1, <2>1, <2>2, Tops
  <2> QED BY <2>3 DEF Ledger, new
<1> QED BY <1>2, <1>3
\* A recorded operation counts for its day with no more than it did, or than its ceiling.
LEMMA SettledFalls ==
  ASSUME NEW t \in Nat, NEW d \in Nat, NEW users, NEW k \in Keys, NEW op \in Op, NEW how \in Hows,
         NEW paid \in Nat, OpOK(op, how, paid, t), op.state # "none", how # "no",
         NEW settled, settled = [op EXCEPT !.state = "landed", !.landedAt = t, !.ok = how = "ok",
                                           !.charged = paid]
  PROVE  recordedFor(settled, k, d, users) <= recordedFor(op, k, d, users)
<1>1. /\ settled.state = "landed" /\ settled.landedAt = t /\ (settled.ok <=> how = "ok")
      /\ settled.charged = paid /\ settled.signedAt = op.signedAt /\ settled \in Op
  BY DEF Op
<1>2. paid <= op.max /\ op.max \in Nat /\ op.signedAt \in Nat /\ op.landedAt \in Nat
  BY DEF OpOK, Op
<1>3. recordedFor(op, k, d, users) \in Nat /\ CountedOn(op, d) \in Nat
  BY ShareTypes
<1>4. CASE User(k) \in users /\ Day(op.signedAt) = d /\ how = "ok" /\ Day(t) = d
  <2>1. CountedOn(settled, d) = paid
    BY <1>1, <1>4 DEF CountedOn
  <2>2. CASE op.state = "signed"
    <3>1. CountedOn(op, d) = op.max
      BY <1>4, <2>2 DEF CountedOn
    <3> QED BY <1>1, <1>2, <1>4, <2>1, <3>1 DEF recordedFor
  <2>3. CASE op.state = "landed"
    <3>1. op.signedAt <= op.landedAt /\ op.landedAt <= t /\ op.ok /\ op.charged = paid
      BY <1>4, <2>3 DEF OpOK
    <3>2. Day(op.landedAt) = d
      <4>1. /\ Day(op.signedAt) <= Day(op.landedAt) /\ Day(op.landedAt) <= Day(t)
            /\ Day(op.landedAt) \in Nat
        BY <1>2, <3>1, DayFacts
      <4> QED BY <1>4, <4>1
    <3>3. CountedOn(op, d) = paid
      BY <2>3, <3>1, <3>2 DEF CountedOn
    <3> QED BY <1>1, <1>4, <2>1, <3>3 DEF recordedFor
  <2> QED BY <2>2, <2>3 DEF Op
<1>5. CASE ~(User(k) \in users /\ Day(op.signedAt) = d /\ how = "ok" /\ Day(t) = d)
  <2>1. recordedFor(settled, k, d, users) = 0
    BY <1>1, <1>5 DEF recordedFor, CountedOn
  <2> QED BY <1>3, <2>1
<1> QED BY <1>4, <1>5

\* What the ledger of a day may come to: it rises by a check alone, which finds room.
LEMMA HandlerLedger ==
  ASSUME IInv, SponsorTyped, RecordsOK, SponsorTyped', NEW h \in Handlers, HandlerNext(h),
         NEW c \in Campaigns, NEW d \in Nat, NEW users \in SUBSET Users,
         NEW top \in HighestCeilings, NEW cap \in Nat,
         Ledger(ops[c], calls, c, d, users) <= cap + over(top),
         \A call \in Call :
           call.doing = "ask" /\ User(call.k) \in users /\ call = calls[h] /\ Day(call.at) = d
             /\ PolicyAllows(call.c, call.k, call.max, call.policy, d)
             /\ call.policy \in Policies /\ call.c = c
           => Total(RecordedIn(ops[c], d, users)) + call.max <= cap
  PROVE  Ledger(ops'[c], calls', c, d, users) <= cap + over(top)
<1>1. /\ ops[c] \in [Keys -> Op] /\ ops'[c] \in [Keys -> Op]
      /\ calls \in [Handlers -> Call] /\ calls' \in [Handlers -> Call]
      /\ calls[h] \in Call /\ CallOK(calls[h], ops, now) /\ now \in Nat
  BY StateFacts DEF SponsorTyped
<1>2. /\ \A k \in Keys : recordedFor(ops[c][k], k, d, users) \in Nat
      /\ Ledger(ops[c], calls, c, d, users) \in Nat
      /\ Ledger(ops'[c], calls', c, d, users) \in Nat
      /\ over(top) \in Int
  BY <1>1, RecordedTypes, CheckedTypes, Tops DEF Ledger
<1>3. \A g \in Handlers : checkedFor(calls[g], c, d, users) \in Nat
  BY <1>1, CheckedTypes
<1>4. ASSUME UNCHANGED ops, \A g \in Handlers : g # h => calls'[g] = calls[g],
             calls'[h].doing # "sign"
      PROVE  Ledger(ops'[c], calls', c, d, users) <= cap + over(top)
  <2>1. checkedFor(calls'[h], c, d, users) = 0
    BY <1>4 DEF checkedFor
  <2>2. \A g \in Handlers : checkedFor(calls'[g], c, d, users) <= checkedFor(calls[g], c, d, users)
    BY <1>3, <1>4, <2>1
  <2>3. \A k \in Keys : recordedFor(ops'[c][k], k, d, users) <= recordedFor(ops[c][k], k, d, users)
    BY <1>2, <1>4
  <2>4. Ledger(ops'[c], calls', c, d, users) <= Ledger(ops[c], calls, c, d, users)
    BY <1>1, <2>2, <2>3, LedgerFalls
  <2> QED BY <1>2, <2>4
<1>5. Idle.doing = "nothing" /\ checkedFor(Idle, c, d, users) = 0
  BY DEF Idle, checkedFor
<1>6. CASE \/ \E e \in Campaigns : ReadSponsor(h, e)
           \/ PutSponsor(h) \/ Abandon(h)
           \/ \E e \in Campaigns, k \in Keys, prefund \in Prefunds : AskSponsor(h, e, k, prefund)
           \/ \E e \in Campaigns, k \in Keys : Submit(h, e, k)
  <2>1. PICK call : call.doing # "sign" /\ Runs(h, call) /\ ops' = ops
    BY <1>5, <1>6 DEF ReadSponsor, PutSponsor, Abandon, AskSponsor, Submit, Ends
  <2>2. calls'[h] = call /\ \A g \in Handlers : g # h => calls'[g] = calls[g]
    BY <1>1, <2>1 DEF Runs
  <2> QED BY <1>4, <2>1, <2>2
<1>7. CASE CheckSponsorship(h)
  <2>1. PICK was \in Call : was = calls[h]
    BY <1>1
  <2>2. PICK call : call = [was EXCEPT !.doing = "sign"]
    OBVIOUS
  <2>3. /\ was.doing = "ask" /\ PolicyAllows(was.c, was.k, was.max, was.policy, Day(was.at))
        /\ calls' = [calls EXCEPT ![h] = call] /\ ops' = ops
    BY <1>7, <2>1, <2>2 DEF CheckSponsorship, Runs
  <2>4. was \in [doing : {"ask", "sign"}, c : Campaigns, k : Keys, max : Nat, policy : Ceilings, at : Nat]
    BY <2>3 DEF Call, Idle
  <2>5. /\ call.doing = "sign" /\ call.max = was.max /\ call.c = was.c /\ call.k = was.k
        /\ call.at = was.at /\ was.policy \in Policies
    BY <1>1, <2>1, <2>2, <2>3, <2>4 DEF CallOK
  <2>6. calls'[h] = call /\ \A g \in Handlers : g # h => calls'[g] = calls[g]
    BY <1>1, <2>3
  <2>7. checkedFor(calls[h], c, d, users) = 0
    BY <2>1, <2>3 DEF checkedFor
  <2>8. \A g \in Handlers : checkedFor(calls[g], c, d, users) <= top.op
    <3> SUFFICES ASSUME NEW g \in Handlers PROVE checkedFor(calls[g], c, d, users) <= top.op
      OBVIOUS
    <3>1. calls[g] \in Call /\ CallOK(calls[g], ops, now)
      BY StateFacts
    <3>2. calls[g].doing = "sign" => calls[g].max <= top.op
      <4>1. \A p \in Policies : p.op \in Nat /\ p.op <= top.op
        BY SponsorNumbers, Tops DEF Ceilings
      <4> QED BY <3>1, <4>1, CallFacts, Tops DEF CallOK
    <3> QED BY <3>2, Tops DEF checkedFor
  <2>9. checkedFor(call, c, d, users) # 0 =>
          Total(RecordedIn(ops[c], d, users)) + checkedFor(call, c, d, users) <= cap
    BY <2>1, <2>3, <2>5 DEF checkedFor
  <2>10. Ledger(ops[c], calls', c, d, users) <= cap + over(top)
    BY <1>1, <2>6, <2>7, <2>8, <2>9, LedgerChecked
  <2> QED BY <2>3, <2>10
<1>8. CASE AddOp(h)
  <2>1. PICK call \in Call : call = calls[h]
    BY <1>1
  <2>2. PICK op : op = [NoOp EXCEPT !.state = "signed", !.max = call.max, !.signedAt = call.at,
                                    !.validUntil = call.at + VALIDITY]
    OBVIOUS
  <2>3. /\ call.doing = "sign" /\ ops[call.c][call.k].state = "none"
        /\ ops' = [ops EXCEPT ![call.c] = [ops[call.c] EXCEPT ![call.k] = op]]
        /\ calls' = [calls EXCEPT ![h] = Idle]
    BY <1>8, <2>1, <2>2 DEF AddOp, SetOp, Runs, Ends
  <2>4. call.c \in Campaigns /\ call.k \in Keys
    BY <2>3, CallFacts
  <2>5. calls'[h] = Idle /\ \A g \in Handlers : g # h => calls'[g] = calls[g]
    BY <1>1, <2>3
  <2>6. CASE call.c = c
    <3>1. ops'[c][call.k] = op /\ \A k \in Keys : k # call.k => ops'[c][k] = ops[c][k]
      BY <2>3, <2>4, <2>6 DEF SponsorTyped
    <3>2. recordedFor(ops[c][call.k], call.k, d, users) = 0
      BY <2>3, <2>6 DEF recordedFor, CountedOn
    <3>3. recordedFor(op, call.k, d, users) = checkedFor(call, c, d, users)
      BY <2>2, <2>3, <2>6 DEF recordedFor, CountedOn, checkedFor, NoOp
    <3>4. Ledger(ops'[c], calls', c, d, users) = Ledger(ops[c], calls, c, d, users)
      BY <1>1, <1>5, <2>1, <2>4, <2>5, <3>1, <3>2, <3>3, LedgerMoves
    <3> QED BY <3>4
  <2>7. CASE call.c # c
    <3>1. ops'[c] = ops[c]
      BY <2>3, <2>4, <2>7 DEF SponsorTyped
    <3>2. \A g \in Handlers : checkedFor(calls'[g], c, d, users) <= checkedFor(calls[g], c, d, users)
      BY <1>3, <1>5, <2>5
    <3>3. \A k \in Keys : recordedFor(ops'[c][k], k, d, users) <= recordedFor(ops[c][k], k, d, users)
      BY <1>2, <3>1
    <3>4. Ledger(ops'[c], calls', c, d, users) <= Ledger(ops[c], calls, c, d, users)
      BY <1>1, <3>2, <3>3, LedgerFalls
    <3> QED BY <1>2, <3>4
  <2> QED BY <2>6, <2>7
<1>9. CASE SettleOp(h)
  <2>1. PICK e \in Campaigns, k \in Keys : e = calls[h].c /\ k = calls[h].k
    BY <1>1, <1>9, CallFacts DEF SettleOp
  <2>2. PICK was \in Op, how \in Hows, paid \in Nat :
          /\ was = ops[e][k] /\ how = landed[e][k] /\ paid = reservations[e][k].committed
          /\ OpOK(was, how, paid, now)
    BY StateFacts
  <2>3. PICK op : op = [was EXCEPT !.state = "landed", !.landedAt = now, !.ok = how = "ok", !.charged = paid]
    OBVIOUS
  <2>4. /\ ops' = [ops EXCEPT ![e] = [ops[e] EXCEPT ![k] = op]] /\ how # "no"
        /\ calls' = [calls EXCEPT ![h] = Idle] /\ calls[h].doing = "submit"
    BY <1>9, <2>1, <2>2, <2>3 DEF SettleOp, committedOf, SetOp, Runs, Ends
  <2>5. was.state # "none"
    BY <1>1, <2>1, <2>2, <2>4 DEF CallOK
  <2>6. recordedFor(op, k, d, users) <= recordedFor(was, k, d, users)
    BY <1>1, <2>2, <2>3, <2>4, <2>5, SettledFalls
  <2>7. \A j \in Keys : recordedFor(ops'[c][j], j, d, users) <= recordedFor(ops[c][j], j, d, users)
    <3>1. \A j \in Keys : ops'[c][j] = ops[c][j] \/ (c = e /\ j = k /\ ops'[c][j] = op)
      BY <2>4 DEF SponsorTyped
    <3> QED BY <1>2, <2>2, <2>6, <3>1
  <2>8. \A g \in Handlers : checkedFor(calls'[g], c, d, users) <= checkedFor(calls[g], c, d, users)
    BY <1>1, <1>3, <1>5, <2>4
  <2>9. Ledger(ops'[c], calls', c, d, users) <= Ledger(ops[c], calls, c, d, users)
    BY <1>1, <2>7, <2>8, LedgerFalls
  <2> QED BY <1>2, <2>9
<1> QED BY <1>6, <1>7, <1>8, <1>9 DEF HandlerNext
\* What is recorded for a day is within what the service reads as spent on it.
LEMMA RecordedIsSpent ==
  ASSUME SponsorTyped, NEW c \in Campaigns, NEW d \in Nat, NEW users
  PROVE  /\ Total(RecordedIn(ops[c], d, users)) <= spentOn(c, d, users)
         /\ Total(RecordedIn(ops[c], d, users)) \in Nat /\ spentOn(c, d, users) \in Nat
<1> DEFINE spent == [k \in Keys |-> IF User(k) \in users THEN CountedOn(ops[c][k], d) ELSE 0]
<1>1. ops[c] \in [Keys -> Op]
  BY DEF SponsorTyped
<1>2. \A k \in Keys : CountedOn(ops[c][k], d) \in Nat
  BY <1>1, ShareTypes
<1>3. spent \in [Keys -> Nat] /\ RecordedIn(ops[c], d, users) \in [Keys -> Nat]
  BY <1>1, <1>2, RecordedTypes
<1>4. \A k \in Keys : RecordedIn(ops[c], d, users)[k] <= spent[k]
  BY <1>1, <1>2 DEF RecordedIn, recordedFor
<1>5. spentOn(c, d, users) = Total(spent)
  BY DEF spentOn
<1> HIDE DEF spent
<1> QED BY <1>3, <1>4, <1>5, EscrowFinite, TotalMonotone, TotalType

LEMMA HandlerLedgers ==
  ASSUME SponsorInv, SponsorTyped', NEW h \in Handlers, HandlerNext(h)
  PROVE  LedgersOK'
<1> USE DEF SponsorInv
<1> SUFFICES ASSUME NEW c \in Campaigns, NEW d \in Nat, NEW top \in HighestCeilings
             PROVE  /\ \A u \in Users : Ledger(ops'[c], calls', c, d, {u}) <= top.user + over(top)
                    /\ Ledger(ops'[c], calls', c, d, Users) <= top.sponsor + over(top)
  BY LedgersPrimed
<1>1. /\ top.user \in Nat /\ top.sponsor \in Nat
      /\ \A p \in Policies : p.user <= top.user /\ p.sponsor <= top.sponsor
      /\ \A p \in Policies : p.user \in Nat /\ p.sponsor \in Nat
  BY Tops, SponsorNumbers DEF Ceilings
<1>2. /\ \A u \in Users : Ledger(ops[c], calls, c, d, {u}) <= top.user + over(top)
      /\ Ledger(ops[c], calls, c, d, Users) <= top.sponsor + over(top)
  BY DEF LedgersOK
<1>3. ASSUME NEW u \in Users PROVE Ledger(ops'[c], calls', c, d, {u}) <= top.user + over(top)
  <2>1. ASSUME NEW call \in Call, call.doing = "ask", User(call.k) \in {u}, call.policy \in Policies,
               PolicyAllows(call.c, call.k, call.max, call.policy, d), call.c = c
        PROVE  Total(RecordedIn(ops[c], d, {u})) + call.max <= top.user
    <3>1. spentOn(c, d, {u}) + call.max <= call.policy.user /\ call.max \in Nat
      BY <2>1, CallFacts DEF PolicyAllows
    <3>2. /\ Total(RecordedIn(ops[c], d, {u})) <= spentOn(c, d, {u})
          /\ Total(RecordedIn(ops[c], d, {u})) \in Nat /\ spentOn(c, d, {u}) \in Nat
      BY RecordedIsSpent
    <3> QED BY <1>1, <2>1, <3>1, <3>2
  <2> QED BY <1>1, <1>2, <2>1, HandlerLedger
<1>4. Ledger(ops'[c], calls', c, d, Users) <= top.sponsor + over(top)
  <2>1. ASSUME NEW call \in Call, call.doing = "ask", call.policy \in Policies,
               PolicyAllows(call.c, call.k, call.max, call.policy, d), call.c = c
        PROVE  Total(RecordedIn(ops[c], d, Users)) + call.max <= top.sponsor
    <3>1. spentOn(c, d, Users) + call.max <= call.policy.sponsor /\ call.max \in Nat
      BY <2>1, CallFacts DEF PolicyAllows
    <3>2. /\ Total(RecordedIn(ops[c], d, Users)) <= spentOn(c, d, Users)
          /\ Total(RecordedIn(ops[c], d, Users)) \in Nat /\ spentOn(c, d, Users) \in Nat
      BY RecordedIsSpent
    <3> QED BY <1>1, <2>1, <3>1, <3>2
  <2> QED BY <1>1, <1>2, <2>1, HandlerLedger
<1> QED BY <1>3, <1>4

\* Nothing but a handler's step moves a ledger.
LEMMA SponsorStep == SponsorInv /\ [SponsorNext]_sponsorVars => SponsorInv' /\ ChargeSigned
<1> SUFFICES ASSUME SponsorInv, [SponsorNext]_sponsorVars PROVE SponsorInv' /\ ChargeSigned
  OBVIOUS
<1>1. IInv /\ SponsorTyped /\ RecordsOK /\ LedgersOK
  BY DEF SponsorInv
<1>2. IInv' /\ SponsorTyped' /\ RecordsOK' /\ ChargeSigned
  BY <1>1, EscrowKept, StepRecords
<1>3. ASSUME UNCHANGED <<ops, calls>> PROVE LedgersOK'
  BY <1>1, <1>3, LedgersPrimed DEF LedgersOK
<1>4. (\E h \in Handlers : HandlerNext(h)) \/ UNCHANGED <<ops, calls>>
  <2>1. ASSUME NEW c \in Campaigns, RegisterSponsor(c) \/ (\E p \in Policies : PutNewSponsor(c, p))
        PROVE  UNCHANGED <<ops, calls>>
    BY <2>1 DEF RegisterSponsor, PutNewSponsor
  <2>2. ASSUME NEW c \in Campaigns, ChainNext(c) PROVE UNCHANGED <<ops, calls>>
    BY <2>2 DEF ChainNext, LandCommitted, LandUncommitted, EscrowCall
  <2>3. ASSUME Passes \/ UNCHANGED sponsorVars PROVE UNCHANGED <<ops, calls>>
    BY <2>3 DEF Passes, sponsorVars
  <2> QED BY <2>1, <2>2, <2>3 DEF SponsorNext
<1>5. LedgersOK'
  BY <1>2, <1>3, <1>4, HandlerLedgers
<1> QED BY <1>2, <1>5 DEF SponsorInv

LEMMA SponsorStart == SponsorInit => SponsorInv
<1> SUFFICES ASSUME SponsorInit PROVE SponsorInv
  OBVIOUS
<1>1. IInv
  BY InitInv DEF SponsorInit
<1>2. NoOp \in Op /\ NoSponsor \in Sponsor /\ Idle \in Call /\ NoOp.state = "none"
      /\ NoOp.signedAt = 0 /\ NoOp.max = 0 /\ Idle.doing = "nothing" /\ ~NoSponsor.known
  BY DEF NoOp, Op, NoSponsor, Sponsor, Ceilings, Idle, Call
<1>3. /\ sponsors = [c \in Campaigns |-> NoSponsor]
      /\ ops = [c \in Campaigns |-> [k \in Keys |-> NoOp]]
      /\ landed = [c \in Campaigns |-> [k \in Keys |-> "no"]]
      /\ calls = [h \in Handlers |-> Idle]
  BY DEF SponsorInit
<1>4. SponsorTyped
  BY <1>2, <1>3 DEF SponsorTyped, Hows
<1>5. RecordsOK
  <2>1. now = 1 /\ \A c \in Campaigns, k \in Keys : reservations[c][k].committed = 0
    BY DEF SponsorInit, Init, NoReservation
  <2> QED BY <1>2, <1>3, <2>1 DEF RecordsOK, SponsorOK, OpOK, CallOK
<1>6. ASSUME NEW c \in Campaigns, NEW d \in Nat, NEW users PROVE Ledger(ops[c], calls, c, d, users) = 0
  <2>1. ops[c] \in [Keys -> Op] /\ calls \in [Handlers -> Call]
    BY <1>4 DEF SponsorTyped
  <2>2. \A k \in Keys : recordedFor(ops[c][k], k, d, users) = 0
    BY <1>2, <1>3 DEF recordedFor, CountedOn
  <2>3. \A h \in Handlers : checkedFor(calls[h], c, d, users) = 0
    BY <1>2, <1>3 DEF checkedFor
  <2>4. Total(RecordedIn(ops[c], d, users)) = 0
    BY <2>1, <2>2, RecordedTypes, TotalZero
  <2>5. Total(CheckedIn(calls, c, d, users)) = 0
    BY <2>1, <2>3, CheckedTypes, TotalZero
  <2> QED BY <2>4, <2>5 DEF Ledger
<1>7. LedgersOK
  <2> SUFFICES ASSUME NEW c \in Campaigns, NEW d \in Nat, NEW top \in HighestCeilings
               PROVE  /\ \A u \in Users : Ledger(ops[c], calls, c, d, {u}) <= top.user + over(top)
                      /\ Ledger(ops[c], calls, c, d, Users) <= top.sponsor + over(top)
    BY DEF LedgersOK
  <2>1. 0 <= top.user + over(top) /\ 0 <= top.sponsor + over(top)
    BY Tops
  <2> QED BY <1>6, <2>1
<1> QED BY <1>1, <1>4, <1>5, <1>7 DEF SponsorInv

LEMMA AlwaysSponsorInv == SponsorSpec => []SponsorInv
BY SponsorStart, SponsorStep, PTL DEF SponsorSpec

----------------------------------------------------------------------------
(* What sponsorship guarantees.                                            *)

\* Requests that overlap pass a user's and a sponsor's daily ceiling by at
\* most one operation's ceiling for every other call, for any number of users
\* and calls, and whatever policies the sponsor moves between.
THEOREM DailyCapsOvershoot == SponsorSpec => []OverlapOvershootsByOneEach
<1>1. SponsorInv => OverlapOvershootsByOneEach
  <2> SUFFICES ASSUME SponsorInv, NEW c \in Campaigns, NEW t \in 0..MAX_TIME, NEW top \in HighestCeilings
               PROVE  /\ \A u \in Users : SignedOn(c, Day(t), {u}) <= top.user + over(top)
                      /\ SignedOn(c, Day(t), Users) <= top.sponsor + over(top)
    BY DEF OverlapOvershootsByOneEach, over
  <2>1. Day(t) \in Nat
    BY DayFacts, EscrowNumbers
  <2>2. ops[c] \in [Keys -> Op] /\ calls \in [Handlers -> Call]
    BY DEF SponsorInv, SponsorTyped
  <2>3. ASSUME NEW users, NEW cap \in Nat, Ledger(ops[c], calls, c, Day(t), users) <= cap + over(top)
        PROVE  SignedOn(c, Day(t), users) <= cap + over(top)
    <3>1. SignedOn(c, Day(t), users) = Total(RecordedIn(ops[c], Day(t), users))
      BY DEF SignedOn, RecordedIn, recordedFor
    <3>2. Total(RecordedIn(ops[c], Day(t), users)) \in Nat
      BY <2>1, <2>2, RecordedTypes
    <3>3. Total(CheckedIn(calls, c, Day(t), users)) \in Nat
      BY <2>1, <2>2, CheckedTypes
    <3> QED BY <2>3, <3>1, <3>2, <3>3, Tops DEF Ledger
  <2>4. /\ \A u \in Users : Ledger(ops[c], calls, c, Day(t), {u}) <= top.user + over(top)
        /\ Ledger(ops[c], calls, c, Day(t), Users) <= top.sponsor + over(top)
    BY <2>1 DEF SponsorInv, LedgersOK
  <2> QED BY <2>3, <2>4, Tops
<1> QED BY AlwaysSponsorInv, <1>1, PTL

\* A landed operation is recorded with the escrow's charge, whatever was
\* rolled back, closed, settled twice or left by a handler that died.
THEOREM LandedIsCharged == SponsorSpec => []LandedChargeIsEscrows
<1>1. SponsorInv => LandedChargeIsEscrows
  BY DEF SponsorInv, RecordsOK, OpOK, LandedChargeIsEscrows
<1> QED BY AlwaysSponsorInv, <1>1, PTL

\* No step charges a budget for what the service did not sign, for more than
\* it signed, or after the window of its signature.
THEOREM BudgetPaysSigned == SponsorSpec => BudgetPaysWhatWasSigned
<1>1. SponsorInv /\ [SponsorNext]_sponsorVars => [ChargeSigned]_sponsorVars
  BY SponsorStep
<1>2. SponsorSpec => [][ChargeSigned]_sponsorVars
  BY AlwaysSponsorInv, <1>1, PTL DEF SponsorSpec
<1> QED BY <1>2 DEF ChargeSigned, BudgetPaysWhatWasSigned

\* The escrow stays solvent, and its counters the sums they stand for, under
\* the charges the paymaster makes in one step, whatever postOp does.
THEOREM SponsoredEscrowSolvent == SponsorSpec => [](Solvent /\ CountersAreSums)
<1>1. SponsorInv => Solvent /\ CountersAreSums
  BY DEF SponsorInv, IInv
<1> QED BY AlwaysSponsorInv, <1>1, PTL
=============================================================================
