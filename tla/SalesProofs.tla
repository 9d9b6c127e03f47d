----------------------------- MODULE SalesProofs -----------------------------
(***************************************************************************)
(* What Sales keeps for any transfers, instances, attempts and faults.     *)
(*                                                                         *)
(* A record, and every copy of one, is good (SaleOK) when the transactions *)
(* it names are its own and what it says of them is so.  A step writes a   *)
(* good copy back, and mined stays mined: that is BaseInv, whatever the    *)
(* faults.  FateInv adds what it takes to sell once: who advances a sale   *)
(* has its record, a transfer is in one sale, and a transaction no record  *)
(* names will not be mined any more.                                       *)
(***************************************************************************)
EXTENDS Sales, FiniteSetTheorems, WellFoundedInduction, TLAPS

----------------------------------------------------------------------------
(* The invariants.                                                         *)

Kinds    == {"swap", "payout", "return"}
Status   == {"signed", "pending", "lost", "mined", "reverted"}
TxRec      == [nonce : Nat, sale : Transfers, kind : Kinds, status : Status]
States   == {"none", "awaiting", "sold", "paid", "returned"}
SaleRec  == [state : States, transfers : SUBSET Transfers, attempts : Nat,
             saleTx : Nat, payoutTx : Nat]
Bare     == {"waiting", "signing"}
Carrying == {"resolving", "reading", "signed", "sent", "settling"}
Pcs      == {"idle", "counting"} \cup Bare \cup Carrying
Outcomes == {"none", "unknown", "mined", "reverted", "never-mined"}
Locals   == [pc : Pcs, todo : SUBSET Transfers, id : Transfers \cup {NoOne},
             sale : SaleRec, nonce : Nat, outcome : Outcomes]

LocksTyped ==
  /\ lock \in Instances \cup {NoOne, Stale}
  /\ saleLocks \in [Transfers -> Instances \cup {NoOne, Stale}]

Typed ==
  /\ burned \subseteq Transfers
  /\ sales \in [Transfers -> SaleRec]
  /\ LocksTyped
  /\ procs \in [Instances -> Locals]
  /\ txs \in Seq(TxRec) /\ count \in Nat
  /\ faults \in 0..MaxFaults

\* The transaction t of T is one of kind for s.
For(T, t, s, kind) == t \in DOMAIN T /\ T[t].sale = s /\ T[t].kind = kind
Mined(T, t)        == T[t].status = "mined"

\* A copy of the record of s, with the transactions T.
SaleOK(T, s, sale) ==
  /\ sale.saleTx # NoTx => For(T, sale.saleTx, s, "swap")
  /\ sale.payoutTx # NoTx =>
       For(T, sale.payoutTx, s, IF sale.saleTx = NoTx THEN "return" ELSE "payout")
  /\ sale.payoutTx # NoTx /\ sale.saleTx = NoTx => sale.attempts = MAX_ATTEMPTS
  /\ sale.attempts <= MAX_ATTEMPTS
  /\ IF sale.state = "none" THEN sale = NoSale ELSE s \in sale.transfers
  /\ sale.state = "awaiting" /\ sale.saleTx # NoTx =>
       sale.payoutTx = NoTx /\ sale.attempts < MAX_ATTEMPTS
  /\ sale.state \in {"sold", "paid"} => sale.saleTx # NoTx /\ Mined(T, sale.saleTx)
  /\ sale.state \in {"paid", "returned"} => sale.payoutTx # NoTx /\ Mined(T, sale.payoutTx)
  /\ sale.state = "returned" => sale.saleTx = NoTx

\* The locals l of an instance, with the transactions T.
LocalOK(T, l) ==
  /\ l.pc = "counting" =>
       IF l.id = NoOne THEN l.sale = NoSale
       ELSE l.id \in l.sale.transfers /\ l.sale = Opened(l.sale.transfers)
  /\ l.pc \in Bare \cup Carrying =>
       /\ l.id \in Transfers /\ SaleOK(T, l.id, l.sale) /\ Pending(l.sale)
       /\ InFlight(l.sale) = NoTx <=> l.pc \in Bare
  /\ l.pc = "signed" => T[InFlight(l.sale)].status = "signed"
  /\ l.pc = "settling" =>
       l.outcome # "none" /\ (l.outcome = "mined" => Mined(T, InFlight(l.sale)))

\* No two instances are about to broadcast one transaction.
SignedApart(P) ==
  \A i, j \in Instances :
    P[i].pc = "signed" /\ P[j].pc = "signed" /\ InFlight(P[i].sale) = InFlight(P[j].sale) => i = j

BaseInv ==
  /\ Typed
  /\ \A s \in Transfers : SaleOK(txs, s, sales[s]) /\ sales[s].transfers \subseteq burned
  /\ \A i \in Instances : LocalOK(txs, procs[i]) /\ procs[i].sale.transfers \subseteq burned
  /\ SignedApart(procs)

\* The transaction t of T will not be mined at nonce n any more.
Dead(T, n, t) ==
  \/ T[t].status = "reverted"
  \/ T[t].nonce < n /\ T[t].status # "mined"

\* Who advances a sale holds its lock, and goes by the record as it is.
Alone(P, S, L) ==
  \A i \in Instances : P[i].pc \in Bare \cup Carrying =>
    L[P[i].id] = i /\ S[P[i].id] = P[i].sale

\* A transfer is in one sale, or in one that is being opened.
OneSaleEach(P, S) ==
  /\ \A s, u \in Transfers : s # u => S[s].transfers \cap S[u].transfers = {}
  /\ \A i \in Instances : P[i].pc = "counting" =>
       /\ \A s \in Transfers : P[i].sale.transfers \cap S[s].transfers = {}
       /\ \A j \in Instances : i # j /\ P[j].pc = "counting" =>
            P[i].sale.transfers \cap P[j].sale.transfers = {}

\* What no record names is over.
Accounted(T, n, S) ==
  \A t \in DOMAIN T : Dead(T, n, t) \/ t \in {S[T[t].sale].saleTx, S[T[t].sale].payoutTx}

\* What an instance read of its transaction is so.
ReadOK(T, n, l) ==
  /\ l.pc = "reading" => T[InFlight(l.sale)].status \notin {"mined", "reverted"}
  /\ l.pc = "settling" /\ l.outcome \in {"reverted", "never-mined"} => Dead(T, n, InFlight(l.sale))

FateInv ==
  /\ BaseInv
  /\ Alone(procs, sales, saleLocks)
  /\ OneSaleEach(procs, sales)
  /\ Accounted(txs, count, sales)
  /\ \A i \in Instances : ReadOK(txs, count, procs[i])

\* The lock of a sale outlives the step of its holder, a receipt that exists
\* is returned, and no block falls between the two reads of resolve().
OneAtATime == Faults \cap {"hold", "rpc", "race"} = {}

----------------------------------------------------------------------------
(* The operator account.                                                   *)

\* Of a nonempty set of naturals one is the least.
LEMMA LeastNat ==
  ASSUME NEW S \in SUBSET Nat, S # {}
  PROVE  \E n \in S : \A m \in S : n <= m
<1>1. \E n \in S : \A m \in S : <<m, n>> \notin OpToRel(<, Nat)
  BY NatLessThanWellFounded, WFMin, Zenon
<1>2. ASSUME NEW m \in Nat, NEW n \in Nat, m < n PROVE <<m, n>> \in OpToRel(<, Nat)
  BY <1>2 DEF OpToRel
<1>3. \A m, n \in Nat : n <= m \/ m < n
  OBVIOUS
<1> QED BY <1>1, <1>2, <1>3

\* The pending count exists: the pool holds fewer nonces than there are to try.
LEMMA NextNonce ==
  ASSUME txs \in Seq(TxRec), count \in Nat
  PROVE  nextNonce \in Nat
<1> DEFINE tried == count..(count + Len(txs))
           free  == {n \in tried : ~Pooled(n)}
<1>1. Len(txs) \in Nat /\ DOMAIN txs = 1..Len(txs) /\ tried \subseteq Nat
  OBVIOUS
<1>2. free # {}
  <2> SUFFICES ASSUME \A n \in tried : Pooled(n) PROVE FALSE
    OBVIOUS
  <2> DEFINE f == [n \in tried |-> CHOOSE t \in DOMAIN txs : txs[t].nonce = n]
  <2>1. \A n \in tried : f[n] \in 1..Len(txs) /\ txs[f[n]].nonce = n
    BY <1>1 DEF Pooled
  <2>2. /\ IsFiniteSet(tried) /\ Cardinality(tried) = Len(txs) + 1
        /\ IsFiniteSet(1..Len(txs)) /\ Cardinality(1..Len(txs)) = Len(txs)
    <3>1. count \in Int /\ count + Len(txs) \in Int /\ 1 \in Int /\ Len(txs) \in Int
      BY <1>1
    <3>2. /\ IsFiniteSet(tried)
          /\ Cardinality(tried) = IF count > count + Len(txs) THEN 0 ELSE (count + Len(txs)) - count + 1
      <4>1. \A b \in Int : /\ IsFiniteSet(count..b)
                           /\ Cardinality(count..b) = IF count > b THEN 0 ELSE b - count + 1
        BY <3>1, FS_Interval, Zenon
      <4> QED BY <3>1, <4>1
    <3>3. /\ IsFiniteSet(1..Len(txs))
          /\ Cardinality(1..Len(txs)) = IF 1 > Len(txs) THEN 0 ELSE Len(txs) - 1 + 1
      BY <3>1, FS_Interval, Zenon
    <3> HIDE DEF tried
    <3> QED BY <1>1, <3>2, <3>3
  <2>3. f \in [tried -> 1..Len(txs)]
    BY <2>1
  <2> HIDE DEF f, tried
  <2>4. \E x, y \in tried : x # y /\ f[x] = f[y]
    <3>1. Cardinality(1..Len(txs)) < Cardinality(tried)
      BY <1>1, <2>2
    <3> QED BY <2>2, <2>3, <3>1, FS_PigeonHole
  <2> QED BY <2>1, <2>4
<1>3. PICK n \in free : \A m \in free : n <= m
  BY <1>1, <1>2, LeastNat
<1>4. \A m \in count..(n - 1) : Pooled(m)
  BY <1>1, <1>3
<1> QED BY <1>1, <1>3, <1>4 DEF nextNonce

LEMMA StatusSet ==
  ASSUME NEW T \in Seq(TxRec), NEW t \in DOMAIN T, NEW s \in Status,
         NEW U, U = [T EXCEPT ![t].status = s]
  PROVE  /\ U \in Seq(TxRec) /\ DOMAIN U = DOMAIN T /\ Len(U) = Len(T)
         /\ U[t] = [T[t] EXCEPT !.status = s]
         /\ \A u \in DOMAIN T : u # t => U[u] = T[u]
<1>1. T[t] \in TxRec /\ DOMAIN T = 1..Len(T) /\ Len(T) \in Nat
  OBVIOUS
<1>2. [T[t] EXCEPT !.status = s] \in TxRec
  BY <1>1 DEF TxRec
<1>3. U = [T EXCEPT ![t] = [T[t] EXCEPT !.status = s]]
  OBVIOUS
<1> DEFINE new == [T[t] EXCEPT !.status = s]
<1> HIDE DEF new
<1>4. U = [T EXCEPT ![t] = new] /\ new \in TxRec
  BY <1>2, <1>3 DEF new
<1>5. /\ U \in Seq(TxRec) /\ DOMAIN U = DOMAIN T /\ Len(U) = Len(T) /\ U[t] = new
      /\ \A u \in DOMAIN T : u # t => U[u] = T[u]
  BY <1>1, <1>4
<1> QED BY <1>5 DEF new

LEMMA Appended ==
  ASSUME NEW T \in Seq(TxRec), NEW x \in TxRec, NEW U, U = Append(T, x)
  PROVE  /\ U \in Seq(TxRec) /\ Len(U) = Len(T) + 1 /\ Len(U) \in Nat \ {NoTx}
         /\ DOMAIN U = DOMAIN T \cup {Len(U)} /\ Len(U) \notin DOMAIN T
         /\ U[Len(U)] = x
         /\ \A t \in DOMAIN T : U[t] = T[t]
  BY DEF NoTx

\* What no step of the node or the chain can undo.
TxsMove(T, n, U, m) ==
  /\ U \in Seq(TxRec) /\ m \in Nat /\ n <= m
  /\ DOMAIN T \subseteq DOMAIN U
  /\ \A t \in DOMAIN T :
       /\ U[t].nonce = T[t].nonce /\ U[t].kind = T[t].kind /\ U[t].sale = T[t].sale
       /\ T[t].status \in {"mined", "reverted"} => U[t].status = T[t].status
       /\ U[t].status = "mined" => T[t].status = "mined" \/ T[t].nonce >= n

LEMMA DeadForGood ==
  ASSUME NEW T \in Seq(TxRec), NEW n \in Nat, NEW U, NEW m, TxsMove(T, n, U, m),
         NEW t \in DOMAIN T, Dead(T, n, t)
  PROVE  Dead(U, m, t)
<1>1. T[t] \in TxRec
  OBVIOUS
<1>2. T[t].nonce \in Nat
  BY <1>1 DEF TxRec
<1> QED BY <1>2 DEF Dead, TxsMove

\* A good copy stays good.
LEMMA SaleMoves ==
  ASSUME NEW T, NEW n, NEW U, NEW m, TxsMove(T, n, U, m), NEW s, NEW sale, SaleOK(T, s, sale)
  PROVE  SaleOK(U, s, sale)
  BY DEF SaleOK, For, Mined, TxsMove

----------------------------------------------------------------------------
(* The records.                                                            *)

LEMMA Aims ==
  ASSUME NEW s \in Transfers, NEW T, NEW sale \in SaleRec, SaleOK(T, s, sale), Pending(sale)
  PROVE  /\ Aim(sale) = "swap" => /\ sale.state = "awaiting" /\ sale.payoutTx = NoTx
                                  /\ sale.attempts < MAX_ATTEMPTS
         /\ Aim(sale) = "payout" => sale.state = "sold" /\ sale.saleTx # NoTx
         /\ Aim(sale) = "return" => /\ sale.state = "awaiting" /\ sale.saleTx = NoTx
                                    /\ sale.attempts = MAX_ATTEMPTS
         /\ Aim(sale) \in Kinds
         /\ InFlight(sale) \in Nat
         /\ InFlight(sale) # NoTx => For(T, InFlight(sale), s, Aim(sale))
<1>1. sale.attempts \in Nat /\ MAX_ATTEMPTS \in Nat /\ sale.saleTx \in Nat /\ sale.payoutTx \in Nat
  BY SaleAttempts DEF SaleRec
<1>2. sale.state = "awaiting" \/ sale.state = "sold"
  BY DEF Pending
<1>3. CASE sale.state = "sold"
  BY <1>1, <1>3 DEF Aim, InFlight, SaleOK, Kinds
<1>4. CASE sale.state = "awaiting"
  BY <1>1, <1>4 DEF Aim, InFlight, SaleOK, Kinds
<1> QED BY <1>2, <1>3, <1>4

LEMMA MissedOK ==
  ASSUME NEW s \in Transfers, NEW T, NEW sale \in SaleRec, SaleOK(T, s, sale), Pending(sale),
         Aim(sale) = "swap"
  PROVE  /\ Missed(sale) \in SaleRec /\ SaleOK(T, s, Missed(sale))
         /\ Missed(sale).transfers = sale.transfers
         /\ Missed(sale).state = sale.state
         /\ Missed(sale).saleTx = NoTx /\ Missed(sale).payoutTx = sale.payoutTx
<1>1. /\ sale.state = "awaiting" /\ sale.payoutTx = NoTx /\ sale.attempts < MAX_ATTEMPTS
      /\ sale.attempts \in Nat /\ MAX_ATTEMPTS \in Nat
  BY Aims, SaleAttempts DEF SaleRec
<1> DEFINE new == Missed(sale)
<1>2. /\ new \in SaleRec /\ new.transfers = sale.transfers /\ new.state = sale.state
      /\ new.saleTx = NoTx /\ new.payoutTx = sale.payoutTx /\ new.attempts = sale.attempts + 1
  <2> DEFINE more == sale.attempts + 1
  <2>1. more \in Nat
    BY <1>1
  <2>2. new = [sale EXCEPT !.saleTx = NoTx, !.attempts = more]
    BY DEF Missed
  <2> HIDE DEF new, more
  <2>3. /\ new \in SaleRec /\ new.transfers = sale.transfers /\ new.state = sale.state
        /\ new.saleTx = NoTx /\ new.payoutTx = sale.payoutTx /\ new.attempts = more
    BY <2>1, <2>2 DEF SaleRec, NoTx
  <2> QED BY <2>3 DEF more
<1> HIDE DEF new
<1>3. SaleOK(T, s, new)
  BY <1>1, <1>2 DEF SaleOK
<1> QED BY <1>2, <1>3 DEF new

Names(sale) == {sale.saleTx, sale.payoutTx}

\* An outcome that is so makes a good copy, and drops no other transaction
\* than the one it is about.
LEMMA DecidedOK ==
  ASSUME NEW s \in Transfers, NEW T, NEW sale \in SaleRec, SaleOK(T, s, sale), Pending(sale),
         InFlight(sale) # NoTx, NEW outcome, outcome = "mined" => Mined(T, InFlight(sale))
  PROVE  /\ Decided(sale, outcome) \in SaleRec /\ SaleOK(T, s, Decided(sale, outcome))
         /\ Decided(sale, outcome).transfers = sale.transfers
         /\ Decided(sale, outcome).state # "none"
         /\ \A t \in Names(sale) : \/ t \in Names(Decided(sale, outcome))
                                   \/ t = InFlight(sale) /\ outcome # "mined"
<1> DEFINE new == Decided(sale, outcome)
<1>0. /\ sale.saleTx \in Nat /\ sale.payoutTx \in Nat /\ sale.state \in {"awaiting", "sold"}
      /\ sale.attempts \in Nat /\ MAX_ATTEMPTS \in Nat
  BY SaleAttempts DEF SaleRec, Pending
<1>1. CASE Aim(sale) = "swap"
  <2>1. CASE outcome = "mined"
    <3>1. new = [sale EXCEPT !.state = "sold"]
      BY <1>1, <2>1 DEF Decided
    <3> HIDE DEF new
    <3>2. /\ new \in SaleRec /\ new.transfers = sale.transfers /\ new.state = "sold"
          /\ new.saleTx = sale.saleTx /\ new.payoutTx = sale.payoutTx /\ new.attempts = sale.attempts
      BY <3>1 DEF SaleRec, States
    <3>3. sale.state = "awaiting" /\ sale.payoutTx = NoTx /\ Mined(T, sale.saleTx) /\ sale.saleTx # NoTx
      BY <1>1, <2>1, Aims DEF InFlight
    <3>4. SaleOK(T, s, new)
      BY <3>2, <3>3 DEF SaleOK
    <3> QED BY <2>1, <3>2, <3>4 DEF new, Names
  <2>2. CASE outcome # "mined"
    <3>1. new = Missed(sale)
      BY <1>1, <2>2 DEF Decided
    <3> HIDE DEF new
    <3>2. sale.state = "awaiting" /\ sale.payoutTx = NoTx
      BY <1>1, Aims
    <3>3. /\ new \in SaleRec /\ SaleOK(T, s, new) /\ new.transfers = sale.transfers
          /\ new.state = sale.state /\ new.saleTx = NoTx /\ new.payoutTx = sale.payoutTx
      BY <1>1, <3>1, MissedOK
    <3> QED BY <1>1, <2>2, <3>2, <3>3 DEF new, Names, InFlight
  <2> QED BY <2>1, <2>2
<1>2. CASE Aim(sale) = "payout"
  <2>0. sale.state = "sold" /\ sale.saleTx # NoTx /\ sale.payoutTx # NoTx /\ InFlight(sale) = sale.payoutTx
    BY <1>2, Aims DEF InFlight
  <2>1. CASE outcome = "mined"
    <3>1. new = [sale EXCEPT !.state = "paid"]
      BY <1>2, <2>1 DEF Decided
    <3> HIDE DEF new
    <3>2. /\ new \in SaleRec /\ new.transfers = sale.transfers /\ new.state = "paid"
          /\ new.saleTx = sale.saleTx /\ new.payoutTx = sale.payoutTx /\ new.attempts = sale.attempts
      BY <3>1 DEF SaleRec, States
    <3>4. SaleOK(T, s, new)
      BY <2>0, <2>1, <3>2 DEF SaleOK
    <3> QED BY <2>1, <3>2, <3>4 DEF new, Names
  <2>2. CASE outcome # "mined"
    <3>1. new = [sale EXCEPT !.payoutTx = NoTx]
      BY <1>2, <2>2 DEF Decided
    <3> HIDE DEF new
    <3>2. /\ new \in SaleRec /\ new.transfers = sale.transfers /\ new.state = "sold"
          /\ new.saleTx = sale.saleTx /\ new.payoutTx = NoTx /\ new.attempts = sale.attempts
      BY <2>0, <3>1 DEF SaleRec, NoTx
    <3>4. SaleOK(T, s, new)
      BY <2>0, <3>2 DEF SaleOK
    <3> QED BY <1>2, <2>0, <2>2, <3>2, <3>4 DEF new, Names
  <2> QED BY <2>1, <2>2
<1>3. CASE Aim(sale) = "return"
  <2>0. /\ sale.state = "awaiting" /\ sale.saleTx = NoTx /\ sale.payoutTx # NoTx
        /\ InFlight(sale) = sale.payoutTx
    BY <1>3, Aims DEF InFlight
  <2>1. CASE outcome = "mined"
    <3>1. new = [sale EXCEPT !.state = "returned"]
      BY <1>3, <2>1 DEF Decided
    <3> HIDE DEF new
    <3>2. /\ new \in SaleRec /\ new.transfers = sale.transfers /\ new.state = "returned"
          /\ new.saleTx = sale.saleTx /\ new.payoutTx = sale.payoutTx /\ new.attempts = sale.attempts
      BY <3>1 DEF SaleRec, States
    <3>4. SaleOK(T, s, new)
      BY <2>0, <2>1, <3>2 DEF SaleOK
    <3> QED BY <2>1, <3>2, <3>4 DEF new, Names
  <2>2. CASE outcome # "mined"
    <3>1. new = [sale EXCEPT !.payoutTx = NoTx]
      BY <1>3, <2>2 DEF Decided
    <3> HIDE DEF new
    <3>2. /\ new \in SaleRec /\ new.transfers = sale.transfers /\ new.state = "awaiting"
          /\ new.saleTx = sale.saleTx /\ new.payoutTx = NoTx /\ new.attempts = sale.attempts
      BY <2>0, <3>1 DEF SaleRec, NoTx
    <3>4. SaleOK(T, s, new)
      BY <2>0, <3>2 DEF SaleOK
    <3> QED BY <1>3, <2>0, <2>2, <3>2, <3>4 DEF new, Names
  <2> QED BY <2>1, <2>2
<1> QED BY <1>1, <1>2, <1>3, Aims DEF Kinds

\* A transaction just signed, in the record.
LEMMA NamedOK ==
  ASSUME NEW s \in Transfers, NEW T \in Seq(TxRec), NEW sale \in SaleRec, SaleOK(T, s, sale),
         Pending(sale), InFlight(sale) = NoTx,
         NEW tx \in Nat \ {NoTx}, For(T, tx, s, Aim(sale))
  PROVE  /\ Named(sale, tx) \in SaleRec /\ SaleOK(T, s, Named(sale, tx))
         /\ Named(sale, tx).transfers = sale.transfers
         /\ Named(sale, tx).state = sale.state /\ Pending(Named(sale, tx))
         /\ InFlight(Named(sale, tx)) = tx
         /\ \A t \in {sale.saleTx, sale.payoutTx} \ {NoTx} :
              t \in {Named(sale, tx).saleTx, Named(sale, tx).payoutTx}
         /\ tx \in {Named(sale, tx).saleTx, Named(sale, tx).payoutTx}
<1> DEFINE new == Named(sale, tx)
<1>0. /\ sale.attempts \in Nat /\ MAX_ATTEMPTS \in Nat /\ sale.saleTx \in Nat /\ sale.payoutTx \in Nat
      /\ tx \in Nat /\ tx # NoTx
  BY SaleAttempts DEF SaleRec
<1>1. CASE Aim(sale) = "swap"
  <2>1. /\ new = [sale EXCEPT !.saleTx = tx] /\ sale.saleTx = NoTx
        /\ sale.state = "awaiting" /\ sale.payoutTx = NoTx /\ sale.attempts < MAX_ATTEMPTS
    BY <1>1, Aims DEF Named, InFlight
  <2> HIDE DEF new
  <2>2. /\ new \in SaleRec /\ new.transfers = sale.transfers /\ new.state = "awaiting"
        /\ new.saleTx = tx /\ new.payoutTx = NoTx /\ new.attempts = sale.attempts
    BY <1>0, <2>1 DEF SaleRec
  <2>3. SaleOK(T, s, new)
    BY <1>0, <1>1, <2>1, <2>2 DEF SaleOK
  <2>4. Aim(new) = "swap" /\ InFlight(new) = tx /\ Pending(new)
    BY <1>0, <2>2 DEF Aim, InFlight, Pending
  <2> QED BY <2>1, <2>2, <2>3, <2>4 DEF new
<1>2. CASE Aim(sale) = "payout"
  <2>1. /\ new = [sale EXCEPT !.payoutTx = tx] /\ sale.payoutTx = NoTx
        /\ sale.state = "sold" /\ sale.saleTx # NoTx
    BY <1>2, Aims DEF Named, InFlight
  <2> HIDE DEF new
  <2>2. /\ new \in SaleRec /\ new.transfers = sale.transfers /\ new.state = "sold"
        /\ new.saleTx = sale.saleTx /\ new.payoutTx = tx /\ new.attempts = sale.attempts
    BY <1>0, <2>1 DEF SaleRec
  <2>3. SaleOK(T, s, new)
    BY <1>0, <1>2, <2>1, <2>2 DEF SaleOK
  <2>4. Aim(new) = "payout" /\ InFlight(new) = tx /\ Pending(new)
    BY <1>0, <2>2 DEF Aim, InFlight, Pending
  <2> QED BY <2>1, <2>2, <2>3, <2>4 DEF new
<1>3. CASE Aim(sale) = "return"
  <2>1. /\ new = [sale EXCEPT !.payoutTx = tx] /\ sale.payoutTx = NoTx
        /\ sale.state = "awaiting" /\ sale.saleTx = NoTx /\ sale.attempts = MAX_ATTEMPTS
    BY <1>3, Aims DEF Named, InFlight
  <2> HIDE DEF new
  <2>2. /\ new \in SaleRec /\ new.transfers = sale.transfers /\ new.state = "awaiting"
        /\ new.saleTx = NoTx /\ new.payoutTx = tx /\ new.attempts = sale.attempts
    BY <1>0, <2>1 DEF SaleRec
  <2>3. SaleOK(T, s, new)
    BY <1>0, <1>3, <2>1, <2>2 DEF SaleOK
  <2>4. Aim(new) = "return" /\ InFlight(new) = tx /\ Pending(new)
    BY <1>0, <2>2 DEF Aim, InFlight, Pending
  <2> QED BY <2>1, <2>2, <2>3, <2>4 DEF new
<1> QED BY <1>1, <1>2, <1>3, Aims DEF Kinds

----------------------------------------------------------------------------
(* BaseInv.                                                                *)

LEMMA BaseFacts ==
  ASSUME BaseInv, NEW i \in Instances
  PROVE  /\ Typed /\ LocksTyped /\ procs[i] \in Locals /\ procs[i].sale \in SaleRec
         /\ procs[i].id \in Transfers \cup {NoOne}
         /\ procs \in [Instances -> Locals] /\ sales \in [Transfers -> SaleRec]
         /\ txs \in Seq(TxRec) /\ count \in Nat
         /\ LocalOK(txs, procs[i]) /\ procs[i].sale.transfers \subseteq burned
  BY DEF BaseInv, Typed, Locals

LEMMA CarryingFacts ==
  ASSUME BaseInv, NEW i \in Instances, procs[i].pc \in Carrying
  PROVE  /\ procs[i].id \in Transfers /\ Tx(i) \in Nat \ {NoTx} /\ Tx(i) \in DOMAIN txs
         /\ SaleOK(txs, procs[i].id, procs[i].sale) /\ Pending(procs[i].sale)
         /\ For(txs, Tx(i), procs[i].id, Aim(procs[i].sale))
<1>1. procs[i].sale \in SaleRec /\ LocalOK(txs, procs[i])
  BY BaseFacts
<1>2. /\ procs[i].id \in Transfers /\ SaleOK(txs, procs[i].id, procs[i].sale)
      /\ Pending(procs[i].sale) /\ InFlight(procs[i].sale) # NoTx
  BY <1>1 DEF LocalOK, Carrying, Bare
<1>3. /\ InFlight(procs[i].sale) \in Nat
      /\ For(txs, InFlight(procs[i].sale), procs[i].id, Aim(procs[i].sale))
  BY <1>1, <1>2, Aims
<1> QED BY <1>2, <1>3 DEF Tx, For

LEMMA FaultsCounted ==
  ASSUME Typed, NEW kind, NoFault \/ Fault(kind)
  PROVE  faults' \in 0..MaxFaults
  BY SaleFaults DEF Typed, NoFault, Fault

LEMMA IdleOK ==
  /\ Idle \in Locals /\ Idle.pc = "idle" /\ Idle.sale = NoSale /\ Idle.id = NoOne
  /\ Idle.sale.transfers = {} /\ Idle.todo = {} /\ Idle.nonce = 0 /\ Idle.outcome = "none"
  /\ NoSale \in SaleRec /\ \A T : LocalOK(T, Idle)
<1>1. NoSale \in SaleRec /\ NoSale.transfers = {}
  BY DEF NoSale, SaleRec, States, NoTx
<1> HIDE DEF NoSale
<1>2. /\ Idle \in Locals /\ Idle.pc = "idle" /\ Idle.sale = NoSale /\ Idle.id = NoOne
      /\ Idle.todo = {} /\ Idle.nonce = 0 /\ Idle.outcome = "none"
  BY <1>1 DEF Idle, Locals, Pcs, Outcomes
<1>3. \A T : LocalOK(T, Idle)
  BY <1>2 DEF LocalOK, Bare, Carrying
<1> QED BY <1>1, <1>2, <1>3

\* One instance moves, and writes a good copy or none; nothing is signed,
\* sent or mined.
LEMMA QuietStep ==
  ASSUME BaseInv, UNCHANGED <<txs, count>>, LocksTyped', faults' \in 0..MaxFaults,
         NEW i \in Instances, NEW new \in Locals, Go(i, new), LocalOK(txs, new), new.pc # "signed",
         burned' \subseteq Transfers, burned \subseteq burned', new.sale.transfers \subseteq burned',
         \/ UNCHANGED sales
         \/ \E s \in Transfers : \E sale \in SaleRec :
              put(s, sale) /\ SaleOK(txs, s, sale) /\ sale.transfers \subseteq burned'
  PROVE  BaseInv'
<1>1. /\ procs' \in [Instances -> Locals] /\ procs'[i] = new
      /\ \A j \in Instances : j # i => procs'[j] = procs[j]
  BY BaseFacts DEF Go
<1>2. /\ sales' \in [Transfers -> SaleRec]
      /\ \A s \in Transfers : SaleOK(txs, s, sales'[s]) /\ sales'[s].transfers \subseteq burned'
  <2>1. CASE UNCHANGED sales
    BY <2>1 DEF BaseInv, Typed
  <2>2. ASSUME NEW s \in Transfers, NEW sale \in SaleRec,
               put(s, sale), SaleOK(txs, s, sale), sale.transfers \subseteq burned'
        PROVE  /\ sales' \in [Transfers -> SaleRec]
               /\ \A u \in Transfers : SaleOK(txs, u, sales'[u]) /\ sales'[u].transfers \subseteq burned'
    <3>1. /\ sales' \in [Transfers -> SaleRec] /\ sales'[s] = sale
          /\ \A u \in Transfers : u # s => sales'[u] = sales[u]
      BY <2>2 DEF put, BaseInv, Typed
    <3> QED BY <2>2, <3>1 DEF BaseInv
  <2> QED BY <2>1, <2>2
<1>3. Typed'
  BY <1>1, <1>2 DEF Typed, BaseInv
<1>4. ASSUME NEW j \in Instances
      PROVE  LocalOK(txs', procs'[j]) /\ procs'[j].sale.transfers \subseteq burned'
  BY <1>1 DEF BaseInv
<1>5. SignedApart(procs')
  BY <1>1 DEF SignedApart, BaseInv
<1> QED BY <1>2, <1>3, <1>4, <1>5 DEF BaseInv

LEMMA BaseInit ==
  ASSUME Init
  PROVE  BaseInv
<1>1. /\ sales \in [Transfers -> SaleRec] /\ \A s \in Transfers : sales[s] = NoSale
      /\ procs \in [Instances -> Locals] /\ \A i \in Instances : procs[i] = Idle
  BY IdleOK DEF Init
<1>2. Typed
  BY <1>1, SaleFaults DEF Typed, Init, LocksTyped
<1>3. \A s \in Transfers : SaleOK(txs, s, NoSale)
  BY SaleAttempts DEF SaleOK, NoSale, NoTx
<1>4. SignedApart(procs)
  BY <1>1, IdleOK DEF SignedApart
<1> QED BY <1>1, <1>2, <1>3, <1>4, IdleOK DEF BaseInv

LEMMA BaseSell ==
  ASSUME BaseInv, NEW i \in Instances, NEW hashes \in SUBSET Transfers, Sell(i, hashes)
  PROVE  BaseInv'
<1> DEFINE new == [Idle EXCEPT !.pc = "counting", !.todo = hashes]
<1>1. /\ new \in Locals /\ new.pc = "counting" /\ new.sale = NoSale /\ new.id = NoOne
      /\ Go(i, new)
  <2>1. new.pc = "counting" /\ new.sale = Idle.sale /\ new.id = Idle.id
    BY IdleOK DEF Locals
  <2>2. new \in Locals
    BY IdleOK DEF Locals, Pcs
  <2> QED BY <2>1, <2>2, IdleOK DEF Sell
<1> HIDE DEF new
<1>2. LocalOK(txs, new) /\ new.sale.transfers = {}
  BY <1>1, IdleOK DEF LocalOK, Bare, Carrying
<1> QED BY <1>1, <1>2, QuietStep, FaultsCounted, BaseFacts DEF Sell, LocksTyped, Typed

\* A transfer more or less to count.
LEMMA CountSteps ==
  ASSUME BaseInv, NEW i \in Instances, Count(i)
  PROVE  \E h \in procs[i].todo : \E new \in Locals :
           /\ Go(i, new) /\ LocalOK(txs, new) /\ new.pc = "counting"
           /\ \/ h \notin burned /\ burned' = burned \cup {h}
                 /\ new.sale.transfers = procs[i].sale.transfers \cup {h}
              \/ UNCHANGED burned /\ new.sale = procs[i].sale
<1>1. /\ procs[i] \in Locals /\ procs[i].pc = "counting" /\ procs[i].todo \subseteq Transfers
      /\ procs[i].sale \in SaleRec /\ procs[i].sale.transfers \subseteq Transfers
      /\ procs[i].id \in Transfers \cup {NoOne}
      /\ LocalOK(txs, procs[i])
  BY BaseFacts DEF Count, At, Locals, SaleRec
<1>2. PICK h \in procs[i].todo :
        LET next == [procs[i] EXCEPT !.todo = procs[i].todo \ {h}] IN
         \/ /\ h \notin burned
            /\ burned' = burned \cup {h}
            /\ Go(i, [next EXCEPT !.id = IF procs[i].id = NoOne THEN h ELSE procs[i].id,
                                  !.sale = Opened(procs[i].sale.transfers \cup {h})])
         \/ /\ Go(i, next)
            /\ UNCHANGED burned
  BY DEF Count
<1> DEFINE rest == procs[i].todo \ {h}
           all  == procs[i].sale.transfers \cup {h}
           next == [procs[i] EXCEPT !.todo = rest]
           id   == IF procs[i].id = NoOne THEN h ELSE procs[i].id
           sale == Opened(all)
           new  == [next EXCEPT !.id = id, !.sale = sale]
<1>3. rest \in SUBSET Transfers /\ all \in SUBSET Transfers /\ id \in Transfers \cup {NoOne}
      /\ id \in Transfers
  BY <1>1
<1>4. sale \in SaleRec /\ sale.transfers = all
  <2> HIDE DEF all
  <2> QED BY <1>3, IdleOK DEF Opened, SaleRec, States
<1>5. id \in all
  BY <1>1, IdleOK DEF LocalOK, Opened
<1>6. CASE h \notin burned /\ burned' = burned \cup {h} /\ Go(i, new)
  <2> HIDE DEF rest, all, id, sale
  <2>1. next \in Locals /\ next.pc = "counting"
    BY <1>1, <1>3 DEF Locals
  <2> HIDE DEF next
  <2>2. new \in Locals /\ new.pc = "counting" /\ new.id = id /\ new.sale = sale
    BY <1>3, <1>4, <2>1 DEF Locals
  <2> HIDE DEF new
  <2>3. id # NoOne
    BY <1>3, SaleNames
  <2>4. LocalOK(txs, new)
    BY <1>4, <1>5, <2>2, <2>3 DEF LocalOK, Bare, Carrying, sale
  <2> QED BY <1>4, <1>6, <2>2, <2>4 DEF all
<1>7. CASE Go(i, next) /\ UNCHANGED burned
  <2> HIDE DEF rest, all, id, sale
  <2>1. /\ next \in Locals /\ next.pc = "counting" /\ next.id = procs[i].id
        /\ next.sale = procs[i].sale
    BY <1>1, <1>3 DEF Locals
  <2> HIDE DEF next
  <2>2. LocalOK(txs, next)
    BY <1>1, <2>1 DEF LocalOK, Bare, Carrying
  <2> QED BY <1>7, <2>1, <2>2
<1> QED BY <1>2, <1>6, <1>7

LEMMA BaseCount ==
  ASSUME BaseInv, NEW i \in Instances, Count(i)
  PROVE  BaseInv'
<1>1. /\ faults' \in 0..MaxFaults /\ LocksTyped' /\ UNCHANGED <<sales, txs, count>>
      /\ burned \subseteq Transfers /\ procs[i].todo \subseteq Transfers
      /\ procs[i].sale.transfers \subseteq burned
  BY FaultsCounted, BaseFacts DEF Count, LocksTyped, Typed, Locals
<1>2. PICK h \in procs[i].todo, new \in Locals :
           /\ Go(i, new) /\ LocalOK(txs, new) /\ new.pc = "counting"
           /\ \/ h \notin burned /\ burned' = burned \cup {h}
                 /\ new.sale.transfers = procs[i].sale.transfers \cup {h}
              \/ UNCHANGED burned /\ new.sale = procs[i].sale
  BY CountSteps
<1>3. burned' \subseteq Transfers /\ burned \subseteq burned' /\ new.sale.transfers \subseteq burned'
  BY <1>1, <1>2
<1> QED BY <1>1, <1>2, <1>3, QuietStep

\* What a request opens is a good record.
LEMMA OpenedOK ==
  ASSUME NEW T, NEW s \in Transfers, NEW hashes \in SUBSET Transfers, s \in hashes
  PROVE  /\ Opened(hashes) \in SaleRec /\ SaleOK(T, s, Opened(hashes))
         /\ Opened(hashes).transfers = hashes /\ Opened(hashes).state = "awaiting"
         /\ Opened(hashes).saleTx = NoTx /\ Opened(hashes).payoutTx = NoTx
<1> DEFINE new == Opened(hashes)
<1>1. /\ new \in SaleRec /\ new.transfers = hashes /\ new.state = "awaiting"
      /\ new.saleTx = NoTx /\ new.payoutTx = NoTx /\ new.attempts = 0
  BY DEF Opened, NoSale, SaleRec, States, NoTx
<1> HIDE DEF new
<1>2. SaleOK(T, s, new)
  BY <1>1, SaleAttempts DEF SaleOK
<1> QED BY <1>1, <1>2 DEF new

LEMMA BaseOpenSale ==
  ASSUME BaseInv, NEW i \in Instances, OpenSale(i)
  PROVE  BaseInv'
<1>1. /\ faults' \in 0..MaxFaults /\ LocksTyped' /\ UNCHANGED <<burned, txs, count>>
      /\ burned \subseteq Transfers /\ Go(i, Idle) /\ procs[i].sale.transfers \subseteq burned
  BY FaultsCounted, BaseFacts DEF OpenSale, LocksTyped, Typed
<1>2. CASE procs[i].id = NoOne
  BY <1>1, <1>2, IdleOK, QuietStep DEF OpenSale
<1>3. CASE procs[i].id # NoOne
  <2>1. /\ procs[i].id \in procs[i].sale.transfers
        /\ procs[i].sale = Opened(procs[i].sale.transfers)
        /\ procs[i].sale.transfers \in SUBSET Transfers /\ procs[i].id \in Transfers
        /\ put(procs[i].id, procs[i].sale)
    BY <1>1, <1>3, BaseFacts DEF OpenSale, At, LocalOK
  <2>2. procs[i].sale \in SaleRec /\ SaleOK(txs, procs[i].id, procs[i].sale)
    BY <2>1, OpenedOK
  <2> QED BY <1>1, <2>1, <2>2, IdleOK, QuietStep
<1> QED BY <1>2, <1>3

LEMMA AdvanceLocal ==
  ASSUME BaseInv, NEW i \in Instances, NEW s \in Transfers, Advance(i, s)
  PROVE  \E new \in Locals :
           /\ Go(i, new) /\ LocalOK(txs, new)
           /\ new.pc \in {"waiting", "resolving"} /\ new.id = s /\ new.sale = sales[s]
<1> DEFINE pc  == IF InFlight(sales[s]) = NoTx THEN "waiting" ELSE "resolving"
           new == [Idle EXCEPT !.id = s, !.sale = sales[s], !.pc = pc]
<1>1. sales[s] \in SaleRec /\ SaleOK(txs, s, sales[s]) /\ Pending(sales[s])
  BY DEF BaseInv, Typed, Advance
<1>2. pc \in Pcs /\ pc \in {"waiting", "resolving"}
  BY DEF Pcs, Bare, Carrying
<1>3. Go(i, new)
  BY DEF Advance
<1>4. (InFlight(sales[s]) = NoTx) <=> pc \in Bare
  BY DEF Bare
<1> HIDE DEF pc
<1>5. new \in Locals /\ new.pc = pc /\ new.id = s /\ new.sale = sales[s]
  BY <1>1, <1>2, IdleOK DEF Locals
<1> HIDE DEF new
<1>6. LocalOK(txs, new)
  BY <1>1, <1>2, <1>4, <1>5 DEF LocalOK, Bare, Carrying
<1> QED BY <1>2, <1>3, <1>5, <1>6

LEMMA BaseAdvance ==
  ASSUME BaseInv, NEW i \in Instances, NEW s \in Transfers, Advance(i, s)
  PROVE  BaseInv'
<1>1. /\ faults' \in 0..MaxFaults /\ UNCHANGED <<burned, sales, txs, count>>
      /\ burned \subseteq Transfers /\ sales[s].transfers \subseteq burned
  BY FaultsCounted, BaseFacts DEF Advance, Typed, BaseInv
<1>2. LocksTyped'
  BY BaseFacts DEF Advance, LocksTyped
<1> QED BY <1>1, <1>2, AdvanceLocal, QuietStep

LEMMA FreedLocks ==
  ASSUME LocksTyped, NEW i
  PROVE  /\ FreeSale(i) => saleLocks' \in [Transfers -> Instances \cup {NoOne, Stale}]
         /\ FreeLock(i) => lock' \in Instances \cup {NoOne, Stale}
         /\ Gone(i) => LocksTyped'
  BY DEF LocksTyped, FreeSale, FreeLock, Gone

LEMMA BaseMiss ==
  ASSUME BaseInv, NEW i \in Instances, Miss(i)
  PROVE  BaseInv'
<1>1. /\ faults' \in 0..MaxFaults /\ UNCHANGED <<burned, txs, count>>
      /\ burned \subseteq Transfers /\ Go(i, Idle)
      /\ procs[i].sale.transfers \subseteq burned /\ procs[i].sale \in SaleRec
  BY FaultsCounted, BaseFacts DEF Miss, Typed
<1>2. LocksTyped'
  BY FreedLocks, BaseFacts DEF Miss, LocksTyped
<1>3. /\ procs[i].id \in Transfers /\ SaleOK(txs, procs[i].id, procs[i].sale)
      /\ Pending(procs[i].sale) /\ Aim(procs[i].sale) = "swap"
      /\ put(procs[i].id, Missed(procs[i].sale))
  BY BaseFacts DEF Miss, At, LocalOK, Bare
<1> QED BY <1>1, <1>2, <1>3, MissedOK, IdleOK, QuietStep

\* Where an instance goes on with the record it has.
Settling(l, outcome) == [l EXCEPT !.pc = "settling", !.outcome = outcome]

LEMMA SettlesOK ==
  ASSUME BaseInv, NEW i \in Instances, procs[i].pc \in Carrying,
         NEW outcome, outcome \in Outcomes, outcome # "none",
         outcome = "mined" => Mined(txs, Tx(i)),
         NEW new, new = Settling(procs[i], outcome)
  PROVE  /\ new \in Locals /\ LocalOK(txs, new) /\ new.pc = "settling"
         /\ new.id = procs[i].id /\ new.sale = procs[i].sale /\ new.outcome = outcome
<1>1. procs[i] \in Locals /\ LocalOK(txs, procs[i]) /\ "settling" \in Pcs
  BY BaseFacts DEF Pcs, Carrying
<1>2. /\ new \in Locals /\ new.pc = "settling" /\ new.id = procs[i].id /\ new.sale = procs[i].sale
      /\ new.outcome = outcome
  BY <1>1 DEF Locals, Settling
<1>3. LocalOK(txs, new)
  BY <1>1, <1>2 DEF LocalOK, Bare, Carrying, Tx
<1> QED BY <1>2, <1>3

LEMMA ReadsOK ==
  ASSUME BaseInv, NEW i \in Instances, procs[i].pc = "resolving",
         NEW new, new = [procs[i] EXCEPT !.pc = "reading"]
  PROVE  /\ new \in Locals /\ LocalOK(txs, new) /\ new.pc = "reading"
         /\ new.id = procs[i].id /\ new.sale = procs[i].sale
<1>1. procs[i] \in Locals /\ LocalOK(txs, procs[i]) /\ "reading" \in Pcs
  BY BaseFacts DEF Pcs, Carrying
<1>2. new \in Locals /\ new.pc = "reading" /\ new.id = procs[i].id /\ new.sale = procs[i].sale
  BY <1>1 DEF Locals
<1>3. LocalOK(txs, new)
  BY <1>1, <1>2 DEF LocalOK, Bare, Carrying
<1> QED BY <1>2, <1>3

LEMMA BaseReadReceipt ==
  ASSUME BaseInv, NEW i \in Instances, ReadReceipt(i)
  PROVE  BaseInv'
<1>1. /\ faults' \in 0..MaxFaults /\ UNCHANGED <<burned, sales, txs, count>> /\ LocksTyped'
      /\ burned \subseteq Transfers /\ procs[i].sale.transfers \subseteq burned
  BY FaultsCounted, BaseFacts DEF ReadReceipt, Typed, LocksTyped
<1>2. procs[i].pc \in Carrying
  BY DEF ReadReceipt, At, Carrying
<1>3. CASE /\ Executed(Tx(i))
           /\ Go(i, [procs[i] EXCEPT !.pc = "settling", !.outcome = txs[Tx(i)].status])
  <2>1. txs[Tx(i)].status \in {"mined", "reverted"}
    BY <1>3 DEF Executed
  <2>2. txs[Tx(i)].status \in Outcomes /\ txs[Tx(i)].status # "none"
    BY <2>1 DEF Outcomes
  <2>3. txs[Tx(i)].status = "mined" => Mined(txs, Tx(i))
    BY DEF Mined
  <2>5. PICK new : Go(i, new) /\ new = Settling(procs[i], txs[Tx(i)].status)
    BY <1>3 DEF Settling
  <2>4. new \in Locals /\ LocalOK(txs, new) /\ new.pc = "settling" /\ new.sale = procs[i].sale
    BY <1>2, <2>2, <2>3, <2>5, SettlesOK
  <2> QED BY <1>1, <2>4, <2>5, QuietStep
<1>4. CASE Go(i, [procs[i] EXCEPT !.pc = "reading"])
  <2>1. PICK new : Go(i, new) /\ new = [procs[i] EXCEPT !.pc = "reading"]
    BY <1>4
  <2>2. new \in Locals /\ LocalOK(txs, new) /\ new.pc = "reading" /\ new.sale = procs[i].sale
    BY <2>1, ReadsOK DEF ReadReceipt, At
  <2> QED BY <1>1, <2>1, <2>2, QuietStep
<1> QED BY <1>3, <1>4 DEF ReadReceipt

LEMMA BaseReadCount ==
  ASSUME BaseInv, NEW i \in Instances, ReadCount(i)
  PROVE  BaseInv'
<1>1. /\ faults' \in 0..MaxFaults /\ UNCHANGED <<burned, sales, txs, count>> /\ LocksTyped'
      /\ burned \subseteq Transfers /\ procs[i].sale.transfers \subseteq burned
  BY FaultsCounted, BaseFacts DEF ReadCount, Typed, LocksTyped
<1>2. procs[i].pc \in Carrying
  BY DEF ReadCount, At, Carrying
<1> DEFINE outcome == IF count > txs[Tx(i)].nonce THEN "never-mined" ELSE "unknown"
<1>3. outcome \in Outcomes /\ outcome # "none" /\ outcome # "mined"
  BY DEF Outcomes
<1>4. PICK new : Go(i, new) /\ new = Settling(procs[i], outcome)
  BY DEF ReadCount, Settling
<1> HIDE DEF outcome
<1>5. new \in Locals /\ LocalOK(txs, new) /\ new.pc = "settling" /\ new.sale = procs[i].sale
  BY <1>2, <1>3, <1>4, SettlesOK
<1> QED BY <1>1, <1>4, <1>5, QuietStep

LEMMA BaseAcquire ==
  ASSUME BaseInv, NEW i \in Instances, Acquire(i)
  PROVE  BaseInv'
<1>1. /\ faults' \in 0..MaxFaults /\ UNCHANGED <<burned, sales, txs, count>> /\ LocksTyped'
      /\ burned \subseteq Transfers /\ procs[i].sale.transfers \subseteq burned
  BY FaultsCounted, BaseFacts DEF Acquire, Typed, LocksTyped
<1> DEFINE n   == nextNonce
           new == [procs[i] EXCEPT !.pc = "signing", !.nonce = n]
<1>2. n \in Nat /\ procs[i] \in Locals /\ LocalOK(txs, procs[i]) /\ procs[i].pc = "waiting"
  BY NextNonce, BaseFacts DEF Acquire, At
<1>3. Go(i, new)
  BY DEF Acquire
<1> HIDE DEF n
<1>4. /\ new \in Locals /\ new.pc = "signing" /\ new.id = procs[i].id /\ new.sale = procs[i].sale
  BY <1>2 DEF Locals, Pcs, Bare
<1> HIDE DEF new
<1>5. LocalOK(txs, new)
  BY <1>2, <1>4 DEF LocalOK, Bare, Carrying
<1> QED BY <1>1, <1>3, <1>4, <1>5, QuietStep

LEMMA BaseSettle ==
  ASSUME BaseInv, NEW i \in Instances, Settle(i)
  PROVE  BaseInv'
<1>1. /\ faults' \in 0..MaxFaults /\ UNCHANGED <<burned, txs, count>>
      /\ burned \subseteq Transfers /\ Go(i, Idle)
      /\ procs[i].sale.transfers \subseteq burned /\ procs[i].sale \in SaleRec
  BY FaultsCounted, BaseFacts DEF Settle, Typed
<1>2. LocksTyped'
  BY FreedLocks, BaseFacts DEF Settle, LocksTyped
<1>3. CASE UNCHANGED sales
  BY <1>1, <1>2, <1>3, IdleOK, QuietStep
<1>4. CASE put(procs[i].id, Decided(procs[i].sale, procs[i].outcome))
  <2>1. procs[i].pc \in Carrying /\ procs[i].pc = "settling"
    BY DEF Settle, At, Carrying
  <2>2. procs[i].outcome = "mined" => Mined(txs, InFlight(procs[i].sale))
    BY <2>1, BaseFacts DEF LocalOK
  <2>3. /\ procs[i].id \in Transfers /\ SaleOK(txs, procs[i].id, procs[i].sale)
        /\ Pending(procs[i].sale) /\ InFlight(procs[i].sale) # NoTx
    BY <2>1, CarryingFacts DEF Tx
  <2>4. /\ Decided(procs[i].sale, procs[i].outcome) \in SaleRec
        /\ SaleOK(txs, procs[i].id, Decided(procs[i].sale, procs[i].outcome))
        /\ Decided(procs[i].sale, procs[i].outcome).transfers \subseteq burned
    BY <1>1, <2>2, <2>3, DecidedOK
  <2> QED BY <1>1, <1>2, <1>4, <2>3, <2>4, IdleOK, QuietStep
<1> QED BY <1>3, <1>4 DEF Settle

LEMMA BaseFail ==
  ASSUME BaseInv, NEW i \in Instances, Fail(i)
  PROVE  BaseInv'
<1>1. /\ UNCHANGED <<burned, sales, txs, count>> /\ burned \subseteq Transfers /\ Go(i, Idle)
  BY BaseFacts DEF Fail, Typed
<1>2. faults' \in 0..MaxFaults
  BY FaultsCounted, BaseFacts DEF Fail
<1>3. LocksTyped'
  BY FreedLocks, BaseFacts DEF Fail, LocksTyped
<1> QED BY <1>1, <1>2, <1>3, IdleOK, QuietStep

\* An instance that stands still while the chain moves.
LEMMA LocalMoves ==
  ASSUME NEW T, NEW n, NEW U, NEW m, TxsMove(T, n, U, m), NEW l \in Locals, LocalOK(T, l),
         l.pc = "signed" => U[InFlight(l.sale)].status = "signed"
  PROVE  LocalOK(U, l)
<1>1. l.pc \in Bare \cup Carrying => SaleOK(T, l.id, l.sale) /\ SaleOK(U, l.id, l.sale)
  BY SaleMoves DEF LocalOK
<1>2. ASSUME l.pc = "settling", l.outcome = "mined" PROVE Mined(U, InFlight(l.sale))
  <2>1. InFlight(l.sale) \in DOMAIN T
    BY <1>2, Aims DEF LocalOK, Bare, Carrying, For, Locals
  <2> QED BY <1>2, <2>1 DEF LocalOK, Mined, TxsMove
<1> QED BY <1>1, <1>2 DEF LocalOK

\* A step that signs, sends or mines.
LEMMA TxStep ==
  ASSUME BaseInv, TxsMove(txs, count, txs', count'), LocksTyped', faults' \in 0..MaxFaults,
         UNCHANGED burned,
         procs' \in [Instances -> Locals], SignedApart(procs'),
         \A i \in Instances : \/ /\ procs'[i] = procs[i]
                                 /\ procs[i].pc = "signed" => txs'[InFlight(procs[i].sale)].status = "signed"
                              \/ /\ LocalOK(txs', procs'[i])
                                 /\ procs'[i].sale.transfers = procs[i].sale.transfers,
         \/ UNCHANGED sales
         \/ \E s \in Transfers : \E sale \in SaleRec :
              put(s, sale) /\ SaleOK(txs', s, sale) /\ sale.transfers \subseteq burned
  PROVE  BaseInv'
<1>1. ASSUME NEW i \in Instances
      PROVE  LocalOK(txs', procs'[i]) /\ procs'[i].sale.transfers \subseteq burned'
  <2>1. procs[i] \in Locals /\ LocalOK(txs, procs[i]) /\ procs[i].sale.transfers \subseteq burned
    BY BaseFacts
  <2> QED BY <2>1, LocalMoves
<1>2. /\ sales' \in [Transfers -> SaleRec]
      /\ \A s \in Transfers : SaleOK(txs', s, sales'[s]) /\ sales'[s].transfers \subseteq burned'
  <2>0. \A s \in Transfers : SaleOK(txs', s, sales[s])
    BY SaleMoves DEF BaseInv
  <2>1. CASE UNCHANGED sales
    BY <2>0, <2>1 DEF BaseInv, Typed
  <2>2. ASSUME NEW s \in Transfers, NEW sale \in SaleRec,
               put(s, sale), SaleOK(txs', s, sale), sale.transfers \subseteq burned
        PROVE  /\ sales' \in [Transfers -> SaleRec]
               /\ \A u \in Transfers : SaleOK(txs', u, sales'[u]) /\ sales'[u].transfers \subseteq burned'
    <3>1. /\ sales' \in [Transfers -> SaleRec] /\ sales'[s] = sale
          /\ \A u \in Transfers : u # s => sales'[u] = sales[u]
      BY <2>2 DEF put, BaseInv, Typed
    <3> QED BY <2>0, <2>2, <3>1 DEF BaseInv
  <2> QED BY <2>1, <2>2
<1>3. Typed'
  BY <1>2 DEF Typed, BaseInv, TxsMove
<1> QED BY <1>1, <1>2, <1>3 DEF BaseInv

LEMMA Moves1 ==
  ASSUME NEW T \in Seq(TxRec), NEW n \in Nat, NEW x \in TxRec, x.status = "signed",
         NEW U, U = Append(T, x)
  PROVE  TxsMove(T, n, U, n)
  BY Appended DEF TxsMove

LEMMA Moves2 ==
  ASSUME NEW T \in Seq(TxRec), NEW n \in Nat, NEW m \in Nat, n <= m, NEW t \in DOMAIN T,
         T[t].status \notin {"mined", "reverted"}, NEW s \in Status,
         s = "mined" => T[t].nonce >= n, NEW U, U = [T EXCEPT ![t].status = s]
  PROVE  TxsMove(T, n, U, m) /\ U[t].status = s
<1>1. T[t] \in TxRec
  OBVIOUS
<1>2. /\ U \in Seq(TxRec) /\ DOMAIN U = DOMAIN T /\ U[t] = [T[t] EXCEPT !.status = s]
      /\ \A u \in DOMAIN T : u # t => U[u] = T[u]
  BY StatusSet
<1>3. U[t].nonce = T[t].nonce /\ U[t].kind = T[t].kind /\ U[t].sale = T[t].sale /\ U[t].status = s
  BY <1>1, <1>2 DEF TxRec
<1> QED BY <1>2, <1>3 DEF TxsMove

LEMMA SignedTx ==
  ASSUME txs \in Seq(TxRec), NEW x \in TxRec, txs' = Append(txs, x)
  PROVE  /\ txs' \in Seq(TxRec) /\ Len(txs') \in Nat \ {NoTx} /\ Len(txs') \notin DOMAIN txs
         /\ Len(txs') \in DOMAIN txs' /\ DOMAIN txs' = DOMAIN txs \cup {Len(txs')}
         /\ txs'[Len(txs')] = x /\ \A u \in DOMAIN txs : txs'[u] = txs[u]
<1>1. txs \in Seq(TxRec) /\ x \in TxRec /\ txs' = Append(txs, x)
  OBVIOUS
<1>2. txs' \in Seq(TxRec)
  BY ONLY <1>1, Appended
<1>3. Len(txs') \in Nat \ {NoTx} /\ Len(txs') \notin DOMAIN txs
  BY ONLY <1>1, Appended
<1>4. DOMAIN txs' = DOMAIN txs \cup {Len(txs')}
  BY ONLY <1>1, Appended
<1>5. txs'[Len(txs')] = x /\ \A u \in DOMAIN txs : txs'[u] = txs[u]
  BY ONLY <1>1, Appended
<1> QED BY <1>2, <1>3, <1>4, <1>5

LEMMA RecordSteps ==
  ASSUME BaseInv, NEW i \in Instances, Record(i)
  PROVE  \E x \in TxRec : \E new \in Locals :
           LET t == Len(txs') s == procs[i].id IN
           /\ txs' = Append(txs, x) /\ x.sale = s /\ x.kind = Aim(procs[i].sale)
           /\ x.status = "signed" /\ x.nonce \in Nat
           /\ s \in Transfers /\ For(txs', t, s, Aim(procs[i].sale))
           /\ SaleOK(txs', s, procs[i].sale) /\ Pending(procs[i].sale)
           /\ InFlight(procs[i].sale) = NoTx
           /\ new.pc = "signed" /\ new.id = s /\ new.sale = Named(procs[i].sale, t)
           /\ Go(i, new) /\ put(s, new.sale) /\ LocalOK(txs', new)
           /\ SaleOK(txs', s, new.sale) /\ new.sale.transfers = procs[i].sale.transfers
<1>1. /\ procs[i] \in Locals /\ procs[i].sale \in SaleRec /\ LocalOK(txs, procs[i])
      /\ procs[i].nonce \in Nat /\ txs \in Seq(TxRec) /\ procs[i].pc = "signing" /\ count \in Nat
  BY BaseFacts DEF Record, At, Locals
<1>2. /\ procs[i].id \in Transfers /\ SaleOK(txs, procs[i].id, procs[i].sale)
      /\ Pending(procs[i].sale) /\ InFlight(procs[i].sale) = NoTx
  BY <1>1 DEF LocalOK, Bare
<1> DEFINE x == [nonce |-> procs[i].nonce, sale |-> procs[i].id, kind |-> Aim(procs[i].sale),
                 status |-> "signed"]
           t == Len(txs')
           s == procs[i].id
<1>3. x \in TxRec /\ x.sale = s /\ x.kind = Aim(procs[i].sale) /\ x.status = "signed" /\ x.nonce \in Nat
  BY <1>1, <1>2, Aims DEF TxRec, Status
<1>4. txs' = Append(txs, x)
  BY DEF Record, Signed
<1> HIDE DEF x
<1>5. /\ txs' \in Seq(TxRec) /\ t \in Nat \ {NoTx} /\ t \in DOMAIN txs' /\ txs'[t] = x
  BY <1>1, <1>3, <1>4, SignedTx
<1>6. For(txs', t, s, Aim(procs[i].sale))
  BY <1>3, <1>5 DEF For
<1>7. SaleOK(txs', s, procs[i].sale)
  BY <1>1, <1>2, <1>3, <1>4, Moves1, SaleMoves
<1> DEFINE sale == Named(procs[i].sale, t)
<1>8. /\ sale \in SaleRec /\ SaleOK(txs', s, sale) /\ sale.transfers = procs[i].sale.transfers
      /\ Pending(sale) /\ InFlight(sale) = t
  BY <1>1, <1>2, <1>5, <1>6, <1>7, NamedOK
<1>9. put(s, sale) /\ Go(i, [procs[i] EXCEPT !.pc = "signed", !.sale = sale])
  BY DEF Record
<1> HIDE DEF sale
<1>10. PICK new : new = [procs[i] EXCEPT !.pc = "signed", !.sale = sale] /\ Go(i, new)
  BY <1>9
<1>11. /\ new \in Locals /\ new.pc = "signed" /\ new.id = s /\ new.sale = sale
  BY <1>1, <1>8, <1>10 DEF Locals, Pcs, Carrying
<1>12. LocalOK(txs', new)
  BY <1>2, <1>3, <1>5, <1>8, <1>11 DEF LocalOK, Bare, Carrying, NoTx
<1> QED BY <1>2, <1>3, <1>4, <1>6, <1>7, <1>8, <1>9, <1>10, <1>11, <1>12 DEF sale

LEMMA BaseRecord ==
  ASSUME BaseInv, NEW i \in Instances, Record(i)
  PROVE  BaseInv'
<1>1. PICK x \in TxRec, new \in Locals :
           LET t == Len(txs') s == procs[i].id IN
           /\ txs' = Append(txs, x) /\ x.status = "signed"
           /\ s \in Transfers
           /\ new.pc = "signed" /\ new.id = s /\ new.sale = Named(procs[i].sale, t)
           /\ SaleOK(txs', s, procs[i].sale) /\ Pending(procs[i].sale)
           /\ InFlight(procs[i].sale) = NoTx /\ For(txs', t, s, Aim(procs[i].sale))
           /\ Go(i, new) /\ put(s, new.sale) /\ LocalOK(txs', new)
           /\ SaleOK(txs', s, new.sale) /\ new.sale.transfers = procs[i].sale.transfers
  BY RecordSteps
<1>2. /\ faults' \in 0..MaxFaults /\ LocksTyped' /\ UNCHANGED <<burned, count>>
      /\ procs \in [Instances -> Locals] /\ txs \in Seq(TxRec) /\ count \in Nat
      /\ procs[i].sale \in SaleRec /\ procs[i].sale.transfers \subseteq burned
  BY FaultsCounted, BaseFacts DEF Record, LocksTyped
<1>3. /\ procs' \in [Instances -> Locals] /\ procs'[i] = new
      /\ \A j \in Instances : j # i => procs'[j] = procs[j]
  BY <1>1, <1>2 DEF Go
<1>4. TxsMove(txs, count, txs', count')
  BY <1>1, <1>2, Moves1
<1>5. /\ txs' \in Seq(TxRec) /\ Len(txs') \in Nat \ {NoTx} /\ Len(txs') \notin DOMAIN txs
      /\ \A t \in DOMAIN txs : txs'[t] = txs[t]
  BY <1>1, <1>2, SignedTx
<1>6. InFlight(new.sale) = Len(txs')
  <2> DEFINE tx == Len(txs')
  <2>1. /\ procs[i].id \in Transfers /\ txs' \in Seq(TxRec) /\ procs[i].sale \in SaleRec
        /\ SaleOK(txs', procs[i].id, procs[i].sale) /\ Pending(procs[i].sale)
        /\ InFlight(procs[i].sale) = NoTx /\ tx \in Nat \ {NoTx}
        /\ For(txs', tx, procs[i].id, Aim(procs[i].sale)) /\ new.sale = Named(procs[i].sale, tx)
    BY <1>1, <1>2, <1>5
  <2> HIDE DEF tx
  <2>2. InFlight(Named(procs[i].sale, tx)) = tx
    BY ONLY <2>1, NamedOK
  <2> QED BY <2>1, <2>2 DEF tx
<1>7. ASSUME NEW j \in Instances, procs[j].pc = "signed"
      PROVE  /\ InFlight(procs[j].sale) \in DOMAIN txs
             /\ txs'[InFlight(procs[j].sale)].status = "signed"
  <2>1. Tx(j) \in DOMAIN txs
    BY <1>7, CarryingFacts DEF Carrying
  <2> QED BY <1>5, <1>7, <2>1, BaseFacts DEF LocalOK, Tx
<1>8. SignedApart(procs')
  BY <1>3, <1>5, <1>6, <1>7 DEF SignedApart, BaseInv
<1>9. new.sale \in SaleRec /\ new.sale.transfers \subseteq burned
  BY <1>1, <1>2 DEF Locals
<1> QED BY <1>1, <1>2, <1>3, <1>4, <1>7, <1>8, <1>9, TxStep

LEMMA BaseBroadcast ==
  ASSUME BaseInv, NEW i \in Instances, Broadcast(i)
  PROVE  BaseInv' /\ TxsMove(txs, count, txs', count')
<1>1. /\ procs[i] \in Locals /\ procs[i].pc = "signed" /\ procs[i].pc \in Carrying
      /\ LocalOK(txs, procs[i]) /\ procs \in [Instances -> Locals]
      /\ txs \in Seq(TxRec) /\ count \in Nat /\ LocksTyped
  BY BaseFacts DEF Broadcast, At, Carrying
<1>2. Tx(i) \in DOMAIN txs /\ txs[Tx(i)].status = "signed"
  BY <1>1, CarryingFacts DEF LocalOK, Tx
<1>3. PICK s \in {"pending", "lost"} : Sends(Tx(i), s)
  BY DEF Broadcast
<1>4. TxsMove(txs, count, txs', count') /\ DOMAIN txs' = DOMAIN txs
      /\ \A t \in DOMAIN txs : t # Tx(i) => txs'[t] = txs[t]
  <2>1. s \in Status /\ s # "mined" /\ UNCHANGED count /\ txs' = [txs EXCEPT ![Tx(i)].status = s]
    BY <1>3 DEF Broadcast, Sends, Status
  <2>2. count <= count'
    BY <1>1, <2>1
  <2>3. TxsMove(txs, count, txs', count')
    BY <1>1, <1>2, <2>1, <2>2, Moves2
  <2> QED BY <1>1, <1>2, <2>1, <2>3, StatusSet
<1>5. faults' \in 0..MaxFaults /\ LocksTyped' /\ UNCHANGED <<burned, sales>>
  BY <1>1, FaultsCounted, FreedLocks, BaseFacts DEF Broadcast, Ends, LocksTyped
<1>6. ASSUME NEW new \in Locals, Go(i, new), LocalOK(txs, new), new.pc \in {"sent", "settling"},
             new.sale = procs[i].sale
      PROVE  BaseInv'
  <2>1. /\ procs' \in [Instances -> Locals] /\ procs'[i] = new
        /\ \A j \in Instances : j # i => procs'[j] = procs[j]
    BY <1>1, <1>6 DEF Go
  <2>2. LocalOK(txs', new)
    BY <1>4, <1>6, LocalMoves
  <2>3. ASSUME NEW j \in Instances, j # i, procs[j].pc = "signed"
        PROVE  txs'[InFlight(procs[j].sale)].status = "signed"
    <3>1. Tx(j) \in DOMAIN txs /\ txs[Tx(j)].status = "signed"
      BY <2>3, CarryingFacts, BaseFacts DEF Carrying, LocalOK, Tx
    <3>2. Tx(j) # Tx(i)
      BY <1>1, <2>3 DEF BaseInv, SignedApart, Tx
    <3> QED BY <1>4, <3>1, <3>2 DEF Tx
  <2>4. SignedApart(procs')
    BY <1>6, <2>1 DEF SignedApart, BaseInv
  <2> QED BY <1>4, <1>5, <1>6, <2>1, <2>2, <2>3, <2>4, TxStep
<1>7. CASE Ends(i, "unknown")
  <2>1. PICK new : Go(i, new) /\ new = Settling(procs[i], "unknown")
    BY <1>7 DEF Ends, Settling
  <2>2. "unknown" \in Outcomes
    BY DEF Outcomes
  <2>3. new \in Locals /\ LocalOK(txs, new) /\ new.pc = "settling" /\ new.sale = procs[i].sale
    BY <1>1, <2>1, <2>2, SettlesOK
  <2> QED BY <1>4, <1>6, <2>1, <2>3
<1>8. CASE Go(i, [procs[i] EXCEPT !.pc = "sent"])
  <2>1. PICK new : Go(i, new) /\ new = [procs[i] EXCEPT !.pc = "sent"]
    BY <1>8
  <2>2. /\ new \in Locals /\ new.pc = "sent" /\ new.id = procs[i].id /\ new.sale = procs[i].sale
    BY <1>1, <2>1 DEF Locals, Pcs, Carrying
  <2>3. LocalOK(txs, new)
    BY <1>1, <2>2 DEF LocalOK, Bare, Carrying
  <2> QED BY <1>4, <1>6, <2>1, <2>2, <2>3
<1> QED BY <1>4, <1>7, <1>8 DEF Broadcast

LEMMA BaseAwait ==
  ASSUME BaseInv, NEW i \in Instances, Await(i)
  PROVE  BaseInv'
<1>1. /\ UNCHANGED <<burned, sales, txs, count>> /\ burned \subseteq Transfers
      /\ procs[i].sale.transfers \subseteq burned /\ procs[i].pc \in Carrying
      /\ faults' \in 0..MaxFaults
  BY FaultsCounted, BaseFacts DEF Await, At, Typed, Carrying
<1>2. LocksTyped'
  BY FreedLocks, BaseFacts DEF Await, Ends, LocksTyped
<1>3. PICK outcome : /\ Ends(i, outcome)
                     /\ outcome \in {"unknown", "mined", "reverted"}
                     /\ outcome = "mined" => Mined(txs, Tx(i))
  BY DEF Await, Executed, Mined
<1>4. PICK new : Go(i, new) /\ new = Settling(procs[i], outcome)
  BY <1>3 DEF Ends, Settling
<1>5. outcome \in Outcomes /\ outcome # "none"
  BY <1>3 DEF Outcomes
<1>6. new \in Locals /\ LocalOK(txs, new) /\ new.pc = "settling" /\ new.sale = procs[i].sale
  BY <1>1, <1>3, <1>4, <1>5, SettlesOK
<1> QED BY <1>1, <1>2, <1>4, <1>6, QuietStep

\* A step of the node or the chain: only statuses and the nonce move.
LEMMA ChainStep ==
  ASSUME BaseInv, UNCHANGED <<burned, sales, procs>>, LocksTyped', faults' \in 0..MaxFaults,
         TxsMove(txs, count, txs', count'),
         \A t \in DOMAIN txs : txs[t].status = "signed" => txs'[t].status = "signed"
  PROVE  BaseInv'
<1>1. ASSUME NEW i \in Instances, procs[i].pc = "signed"
      PROVE  txs'[InFlight(procs[i].sale)].status = "signed"
  <2>1. Tx(i) \in DOMAIN txs /\ txs[Tx(i)].status = "signed"
    BY <1>1, CarryingFacts, BaseFacts DEF Carrying, LocalOK, Tx
  <2> QED BY <2>1 DEF Tx
<1>2. procs' \in [Instances -> Locals] /\ SignedApart(procs')
  BY DEF BaseInv, Typed
<1> QED BY <1>1, <1>2, TxStep

LEMMA Movements ==
  ASSUME BaseInv, NEW t \in DOMAIN txs, Mine(t) \/ Drop(t)
  PROVE  /\ TxsMove(txs, count, txs', count') /\ DOMAIN txs' = DOMAIN txs
         /\ \A u \in DOMAIN txs : u # t => txs'[u] = txs[u]
         /\ txs'[t].nonce = txs[t].nonce /\ txs'[t].sale = txs[t].sale /\ txs'[t].kind = txs[t].kind
         /\ txs[t].status \in {"pending", "lost"}
         /\ Mine(t) => txs[t].nonce = count
         /\ Drop(t) => txs'[t].status = "lost"
<1>0. txs \in Seq(TxRec) /\ count \in Nat
  BY DEF BaseInv, Typed
<1>1. txs \in Seq(TxRec) /\ count \in Nat /\ txs[t] \in TxRec /\ txs[t].nonce \in Nat
  <2>1. txs[t] \in TxRec
    BY <1>0
  <2> QED BY <1>0, <2>1 DEF TxRec
<1>2. CASE Mine(t)
  <2>1. PICK s \in {"mined", "reverted"} : Executes(t, s)
    BY <1>2 DEF Mine
  <2>2. /\ s \in Status /\ count' \in Nat /\ count <= count' /\ txs[t].nonce = count
        /\ txs[t].status \in {"pending", "lost"} /\ txs' = [txs EXCEPT ![t].status = s]
    BY <1>1, <2>1 DEF Executes, Status
  <2>3. TxsMove(txs, count, txs', count') /\ txs'[t].status = s
    <3>1. txs[t].status \notin {"mined", "reverted"} /\ (s = "mined" => txs[t].nonce >= count)
      BY <1>1, <2>2
    <3>2. TxsMove(txs, count, txs', count')
      BY <1>1, <2>2, <3>1, Moves2
    <3>3. txs'[t] = [txs[t] EXCEPT !.status = s]
      BY <1>1, <2>2, StatusSet
    <3> QED BY <1>1, <3>2, <3>3 DEF TxRec
  <2>4. /\ DOMAIN txs' = DOMAIN txs /\ \A u \in DOMAIN txs : u # t => txs'[u] = txs[u]
    BY <1>1, <2>2, StatusSet
  <2>5. ~Drop(t)
    BY <1>1, <2>1 DEF Drop, Forgotten, Executes
  <2> QED BY <2>2, <2>3, <2>4, <2>5 DEF TxsMove
<1>3. CASE Drop(t)
  <2>1. PICK s \in {"lost"} : Sends(t, s)
    BY <1>3 DEF Drop, Forgotten, Sends
  <2>2. /\ s \in Status /\ count' \in Nat /\ count <= count' /\ s # "mined"
        /\ txs[t].status = "pending" /\ txs' = [txs EXCEPT ![t].status = s]
    BY <1>1, <1>3, <2>1 DEF Drop, Forgotten, Status, Sends
  <2>3. TxsMove(txs, count, txs', count')
    BY <1>1, <2>2, Moves2
  <2>4. /\ DOMAIN txs' = DOMAIN txs /\ txs'[t] = [txs[t] EXCEPT !.status = s]
        /\ \A u \in DOMAIN txs : u # t => txs'[u] = txs[u]
    BY <1>1, <2>2, StatusSet
  <2>5. ~Mine(t)
    BY <1>1, <1>3 DEF Mine, Drop, Forgotten, Executes
  <2>6. txs'[t].status = "lost"
    BY <1>1, <2>1, <2>4 DEF TxRec
  <2> QED BY <2>2, <2>3, <2>4, <2>5, <2>6 DEF TxsMove
<1> QED BY <1>2, <1>3

LEMMA BaseChain ==
  ASSUME BaseInv, NEW t \in DOMAIN txs, Mine(t) \/ Drop(t)
  PROVE  BaseInv'
<1>1. faults' \in 0..MaxFaults
  BY FaultsCounted, SaleFaults DEF Mine, Drop, BaseInv
<1>2. LocksTyped' /\ UNCHANGED <<burned, sales, procs>>
  BY DEF Mine, Drop, LocksTyped, BaseInv, Typed
<1>3. \A u \in DOMAIN txs : txs[u].status = "signed" => txs'[u].status = "signed"
  BY Movements
<1> QED BY <1>1, <1>2, <1>3, Movements, ChainStep

LEMMA BaseTraffic ==
  ASSUME BaseInv, OtherTraffic
  PROVE  BaseInv' /\ TxsMove(txs, count, txs', count')
<1>1. txs \in Seq(TxRec) /\ count \in Nat /\ count' = count + 1 /\ txs' = txs
  BY DEF BaseInv, Typed, OtherTraffic, Overtaken
<1>2. TxsMove(txs, count, txs', count')
  BY <1>1 DEF TxsMove
<1>3. faults' \in 0..MaxFaults /\ LocksTyped' /\ UNCHANGED <<burned, sales, procs>>
  BY FaultsCounted DEF OtherTraffic, LocksTyped, BaseInv, Typed
<1> QED BY <1>1, <1>2, <1>3, ChainStep

LEMMA BaseLapse ==
  ASSUME BaseInv, LockLapses \/ \E s \in Transfers : SaleLockLapses(s)
  PROVE  BaseInv'
<1>1. /\ UNCHANGED <<burned, sales, procs, txs, count>> /\ txs \in Seq(TxRec) /\ count \in Nat
  BY DEF LockLapses, SaleLockLapses, BaseInv, Typed
<1>2. faults' \in 0..MaxFaults
  BY FaultsCounted DEF LockLapses, SaleLockLapses, BaseInv
<1>3. LocksTyped'
  BY DEF LockLapses, SaleLockLapses, BaseInv, Typed, LocksTyped
<1>4. TxsMove(txs, count, txs', count')
  BY <1>1 DEF TxsMove
<1> QED BY <1>1, <1>2, <1>3, <1>4, ChainStep

LEMMA BaseStep ==
  ASSUME BaseInv, [Next]_vars
  PROVE  BaseInv'
<1>1. CASE UNCHANGED vars
  BY <1>1 DEF vars, BaseInv, Typed, LocksTyped
<1>2. ASSUME NEW i \in Instances,
             \/ \E hashes \in SUBSET Transfers : Sell(i, hashes)
             \/ \E s \in Transfers : Advance(i, s)
             \/ Count(i) \/ OpenSale(i) \/ Miss(i) \/ Step(i) \/ Fail(i)
      PROVE  BaseInv'
  BY <1>2, BaseSell, BaseAdvance, BaseCount, BaseOpenSale, BaseMiss, BaseFail, BaseReadReceipt,
     BaseReadCount, BaseAcquire, BaseRecord, BaseBroadcast, BaseAwait, BaseSettle DEF Step
<1> QED BY <1>1, <1>2, BaseChain, BaseLapse, BaseTraffic DEF Next

THEOREM BaseHolds == Spec => []BaseInv
  BY BaseInit, BaseStep, PTL DEF Spec

\* Every record is one the code can write, whatever goes wrong: it names only
\* transactions signed for that sale, stops at MAX_ATTEMPTS misses, and returns
\* the tokens only after the last of them (record in sell.ts).
THEOREM RecordsTyped == Spec => []TypeOK
<1>1. BaseInv => TypeOK
  <2> SUFFICES ASSUME BaseInv PROVE TypeOK
    OBVIOUS
  <2>1. ASSUME NEW s \in Transfers
        PROVE  /\ sales[s].state \in States /\ sales[s].attempts \in 0..MAX_ATTEMPTS
               /\ sales[s].state # "none" => s \in sales[s].transfers /\ sales[s].transfers \subseteq burned
               /\ sales[s].saleTx # NoTx => txs[sales[s].saleTx].sale = s /\ txs[sales[s].saleTx].kind = "swap"
               /\ sales[s].payoutTx # NoTx =>
                    /\ txs[sales[s].payoutTx].sale = s
                    /\ txs[sales[s].payoutTx].kind = IF sales[s].saleTx = NoTx THEN "return" ELSE "payout"
                    /\ sales[s].saleTx = NoTx => sales[s].attempts = MAX_ATTEMPTS
    <3>1. /\ sales[s] \in SaleRec /\ SaleOK(txs, s, sales[s]) /\ sales[s].transfers \subseteq burned
      BY DEF BaseInv, Typed
    <3>2. sales[s].attempts \in Nat /\ MAX_ATTEMPTS \in Nat
      BY <3>1, SaleAttempts DEF SaleRec
    <3> QED BY <3>1, <3>2 DEF SaleOK, For, SaleRec
  <2> QED BY <2>1 DEF TypeOK, BaseInv, Typed, LocksTyped, States
<1> QED BY <1>1, BaseHolds, PTL

\* Whatever goes wrong, a receipt withheld, a block between two reads, a lock
\* that lapses under its holder: a sale that reads sold, paid or returned had
\* that transaction mined (settleSwap, settlePayout and settleReturn in sell.ts).
THEOREM SalesReadTrue == Spec => []RecordIsTrue
<1>1. BaseInv => RecordIsTrue
  <2> SUFFICES ASSUME BaseInv, NEW s \in Transfers
               PROVE  /\ sales[s].state = "sold" => sales[s].saleTx \in MinedFor(s, "swap")
                      /\ sales[s].state = "paid" => sales[s].payoutTx \in MinedFor(s, "payout")
                      /\ sales[s].state = "returned" => sales[s].payoutTx \in MinedFor(s, "return")
    BY DEF RecordIsTrue
  <2>1. SaleOK(txs, s, sales[s])
    BY DEF BaseInv
  <2> QED BY <2>1 DEF SaleOK, For, Mined, MinedFor
<1> QED BY <1>1, BaseHolds, PTL

----------------------------------------------------------------------------
(* FateInv: who advances a sale does it alone.                             *)

Advances(l) == l.pc \in Bare \cup Carrying

LEMMA FateFacts ==
  ASSUME FateInv, NEW i \in Instances
  PROVE  /\ BaseInv /\ Typed /\ procs[i] \in Locals /\ LocalOK(txs, procs[i])
         /\ procs \in [Instances -> Locals] /\ sales \in [Transfers -> SaleRec]
         /\ saleLocks \in [Transfers -> Instances \cup {NoOne, Stale}]
         /\ txs \in Seq(TxRec) /\ count \in Nat
         /\ Advances(procs[i]) => /\ procs[i].id \in Transfers
                                  /\ saleLocks[procs[i].id] = i
                                  /\ sales[procs[i].id] = procs[i].sale
                                  /\ SaleOK(txs, procs[i].id, procs[i].sale) /\ Pending(procs[i].sale)
  BY BaseFacts DEF FateInv, LocksTyped, Alone, Advances, LocalOK

LEMMA Apart ==
  ASSUME FateInv, NEW i \in Instances, NEW j \in Instances, i # j,
         Advances(procs[i]), Advances(procs[j])
  PROVE  procs[i].id # procs[j].id
  BY FateFacts

LEMMA Goes ==
  ASSUME BaseInv, NEW i \in Instances, NEW new, Go(i, new)
  PROVE  procs'[i] = new /\ \A j \in Instances : j # i => procs'[j] = procs[j]
  BY BaseFacts DEF Go

\* An instance goes on with what it has.
Continues(i) ==
  /\ Advances(procs[i]) /\ Advances(procs'[i])
  /\ procs'[i].id = procs[i].id /\ procs'[i].sale = procs[i].sale
  /\ \A j \in Instances : j # i => procs'[j] = procs[j]
  /\ UNCHANGED <<burned, sales, saleLocks>>

LEMMA Continuing ==
  ASSUME BaseInv, NEW i \in Instances,
         ReadReceipt(i) \/ ReadCount(i) \/ Acquire(i) \/ Broadcast(i) \/ Await(i)
  PROVE  Continues(i)
<1>1. procs[i] \in Locals
  BY BaseFacts
<1>2. Advances(procs[i]) /\ UNCHANGED <<burned, sales, saleLocks>>
  BY DEF ReadReceipt, ReadCount, Acquire, Broadcast, Await, At, Advances, Bare, Carrying
<1>3. ASSUME NEW outcome, NEW new, new = Settling(procs[i], outcome)
      PROVE  new.pc = "settling" /\ new.id = procs[i].id /\ new.sale = procs[i].sale
  BY <1>1, <1>3 DEF Settling, Locals
<1>4. ASSUME NEW pc \in {"reading", "sent"}, NEW new, new = [procs[i] EXCEPT !.pc = pc]
      PROVE  new.pc = pc /\ new.id = procs[i].id /\ new.sale = procs[i].sale
  BY <1>1, <1>4 DEF Locals
<1>5. ASSUME NEW n, NEW new, new = [procs[i] EXCEPT !.pc = "signing", !.nonce = n]
      PROVE  new.pc = "signing" /\ new.id = procs[i].id /\ new.sale = procs[i].sale
  BY <1>1, <1>5 DEF Locals
<1>6. PICK new : /\ Go(i, new)
                 /\ \/ \E outcome : new = Settling(procs[i], outcome)
                    \/ \E pc \in {"reading", "sent"} : new = [procs[i] EXCEPT !.pc = pc]
                    \/ \E n : new = [procs[i] EXCEPT !.pc = "signing", !.nonce = n]
  <2>1. CASE ReadReceipt(i)
    BY <2>1 DEF ReadReceipt, Settling
  <2>2. CASE ReadCount(i)
    BY <2>2 DEF ReadCount, Settling
  <2>3. CASE Acquire(i)
    BY <2>3 DEF Acquire
  <2>4. CASE Broadcast(i)
    BY <2>4 DEF Broadcast, Ends, Settling
  <2>5. CASE Await(i)
    BY <2>5 DEF Await, Ends, Settling
  <2> QED BY <2>1, <2>2, <2>3, <2>4, <2>5
<1>7. Advances(new) /\ new.id = procs[i].id /\ new.sale = procs[i].sale
  <2>1. /\ new.pc \in {"settling", "reading", "sent", "signing"}
        /\ new.id = procs[i].id /\ new.sale = procs[i].sale
    <3>1. CASE \E outcome : new = Settling(procs[i], outcome)
      BY <1>3, <3>1
    <3>2. CASE \E pc \in {"reading", "sent"} : new = [procs[i] EXCEPT !.pc = pc]
      BY <1>4, <3>2
    <3>3. CASE \E n : new = [procs[i] EXCEPT !.pc = "signing", !.nonce = n]
      <4>1. PICK n : new = [procs[i] EXCEPT !.pc = "signing", !.nonce = n]
        BY <3>3
      <4> QED BY <1>1, <4>1 DEF Locals
    <3> QED BY <1>6, <3>1, <3>2, <3>3
  <2> QED BY <2>1 DEF Advances, Bare, Carrying
<1> QED BY <1>2, <1>6, <1>7, Goes DEF Continues

LEMMA AloneGoes ==
  ASSUME FateInv, NEW i \in Instances, NEW new, Go(i, new),
         \A j \in Instances : j # i /\ Advances(procs[j]) =>
           saleLocks'[procs[j].id] = j /\ sales'[procs[j].id] = sales[procs[j].id],
         Advances(new) => saleLocks'[new.id] = i /\ sales'[new.id] = new.sale
  PROVE  Alone(procs', sales', saleLocks')
  BY Goes DEF FateInv, Alone, Advances

LEMMA FreeSaleKeeps ==
  ASSUME FateInv, NEW i \in Instances, FreeSale(i) \/ Gone(i)
  PROVE  \A j \in Instances : j # i /\ Advances(procs[j]) => saleLocks'[procs[j].id] = j
  BY FateFacts DEF FreeSale, Gone

\* The record an instance writes is of the sale it holds.
LEMMA PutKeeps ==
  ASSUME FateInv, NEW i \in Instances, Advances(procs[i]), NEW sale, put(procs[i].id, sale)
  PROVE  /\ sales'[procs[i].id] = sale
         /\ \A s \in Transfers : s # procs[i].id => sales'[s] = sales[s]
         /\ \A j \in Instances : j # i /\ Advances(procs[j]) => sales'[procs[j].id] = sales[procs[j].id]
  BY FateFacts, Apart DEF put

\* A request opens a sale that no transfer of it was in before.
LEMMA OpensNew ==
  ASSUME FateInv, NEW i \in Instances, OpenSale(i), procs[i].id # NoOne
  PROVE  /\ procs[i].id \in Transfers /\ sales[procs[i].id] = NoSale
         /\ put(procs[i].id, procs[i].sale) /\ procs[i].id \in procs[i].sale.transfers
         /\ procs[i].sale = Opened(procs[i].sale.transfers)
         /\ procs[i].sale.transfers \in SUBSET Transfers
         /\ \A j \in Instances : Advances(procs[j]) => procs[j].id # procs[i].id
         /\ \A s \in Transfers : s # procs[i].id => sales'[s] = sales[s]
         /\ sales'[procs[i].id] = procs[i].sale
<1>1. /\ procs[i].pc = "counting" /\ LocalOK(txs, procs[i]) /\ put(procs[i].id, procs[i].sale)
      /\ procs[i] \in Locals /\ sales \in [Transfers -> SaleRec] /\ BaseInv
  BY FateFacts DEF OpenSale, At
<1>2. /\ procs[i].id \in procs[i].sale.transfers /\ procs[i].id \in Transfers
      /\ procs[i].sale = Opened(procs[i].sale.transfers) /\ procs[i].sale.transfers \in SUBSET Transfers
  BY <1>1 DEF LocalOK, Locals, SaleRec
<1>3. sales[procs[i].id] = NoSale
  <2>1. SaleOK(txs, procs[i].id, sales[procs[i].id])
    BY <1>1, <1>2 DEF BaseInv
  <2>2. procs[i].id \notin sales[procs[i].id].transfers
    BY <1>1, <1>2 DEF FateInv, OneSaleEach
  <2> QED BY <2>1, <2>2 DEF SaleOK
<1>4. ~Pending(NoSale)
  BY DEF Pending, NoSale
<1> QED BY <1>1, <1>2, <1>3, <1>4, FateFacts DEF put

LEMMA AloneStep ==
  ASSUME FateInv, OneAtATime, [Next]_vars
  PROVE  Alone(procs', sales', saleLocks')
<1>1. BaseInv /\ Alone(procs, sales, saleLocks)
  BY DEF FateInv
<1>2. CASE UNCHANGED <<procs, sales, saleLocks>>
  BY <1>1, <1>2
<1>3. ASSUME NEW s \in Transfers, SaleLockLapses(s) PROVE Alone(procs', sales', saleLocks')
  <2>1. saleLocks[s] = Stale
    BY <1>3 DEF SaleLockLapses, Fault, OneAtATime
  <2>2. /\ UNCHANGED <<procs, sales>> /\ Stale \notin Instances
        /\ \A u \in Transfers : u # s => saleLocks'[u] = saleLocks[u]
    BY <1>1, <1>3, SaleNames DEF SaleLockLapses, BaseInv, Typed, LocksTyped
  <2>3. \A i \in Instances : Advances(procs[i]) => procs[i].id \in Transfers /\ procs[i].id # s
    BY <2>1, <2>2, FateFacts
  <2> QED BY <1>1, <2>2, <2>3 DEF Alone, Advances
<1>4. ASSUME NEW i \in Instances,
             ReadReceipt(i) \/ ReadCount(i) \/ Acquire(i) \/ Broadcast(i) \/ Await(i)
      PROVE  Alone(procs', sales', saleLocks')
  BY <1>1, <1>4, Continuing DEF Continues, Alone, Advances
<1>5. ASSUME NEW i \in Instances, (\E hashes \in SUBSET Transfers : Sell(i, hashes)) \/ Count(i)
      PROVE  Alone(procs', sales', saleLocks')
  <2>1. PICK new : Go(i, new) /\ new.pc = "counting"
    <3>1. CASE \E hashes \in SUBSET Transfers : Sell(i, hashes)
      <4>1. \A hashes : [Idle EXCEPT !.pc = "counting", !.todo = hashes].pc = "counting"
        BY IdleOK DEF Locals
      <4> QED BY <3>1, <4>1 DEF Sell
    <3> QED BY <1>1, <1>5, <3>1, CountSteps
  <2>2. UNCHANGED <<sales, saleLocks>>
    BY <1>5 DEF Sell, Count
  <2> QED BY <2>1, <2>2, AloneGoes, FateFacts DEF Advances, Bare, Carrying
<1>6. ASSUME NEW i \in Instances, OpenSale(i) PROVE Alone(procs', sales', saleLocks')
  <2>1. Go(i, Idle) /\ ~Advances(Idle) /\ UNCHANGED saleLocks
    BY <1>6, IdleOK DEF OpenSale, Advances, Bare, Carrying
  <2>2. \A j \in Instances : Advances(procs[j]) => sales'[procs[j].id] = sales[procs[j].id]
    <3>1. CASE procs[i].id = NoOne
      BY <1>6, <3>1 DEF OpenSale
    <3>2. CASE procs[i].id # NoOne
      BY <1>6, <3>2, OpensNew, FateFacts
    <3> QED BY <3>1, <3>2
  <2> QED BY <2>1, <2>2, AloneGoes, FateFacts
<1>7. ASSUME NEW i \in Instances, NEW s \in Transfers, Advance(i, s)
      PROVE  Alone(procs', sales', saleLocks')
  <2>1. PICK new : Go(i, new) /\ new.id = s /\ new.sale = sales[s]
    BY <1>1, <1>7, AdvanceLocal
  <2>2. /\ UNCHANGED sales /\ saleLocks[s] = NoOne /\ saleLocks'[s] = i
        /\ \A u \in Transfers : u # s => saleLocks'[u] = saleLocks[u]
        /\ NoOne \notin Instances
    BY <1>1, <1>7, SaleNames DEF Advance, BaseInv, Typed, LocksTyped
  <2>3. \A j \in Instances : Advances(procs[j]) => procs[j].id # s
    BY <2>2, FateFacts
  <2> QED BY <2>1, <2>2, <2>3, AloneGoes, FateFacts
<1>8. ASSUME NEW i \in Instances, Record(i) PROVE Alone(procs', sales', saleLocks')
  <2>1. PICK new : /\ Go(i, new) /\ new.id = procs[i].id /\ put(procs[i].id, new.sale)
    BY <1>1, <1>8, RecordSteps
  <2>2. Advances(procs[i]) /\ UNCHANGED saleLocks
    BY <1>8 DEF Record, At, Advances, Bare
  <2>3. /\ sales'[procs[i].id] = new.sale
        /\ \A j \in Instances : j # i /\ Advances(procs[j]) => sales'[procs[j].id] = sales[procs[j].id]
    BY <2>1, <2>2, PutKeeps
  <2>4. \A j \in Instances : Advances(procs[j]) => saleLocks'[procs[j].id] = j
    BY <2>2, FateFacts
  <2> QED BY <2>1, <2>2, <2>3, <2>4, AloneGoes
<1>9. ASSUME NEW i \in Instances, Miss(i) \/ Settle(i) PROVE Alone(procs', sales', saleLocks')
  <2>1. Go(i, Idle) /\ ~Advances(Idle) /\ Advances(procs[i]) /\ FreeSale(i)
    BY <1>9, IdleOK DEF Miss, Settle, At, Advances, Bare, Carrying
  <2>2. UNCHANGED sales \/ \E sale : put(procs[i].id, sale)
    BY <1>9 DEF Miss, Settle
  <2>3. \A j \in Instances : j # i /\ Advances(procs[j]) => sales'[procs[j].id] = sales[procs[j].id]
    BY <2>1, <2>2, PutKeeps
  <2> QED BY <2>1, <2>3, FreeSaleKeeps, AloneGoes
<1>10. ASSUME NEW i \in Instances, Fail(i) PROVE Alone(procs', sales', saleLocks')
  <2>1. Go(i, Idle) /\ ~Advances(Idle) /\ UNCHANGED sales /\ (FreeSale(i) \/ Gone(i))
    BY <1>10, IdleOK DEF Fail, Advances, Bare, Carrying
  <2> QED BY <2>1, FreeSaleKeeps, AloneGoes
<1>11. (\E t \in DOMAIN txs : Mine(t) \/ Drop(t)) \/ LockLapses \/ OtherTraffic \/ UNCHANGED vars
         => UNCHANGED <<procs, sales, saleLocks>>
  BY DEF Mine, Drop, LockLapses, OtherTraffic, vars
<1> QED BY <1>2, <1>3, <1>4, <1>5, <1>6, <1>7, <1>8, <1>9, <1>10, <1>11 DEF Next, Step

----------------------------------------------------------------------------
(* FateInv: a transfer is in one sale.                                     *)

LEMMA SameTransfers ==
  ASSUME FateInv,
         \A s \in Transfers : sales'[s].transfers = sales[s].transfers,
         \A i \in Instances : procs'[i].pc = "counting" =>
           \/ procs'[i].sale.transfers = {}
           \/ procs[i].pc = "counting" /\ procs'[i].sale = procs[i].sale
  PROVE  OneSaleEach(procs', sales')
  BY DEF FateInv, OneSaleEach

LEMMA TransfersGo ==
  ASSUME FateInv, NEW i \in Instances, NEW new, Go(i, new),
         \/ new.pc # "counting" \/ new.sale.transfers = {}
         \/ procs[i].pc = "counting" /\ new.sale = procs[i].sale,
         \A s \in Transfers : sales'[s].transfers = sales[s].transfers
  PROVE  OneSaleEach(procs', sales')
<1>1. \A j \in Instances : procs'[j].pc = "counting" =>
        \/ procs'[j].sale.transfers = {}
        \/ procs[j].pc = "counting" /\ procs'[j].sale = procs[j].sale
  BY Goes DEF FateInv
<1> QED BY <1>1, SameTransfers

\* What an instance writes of a sale it advances keeps its transfers.
LEMMA PutTransfers ==
  ASSUME FateInv, NEW i \in Instances, Advances(procs[i]), NEW sale, put(procs[i].id, sale),
         sale.transfers = procs[i].sale.transfers
  PROVE  \A s \in Transfers : sales'[s].transfers = sales[s].transfers
<1>1. sales[procs[i].id] = procs[i].sale /\ sales'[procs[i].id] = sale
  BY PutKeeps, FateFacts
<1>2. \A s \in Transfers : s # procs[i].id => sales'[s] = sales[s]
  BY PutKeeps
<1> QED BY <1>1, <1>2

LEMMA Written ==
  ASSUME FateInv, NEW i \in Instances, Miss(i) \/ Settle(i)
  PROVE  /\ Advances(procs[i]) /\ Go(i, Idle) /\ UNCHANGED <<burned, txs, count>>
         /\ \/ UNCHANGED sales
            \/ Miss(i) /\ put(procs[i].id, Missed(procs[i].sale)) /\ Aim(procs[i].sale) = "swap"
               /\ Missed(procs[i].sale).transfers = procs[i].sale.transfers
            \/ Settle(i) /\ procs[i].pc = "settling" /\ procs[i].outcome # "unknown"
               /\ put(procs[i].id, Decided(procs[i].sale, procs[i].outcome))
               /\ Decided(procs[i].sale, procs[i].outcome).transfers = procs[i].sale.transfers
<1>0. Advances(procs[i]) /\ Go(i, Idle) /\ UNCHANGED <<burned, txs, count>>
  BY DEF Miss, Settle, At, Advances, Bare, Carrying
<1>1. /\ procs[i].id \in Transfers /\ procs[i].sale \in SaleRec /\ LocalOK(txs, procs[i])
      /\ SaleOK(txs, procs[i].id, procs[i].sale) /\ Pending(procs[i].sale)
  BY <1>0, FateFacts DEF Locals
<1>2. CASE Miss(i)
  BY <1>0, <1>1, <1>2, MissedOK DEF Miss
<1>3. CASE Settle(i)
  <2>1. procs[i].pc = "settling" /\ InFlight(procs[i].sale) # NoTx
        /\ (procs[i].outcome = "mined" => Mined(txs, InFlight(procs[i].sale)))
    BY <1>1, <1>3 DEF Settle, At, LocalOK, Bare, Carrying
  <2> QED BY <1>0, <1>1, <1>3, <2>1, DecidedOK DEF Settle
<1> QED BY <1>2, <1>3

LEMMA TransfersStep ==
  ASSUME FateInv, [Next]_vars
  PROVE  OneSaleEach(procs', sales')
<1>1. BaseInv /\ OneSaleEach(procs, sales)
  BY DEF FateInv
<1>2. CASE UNCHANGED <<procs, sales>>
  BY <1>1, <1>2
<1>3. ASSUME NEW i \in Instances,
             ReadReceipt(i) \/ ReadCount(i) \/ Acquire(i) \/ Broadcast(i) \/ Await(i)
      PROVE  OneSaleEach(procs', sales')
  <2>1. Continues(i)
    BY <1>1, <1>3, Continuing
  <2> QED BY <2>1, SameTransfers DEF Continues, Advances, Bare, Carrying
<1>4. ASSUME NEW i \in Instances, NEW hashes \in SUBSET Transfers, Sell(i, hashes)
      PROVE  OneSaleEach(procs', sales')
  <2>1. PICK new : Go(i, new) /\ new = [Idle EXCEPT !.pc = "counting", !.todo = hashes]
    BY <1>4 DEF Sell
  <2>2. new.sale.transfers = {} /\ UNCHANGED sales
    BY <1>4, <2>1, IdleOK DEF Locals, Sell
  <2> QED BY <2>1, <2>2, TransfersGo
<1>5. ASSUME NEW i \in Instances, Count(i) PROVE OneSaleEach(procs', sales')
  <2>1. PICK h \in procs[i].todo, new \in Locals :
           /\ Go(i, new) /\ new.pc = "counting"
           /\ \/ h \notin burned /\ new.sale.transfers = procs[i].sale.transfers \cup {h}
              \/ new.sale = procs[i].sale
    BY <1>1, <1>5, CountSteps
  <2>2. UNCHANGED sales /\ procs[i].pc = "counting"
    BY <1>5 DEF Count, At
  <2>3. CASE new.sale = procs[i].sale
    BY <2>1, <2>2, <2>3, TransfersGo
  <2>4. CASE h \notin burned /\ new.sale.transfers = procs[i].sale.transfers \cup {h}
    <3>1. /\ \A s \in Transfers : h \notin sales[s].transfers
          /\ \A j \in Instances : h \notin procs[j].sale.transfers
      BY <1>1, <2>4 DEF BaseInv
    <3>2. procs'[i] = new /\ \A j \in Instances : j # i => procs'[j] = procs[j]
      BY <1>1, <2>1, Goes
    <3> QED BY <1>1, <2>2, <2>4, <3>1, <3>2 DEF OneSaleEach
  <2> QED BY <2>1, <2>3, <2>4
<1>6. ASSUME NEW i \in Instances, OpenSale(i) PROVE OneSaleEach(procs', sales')
  <2>1. Go(i, Idle) /\ procs[i].pc = "counting"
    BY <1>6 DEF OpenSale, At
  <2>2. CASE procs[i].id = NoOne
    BY <1>6, <2>1, <2>2, TransfersGo, IdleOK DEF OpenSale
  <2>3. CASE procs[i].id # NoOne
    <3>1. /\ procs[i].id \in Transfers /\ sales'[procs[i].id] = procs[i].sale
          /\ \A s \in Transfers : s # procs[i].id => sales'[s] = sales[s]
      BY <1>6, <2>3, OpensNew
    <3>2. procs'[i].pc = "idle" /\ \A j \in Instances : j # i => procs'[j] = procs[j]
      BY <1>1, <2>1, Goes, IdleOK
    <3> QED BY <1>1, <2>1, <3>1, <3>2 DEF OneSaleEach
  <2> QED BY <2>2, <2>3
<1>7. ASSUME NEW i \in Instances, NEW s \in Transfers, Advance(i, s)
      PROVE  OneSaleEach(procs', sales')
  <2>1. PICK new : Go(i, new) /\ new.pc \in {"waiting", "resolving"}
    BY <1>1, <1>7, AdvanceLocal
  <2> QED BY <1>7, <2>1, TransfersGo DEF Advance
<1>8. ASSUME NEW i \in Instances, Record(i) PROVE OneSaleEach(procs', sales')
  <2>1. PICK new : /\ Go(i, new) /\ new.pc = "signed" /\ put(procs[i].id, new.sale)
                   /\ new.sale.transfers = procs[i].sale.transfers
    BY <1>1, <1>8, RecordSteps
  <2>2. Advances(procs[i])
    BY <1>8 DEF Record, At, Advances, Bare
  <2>3. \A s \in Transfers : sales'[s].transfers = sales[s].transfers
    BY <2>1, <2>2, PutTransfers
  <2> QED BY <2>1, <2>3, TransfersGo
<1>9. ASSUME NEW i \in Instances, Miss(i) \/ Settle(i) PROVE OneSaleEach(procs', sales')
  <2>1. Go(i, Idle) /\ \A s \in Transfers : sales'[s].transfers = sales[s].transfers
    BY <1>9, Written, PutTransfers
  <2> QED BY <2>1, IdleOK, TransfersGo
<1>10. ASSUME NEW i \in Instances, Fail(i) PROVE OneSaleEach(procs', sales')
  BY <1>10, IdleOK, TransfersGo DEF Fail
<1>11. (\E t \in DOMAIN txs : Mine(t) \/ Drop(t)) \/ LockLapses \/ OtherTraffic \/ UNCHANGED vars
         \/ (\E s \in Transfers : SaleLockLapses(s)) => UNCHANGED <<procs, sales>>
  BY DEF Mine, Drop, LockLapses, OtherTraffic, SaleLockLapses, vars
<1> QED BY <1>2, <1>3, <1>4, <1>5, <1>6, <1>7, <1>8, <1>9, <1>10, <1>11 DEF Next, Step

----------------------------------------------------------------------------
(* FateInv: what no record names is over.                                  *)

LEMMA Quiet ==
  ASSUME BaseInv, UNCHANGED <<txs, count>>
  PROVE  TxsMove(txs, count, txs', count')
  BY DEF BaseInv, Typed, TxsMove

LEMMA AccountedMoves ==
  ASSUME FateInv, TxsMove(txs, count, txs', count'), DOMAIN txs' = DOMAIN txs,
         \A s \in Transfers : \A t \in Names(sales[s]) \ {NoTx} :
           For(txs, t, s, txs[t].kind) => t \in Names(sales'[s]) \/ Dead(txs, count, t)
  PROVE  Accounted(txs', count', sales')
<1>1. txs \in Seq(TxRec) /\ count \in Nat /\ Accounted(txs, count, sales) /\ NoTx \notin DOMAIN txs
  BY DEF FateInv, BaseInv, Typed, NoTx
<1> SUFFICES ASSUME NEW t \in DOMAIN txs
             PROVE  Dead(txs', count', t) \/ t \in Names(sales'[txs'[t].sale])
  BY DEF Accounted, Names
<1>2. txs[t].sale \in Transfers /\ txs'[t].sale = txs[t].sale
  <2>1. txs[t] \in TxRec
    BY <1>1
  <2> QED BY <2>1 DEF TxRec, TxsMove
<1>3. Dead(txs, count, t) \/ t \in Names(sales[txs[t].sale])
  BY <1>1 DEF Accounted, Names
<1>4. Dead(txs, count, t) => Dead(txs', count', t)
  BY <1>1, DeadForGood
<1>5. t # NoTx /\ For(txs, t, txs[t].sale, txs[t].kind)
  BY <1>1 DEF For
<1> QED BY <1>2, <1>3, <1>4, <1>5

LEMMA AccountedStep ==
  ASSUME FateInv, [Next]_vars
  PROVE  Accounted(txs', count', sales')
<1>1. BaseInv /\ txs \in Seq(TxRec) /\ count \in Nat
  BY DEF FateInv, BaseInv, Typed
<1>2. ASSUME TxsMove(txs, count, txs', count'), DOMAIN txs' = DOMAIN txs, UNCHANGED sales
      PROVE  Accounted(txs', count', sales')
  BY <1>2, AccountedMoves
<1>3. CASE UNCHANGED <<sales, txs, count>>
  BY <1>1, <1>2, <1>3, Quiet
<1>4. ASSUME NEW i \in Instances, Broadcast(i) PROVE Accounted(txs', count', sales')
  <2>1. TxsMove(txs, count, txs', count')
    BY <1>1, <1>4, BaseBroadcast
  <2>2. DOMAIN txs' = DOMAIN txs /\ UNCHANGED sales
    BY <1>1, <1>4 DEF Broadcast, Sends
  <2> QED BY <1>2, <2>1, <2>2
<1>5. ASSUME NEW t \in DOMAIN txs, Mine(t) \/ Drop(t) PROVE Accounted(txs', count', sales')
  BY <1>1, <1>2, <1>5, Movements DEF Mine, Drop
<1>6. CASE OtherTraffic
  BY <1>1, <1>2, <1>6, BaseTraffic DEF OtherTraffic, Overtaken
<1>7. ASSUME NEW i \in Instances, OpenSale(i) PROVE Accounted(txs', count', sales')
  <2>1. UNCHANGED <<txs, count>>
    BY <1>7 DEF OpenSale
  <2>2. CASE procs[i].id = NoOne
    BY <1>3, <1>7, <2>1, <2>2 DEF OpenSale
  <2>3. CASE procs[i].id # NoOne
    <3>1. /\ sales[procs[i].id] = NoSale
          /\ \A s \in Transfers : s # procs[i].id => sales'[s] = sales[s]
      BY <1>7, <2>3, OpensNew
    <3>2. \A t \in Names(NoSale) : t = NoTx
      BY DEF Names, NoSale
    <3> QED BY <1>1, <2>1, <3>1, <3>2, Quiet, AccountedMoves
  <2> QED BY <2>2, <2>3
<1>8. ASSUME NEW i \in Instances, Miss(i) \/ Settle(i) PROVE Accounted(txs', count', sales')
  <2>1. UNCHANGED <<txs, count>> /\ Advances(procs[i]) /\ TxsMove(txs, count, txs', count')
    BY <1>1, <1>8, Written, Quiet
  <2>2. /\ procs[i].id \in Transfers /\ sales[procs[i].id] = procs[i].sale
        /\ procs[i].sale \in SaleRec /\ LocalOK(txs, procs[i])
        /\ SaleOK(txs, procs[i].id, procs[i].sale) /\ Pending(procs[i].sale)
    BY <2>1, FateFacts DEF Locals
  <2>3. ASSUME NEW sale, put(procs[i].id, sale),
               \A t \in Names(procs[i].sale) \ {NoTx} : t \in Names(sale) \/ Dead(txs, count, t)
        PROVE  Accounted(txs', count', sales')
    <3>1. /\ sales'[procs[i].id] = sale
          /\ \A s \in Transfers : s # procs[i].id => sales'[s] = sales[s]
      BY <2>1, <2>3, PutKeeps
    <3> QED BY <2>1, <2>2, <2>3, <3>1, AccountedMoves
  <2>4. CASE Miss(i) /\ put(procs[i].id, Missed(procs[i].sale)) /\ Aim(procs[i].sale) = "swap"
    <3>1. procs[i].sale.saleTx = NoTx /\ procs[i].pc = "waiting"
      BY <2>2, <2>4 DEF Miss, At, LocalOK, Bare, InFlight
    <3>2. Missed(procs[i].sale).payoutTx = procs[i].sale.payoutTx
      BY <2>2, <2>4, MissedOK
    <3> QED BY <2>3, <2>4, <3>1, <3>2 DEF Names
  <2>5. CASE /\ Settle(i) /\ procs[i].pc = "settling" /\ procs[i].outcome # "unknown"
             /\ put(procs[i].id, Decided(procs[i].sale, procs[i].outcome))
    <3> DEFINE sale == procs[i].sale
               new == Decided(procs[i].sale, procs[i].outcome)
    <3>1. /\ InFlight(sale) # NoTx /\ (procs[i].outcome = "mined" => Mined(txs, InFlight(sale)))
          /\ procs[i].outcome \in {"mined", "reverted", "never-mined"}
      BY <2>2, <2>5, FateFacts DEF LocalOK, Bare, Carrying, Locals, Outcomes
    <3>2. \A t \in Names(sale) : t \in Names(new) \/ (t = InFlight(sale) /\ procs[i].outcome # "mined")
      <4>1. /\ procs[i].id \in Transfers /\ sale \in SaleRec /\ SaleOK(txs, procs[i].id, sale)
            /\ Pending(sale) /\ InFlight(sale) # NoTx
            /\ (procs[i].outcome = "mined" => Mined(txs, InFlight(sale)))
        BY <2>2, <3>1
      <4> QED BY ONLY <4>1, DecidedOK
    <3>3. procs[i].outcome # "mined" => Dead(txs, count, InFlight(sale))
      BY <2>5, <3>1 DEF FateInv, ReadOK
    <3>4. \A t \in Names(sale) \ {NoTx} : t \in Names(new) \/ Dead(txs, count, t)
      BY <3>2, <3>3
    <3> QED BY <2>3, <2>5, <3>4
  <2> QED BY <1>3, <1>8, <2>1, <2>4, <2>5, Written
<1>9. ASSUME NEW i \in Instances, Record(i) PROVE Accounted(txs', count', sales')
  <2>1. PICK x \in TxRec, new \in Locals :
           LET t == Len(txs') s == procs[i].id IN
           /\ txs' = Append(txs, x) /\ x.sale = s /\ s \in Transfers
           /\ SaleOK(txs', s, procs[i].sale) /\ Pending(procs[i].sale)
           /\ InFlight(procs[i].sale) = NoTx /\ For(txs', t, s, Aim(procs[i].sale))
           /\ new.sale = Named(procs[i].sale, t) /\ put(s, new.sale) /\ x.status = "signed"
    BY <1>1, <1>9, RecordSteps
  <2> DEFINE tx == Len(txs')
             sale == procs[i].sale
  <2>2. /\ txs' \in Seq(TxRec) /\ tx \in Nat \ {NoTx} /\ tx \notin DOMAIN txs
        /\ DOMAIN txs' = DOMAIN txs \cup {tx} /\ txs'[tx] = x /\ \A u \in DOMAIN txs : txs'[u] = txs[u]
    BY <1>1, <2>1, SignedTx
  <2>3. Advances(procs[i]) /\ UNCHANGED count
    BY <1>9 DEF Record, At, Advances, Bare
  <2>4. sales[procs[i].id] = sale /\ sale \in SaleRec
    BY <2>3, FateFacts DEF Locals
  <2>5. /\ sales'[procs[i].id] = new.sale
        /\ \A s \in Transfers : s # procs[i].id => sales'[s] = sales[s]
    BY <2>1, <2>3, PutKeeps
  <2>6. (\A t \in Names(sale) \ {NoTx} : t \in Names(new.sale)) /\ tx \in Names(new.sale)
    <3>1. /\ procs[i].id \in Transfers /\ txs' \in Seq(TxRec) /\ sale \in SaleRec
          /\ SaleOK(txs', procs[i].id, sale) /\ Pending(sale)
          /\ InFlight(sale) = NoTx /\ tx \in Nat \ {NoTx}
          /\ For(txs', tx, procs[i].id, Aim(sale)) /\ new.sale = Named(sale, tx)
      BY <2>1, <2>2, <2>4
    <3> HIDE DEF tx, sale
    <3>2. /\ \A t \in {sale.saleTx, sale.payoutTx} \ {NoTx} :
                t \in {Named(sale, tx).saleTx, Named(sale, tx).payoutTx}
          /\ tx \in {Named(sale, tx).saleTx, Named(sale, tx).payoutTx}
      BY ONLY <3>1, NamedOK
    <3> QED BY <3>1, <3>2 DEF Names
  <2>7. ASSUME NEW t \in DOMAIN txs
        PROVE  Dead(txs', count', t) \/ t \in Names(sales'[txs'[t].sale])
    <3>1. /\ Dead(txs, count, t) \/ t \in Names(sales[txs[t].sale])
          /\ txs[t] \in TxRec /\ t # NoTx
      BY <1>1 DEF FateInv, Accounted, Names, NoTx
    <3>2. txs[t].sale \in Transfers /\ txs'[t] = txs[t]
      BY <2>2, <3>1 DEF TxRec
    <3>3. Dead(txs, count, t) => Dead(txs', count', t)
      BY <2>3, <3>2 DEF Dead
    <3> HIDE DEF sale, tx
    <3> QED BY <2>4, <2>5, <2>6, <3>1, <3>2, <3>3
  <2>8. tx \in Names(sales'[txs'[tx].sale])
    BY <2>1, <2>2, <2>5, <2>6
  <2> HIDE DEF tx
  <2> QED BY <2>2, <2>7, <2>8 DEF Accounted, Names
<1>10. ASSUME NEW i \in Instances,
              \/ \E hashes \in SUBSET Transfers : Sell(i, hashes)
              \/ \E s \in Transfers : Advance(i, s)
              \/ Count(i) \/ ReadReceipt(i) \/ ReadCount(i) \/ Acquire(i) \/ Await(i) \/ Fail(i)
       PROVE  UNCHANGED <<sales, txs, count>>
  BY <1>10 DEF Sell, Advance, Count, ReadReceipt, ReadCount, Acquire, Await, Fail
<1>11. LockLapses \/ UNCHANGED vars \/ (\E s \in Transfers : SaleLockLapses(s)) => UNCHANGED <<sales, txs, count>>
  BY DEF LockLapses, SaleLockLapses, vars
<1> QED BY <1>3, <1>4, <1>5, <1>6, <1>7, <1>8, <1>9, <1>10, <1>11 DEF Next, Step

----------------------------------------------------------------------------
(* FateInv: what an instance read is so.                                   *)

\* An instance that stands still while no receipt comes between its reads.
LEMMA ReadMoves ==
  ASSUME FateInv, TxsMove(txs, count, txs', count'), NEW i \in Instances,
         procs[i].pc = "reading" => txs'[Tx(i)].status \notin {"mined", "reverted"}
  PROVE  ReadOK(txs', count', procs[i])
<1>1. /\ BaseInv /\ txs \in Seq(TxRec) /\ count \in Nat /\ ReadOK(txs, count, procs[i])
  BY DEF FateInv, BaseInv, Typed
<1>2. procs[i].pc = "settling" => Tx(i) \in DOMAIN txs
  BY <1>1, CarryingFacts DEF Carrying
<1> QED BY <1>1, <1>2, DeadForGood DEF ReadOK, Tx

LEMMA ReadStays ==
  ASSUME FateInv, UNCHANGED <<txs, count>>, NEW i \in Instances
  PROVE  ReadOK(txs', count', procs[i])
  BY DEF FateInv

LEMMA ReadGoes ==
  ASSUME FateInv, UNCHANGED <<txs, count>>, NEW i \in Instances, NEW new, Go(i, new),
         ReadOK(txs, count, new)
  PROVE  \A j \in Instances : ReadOK(txs', count', procs'[j])
  BY Goes DEF FateInv

LEMMA ReadStep ==
  ASSUME FateInv, OneAtATime, [Next]_vars
  PROVE  \A i \in Instances : ReadOK(txs', count', procs'[i])
<1> DEFINE Reads == \A i \in Instances : ReadOK(txs', count', procs'[i])
<1>0. BaseInv /\ txs \in Seq(TxRec) /\ count \in Nat
  BY DEF FateInv, BaseInv, Typed
<1>1. CASE UNCHANGED <<procs, txs, count>>
  BY <1>1, ReadStays
<1>2. ASSUME NEW i \in Instances, NEW new, Go(i, new), new.pc \notin {"reading", "settling"},
             UNCHANGED <<txs, count>>
      PROVE  Reads
  BY <1>2, ReadGoes DEF ReadOK
<1>3. ASSUME NEW i \in Instances, OpenSale(i) \/ Miss(i) \/ Settle(i) \/ Fail(i) PROVE Reads
  <2>1. Go(i, Idle) /\ UNCHANGED <<txs, count>>
    BY <1>3 DEF OpenSale, Miss, Settle, Fail
  <2> QED BY <1>2, <2>1, IdleOK
<1>4. ASSUME NEW i \in Instances, NEW hashes \in SUBSET Transfers, Sell(i, hashes) PROVE Reads
  <2>1. PICK new : Go(i, new) /\ new = [Idle EXCEPT !.pc = "counting", !.todo = hashes]
    BY <1>4 DEF Sell
  <2>2. new.pc = "counting" /\ UNCHANGED <<txs, count>>
    BY <1>4, <2>1, IdleOK DEF Locals, Sell
  <2> QED BY <1>2, <2>1, <2>2
<1>5. ASSUME NEW i \in Instances, Count(i) PROVE Reads
  <2>1. PICK new : Go(i, new) /\ new.pc = "counting"
    BY <1>0, <1>5, CountSteps
  <2> QED BY <1>2, <1>5, <2>1 DEF Count
<1>6. ASSUME NEW i \in Instances, NEW s \in Transfers, Advance(i, s) PROVE Reads
  <2>1. PICK new : Go(i, new) /\ new.pc \in {"waiting", "resolving"}
    BY <1>0, <1>6, AdvanceLocal
  <2> QED BY <1>2, <1>6, <2>1 DEF Advance
<1>7. ASSUME NEW i \in Instances, ReadReceipt(i) \/ ReadCount(i) \/ Acquire(i) \/ Await(i) PROVE Reads
  <2>0. procs[i] \in Locals /\ UNCHANGED <<txs, count>>
    BY <1>7, BaseFacts, <1>0 DEF ReadReceipt, ReadCount, Acquire, Await
  <2>1. ASSUME NEW outcome, Go(i, Settling(procs[i], outcome)),
               outcome \in {"reverted", "never-mined"} => Dead(txs, count, Tx(i))
        PROVE  Reads
    <3>1. PICK new : Go(i, new) /\ new = Settling(procs[i], outcome)
      BY <2>1
    <3>2. new.pc = "settling" /\ new.sale = procs[i].sale /\ new.outcome = outcome
      BY <2>0, <3>1 DEF Settling, Locals
    <3>3. ReadOK(txs, count, new)
      BY <2>1, <3>2 DEF ReadOK, Tx
    <3> QED BY <2>0, <3>1, <3>3, ReadGoes
  <2>2. CASE ReadReceipt(i)
    <3>1. CASE Executed(Tx(i)) /\ Go(i, Settling(procs[i], txs[Tx(i)].status))
      BY <2>1, <3>1 DEF Executed, Dead
    <3>2. CASE ~Executed(Tx(i)) /\ Go(i, [procs[i] EXCEPT !.pc = "reading"])
      <4>1. PICK new : Go(i, new) /\ new = [procs[i] EXCEPT !.pc = "reading"]
        BY <3>2
      <4>2. new.pc = "reading" /\ new.sale = procs[i].sale
        BY <2>0, <4>1 DEF Locals
      <4>3. ReadOK(txs, count, new)
        BY <3>2, <4>2 DEF ReadOK, Executed, Tx
      <4> QED BY <2>0, <4>1, <4>3, ReadGoes
    <3>3. ~Fault("rpc")
      BY DEF Fault, OneAtATime
    <3> QED BY <2>2, <3>1, <3>2, <3>3 DEF ReadReceipt, Settling
  <2>3. CASE ReadCount(i)
    <3>1. txs[Tx(i)].status \notin {"mined", "reverted"} /\ procs[i].pc = "reading"
      BY <2>3 DEF ReadCount, At, FateInv, ReadOK, Tx
    <3>2. Tx(i) \in DOMAIN txs
      BY <1>0, <3>1, CarryingFacts DEF Carrying
    <3>3. txs[Tx(i)].nonce \in Nat
      <4>1. txs[Tx(i)] \in TxRec
        BY <1>0, <3>2
      <4> QED BY <4>1 DEF TxRec
    <3> DEFINE outcome == IF count > txs[Tx(i)].nonce THEN "never-mined" ELSE "unknown"
    <3>4. outcome \in {"reverted", "never-mined"} => Dead(txs, count, Tx(i))
      BY <1>0, <3>1, <3>3 DEF Dead
    <3>5. Go(i, Settling(procs[i], outcome))
      BY <2>3 DEF ReadCount, Settling
    <3> HIDE DEF outcome
    <3> QED BY <2>1, <3>4, <3>5
  <2>4. CASE Acquire(i)
    <3>1. PICK n, new : Go(i, new) /\ new = [procs[i] EXCEPT !.pc = "signing", !.nonce = n]
      BY <2>4 DEF Acquire
    <3>2. new.pc = "signing"
      BY <2>0, <3>1 DEF Locals
    <3> QED BY <1>2, <2>0, <3>1, <3>2
  <2>5. CASE Await(i)
    <3>1. PICK outcome : /\ Ends(i, outcome)
                         /\ outcome \in {"reverted", "never-mined"} => txs[Tx(i)].status = "reverted"
      BY <2>5 DEF Await, Executed
    <3>2. Go(i, Settling(procs[i], outcome))
      BY <3>1 DEF Ends, Settling
    <3>3. outcome \in {"reverted", "never-mined"} => Dead(txs, count, Tx(i))
      BY <3>1 DEF Dead
    <3> QED BY <2>1, <3>2, <3>3
  <2> QED BY <1>7, <2>2, <2>3, <2>4, <2>5
<1>8. ASSUME NEW i \in Instances, Record(i) \/ Broadcast(i) PROVE Reads
  <2>1. /\ TxsMove(txs, count, txs', count')
        /\ \A t \in DOMAIN txs : txs'[t].status \in {"mined", "reverted"} => txs[t].status \in {"mined", "reverted"}
    <3>1. CASE Record(i)
      <4>1. PICK x \in TxRec : txs' = Append(txs, x) /\ x.status = "signed"
        BY <1>0, <3>1, RecordSteps
      <4>2. /\ UNCHANGED count /\ \A u \in DOMAIN txs : txs'[u] = txs[u]
        BY <1>0, <3>1, <4>1, SignedTx DEF Record
      <4> QED BY <1>0, <4>1, <4>2, Moves1
    <3>2. CASE Broadcast(i)
      <4>1. /\ TxsMove(txs, count, txs', count') /\ Tx(i) \in DOMAIN txs
            /\ procs[i].pc = "signed"
        BY <1>0, <3>2, BaseBroadcast, CarryingFacts DEF Broadcast, At, Carrying
      <4>2. PICK s \in {"pending", "lost"} : txs' = [txs EXCEPT ![Tx(i)].status = s]
        BY <3>2 DEF Broadcast, Sends
      <4>3. s \in Status
        BY DEF Status
      <4>4. /\ txs'[Tx(i)] = [txs[Tx(i)] EXCEPT !.status = s]
            /\ \A u \in DOMAIN txs : u # Tx(i) => txs'[u] = txs[u]
        BY <1>0, <4>1, <4>2, <4>3, StatusSet
      <4>5. txs'[Tx(i)].status = s
        <5>1. txs[Tx(i)] \in TxRec
          BY <1>0, <4>1
        <5> QED BY <4>4, <5>1 DEF TxRec
      <4> QED BY <4>1, <4>4, <4>5
    <3> QED BY <1>8, <3>1, <3>2
  <2>2. ASSUME NEW j \in Instances PROVE ReadOK(txs', count', procs[j])
    <3>1. procs[j].pc = "reading" => Tx(j) \in DOMAIN txs /\ txs[Tx(j)].status \notin {"mined", "reverted"}
      BY <1>0, CarryingFacts DEF Carrying, FateInv, ReadOK, Tx
    <3> QED BY <2>1, <3>1, ReadMoves
  <2>3. PICK new : Go(i, new) /\ new.pc # "reading"
                   /\ (new.pc = "settling" => new.outcome = "unknown")
    <3>0. procs[i] \in Locals
      BY <1>0, BaseFacts
    <3>1. CASE Record(i)
      BY <1>0, <3>1, RecordSteps
    <3>2. CASE Broadcast(i)
      <4>1. PICK new : /\ Go(i, new)
                       /\ new = [procs[i] EXCEPT !.pc = "sent"] \/ new = Settling(procs[i], "unknown")
        BY <3>2 DEF Broadcast, Ends, Settling
      <4>2. new = [procs[i] EXCEPT !.pc = "sent"] => new.pc = "sent"
        BY <3>0 DEF Locals
      <4>3. new = Settling(procs[i], "unknown") => new.pc = "settling" /\ new.outcome = "unknown"
        BY <3>0 DEF Locals, Settling
      <4> QED BY <4>1, <4>2, <4>3
    <3> QED BY <1>8, <3>1, <3>2
  <2>4. ReadOK(txs', count', new)
    BY <2>3 DEF ReadOK
  <2> QED BY <1>0, <2>2, <2>3, <2>4, Goes
<1>9. ASSUME NEW t \in DOMAIN txs, Mine(t) \/ Drop(t) PROVE Reads
  <2>1. UNCHANGED procs /\ TxsMove(txs, count, txs', count')
        /\ \A u \in DOMAIN txs : u # t => txs'[u] = txs[u]
    BY <1>0, <1>9, Movements DEF Mine, Drop
  <2>2. ASSUME NEW j \in Instances, procs[j].pc = "reading"
        PROVE  txs'[Tx(j)].status \notin {"mined", "reverted"}
    <3>1. Tx(j) \in DOMAIN txs /\ txs[Tx(j)].status \notin {"mined", "reverted"}
      BY <1>0, <2>2, CarryingFacts DEF Carrying, FateInv, ReadOK, Tx
    <3>2. CASE Tx(j) = t
      <4>1. ~Mine(t)
        BY <2>2, <3>2 DEF Mine, At, Fault, OneAtATime
      <4>2. txs'[t].status = "lost"
        BY <1>0, <1>9, <4>1, Movements
      <4> QED BY <3>2, <4>2
    <3> QED BY <2>1, <3>1, <3>2
  <2> QED BY <2>1, <2>2, ReadMoves
<1>10. CASE OtherTraffic
  <2>1. UNCHANGED <<procs, txs>> /\ TxsMove(txs, count, txs', count')
    BY <1>0, <1>10, BaseTraffic DEF OtherTraffic, Overtaken
  <2>2. ASSUME NEW j \in Instances, procs[j].pc = "reading"
        PROVE  txs'[Tx(j)].status \notin {"mined", "reverted"}
    BY <2>1, <2>2 DEF FateInv, ReadOK, Tx
  <2> QED BY <2>1, <2>2, ReadMoves
<1>11. LockLapses \/ UNCHANGED vars \/ (\E s \in Transfers : SaleLockLapses(s)) => UNCHANGED <<procs, txs, count>>
  BY DEF LockLapses, SaleLockLapses, vars
<1> HIDE DEF Reads
<1>12. Reads
  BY <1>1, <1>3, <1>4, <1>5, <1>6, <1>7, <1>8, <1>9, <1>10, <1>11 DEF Next, Step, Reads
<1> QED BY <1>12 DEF Reads

LEMMA FateInit ==
  ASSUME Init
  PROVE  FateInv
<1>1. BaseInv /\ \A s \in Transfers : sales[s] = NoSale
  BY BaseInit DEF Init
<1>2. \A i \in Instances : procs[i].pc = "idle"
  BY IdleOK DEF Init
<1>3. DOMAIN txs = {}
  BY DEF Init
<1>4. OneSaleEach(procs, sales)
  BY <1>1, <1>2, IdleOK DEF OneSaleEach
<1> QED BY <1>1, <1>2, <1>3, <1>4 DEF FateInv, Alone, Accounted, ReadOK, Bare, Carrying

LEMMA FateHolds ==
  ASSUME OneAtATime
  PROVE  Spec => []FateInv
<1>1. FateInv /\ [Next]_vars => FateInv'
  BY BaseStep, AloneStep, TransfersStep, AccountedStep, ReadStep DEF FateInv
<1> QED BY <1>1, FateInit, PTL DEF Spec

----------------------------------------------------------------------------
(* What SaleLedger promises.                                               *)

Landed(T, t) == t # NoTx /\ Mined(T, t)

FateOf(T, sale) ==
  IF sale.state = "none" THEN "none"
  ELSE IF Landed(T, sale.saleTx) THEN (IF Landed(T, sale.payoutTx) THEN "paid" ELSE "sold")
  ELSE IF Landed(T, sale.payoutTx) THEN "returned" ELSE "awaiting"

Fates == \A s \in Transfers : Fate(s) = FateOf(txs, sales[s])

Counts ==
  \A h \in Transfers :
    /\ \A s \in Transfers : h \in sales[s].transfers => CountedIn(h) = s
    /\ (\A s \in Transfers : h \notin sales[s].transfers) => CountedIn(h) = NoOne

LEMMA CountIs ==
  ASSUME FateInv
  PROVE  Counts
<1>1. OneSaleEach(procs, sales)
  BY DEF FateInv
<1>2. ASSUME NEW h \in Transfers, NEW s \in Transfers, h \in sales[s].transfers
      PROVE  CountedIn(h) = s
  <2> DEFINE M == {u \in Transfers : h \in sales[u].transfers}
  <2>1. M = {s}
    BY <1>1, <1>2 DEF OneSaleEach
  <2>2. Cardinality(M) = 1
    BY <2>1, FS_Singleton
  <2>3. CountedIn(h) = CHOOSE u \in M : TRUE
    BY <2>2 DEF CountedIn
  <2> HIDE DEF M
  <2> QED BY <2>1, <2>3
<1>3. ASSUME NEW h \in Transfers, \A s \in Transfers : h \notin sales[s].transfers
      PROVE  CountedIn(h) = NoOne
  <2> DEFINE M == {u \in Transfers : h \in sales[u].transfers}
  <2>1. M = {}
    BY <1>3
  <2>2. Cardinality(M) = 0
    BY <2>1, FS_EmptySet
  <2> QED BY <2>2 DEF CountedIn
<1> QED BY <1>2, <1>3 DEF Counts

\* What was mined for a sale is what its record names.
LEMMA MinedIs ==
  ASSUME FateInv, NEW s \in Transfers
  PROVE  /\ MinedFor(s, "swap") = IF Landed(txs, sales[s].saleTx) THEN {sales[s].saleTx} ELSE {}
         /\ MinedFor(s, "payout") = IF Landed(txs, sales[s].saleTx) /\ Landed(txs, sales[s].payoutTx)
                                      THEN {sales[s].payoutTx} ELSE {}
         /\ MinedFor(s, "return") = IF ~Landed(txs, sales[s].saleTx) /\ Landed(txs, sales[s].payoutTx)
                                      THEN {sales[s].payoutTx} ELSE {}
<1>1. /\ SaleOK(txs, s, sales[s]) /\ sales[s] \in SaleRec
      /\ Accounted(txs, count, sales) /\ NoTx \notin DOMAIN txs
  BY DEF FateInv, BaseInv, Typed, NoTx
<1>2. \A t \in DOMAIN txs : txs[t].sale = s /\ txs[t].status = "mined" =>
        t \in {sales[s].saleTx, sales[s].payoutTx} /\ Landed(txs, t)
  BY <1>1 DEF Accounted, Dead, Landed, Mined
<1>3. /\ sales[s].saleTx # NoTx => For(txs, sales[s].saleTx, s, "swap")
      /\ sales[s].payoutTx # NoTx =>
           For(txs, sales[s].payoutTx, s, IF sales[s].saleTx = NoTx THEN "return" ELSE "payout")
  BY <1>1 DEF SaleOK
<1>4. Landed(txs, sales[s].payoutTx) /\ sales[s].saleTx # NoTx => Landed(txs, sales[s].saleTx)
  BY <1>1 DEF SaleOK, Landed, SaleRec, States, NoSale
<1>5. \A kind, t : t \in MinedFor(s, kind) <=>
        For(txs, t, s, kind) /\ Landed(txs, t) /\ t \in {sales[s].saleTx, sales[s].payoutTx}
  BY <1>1, <1>2 DEF MinedFor, For, Landed, Mined
<1> QED BY <1>3, <1>4, <1>5 DEF For, Landed

LEMMA FateIs ==
  ASSUME FateInv, NEW s \in Transfers
  PROVE  Fate(s) = FateOf(txs, sales[s])
<1> DEFINE sold == Landed(txs, sales[s].saleTx)
           gone == Landed(txs, sales[s].payoutTx)
<1>1. /\ Times(s, "swap") = (IF sold THEN 1 ELSE 0)
      /\ Times(s, "payout") = (IF sold /\ gone THEN 1 ELSE 0)
      /\ Times(s, "return") = (IF ~sold /\ gone THEN 1 ELSE 0)
  BY MinedIs, FS_EmptySet, FS_Singleton DEF Times
<1> HIDE DEF sold, gone
<1>2. CASE sales[s].state = "none"
  BY <1>2 DEF Fate, FateOf
<1>3. CASE sales[s].state # "none"
  <2>1. CASE sold /\ gone
    <3>1. <<Times(s, "swap"), Times(s, "payout"), Times(s, "return")>> = <<1, 1, 0>>
      BY <1>1, <2>1
    <3> QED BY <1>3, <2>1, <3>1 DEF Fate, FateOf, sold, gone
  <2>2. CASE sold /\ ~gone
    <3>1. <<Times(s, "swap"), Times(s, "payout"), Times(s, "return")>> = <<1, 0, 0>>
      BY <1>1, <2>2
    <3> QED BY <1>3, <2>2, <3>1 DEF Fate, FateOf, sold, gone
  <2>3. CASE ~sold /\ gone
    <3>1. <<Times(s, "swap"), Times(s, "payout"), Times(s, "return")>> = <<0, 0, 1>>
      BY <1>1, <2>3
    <3> QED BY <1>3, <2>3, <3>1 DEF Fate, FateOf, sold, gone
  <2>4. CASE ~sold /\ ~gone
    <3>1. <<Times(s, "swap"), Times(s, "payout"), Times(s, "return")>> = <<0, 0, 0>>
      BY <1>1, <2>4
    <3> QED BY <1>3, <2>4, <3>1 DEF Fate, FateOf, sold, gone
  <2> QED BY <2>1, <2>2, <2>3, <2>4
<1> QED BY <1>2, <1>3

\* A record keeps its fate while nothing of it is mined.
LEMMA FateKept ==
  ASSUME NEW T, NEW n, NEW U, NEW m, TxsMove(T, n, U, m), NEW s, NEW sale, SaleOK(T, s, sale),
         \A t \in Names(sale) \ {NoTx} : Mined(U, t) => Mined(T, t)
  PROVE  FateOf(U, sale) = FateOf(T, sale)
<1>1. \A t \in Names(sale) : Landed(U, t) <=> Landed(T, t)
  BY DEF Names, SaleOK, For, TxsMove, Landed, Mined
<1> QED BY <1>1 DEF FateOf, Names

LEMMA MissedFate ==
  ASSUME NEW s \in Transfers, NEW T, NEW sale \in SaleRec, SaleOK(T, s, sale), Pending(sale),
         Aim(sale) = "swap", InFlight(sale) = NoTx
  PROVE  FateOf(T, Missed(sale)) = FateOf(T, sale)
<1>1. /\ Missed(sale).state = sale.state /\ Missed(sale).saleTx = NoTx
      /\ Missed(sale).payoutTx = sale.payoutTx /\ sale.saleTx = NoTx
  BY MissedOK DEF InFlight
<1> HIDE DEF Missed
<1> QED BY <1>1 DEF FateOf

LEMMA DecidedFate ==
  ASSUME NEW s \in Transfers, NEW T, NEW sale \in SaleRec, SaleOK(T, s, sale), Pending(sale),
         InFlight(sale) # NoTx, NEW outcome, (outcome = "mined") <=> Mined(T, InFlight(sale))
  PROVE  FateOf(T, Decided(sale, outcome)) = FateOf(T, sale)
<1> DEFINE new == Decided(sale, outcome)
<1>0. sale.state \in {"awaiting", "sold"}
  BY DEF Pending
<1>1. CASE Aim(sale) = "swap" /\ outcome # "mined"
  <2>1. new = Missed(sale) /\ ~Mined(T, sale.saleTx) /\ sale.payoutTx = NoTx
    BY <1>1, Aims DEF Decided, InFlight
  <2>2. new.state = sale.state /\ new.saleTx = NoTx /\ new.payoutTx = NoTx
    BY <1>1, <2>1, MissedOK
  <2> HIDE DEF new
  <2> QED BY <2>1, <2>2 DEF FateOf, Landed, new
<1>2. CASE outcome = "mined"
  <2>1. PICK state \in {"sold", "paid", "returned"} : new = [sale EXCEPT !.state = state]
    BY <1>2, Aims DEF Decided, Kinds
  <2> HIDE DEF new
  <2>2. new.state = state /\ new.saleTx = sale.saleTx /\ new.payoutTx = sale.payoutTx
    BY <2>1 DEF SaleRec
  <2> QED BY <1>0, <2>2 DEF FateOf, new
<1>3. CASE Aim(sale) # "swap" /\ outcome # "mined"
  <2>1. new = [sale EXCEPT !.payoutTx = NoTx] /\ ~Mined(T, sale.payoutTx)
    BY <1>3, Aims DEF Decided, Kinds, InFlight
  <2> HIDE DEF new
  <2>2. new.state = sale.state /\ new.saleTx = sale.saleTx /\ new.payoutTx = NoTx
    BY <2>1 DEF SaleRec
  <2> QED BY <2>1, <2>2 DEF FateOf, Landed, new
<1> QED BY <1>1, <1>2, <1>3

LEMMA NamedFate ==
  ASSUME NEW s \in Transfers, NEW T, NEW sale \in SaleRec, SaleOK(T, s, sale), Pending(sale),
         InFlight(sale) = NoTx, NEW tx \in Nat, ~Mined(T, tx)
  PROVE  FateOf(T, Named(sale, tx)) = FateOf(T, sale)
<1> DEFINE new == Named(sale, tx)
<1>1. CASE Aim(sale) = "swap"
  <2>1. new = [sale EXCEPT !.saleTx = tx] /\ sale.saleTx = NoTx /\ sale.payoutTx = NoTx
    BY <1>1, Aims DEF Named, InFlight
  <2> HIDE DEF new
  <2>2. new.state = sale.state /\ new.saleTx = tx /\ new.payoutTx = sale.payoutTx
    BY <2>1 DEF SaleRec
  <2> QED BY <2>1, <2>2 DEF FateOf, Landed, new
<1>2. CASE Aim(sale) # "swap"
  <2>1. new = [sale EXCEPT !.payoutTx = tx] /\ sale.payoutTx = NoTx
    BY <1>2 DEF Named, InFlight
  <2> HIDE DEF new
  <2>2. new.state = sale.state /\ new.saleTx = sale.saleTx /\ new.payoutTx = tx
    BY <2>1 DEF SaleRec
  <2> QED BY <2>1, <2>2 DEF FateOf, Landed, new
<1> QED BY <1>1, <1>2

\* The sales whose fate moves, and where to.
Stays(s)      == FateOf(txs', sales'[s]) = FateOf(txs, sales[s])
Turns(s)      == <<FateOf(txs, sales[s]), FateOf(txs', sales'[s])>> \in
                   {<<"awaiting", "sold">>, <<"sold", "paid">>, <<"awaiting", "returned">>}
SameIn        == \A s \in Transfers : sales'[s].transfers = sales[s].transfers
AllStay       == SameIn /\ \A s \in Transfers : Stays(s)
OneTurns      == SameIn /\ \E s \in Transfers : Turns(s) /\ \A u \in Transfers : u # s => Stays(u)
OneOpens      ==
  \E s \in Transfers : \E hashes \in SUBSET Transfers :
    /\ s \in hashes /\ sales[s] = NoSale /\ \A u \in Transfers : sales[u].transfers \cap hashes = {}
    /\ sales'[s] = Opened(hashes) /\ FateOf(txs', sales'[s]) = "awaiting"
    /\ \A u \in Transfers : u # s => sales'[u] = sales[u] /\ Stays(u)

\* What is mined for a sale, when it was not before.
LEMMA MineTurns ==
  ASSUME FateInv, NEW t \in DOMAIN txs, Mine(t) \/ Drop(t)
  PROVE  AllStay \/ OneTurns
<1>1. BaseInv /\ txs \in Seq(TxRec) /\ count \in Nat /\ Accounted(txs, count, sales)
  BY DEF FateInv, BaseInv, Typed
<1>2. /\ TxsMove(txs, count, txs', count') /\ DOMAIN txs' = DOMAIN txs
      /\ \A u \in DOMAIN txs : u # t => txs'[u] = txs[u]
      /\ txs[t].status \in {"pending", "lost"} /\ UNCHANGED sales
      /\ Mine(t) => txs[t].nonce = count
      /\ Drop(t) => txs'[t].status = "lost"
  BY <1>1, Movements DEF Mine, Drop
<1>3. txs[t] \in TxRec /\ txs[t].sale \in Transfers /\ txs[t].nonce \in Nat /\ t # NoTx
  <2>1. txs[t] \in TxRec
    BY <1>1
  <2> QED BY <1>1, <2>1 DEF TxRec, NoTx
<1>4. \A s \in Transfers : SaleOK(txs, s, sales[s]) /\ sales[s] \in SaleRec
  BY <1>1 DEF BaseInv, Typed
<1>5. ASSUME NEW s \in Transfers, t \notin Names(sales[s]) \/ ~Mined(txs', t) PROVE Stays(s)
  <2>1. \A u \in Names(sales[s]) \ {NoTx} : u \in DOMAIN txs
    BY <1>4 DEF SaleOK, For, Names
  <2>2. \A u \in Names(sales[s]) \ {NoTx} : Mined(txs', u) => Mined(txs, u)
    BY <1>2, <1>5, <2>1 DEF Mined
  <2> QED BY <1>2, <1>4, <2>2, FateKept DEF Stays
<1>6. CASE ~Mined(txs', t)
  BY <1>2, <1>5, <1>6 DEF AllStay, SameIn
<1>7. CASE Mined(txs', t)
  <2> DEFINE s == txs[t].sale
             sale == sales[s]
  <2>1. t \in Names(sale)
    <3>1. txs[t].nonce = count
      BY <1>2, <1>7 DEF Mined
    <3>2. ~Dead(txs, count, t)
      BY <1>1, <1>2, <1>3, <3>1 DEF Dead
    <3> QED BY <1>1, <3>2 DEF Accounted, Names
  <2>2. ASSUME NEW u \in Transfers, u # s PROVE Stays(u)
    <3>1. t \notin Names(sales[u])
      BY <1>3, <1>4, <2>2 DEF SaleOK, For, Names
    <3> QED BY <1>5, <3>1
  <2>3. SaleOK(txs, s, sale) /\ sale \in SaleRec /\ s \in Transfers
    BY <1>3, <1>4
  <2>4. ~Landed(txs, t) /\ Landed(txs', t)
    BY <1>2, <1>3, <1>7 DEF Landed, Mined
  <2>5. \A u \in Names(sale) \ {t} : Landed(txs', u) <=> Landed(txs, u)
    <3>1. \A u \in Names(sale) \ {NoTx} : u \in DOMAIN txs
      BY <2>3 DEF SaleOK, For, Names
    <3> QED BY <1>2, <3>1 DEF Landed, Mined
  <2>6. sale.state # "none"
    <3>1. t \notin Names(NoSale)
      BY <1>3 DEF NoSale, Names
    <3> QED BY <2>1, <2>3, <3>1 DEF SaleOK
  <2>7. CASE t = sale.saleTx
    <3>1. sale.state = "awaiting" /\ sale.payoutTx = NoTx
      BY <1>3, <2>3, <2>4, <2>6, <2>7 DEF SaleOK, SaleRec, States, Landed
    <3>2. ~Landed(txs, NoTx) /\ ~Landed(txs', NoTx)
      BY DEF Landed
    <3>3. FateOf(txs, sale) = "awaiting" /\ FateOf(txs', sale) = "sold"
      BY <2>4, <2>6, <2>7, <3>1, <3>2 DEF FateOf
    <3> QED BY <1>2, <2>2, <2>3, <3>3 DEF OneTurns, SameIn, Turns
  <2>8. CASE t = sale.payoutTx /\ t # sale.saleTx
    <3>1. Landed(txs', sale.saleTx) <=> Landed(txs, sale.saleTx)
      BY <2>5, <2>8 DEF Names
    <3>2. <<FateOf(txs, sale), FateOf(txs', sale)>> \in {<<"sold", "paid">>, <<"awaiting", "returned">>}
      BY <2>4, <2>6, <2>8, <3>1 DEF FateOf
    <3> QED BY <1>2, <2>2, <2>3, <3>2 DEF OneTurns, SameIn, Turns
  <2> QED BY <2>1, <2>7, <2>8 DEF Names
<1> QED BY <1>6, <1>7

LEMMA WrittenStays ==
  ASSUME FateInv, NEW i \in Instances, Miss(i) \/ Settle(i)
  PROVE  AllStay
<1>1. BaseInv /\ UNCHANGED txs /\ Advances(procs[i])
  BY Written DEF FateInv
<1>2. /\ procs[i].id \in Transfers /\ sales[procs[i].id] = procs[i].sale
      /\ procs[i].sale \in SaleRec /\ LocalOK(txs, procs[i]) /\ procs[i] \in Locals
      /\ SaleOK(txs, procs[i].id, procs[i].sale) /\ Pending(procs[i].sale)
  BY <1>1, FateFacts DEF Locals
<1>3. ASSUME NEW sale, put(procs[i].id, sale), sale.transfers = procs[i].sale.transfers,
             FateOf(txs, sale) = FateOf(txs, procs[i].sale)
      PROVE  AllStay
  <2>1. /\ sales'[procs[i].id] = sale
        /\ \A s \in Transfers : s # procs[i].id => sales'[s] = sales[s]
    BY <1>1, <1>3, PutKeeps
  <2> QED BY <1>1, <1>2, <1>3, <2>1 DEF AllStay, SameIn, Stays
<1>4. CASE UNCHANGED sales
  BY <1>1, <1>4 DEF AllStay, SameIn, Stays
<1>5. CASE /\ Miss(i) /\ put(procs[i].id, Missed(procs[i].sale)) /\ Aim(procs[i].sale) = "swap"
           /\ Missed(procs[i].sale).transfers = procs[i].sale.transfers
  <2>1. InFlight(procs[i].sale) = NoTx
    BY <1>2, <1>5 DEF Miss, At, LocalOK, Bare
  <2> QED BY <1>2, <1>3, <1>5, <2>1, MissedFate
<1>6. CASE /\ Settle(i) /\ procs[i].pc = "settling" /\ procs[i].outcome # "unknown"
           /\ put(procs[i].id, Decided(procs[i].sale, procs[i].outcome))
           /\ Decided(procs[i].sale, procs[i].outcome).transfers = procs[i].sale.transfers
  <2>1. /\ InFlight(procs[i].sale) # NoTx
        /\ (procs[i].outcome = "mined" => Mined(txs, InFlight(procs[i].sale)))
        /\ procs[i].outcome \in {"mined", "reverted", "never-mined"}
    BY <1>2, <1>6 DEF LocalOK, Bare, Carrying, Locals, Outcomes
  <2>2. procs[i].outcome # "mined" => ~Mined(txs, InFlight(procs[i].sale))
    BY <1>6, <2>1 DEF FateInv, ReadOK, Dead, Mined
  <2>3. FateOf(txs, Decided(procs[i].sale, procs[i].outcome)) = FateOf(txs, procs[i].sale)
    BY <1>2, <2>1, <2>2, DecidedFate
  <2> QED BY <1>3, <1>6, <2>3
<1> QED BY <1>4, <1>5, <1>6, Written

LEMMA RecordStays ==
  ASSUME FateInv, NEW i \in Instances, Record(i)
  PROVE  AllStay
<1>1. BaseInv /\ txs \in Seq(TxRec) /\ count \in Nat
  BY DEF FateInv, BaseInv, Typed
<1>2. PICK x \in TxRec, new \in Locals :
         LET t == Len(txs') s == procs[i].id IN
         /\ txs' = Append(txs, x) /\ x.status = "signed" /\ s \in Transfers
         /\ SaleOK(txs', s, procs[i].sale) /\ Pending(procs[i].sale)
         /\ InFlight(procs[i].sale) = NoTx
         /\ new.sale = Named(procs[i].sale, t) /\ put(s, new.sale)
         /\ new.sale.transfers = procs[i].sale.transfers
  BY <1>1, RecordSteps
<1> DEFINE tx == Len(txs')
           sale == procs[i].sale
<1>3. /\ tx \in Nat /\ txs'[tx] = x /\ \A u \in DOMAIN txs : txs'[u] = txs[u]
      /\ TxsMove(txs, count, txs', count)
  BY <1>1, <1>2, SignedTx, Moves1
<1>4. Advances(procs[i])
  BY DEF Record, At, Advances, Bare
<1>5. /\ sales[procs[i].id] = sale /\ sale \in SaleRec /\ SaleOK(txs, procs[i].id, sale)
  BY <1>4, FateFacts DEF Locals
<1>6. /\ sales'[procs[i].id] = new.sale
      /\ \A s \in Transfers : s # procs[i].id => sales'[s] = sales[s]
  BY <1>2, <1>4, PutKeeps
<1>7. ASSUME NEW s \in Transfers PROVE FateOf(txs', sales[s]) = FateOf(txs, sales[s])
  <2>1. SaleOK(txs, s, sales[s])
    BY <1>1 DEF BaseInv
  <2>2. \A t \in Names(sales[s]) \ {NoTx} : Mined(txs', t) => Mined(txs, t)
    BY <1>3, <2>1 DEF SaleOK, For, Names, Mined
  <2> QED BY <1>3, <2>1, <2>2, FateKept
<1>8. FateOf(txs', new.sale) = FateOf(txs', sale)
  <2>1. /\ procs[i].id \in Transfers /\ sale \in SaleRec /\ SaleOK(txs', procs[i].id, sale)
        /\ Pending(sale) /\ InFlight(sale) = NoTx /\ tx \in Nat /\ ~Mined(txs', tx)
        /\ new.sale = Named(sale, tx)
    BY <1>2, <1>3, <1>5 DEF Mined
  <2> HIDE DEF tx, sale
  <2>2. FateOf(txs', Named(sale, tx)) = FateOf(txs', sale)
    BY ONLY <2>1, NamedFate
  <2> QED BY <2>1, <2>2
<1> QED BY <1>2, <1>5, <1>6, <1>7, <1>8 DEF AllStay, SameIn, Stays

LEMMA OpenOpens ==
  ASSUME FateInv, NEW i \in Instances, OpenSale(i)
  PROVE  AllStay \/ OneOpens
<1>1. UNCHANGED txs /\ procs[i].pc = "counting"
  BY DEF OpenSale, At
<1>2. CASE procs[i].id = NoOne
  BY <1>1, <1>2 DEF OpenSale, AllStay, SameIn, Stays
<1>3. CASE procs[i].id # NoOne
  <2> DEFINE s == procs[i].id
             hashes == procs[i].sale.transfers
  <2>1. /\ s \in Transfers /\ sales[s] = NoSale /\ s \in hashes
        /\ sales'[s] = Opened(hashes) /\ hashes \in SUBSET Transfers
        /\ \A u \in Transfers : u # s => sales'[u] = sales[u]
    BY <1>3, OpensNew
  <2>2. \A u \in Transfers : sales[u].transfers \cap hashes = {}
    BY <1>1 DEF FateInv, OneSaleEach
  <2>3. FateOf(txs', Opened(hashes)) = "awaiting"
    BY <2>1, OpenedOK DEF FateOf, Landed
  <2> HIDE DEF s, hashes
  <2> QED BY <1>1, <2>1, <2>2, <2>3 DEF OneOpens, Stays
<1> QED BY <1>2, <1>3

LEMMA LedgerMoves ==
  ASSUME FateInv, [Next]_vars
  PROVE  AllStay \/ OneTurns \/ OneOpens
<1>1. BaseInv
  BY DEF FateInv
<1>2. UNCHANGED <<sales, txs>> => AllStay
  BY DEF AllStay, SameIn, Stays
<1>3. ASSUME NEW i \in Instances, Broadcast(i) PROVE AllStay
  <2>1. /\ TxsMove(txs, count, txs', count') /\ Tx(i) \in DOMAIN txs /\ txs \in Seq(TxRec)
        /\ UNCHANGED sales
    BY <1>1, <1>3, BaseBroadcast, CarryingFacts, BaseFacts DEF Broadcast, At, Carrying
  <2>2. PICK s \in {"pending", "lost"} : txs' = [txs EXCEPT ![Tx(i)].status = s]
    BY <1>3 DEF Broadcast, Sends
  <2>3. s \in Status /\ txs[Tx(i)] \in TxRec
    BY <2>1 DEF Status
  <2>4. /\ txs'[Tx(i)] = [txs[Tx(i)] EXCEPT !.status = s]
        /\ \A u \in DOMAIN txs : u # Tx(i) => txs'[u] = txs[u]
    BY <2>1, <2>2, <2>3, StatusSet
  <2>5. txs'[Tx(i)].status = s
    BY <2>3, <2>4 DEF TxRec
  <2>6. ASSUME NEW u \in Transfers PROVE Stays(u)
    <3>1. SaleOK(txs, u, sales[u])
      BY <1>1 DEF BaseInv
    <3>2. \A t \in Names(sales[u]) \ {NoTx} : Mined(txs', t) => Mined(txs, t)
      <4>1. s # "mined"
        BY <2>2
      <4>2. ~ Mined(txs', Tx(i))
        BY <2>5, <4>1 DEF Mined
      <4>3. \A t \in Names(sales[u]) \ {NoTx} : t \in DOMAIN txs
        BY <3>1 DEF SaleOK, For, Names
      <4>4. \A t \in DOMAIN txs : t # Tx(i) => (Mined(txs', t) <=> Mined(txs, t))
        BY <2>4 DEF Mined
      <4> QED BY <4>2, <4>3, <4>4
    <3> QED BY <2>1, <3>1, <3>2, FateKept DEF Stays
  <2> QED BY <2>1, <2>6 DEF AllStay, SameIn
<1>4. ASSUME NEW i \in Instances,
             \/ \E hashes \in SUBSET Transfers : Sell(i, hashes)
             \/ \E s \in Transfers : Advance(i, s)
             \/ Count(i) \/ ReadReceipt(i) \/ ReadCount(i) \/ Acquire(i) \/ Await(i) \/ Fail(i)
      PROVE  UNCHANGED <<sales, txs>>
  BY <1>4 DEF Sell, Advance, Count, ReadReceipt, ReadCount, Acquire, Await, Fail
<1>5. LockLapses \/ UNCHANGED vars \/ OtherTraffic \/ (\E s \in Transfers : SaleLockLapses(s))
        => UNCHANGED <<sales, txs>>
  BY DEF LockLapses, SaleLockLapses, OtherTraffic, Overtaken, vars
<1> QED BY <1>2, <1>3, <1>4, <1>5, MineTurns, WrittenStays, RecordStays, OpenOpens DEF Next, Step

\* Whatever dies, is dropped, reverts or goes unseen, and however often an
\* instance takes a sale up again: a transfer counts in one sale, and what the
\* chain mines for a sale is one swap and then one payout, or one return.
\* advanceUnderLock and resolve (sell.ts) are enough for it as long as the
\* lock of a sale outlives its holder's step and resolve reads one block.
THEOREM SoldOnce ==
  ASSUME OneAtATime
  PROVE  Spec => SaleSpec
<1> DEFINE in   == [h \in Transfers |-> CountedIn(h)]
           fate == [s \in Transfers |-> Fate(s)]
<1>1. Init => Ledger!SaleInit
  <2> SUFFICES ASSUME Init PROVE Ledger!SaleInit
    OBVIOUS
  <2>1. FateInv /\ \A s \in Transfers : sales[s] = NoSale
    BY FateInit DEF Init
  <2>2. NoSale.transfers = {} /\ NoSale.state = "none"
    BY DEF NoSale
  <2>3. \A h \in Transfers : CountedIn(h) = NoOne
    BY <2>1, <2>2, CountIs DEF Counts
  <2>4. \A s \in Transfers : Fate(s) = "none"
    BY <2>1, <2>2 DEF Fate
  <2> QED BY <2>3, <2>4 DEF Ledger!SaleInit
<1>2. FateInv => Fates /\ Counts
  BY FateIs, CountIs DEF Fates
<1>3. Fates /\ Counts /\ Fates' /\ Counts' /\ FateInv /\ [Next]_vars => [Ledger!SaleNext]_(Ledger!saleVars)
  <2> SUFFICES ASSUME Fates, Counts, Fates', Counts', FateInv, [Next]_vars
               PROVE  [Ledger!SaleNext]_(Ledger!saleVars)
    OBVIOUS
  <2>1. \A s \in Transfers : fate[s] = FateOf(txs, sales[s]) /\ fate'[s] = FateOf(txs', sales'[s])
    BY DEF Fates
  <2>2. SameIn => in' = in
    <3> SUFFICES ASSUME SameIn, NEW h \in Transfers PROVE CountedIn(h)' = CountedIn(h)
      OBVIOUS
    <3>1. CASE \E s \in Transfers : h \in sales[s].transfers
      BY <3>1 DEF SameIn, Counts
    <3>2. CASE \A s \in Transfers : h \notin sales[s].transfers
      BY <3>2 DEF SameIn, Counts
    <3> QED BY <3>1, <3>2
  <2>3. CASE AllStay
    <3>1. fate' = fate
      BY <2>1, <2>3 DEF AllStay, Stays
    <3> QED BY <2>2, <2>3, <3>1 DEF AllStay, Ledger!saleVars
  <2>4. CASE OneTurns
    <3>1. PICK s \in Transfers : Turns(s) /\ \A u \in Transfers : u # s => Stays(u)
      BY <2>4 DEF OneTurns
    <3>2. in' = in
      BY <2>2, <2>4 DEF OneTurns
    <3>3. PICK from, to : /\ <<from, to>> \in {<<"awaiting", "sold">>, <<"sold", "paid">>, <<"awaiting", "returned">>}
                          /\ fate[s] = from /\ fate'[s] = to
      BY <2>1, <3>1 DEF Turns
    <3>4. \A u \in Transfers : u # s => fate'[u] = fate[u]
      BY <2>1, <3>1 DEF Stays
    <3>5. DOMAIN fate = Transfers /\ DOMAIN fate' = Transfers
      OBVIOUS
    <3>6. fate' = [fate EXCEPT ![s] = to]
      <4>1. fate' = [u \in Transfers |-> fate'[u]] /\ fate = [u \in Transfers |-> fate[u]]
        OBVIOUS
      <4> HIDE DEF fate
      <4> QED BY <3>3, <3>4, <4>1
    <3>7. Ledger!Moves(s, from, to)
      BY <3>2, <3>3, <3>6 DEF Ledger!Moves
    <3>8. Ledger!SaleNext
      BY <3>3, <3>7 DEF Ledger!SaleNext
    <3> QED BY <3>8
  <2>5. CASE OneOpens
    <3>1. PICK s \in Transfers, hashes \in SUBSET Transfers :
            /\ s \in hashes /\ sales[s] = NoSale /\ \A u \in Transfers : sales[u].transfers \cap hashes = {}
            /\ sales'[s] = Opened(hashes) /\ FateOf(txs', sales'[s]) = "awaiting"
            /\ \A u \in Transfers : u # s => sales'[u] = sales[u] /\ Stays(u)
      BY <2>5 DEF OneOpens
    <3>2. sales'[s].transfers = hashes /\ sales[s].transfers = {}
      BY <3>1, OpenedOK DEF NoSale
    <3>3. \A h \in hashes : in[h] = NoOne
      BY <3>1 DEF Counts
    <3>4. \A h \in Transfers : in'[h] = IF h \in hashes THEN s ELSE in[h]
      <4> SUFFICES ASSUME NEW h \in Transfers
                   PROVE  CountedIn(h)' = IF h \in hashes THEN s ELSE CountedIn(h)
        OBVIOUS
      <4>1. CASE h \in hashes
        BY <3>2, <4>1 DEF Counts
      <4>2. CASE h \notin hashes /\ \E u \in Transfers : h \in sales[u].transfers
        <5>1. PICK u \in Transfers : h \in sales[u].transfers
          BY <4>2
        <5>2. h \in sales'[u].transfers
          BY <3>1, <3>2, <5>1
        <5> QED BY <4>2, <5>1, <5>2 DEF Counts
      <4>3. CASE h \notin hashes /\ \A u \in Transfers : h \notin sales[u].transfers
        <5>1. \A u \in Transfers : h \notin sales'[u].transfers
          BY <3>1, <3>2, <4>3
        <5> QED BY <4>3, <5>1 DEF Counts
      <4> QED BY <4>1, <4>2, <4>3
    <3>5. in' = [h \in Transfers |-> IF h \in hashes THEN s ELSE in[h]]
      BY <3>4
    <3>6. fate'[s] = "awaiting" /\ \A u \in Transfers : u # s => fate'[u] = fate[u]
      BY <2>1, <3>1 DEF Stays
    <3>7. fate' = [fate EXCEPT ![s] = "awaiting"]
      <4>1. fate' = [u \in Transfers |-> fate'[u]] /\ fate = [u \in Transfers |-> fate[u]]
        OBVIOUS
      <4> HIDE DEF fate
      <4> QED BY <3>6, <4>1
    <3>8. Ledger!Open(s, hashes)
      BY <3>1, <3>3, <3>5, <3>7 DEF Ledger!Open
    <3>9. Ledger!SaleNext
      BY <3>8 DEF Ledger!SaleNext
    <3> QED BY <3>9
  <2> QED BY <2>3, <2>4, <2>5, LedgerMoves
<1> QED BY <1>1, <1>2, <1>3, FateHolds, PTL DEF Spec, SaleSpec, Ledger!SaleSpec
=============================================================================
