-------------------------------- MODULE Sales --------------------------------
(***************************************************************************)
(* Selling a fleet's tokens through the operator (src/fleet/sell.ts).      *)
(*                                                                         *)
(* A request opens a sale from the transfers that count, each burned once  *)
(* and for all.  Any instance then advances it, one at a time under the    *)
(* sale's own lock: it sells the tokens, pays out the ETH, or, after three *)
(* misses, sends the tokens back; or it first settles what an earlier one  *)
(* sent.  Every send goes through the operator account under the operator  *)
(* lock, its hash in the record before the node sees it.                   *)
(*                                                                         *)
(* An action is what happens between two awaits that another instance      *)
(* could observe.  An instance that dies and one whose step throws do the  *)
(* same here: what it knew is gone, and its locks are given back or lapse. *)
(* What goes wrong takes one of MaxFaults, and only kinds in Faults occur. *)
(***************************************************************************)
EXTENDS OperatorAccount, FiniteSets

CONSTANTS
  Transfers,       \* hashes of transfers to the operator
  Instances,       \* instances of the service
  MAX_ATTEMPTS,
  Faults,          \* the kinds of fault that occur
  MaxFaults,       \* bound: how many faults in all
  NoOne,           \* a lock that is free
  Stale            \* a lock whose holder is gone

FaultKinds ==
  { "fails",       \* an instance dies, or a step throws, while it advances a sale
    "lost",        \* the same while a request counts its transfers
    "lapse",       \* the operator lock lapses under a live holder
    "hold",        \* the lock of a sale lapses under a live holder
    "unseen",      \* the node takes the transaction, the caller sees an error
    "dropped",     \* the node forgets a transaction it took
    "revert",      \* a payout or a return is mined and reverts
    "rpc",         \* a receipt that exists is not returned
    "race" }       \* a transaction is mined between two reads of resolve

ASSUME SaleFaults == Faults \subseteq FaultKinds /\ MaxFaults \in Nat
ASSUME SaleAttempts == MAX_ATTEMPTS \in Nat \ {0}
ASSUME SaleNames == NoOne # Stale /\ {NoOne, Stale} \cap (Transfers \cup Instances) = {}

VARIABLES
  burned,          \* transfers whose hash was burned
  sales,           \* fleet_sales, by id: the first transfer that counted
  saleLocks,       \* the holder of each sale's row of fleet_locks
  lock,            \* the holder of the "operator" row
  procs,           \* where each instance is, and its locals
  faults           \* faults so far

vars == <<burned, sales, saleLocks, lock, procs, txs, count, faults>>

Fault(kind) == kind \in Faults /\ faults < MaxFaults /\ faults' = faults + 1
NoFault     == UNCHANGED faults

----------------------------------------------------------------------------
\* The record of a sale

NoSale == [state |-> "none", transfers |-> {}, attempts |-> 0, saleTx |-> NoTx, payoutTx |-> NoTx]

Opened(hashes) == [NoSale EXCEPT !.state = "awaiting", !.transfers = hashes]
Pending(sale)  == sale.state \in {"awaiting", "sold"}

\* What a sale needs next.
Aim(sale) ==
  IF sale.state = "sold" THEN "payout"
  ELSE IF sale.payoutTx # NoTx \/ (sale.saleTx = NoTx /\ sale.attempts >= MAX_ATTEMPTS) THEN "return"
  ELSE "swap"

\* The transaction in flight for that, if there is one.
InFlight(sale) == IF Aim(sale) = "swap" THEN sale.saleTx ELSE sale.payoutTx

Named(sale, tx) ==
  IF Aim(sale) = "swap" THEN [sale EXCEPT !.saleTx = tx] ELSE [sale EXCEPT !.payoutTx = tx]

\* miss()
Missed(sale) == [sale EXCEPT !.saleTx = NoTx, !.attempts = sale.attempts + 1]

\* settleSwap(), settlePayout(), settleReturn(): an outcome that is known.
\* Mutant: what was never mined stays named.
DecidedKeepsHash(sale, outcome) ==
  CASE Aim(sale) = "swap"   -> IF outcome = "mined" THEN [sale EXCEPT !.state = "sold"] ELSE Missed(sale)
    [] Aim(sale) = "payout" -> IF outcome = "mined" THEN [sale EXCEPT !.state = "paid"] ELSE sale
    [] Aim(sale) = "return" -> IF outcome = "mined" THEN [sale EXCEPT !.state = "returned"] ELSE sale

\* Mutant: only a revert is a failure.
DecidedUnlessReverted(sale, outcome) ==
  CASE Aim(sale) = "swap"   -> IF outcome # "reverted" THEN [sale EXCEPT !.state = "sold"] ELSE Missed(sale)
    [] Aim(sale) = "payout" -> IF outcome # "reverted" THEN [sale EXCEPT !.state = "paid"]
                               ELSE [sale EXCEPT !.payoutTx = NoTx]
    [] Aim(sale) = "return" -> IF outcome # "reverted" THEN [sale EXCEPT !.state = "returned"]
                               ELSE [sale EXCEPT !.payoutTx = NoTx]

Decided(sale, outcome) ==
  CASE Aim(sale) = "swap"   -> IF outcome = "mined" THEN [sale EXCEPT !.state = "sold"] ELSE Missed(sale)
    [] Aim(sale) = "payout" -> IF outcome = "mined" THEN [sale EXCEPT !.state = "paid"]
                               ELSE [sale EXCEPT !.payoutTx = NoTx]
    [] Aim(sale) = "return" -> IF outcome = "mined" THEN [sale EXCEPT !.state = "returned"]
                               ELSE [sale EXCEPT !.payoutTx = NoTx]

put(s, sale) == sales' = [sales EXCEPT ![s] = sale]

----------------------------------------------------------------------------
\* Instances

Idle == [pc |-> "idle", todo |-> {}, id |-> NoOne, sale |-> NoSale, nonce |-> 0, outcome |-> "none"]

At(i, pc)   == procs[i].pc = pc
Go(i, new)  == procs' = [procs EXCEPT ![i] = new]
Tx(i)       == InFlight(procs[i].sale)
FreeSale(i) == saleLocks' = [s \in Transfers |-> IF saleLocks[s] = i THEN NoOne ELSE saleLocks[s]]
FreeLock(i) == lock' = IF lock = i THEN NoOne ELSE lock
\* An instance that dies leaves the locks it held to run out.
Gone(i) ==
  /\ saleLocks' = [s \in Transfers |-> IF saleLocks[s] = i THEN Stale ELSE saleLocks[s]]
  /\ lock' = IF lock = i THEN Stale ELSE lock

\* sell: a request names the transfers it says it made.  One that names only
\* burned ones is refused in the end, and is no step.
Sell(i, hashes) ==
  /\ At(i, "idle") /\ ~(hashes \subseteq burned)
  /\ Go(i, [Idle EXCEPT !.pc = "counting", !.todo = hashes])
  /\ NoFault
  /\ UNCHANGED <<burned, sales, saleLocks, lock, txs, count>>

\* counted(): what the chain shows, and nobody has burned, counts.
Count(i) ==
  /\ At(i, "counting")
  /\ \E h \in procs[i].todo :
       LET next == [procs[i] EXCEPT !.todo = procs[i].todo \ {h}] IN
       \/ /\ h \notin burned
          /\ burned' = burned \cup {h}
          /\ Go(i, [next EXCEPT !.id = IF procs[i].id = NoOne THEN h ELSE procs[i].id,
                                !.sale = Opened(procs[i].sale.transfers \cup {h})])
       \/ /\ Go(i, next)
          /\ UNCHANGED burned
  /\ NoFault
  /\ UNCHANGED <<sales, saleLocks, lock, txs, count>>

\* openSale(): the sale exists, or nothing counted.
OpenSale(i) ==
  /\ At(i, "counting") /\ procs[i].todo = {}
  /\ IF procs[i].id = NoOne THEN UNCHANGED sales ELSE put(procs[i].id, procs[i].sale)
  /\ Go(i, Idle)
  /\ NoFault
  /\ UNCHANGED <<burned, saleLocks, lock, txs, count>>

\* advancePending(): the sale's lock, and the record as it is under it.  A
\* payout that is not due yet is no step.
Advance(i, s) ==
  /\ At(i, "idle") /\ saleLocks[s] = NoOne
  /\ Pending(sales[s])
  /\ saleLocks' = [saleLocks EXCEPT ![s] = i]
  /\ Go(i, [Idle EXCEPT !.id = s, !.sale = sales[s],
              !.pc = IF InFlight(sales[s]) = NoTx THEN "waiting" ELSE "resolving"])
  /\ NoFault
  /\ UNCHANGED <<burned, sales, lock, txs, count>>

\* trySell(): no quote, or an approval that was not mined.
Miss(i) ==
  /\ At(i, "waiting") /\ Aim(procs[i].sale) = "swap"
  /\ put(procs[i].id, Missed(procs[i].sale))
  /\ FreeSale(i)
  /\ Go(i, Idle)
  /\ NoFault
  /\ UNCHANGED <<burned, lock, txs, count>>

\* resolve(): the receipt, or the lack of one.
ReadReceipt(i) ==
  /\ At(i, "resolving")
  /\ \/ /\ Executed(Tx(i))
        /\ NoFault
        /\ Go(i, [procs[i] EXCEPT !.pc = "settling", !.outcome = txs[Tx(i)].status])
     \/ /\ IF Executed(Tx(i)) THEN Fault("rpc") ELSE NoFault
        /\ Go(i, [procs[i] EXCEPT !.pc = "reading"])
  /\ UNCHANGED <<burned, sales, saleLocks, lock, txs, count>>

\* resolve(): no receipt, so the account's nonce decides.
ReadCount(i) ==
  /\ At(i, "reading")
  /\ Go(i, [procs[i] EXCEPT !.pc = "settling",
              !.outcome = IF count > txs[Tx(i)].nonce THEN "never-mined" ELSE "unknown"])
  /\ NoFault
  /\ UNCHANGED <<burned, sales, saleLocks, lock, txs, count>>

\* send(): the operator lock, and the nonce read under it.
Acquire(i) ==
  /\ At(i, "waiting") /\ lock = NoOne
  /\ lock' = i
  /\ Go(i, [procs[i] EXCEPT !.pc = "signing", !.nonce = nextNonce])
  /\ NoFault
  /\ UNCHANGED <<burned, sales, saleLocks, txs, count>>

\* Signed; the lease is still held, and the hash goes into the record.
Signed(i) ==
  Append(txs, [nonce |-> procs[i].nonce, sale |-> procs[i].id, kind |-> Aim(procs[i].sale),
               status |-> "signed"])

\* Mutant: the hash is kept, and saved only with the outcome.
RecordLater(i) ==
  /\ At(i, "signing") /\ lock = i
  /\ txs' = Signed(i)
  /\ Go(i, [procs[i] EXCEPT !.pc = "signed", !.sale = Named(procs[i].sale, Len(txs'))])
  /\ NoFault
  /\ UNCHANGED <<burned, sales, saleLocks, lock, count>>

Record(i) ==
  /\ At(i, "signing") /\ lock = i
  /\ txs' = Signed(i)
  /\ put(procs[i].id, Named(procs[i].sale, Len(txs')))
  /\ Go(i, [procs[i] EXCEPT !.pc = "signed", !.sale = Named(procs[i].sale, Len(txs'))])
  /\ NoFault
  /\ UNCHANGED <<burned, saleLocks, lock, count>>

\* send() ends: the operator lock is given back.
Ends(i, outcome) ==
  /\ FreeLock(i)
  /\ Go(i, [procs[i] EXCEPT !.pc = "settling", !.outcome = outcome])

Broadcast(i) ==
  /\ At(i, "signed")
  /\ \/ /\ Accepted(Tx(i)) /\ NoFault
        /\ Sends(Tx(i), "pending")
        /\ Go(i, [procs[i] EXCEPT !.pc = "sent"])
        /\ UNCHANGED lock
     \/ /\ IF Accepted(Tx(i)) THEN Fault("unseen") ELSE NoFault
        /\ Sends(Tx(i), IF Accepted(Tx(i)) THEN "pending" ELSE "lost")
        /\ Ends(i, "unknown")
  /\ UNCHANGED <<burned, sales, saleLocks, count>>

\* waitForTransactionReceipt: the receipt, or a wait that ends without one.
Await(i) ==
  /\ At(i, "sent")
  /\ \/ /\ Executed(Tx(i)) /\ NoFault
        /\ Ends(i, txs[Tx(i)].status)
     \/ /\ IF Executed(Tx(i)) \/ Minable(Tx(i)) THEN Fault("unseen") ELSE NoFault
        /\ Ends(i, "unknown")
  /\ UNCHANGED <<burned, sales, saleLocks, txs, count>>

\* The outcome goes into the record, an unknown one leaves it as it is.
Settle(i) ==
  /\ At(i, "settling")
  /\ IF procs[i].outcome = "unknown" THEN UNCHANGED sales
     ELSE put(procs[i].id, Decided(procs[i].sale, procs[i].outcome))
  /\ FreeSale(i)
  /\ Go(i, Idle)
  /\ NoFault
  /\ UNCHANGED <<burned, lock, txs, count>>

\* The instance dies, or its step throws: LeaseLost when the operator lock is
\* gone before the record, a lock that never comes, a call that fails.
Fail(i) ==
  /\ ~At(i, "idle")
  /\ CASE At(i, "counting")              -> Fault("lost")
       [] At(i, "signing") /\ lock # i   -> NoFault
       [] OTHER                          -> Fault("fails")
  /\ Go(i, Idle)
  /\ (FreeSale(i) /\ FreeLock(i)) \/ Gone(i)
  /\ UNCHANGED <<burned, sales, txs, count>>

\* A lease runs out when its holder is gone, and while its holder lives when
\* the renewals do not get through.
LockLapses ==
  /\ lock # NoOne
  /\ IF lock = Stale THEN NoFault ELSE Fault("lapse")
  /\ lock' = NoOne
  /\ UNCHANGED <<burned, sales, saleLocks, procs, txs, count>>

SaleLockLapses(s) ==
  /\ saleLocks[s] # NoOne
  /\ IF saleLocks[s] = Stale THEN NoFault ELSE Fault("hold")
  /\ saleLocks' = [saleLocks EXCEPT ![s] = NoOne]
  /\ UNCHANGED <<burned, sales, lock, procs, txs, count>>

----------------------------------------------------------------------------
\* The operator account between its transactions.  A swap reverts when the
\* price has moved, which is no fault.

Mine(t) ==
  /\ \E result \in {"mined", "reverted"} :
       /\ Executes(t, result)
       /\ IF \E i \in Instances : At(i, "reading") /\ Tx(i) = t THEN Fault("race")
          ELSE IF result = "reverted" /\ txs[t].kind # "swap" THEN Fault("revert")
          ELSE NoFault
  /\ UNCHANGED <<burned, sales, saleLocks, lock, procs>>

Drop(t) ==
  /\ Forgotten(t)
  /\ Fault("dropped")
  /\ UNCHANGED <<burned, sales, saleLocks, lock, procs>>

\* A batch, a buy or an approval of the same account is mined.
OtherTraffic ==
  /\ lock = NoOne
  /\ Overtaken
  /\ NoFault
  /\ UNCHANGED <<burned, sales, saleLocks, lock, procs>>

----------------------------------------------------------------------------
Init ==
  /\ burned = {}
  /\ sales = [s \in Transfers |-> NoSale]
  /\ saleLocks = [s \in Transfers |-> NoOne]
  /\ lock = NoOne
  /\ procs = [i \in Instances |-> Idle]
  /\ txs = <<>>
  /\ count = 0
  /\ faults = 0

Step(i) ==
  \/ ReadReceipt(i) \/ ReadCount(i) \/ Acquire(i) \/ Record(i) \/ Broadcast(i)
  \/ Await(i) \/ Settle(i) \/ (At(i, "signing") /\ lock # i /\ Fail(i))

Next ==
  \/ \E i \in Instances :
       \/ \E hashes \in SUBSET Transfers : Sell(i, hashes)
       \/ \E s \in Transfers : Advance(i, s)
       \/ Count(i) \/ OpenSale(i) \/ Miss(i) \/ Step(i) \/ Fail(i)
  \/ \E t \in DOMAIN txs : Mine(t) \/ Drop(t)
  \/ \E s \in Transfers : SaleLockLapses(s)
  \/ LockLapses \/ OtherTraffic

Spec == Init /\ [][Next]_vars

(***************************************************************************)
(* The sales clock calls advancePending every five minutes, which tries    *)
(* every pending sale in turn (strongly fair: a sale's turn comes between  *)
(* those of others); an instance that advances a sale goes on until it     *)
(* ends or fails; the chain mines what the node holds at the next nonce,   *)
(* and the account keeps being used.  Mining is strongly fair because,     *)
(* with "race" left out, a reader between its two reads holds it back.     *)
(* A lock whose holder is gone runs out.  Nothing forces a request, a miss *)
(* or a fault.                                                             *)
(***************************************************************************)
Fairness ==
  /\ \A s \in Transfers : SF_vars(\E i \in Instances : Advance(i, s))
  /\ \A i \in Instances : SF_vars(Step(i)) /\ WF_vars(Count(i) \/ OpenSale(i))
  /\ SF_vars(\E t \in DOMAIN txs : txs[t].status = "pending" /\ Mine(t))
  /\ WF_vars(OtherTraffic)
  /\ WF_vars(lock = Stale /\ LockLapses)
  /\ \A s \in Transfers : WF_vars(saleLocks[s] = Stale /\ SaleLockLapses(s))

FairSpec == Spec /\ Fairness

----------------------------------------------------------------------------
\* Properties

MinedFor(s, kind) ==
  {t \in DOMAIN txs : txs[t].sale = s /\ txs[t].kind = kind /\ txs[t].status = "mined"}

\* Every record is one the code can write: misses stop at MAX_ATTEMPTS, a
\* sale names only transactions signed for it, and gives its tokens back
\* only after the last miss.  Who signs under the lock does it alone.
TypeOK ==
  /\ burned \subseteq Transfers
  /\ lock \in Instances \cup {NoOne, Stale}
  /\ saleLocks \in [Transfers -> Instances \cup {NoOne, Stale}]
  /\ \A s \in Transfers : LET sale == sales[s] IN
       /\ sale.state \in {"none", "awaiting", "sold", "paid", "returned"}
       /\ sale.attempts \in 0..MAX_ATTEMPTS
       /\ sale.state # "none" => s \in sale.transfers /\ sale.transfers \subseteq burned
       /\ sale.saleTx # NoTx => txs[sale.saleTx].sale = s /\ txs[sale.saleTx].kind = "swap"
       /\ sale.payoutTx # NoTx =>
            /\ txs[sale.payoutTx].sale = s
            /\ txs[sale.payoutTx].kind = IF sale.saleTx = NoTx THEN "return" ELSE "payout"
            /\ sale.saleTx = NoTx => sale.attempts = MAX_ATTEMPTS
  /\ faults \in 0..MaxFaults

\* What the record says happened, happened: the sum of the sold sales is
\* subtracted from the operator's float, and a paid or returned sale is
\* never looked at again.
RecordIsTrue ==
  \A s \in Transfers :
    CASE sales[s].state = "sold"     -> sales[s].saleTx \in MinedFor(s, "swap")
      [] sales[s].state = "paid"     -> sales[s].payoutTx \in MinedFor(s, "payout")
      [] sales[s].state = "returned" -> sales[s].payoutTx \in MinedFor(s, "return")
      [] OTHER                       -> TRUE

\* What the chain says happened to each sale, as SaleLedger sees it.
Times(s, kind) == Cardinality(MinedFor(s, kind))
Fate(s) ==
  LET times == <<Times(s, "swap"), Times(s, "payout"), Times(s, "return")>> IN
  CASE sales[s].state = "none" -> "none"
    [] sales[s].state # "none" /\ times = <<0, 0, 0>> -> "awaiting"
    [] sales[s].state # "none" /\ times = <<1, 0, 0>> -> "sold"
    [] sales[s].state # "none" /\ times = <<1, 1, 0>> -> "paid"
    [] sales[s].state # "none" /\ times = <<0, 0, 1>> -> "returned"
    [] OTHER -> "broken"

CountedIn(h) ==
  LET in == {s \in Transfers : h \in sales[s].transfers}
  IN  IF Cardinality(in) = 1 THEN CHOOSE s \in in : TRUE ELSE NoOne

Ledger == INSTANCE SaleLedger WITH
  countedIn <- [h \in Transfers |-> CountedIn(h)], fate <- [s \in Transfers |-> Fate(s)]

\* Whatever dies, is dropped or goes unseen on the way, the transactions that
\* reach the chain for a sale are one swap and one payout, or one return.
SaleSpec == Ledger!SaleSpec

\* A depositor is never left with a sale that nobody finishes.
EverySaleEnds ==
  \A s \in Transfers : sales[s].state = "awaiting" ~> sales[s].state \in {"paid", "returned"}

\* "a process that dies mid-sale leaves a record to resume from, not a sale to
\* repeat" (docs/design-sell.md:43): a transfer that was burned counts in a
\* sale, or in one that is being opened.
BurnedCounts ==
  \A h \in burned : \/ \E s \in Transfers : h \in sales[s].transfers
                    \/ \E i \in Instances : h \in procs[i].sale.transfers
=============================================================================
