----------------------------- MODULE OwedLedger -----------------------------
(***************************************************************************)
(* The owed-spend ledger: how a charge recorded by a buy, a funding or a   *)
(* withdrawal reaches the pool's queue.                                    *)
(*                                                                         *)
(* Two kinds of process work on the rows of fleet_owed_spend.  A sweeper   *)
(* (src/fleet/pool-buy.ts, sweep) resolves what earlier sweeps left sent,  *)
(* then takes what is owed and queues it in one transaction.  A withdrawal *)
(* (withdraw) records its own charge, pays, and settles the row by what    *)
(* became of the payout.  Both send from one account, a nonce at a time,   *)
(* under the operator lock, and both write the hash to the rows before the *)
(* node sees the transaction.                                              *)
(*                                                                         *)
(* An action is what happens between two awaits that another process could *)
(* observe.  What goes wrong is an action too: each takes one of MaxFaults *)
(* faults, and only the kinds in Faults occur.  The rows behave as the     *)
(* Neon store keeps them (src/fleet/store-neon.ts).                        *)
(***************************************************************************)
EXTENDS OperatorAccount, FiniteSets

CONSTANTS
  Charges,         \* rows recorded for a buy or a funding already mined
  Payouts,         \* rows of withdrawals; a withdrawal is named by its row
  Sweepers,        \* instances the scheduled sweep runs on
  BATCH_LIMIT,
  Faults,          \* the kinds of fault that occur
  MaxFaults,       \* bound: how many faults in all
  NoOne, Stale     \* the lock when it is free, and when its holder is gone

FaultKinds ==
  { "crash",       \* an instance dies between two steps
    "orphan",      \* a withdrawal dies before its payout has a hash
    "refuse",      \* a step throws before anything is signed
    "lapse",       \* the operator lock lapses under a live holder
    "slow",        \* a row lease lapses under a live sweeper
    "release",     \* the DELETE that gives the lock back fails
    "unseen",      \* the node takes the transaction, the caller sees an error
    "dropped",     \* the node forgets a transaction it took
    "revert",      \* a transaction is mined and reverts
    "rpc",         \* a receipt that exists is not returned
    "race",        \* a transaction is mined between two reads of resolve
    "overlap" }    \* a sweep runs while a withdrawal or another sweep does

ASSUME FaultsAssumption == Faults \subseteq FaultKinds /\ MaxFaults \in Nat
ASSUME LimitAssumption == BATCH_LIMIT \in Nat \ {0}
ASSUME ActorsDiffer ==
  /\ Charges \cap Payouts = {} /\ Sweepers \cap Payouts = {}
  /\ NoOne # Stale /\ NoOne \notin Sweepers \cup Payouts /\ Stale \notin Sweepers \cup Payouts

Rows  == Charges \cup Payouts
Procs == Sweepers \cup Payouts

VARIABLES
  rows,            \* fleet_owed_spend
  lock,            \* the holder of the "operator" row of fleet_locks
  procs,           \* where each process is, and its locals
  sentRefs,        \* per instance, the batches whose references it remembers
  faults           \* faults so far

vars == <<rows, lock, procs, sentRefs, txs, count, faults>>

Fault(kind) == kind \in Faults /\ faults < MaxFaults /\ faults' = faults + 1
NoFault     == UNCHANGED faults

----------------------------------------------------------------------------
\* The store

Absent   == [recorded |-> FALSE, leased |-> FALSE, voided |-> FALSE, tx |-> NoTx, queued |-> NoTx]
Recorded == [Absent EXCEPT !.recorded = TRUE]

Live(r)   == rows[r].recorded /\ rows[r].queued = NoTx /\ ~rows[r].voided
Owed(r)   == Live(r) /\ rows[r].tx = NoTx /\ ~rows[r].leased
Write(ids, F(_)) == rows' = [r \in Rows |-> IF r \in ids THEN F(rows[r]) ELSE rows[r]]

recordOwed(r)      == rows' = [rows EXCEPT ![r] = Recorded]
takeOwed(ids)      == Write(ids, LAMBDA row : [row EXCEPT !.leased = TRUE])
releaseOwed(ids)   == Write(ids, LAMBDA row : [row EXCEPT !.leased = FALSE])
markSent(ids, tx)  == Write(ids, LAMBDA row : [row EXCEPT !.tx = tx])

\* Mutant: a row that goes back keeps the hash it was sent under.
resolveSentKeepsHash(ids, to) ==
  Write(ids, LAMBDA row :
    CASE to = "confirmed" -> [row EXCEPT !.queued = row.tx]
      [] to = "void"      -> [row EXCEPT !.voided = TRUE]
      [] to = "owed"      -> [row EXCEPT !.leased = FALSE]
      [] OTHER            -> row)

resolveSent(ids, to) ==
  Write(ids, LAMBDA row :
    CASE to = "confirmed" -> [row EXCEPT !.queued = row.tx]
      [] to = "void"      -> [row EXCEPT !.voided = TRUE]
      [] to = "owed"      -> [row EXCEPT !.tx = NoTx, !.leased = FALSE]
      [] OTHER            -> row)

\* Every batch still sent: its hash, and the rows that carry it.
sentBatches ==
  {[tx |-> rows[r].tx, ids |-> {q \in Rows : Live(q) /\ rows[q].tx = rows[r].tx}] :
     r \in {q \in Rows : Live(q) /\ rows[q].tx # NoTx}}

----------------------------------------------------------------------------
\* The operator account between its transactions.

Mine(t) ==
  /\ \E result \in {"mined", "reverted"} :
       /\ Executes(t, result)
       /\ LET raced == \E p \in Procs : procs[p].pc = "counting" /\ procs[p].tx = t
          IN  CASE raced /\ result = "mined"  -> Fault("race")
                [] ~raced /\ result = "mined" -> NoFault
                [] OTHER                      -> ~raced /\ Fault("revert")
  /\ UNCHANGED <<rows, lock, procs, sentRefs>>

Drop(t) ==
  /\ Forgotten(t)
  /\ Fault("dropped")
  /\ UNCHANGED <<rows, lock, procs, sentRefs>>

\* A posting, funding or buy of the same account is mined.
OtherTraffic ==
  /\ lock = NoOne
  /\ Overtaken
  /\ NoFault
  /\ UNCHANGED <<rows, lock, procs, sentRefs>>

----------------------------------------------------------------------------
\* Processes

Fresh == [pc |-> "idle", ids |-> {}, tx |-> NoTx, nonce |-> 0, outcome |-> "none", todo |-> {}]

At(p, pc)   == procs[p].pc = pc
Go(p, new)  == procs' = [procs EXCEPT ![p] = new]
Over(p)     == procs[p].pc \in {"idle", "refused", "done", "dead"}
Ended(p)    == IF p \in Sweepers THEN "idle" ELSE "done"
Released(p) == lock' = IF lock = p THEN NoOne ELSE lock
Gone(p)     == lock' = IF lock = p THEN Stale ELSE lock

\* charge(): a row for spend that is already on the chain.
Charge(r) ==
  /\ r \in Charges /\ ~rows[r].recorded
  /\ recordOwed(r)
  /\ NoFault
  /\ UNCHANGED <<lock, procs, sentRefs, txs, count>>

\* withdraw(): the charge is recorded before the payout.
Withdraw(p) ==
  /\ p \in Payouts /\ At(p, "idle")
  /\ IF \A s \in Sweepers : Over(s) THEN NoFault ELSE Fault("overlap")
  /\ recordOwed(p)
  /\ Go(p, [Fresh EXCEPT !.pc = "waiting", !.ids = {p}])
  /\ UNCHANGED <<lock, sentRefs, txs, count>>

\* sweep(), scheduled: on a warm instance or a cold one.
Sweep(s) ==
  /\ s \in Sweepers /\ At(s, "idle")
  /\ IF \A p \in Procs : Over(p) THEN NoFault ELSE Fault("overlap")
  /\ Go(s, [Fresh EXCEPT !.pc = "resolving", !.todo = sentBatches])
  /\ sentRefs' \in {sentRefs, [sentRefs EXCEPT ![s] = {}]}
  /\ UNCHANGED <<rows, lock, txs, count>>

\* resolve(): the receipt, or the lack of one.
ReadReceipt(s) ==
  /\ At(s, "resolving")
  /\ \E batch \in procs[s].todo :
       /\ \A other \in procs[s].todo : txs[batch.tx].nonce <= txs[other.tx].nonce
       /\ LET read == [procs[s] EXCEPT !.tx = batch.tx, !.ids = batch.ids,
                                       !.todo = procs[s].todo \ {batch}]
          IN  \/ /\ Executed(batch.tx)
                 /\ NoFault
                 /\ Go(s, [read EXCEPT !.pc = "settling", !.outcome = txs[batch.tx].status])
              \/ /\ IF Executed(batch.tx) THEN Fault("rpc") ELSE NoFault
                 /\ Go(s, [read EXCEPT !.pc = "counting"])
  /\ UNCHANGED <<rows, lock, sentRefs, txs, count>>

\* resolve(): no receipt, so the account's nonce decides.
ReadCount(s) ==
  /\ At(s, "counting")
  /\ Go(s, [procs[s] EXCEPT !.pc = "settling",
              !.outcome = IF count > txs[procs[s].tx].nonce THEN "never-mined" ELSE "unknown"])
  /\ NoFault
  /\ UNCHANGED <<rows, lock, sentRefs, txs, count>>

\* settleSent(): where the rows go.  Unknown stays sent; the chain's queue is
\* asked about batches this instance remembers sending.
Mined(p)  == procs[p].outcome = "mined"
Landed(p) == procs[p].tx \in sentRefs[p] /\ txs[procs[p].tx].status = "mined"
Payout(p) == txs[procs[p].tx].kind = "payout"

\* Mutant: the charge of a payout stands whatever became of it.
VerdictStands(p) ==
  IF procs[p].outcome = "unknown" THEN "sent"
  ELSE IF Payout(p) THEN "owed"
  ELSE IF Mined(p) \/ Landed(p) THEN "confirmed" ELSE "owed"

Verdict(p) ==
  IF procs[p].outcome = "unknown" THEN "sent"
  ELSE IF Payout(p) THEN IF Mined(p) THEN "owed" ELSE "void"
  ELSE IF Mined(p) \/ Landed(p) THEN "confirmed" ELSE "owed"

\* Where the process goes next: a sweep on to the next batch, a withdrawal
\* to its answer, which is a refusal when the payout is known to have failed.
\* Mutant: a payout that was not seen is answered as a refusal.
ThenUnseenRefused(p) ==
  IF At(p, "settling") THEN "resolving"
  ELSE IF p \in Payouts /\ procs[p].outcome # "mined" THEN "refused" ELSE Ended(p)

Then(p) ==
  IF At(p, "settling") THEN "resolving"
  ELSE IF p \in Payouts /\ procs[p].outcome = "reverted" THEN "refused" ELSE Ended(p)

Settle(p) ==
  /\ At(p, "settling") \/ At(p, "finishing")
  /\ resolveSent(procs[p].ids, Verdict(p))
  /\ Go(p, [procs[p] EXCEPT !.pc = Then(p)])
  /\ NoFault
  /\ UNCHANGED <<lock, sentRefs, txs, count>>

\* queueOwed(): lease up to BATCH_LIMIT rows.
Take(s) ==
  /\ At(s, "resolving") /\ procs[s].todo = {}
  /\ LET owed == {r \in Rows : Owed(r)}
         limit == IF Cardinality(owed) < BATCH_LIMIT THEN Cardinality(owed) ELSE BATCH_LIMIT
     IN  \E ids \in SUBSET owed :
           /\ Cardinality(ids) = limit
           /\ takeOwed(ids)
           /\ Go(s, IF ids = {} THEN Fresh ELSE [Fresh EXCEPT !.pc = "waiting", !.ids = ids])
  /\ NoFault
  /\ UNCHANGED <<lock, sentRefs, txs, count>>

\* withLock() grants the operator lock; the nonce is read under it.
Acquire(p) ==
  /\ At(p, "waiting") /\ lock = NoOne
  /\ lock' = p
  /\ Go(p, [procs[p] EXCEPT !.pc = "signing", !.nonce = nextNonce])
  /\ NoFault
  /\ UNCHANGED <<rows, sentRefs, txs, count>>

\* What the caller does with a throw from the locked step: a sweep hands its
\* rows back, a withdrawal voids its charge and refuses.
Caught(p) ==
  IF p \in Sweepers
    THEN releaseOwed(procs[p].ids) /\ Go(p, Fresh)
    ELSE resolveSent(procs[p].ids, "void") /\ Go(p, [procs[p] EXCEPT !.pc = "refused"])

\* The step throws before a signature: the lock never came, the node refused
\* to prepare the transaction, or the lease was lost before the record.
Refuse(p) ==
  /\ \/ At(p, "waiting") /\ Fault("refuse")
     \/ At(p, "signing") /\ IF lock = p THEN Fault("refuse") ELSE NoFault
  /\ Caught(p)
  /\ Released(p)
  /\ UNCHANGED <<sentRefs, txs, count>>

\* Signed; guarded() finds the lease held and the hash goes to the rows.
Signed(p) ==
  Append(txs, [nonce |-> procs[p].nonce, kind |-> IF p \in Sweepers THEN "batch" ELSE "payout",
               ids |-> procs[p].ids, status |-> "signed"])

\* Mutant: the hash is not written to the rows before the broadcast.
RecordUnnamed(p) ==
  /\ At(p, "signing") /\ lock = p
  /\ txs' = Signed(p)
  /\ Go(p, [procs[p] EXCEPT !.pc = "signed", !.tx = Len(txs')])
  /\ NoFault
  /\ UNCHANGED <<rows, lock, sentRefs, count>>

Record(p) ==
  /\ At(p, "signing") /\ lock = p
  /\ txs' = Signed(p)
  /\ markSent(procs[p].ids, Len(txs'))
  /\ sentRefs' = [sentRefs EXCEPT ![p] = IF p \in Sweepers THEN @ \cup {Len(txs')} ELSE @]
  /\ Go(p, [procs[p] EXCEPT !.pc = "signed", !.tx = Len(txs')])
  /\ NoFault
  /\ UNCHANGED <<lock, count>>

\* Mutant: a throw from the broadcast is handled as a throw before it.
BroadcastCaught(p) ==
  /\ At(p, "signed")
  /\ \/ /\ Accepted(procs[p].tx) /\ NoFault
        /\ Sends(procs[p].tx, "pending")
        /\ Go(p, [procs[p] EXCEPT !.pc = "sent"])
        /\ UNCHANGED <<rows, lock>>
     \/ /\ IF Accepted(procs[p].tx) THEN Fault("unseen") ELSE NoFault
        /\ Sends(procs[p].tx, IF Accepted(procs[p].tx) THEN "pending" ELSE "lost")
        /\ Caught(p) /\ Released(p)
  /\ UNCHANGED <<sentRefs, count>>

Broadcast(p) ==
  /\ At(p, "signed")
  /\ \/ /\ Accepted(procs[p].tx) /\ NoFault
        /\ Sends(procs[p].tx, "pending")
        /\ Go(p, [procs[p] EXCEPT !.pc = "sent"])
     \/ /\ IF Accepted(procs[p].tx) THEN Fault("unseen") ELSE NoFault
        /\ Sends(procs[p].tx, IF Accepted(procs[p].tx) THEN "pending" ELSE "lost")
        /\ Go(p, [procs[p] EXCEPT !.pc = "releasing", !.outcome = "unknown"])
  /\ UNCHANGED <<rows, lock, sentRefs, count>>

\* waitForTransactionReceipt: the receipt, or a wait that ends without one.
Await(p) ==
  /\ At(p, "sent")
  /\ LET tx == procs[p].tx
     IN  \/ /\ Executed(tx)
            /\ NoFault
            /\ Go(p, [procs[p] EXCEPT !.pc = "releasing", !.outcome = txs[tx].status])
         \/ /\ IF Executed(tx) \/ Minable(tx) THEN Fault("unseen") ELSE NoFault
            /\ Go(p, [procs[p] EXCEPT !.pc = "releasing", !.outcome = "unknown"])
  /\ UNCHANGED <<rows, lock, sentRefs, txs, count>>

\* withLock()'s finally gives the lock back; if that fails the outcome is
\* lost with it, and the caller sees a throw.
Release(p) ==
  /\ At(p, "releasing")
  /\ \/ /\ NoFault
        /\ Released(p)
        /\ Go(p, [procs[p] EXCEPT !.pc = "finishing"])
        /\ UNCHANGED rows
     \/ /\ Fault("release")
        /\ Gone(p)
        /\ Caught(p)
  /\ UNCHANGED <<sentRefs, txs, count>>

\* The instance dies where it stands.
Crash(p) ==
  /\ ~Over(p)
  /\ Fault(IF p \in Payouts /\ procs[p].pc \in {"waiting", "signing"} THEN "orphan" ELSE "crash")
  /\ Gone(p)
  /\ Go(p, IF p \in Sweepers THEN Fresh ELSE [procs[p] EXCEPT !.pc = "dead"])
  /\ sentRefs' = [sentRefs EXCEPT ![p] = {}]
  /\ UNCHANGED <<rows, txs, count>>

\* The lock is a lease: it lapses when its holder is gone, and under a live
\* holder whose renewals fail.
LockLapses ==
  /\ lock # NoOne
  /\ IF lock = Stale THEN NoFault ELSE Fault("lapse")
  /\ lock' = NoOne
  /\ UNCHANGED <<rows, procs, sentRefs, txs, count>>

\* A row lease lapses when LOCK_TTL_MS have passed since it was taken.
Holding(s, r) == procs[s].pc \in {"waiting", "signing"} /\ r \in procs[s].ids

LeaseLapses(r) ==
  /\ rows[r].leased /\ Live(r) /\ rows[r].tx = NoTx
  /\ IF \E s \in Sweepers : Holding(s, r) THEN Fault("slow") ELSE NoFault
  /\ rows' = [rows EXCEPT ![r].leased = FALSE]
  /\ UNCHANGED <<lock, procs, sentRefs, txs, count>>

----------------------------------------------------------------------------
Init ==
  /\ rows = [r \in Rows |-> Absent]
  /\ lock = NoOne
  /\ procs = [p \in Procs |-> Fresh]
  /\ sentRefs = [p \in Procs |-> {}]
  /\ txs = <<>>
  /\ count = 0
  /\ faults = 0

Step(p) == Acquire(p) \/ Record(p) \/ Broadcast(p) \/ Await(p) \/ Release(p) \/ Settle(p) \/ Refuse(p)
SweepStep(s) == ReadReceipt(s) \/ ReadCount(s) \/ Take(s)

Next ==
  \/ \E r \in Rows : Charge(r) \/ LeaseLapses(r)
  \/ \E w \in Payouts : Withdraw(w)
  \/ \E s \in Sweepers : Sweep(s) \/ SweepStep(s)
  \/ \E p \in Procs : Step(p) \/ Crash(p)
  \/ \E t \in DOMAIN txs : Mine(t) \/ Drop(t)
  \/ OtherTraffic \/ LockLapses

Spec == Init /\ [][Next]_vars

(***************************************************************************)
(* The scheduler calls the sweep again and again, a function that was      *)
(* started runs until it ends or dies, the chain mines what the node holds *)
(* at the account's next nonce, other traffic keeps using nonces, and time *)
(* passes for leases that nobody renews.  Nothing forces a withdrawal, a   *)
(* charge or a fault, nor the mining of a transaction the node forgot.     *)
(* Mining is strongly fair because, with "race" left out, a sweep that is  *)
(* between its two reads holds it back for a moment; the chain does not    *)
(* wait, and a moment is all it is.                                        *)
(***************************************************************************)
Fairness ==
  /\ \A s \in Sweepers : WF_vars(Sweep(s)) /\ WF_vars(SweepStep(s))
  /\ \A p \in Procs : WF_vars(Step(p))
  /\ SF_vars(\E t \in DOMAIN txs : txs[t].status = "pending" /\ Mine(t))
  /\ WF_vars(OtherTraffic)
  /\ WF_vars(LockLapses)
  /\ \A r \in Rows : WF_vars(LeaseLapses(r))

FairSpec == Spec /\ Fairness

----------------------------------------------------------------------------
\* Properties

MinedWith(kind, r) ==
  {t \in DOMAIN txs : txs[t].status = "mined" /\ txs[t].kind = kind /\ r \in txs[t].ids}
Queued(r) == MinedWith("batch", r) # {}
Paid(w)   == MinedWith("payout", w) # {}

\* Every variable holds what its column or local holds, a row names only
\* transactions that carry it, and a process locals fit where it is.
TypeOK ==
  /\ rows \in [Rows -> [recorded : BOOLEAN, leased : BOOLEAN, voided : BOOLEAN,
                        tx : 0..Len(txs), queued : 0..Len(txs)]]
  /\ lock \in Procs \cup {NoOne, Stale}
  /\ \A p \in Procs :
       /\ procs[p].ids \subseteq Rows
       /\ procs[p].tx \in 0..Len(txs)
       /\ procs[p].pc \in {"signed", "sent", "releasing", "settling", "finishing", "counting"} => procs[p].tx # NoTx
       /\ At(p, "settling") \/ At(p, "finishing") => procs[p].outcome # "none"
  /\ \A r \in Rows : rows[r].tx # NoTx => r \in txs[rows[r].tx].ids
  /\ faults \in 0..MaxFaults

\* No charge reaches the pool's queue twice, and a void one never does.  The
\* queue has no memory of rows, so nothing on the chain would notice.
ChargedOnce ==
  \A r \in Rows : /\ Cardinality(MinedWith("batch", r)) <= 1
                  /\ rows[r].voided => ~Queued(r)

\* A trader is charged for a withdrawal only if it was paid.
UnpaidNotCharged == \A w \in Payouts : Queued(w) => Paid(w)

\* A payout that was mined leaves a charge that still stands: the
\* paid-but-unrecorded case of withdraw().
PaidStaysCharged == \A w \in Payouts : Paid(w) => rows[w].recorded /\ ~rows[w].voided

\* A trader told that a withdrawal was refused was not paid, so trying
\* again is safe.
RefusedNotPaid == \A w \in Payouts : At(w, "refused") => ~Paid(w)

\* What happened to each charge, as ChargeLedger sees it.
Fate(r) ==
  IF ~rows[r].recorded THEN "absent"
  ELSE CASE rows[r].voided /\ ~Queued(r)                              -> "void"
         [] ~rows[r].voided /\ Cardinality(MinedWith("batch", r)) = 1 -> "queued"
         [] ~rows[r].voided /\ ~Queued(r)                             -> "owed"
         [] OTHER                                                     -> "broken"

Ledger == INSTANCE ChargeLedger WITH Rows <- Rows, fate <- [r \in Rows |-> Fate(r)]

\* The sweeps and withdrawals implement the ledger of charges: recorded,
\* then queued once or voided, and never back.
LedgerSpec == Ledger!FateSpec

\* Every recorded charge is in the end the queue's or void: no crash, lost
\* broadcast or unseen receipt leaves a row that no sweep will finish.
EveryChargeSettles ==
  \A r \in Rows : rows[r].recorded ~> (rows[r].queued # NoTx \/ rows[r].voided)
=============================================================================
