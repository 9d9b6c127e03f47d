------------------------------ MODULE FleetPool ------------------------------
(***************************************************************************)
(* contracts/fleet/FleetPool.sol: one pool of ETH, deposits and charges    *)
(* keyed by depositor, draws and funding keyed by campaign.                *)
(*                                                                         *)
(* Each external function is an action.  A call that reverts changes       *)
(* nothing, so a revert condition is the negation of a guard.  Block time  *)
(* is `now` and moves between transactions only.  Every function is one    *)
(* transaction and one step, except fundAndExecute, whose inner call runs  *)
(* code the pool does not control: it is a step that opens it, whatever    *)
(* permissionless calls arrive meanwhile, and a step that closes it.       *)
(***************************************************************************)
EXTENDS Integers, FiniteSets, Totals

CONSTANTS
  Depositors,         \* addresses that deposit
  Campaigns,          \* draw keys
  SpendIds,           \* hashes that queued spends are filed under
  Sizes,              \* the published deposit sizes
  Amounts,            \* wei amounts other calls are made with
  DueTimes,           \* instants draws and charges fall due at
  DEPOSITOR_CAP, DRAW_CAP, POOL_CAP,
  GAS_HEADROOM, EXIT_DELAY, POST_WINDOW, MIN_FUNDING_DELAY,
  MAX_ACCOUNTS,       \* bound: fleet accounts seeded by one fund()
  MAX_DONATED,        \* bound: what donations come to
  MAX_TIME            \* bound: the last instant of block time

ASSUME FiniteAssumption ==
  IsFiniteSet(Depositors) /\ IsFiniteSet(Campaigns) /\ IsFiniteSet(SpendIds)
ASSUME AmountsAssumption ==
  /\ Sizes \subseteq Nat \ {0}
  /\ Amounts \subseteq Nat
  /\ DueTimes \subseteq Nat
  /\ GAS_HEADROOM \in Nat
  /\ MAX_DONATED \in Nat
  /\ MAX_ACCOUNTS \in Nat
ASSUME CapsAssumption ==   \* the constructor's BadCaps check
  /\ DEPOSITOR_CAP \in Nat /\ DRAW_CAP \in Nat /\ POOL_CAP \in Nat
  /\ \E size \in Sizes : size <= DEPOSITOR_CAP
  /\ 0 < DRAW_CAP /\ DRAW_CAP <= POOL_CAP /\ DEPOSITOR_CAP < POOL_CAP
ASSUME TimeAssumption ==
  /\ EXIT_DELAY \in Nat /\ POST_WINDOW \in Nat /\ MIN_FUNDING_DELAY \in Nat
  /\ MAX_TIME \in Nat
  /\ POST_WINDOW < EXIT_DELAY

VARIABLES
  balance,            \* address(this).balance
  depositors,         \* _depositors
  draws,              \* _draws
  queued,             \* _queued
  totalDeposited, totalDrawSpent, totalOutflow, totalClaimed, totalPosted,
  everDeposited, exitsPaid, donated,
  paused,
  executing,          \* the fundAndExecute in progress, _executing with its locals
  now                 \* block.timestamp

depositorVars == <<depositors, totalDeposited, everDeposited, exitsPaid>>
drawVars      == <<draws, totalDrawSpent, totalOutflow, executing>>
queueVars     == <<queued, totalPosted>>
adminVars     == <<totalClaimed, donated, paused>>
vars == <<balance, depositorVars, drawVars, queueVars, adminVars, now>>

----------------------------------------------------------------------------
NoDepositor == [deposited |-> 0, spent |-> 0, exitRequestedAt |-> 0, exitAmount |-> 0]
NoDraw      == [amount |-> 0, spent |-> 0, reserved |-> 0, principalOut |-> 0,
                dueAt |-> 0, state |-> "None"]
NoSpend     == [amount |-> 0, dueAt |-> 0, queuedAt |-> 0, posted |-> FALSE]
Idle        == [active |-> FALSE, principal |-> 0, gasCeiling |-> 0]

DrawStates == {"None", "Pending", "Funded", "Closed"}

Depositor   == [deposited : Nat, spent : Nat, exitRequestedAt : Nat, exitAmount : Nat]
Draw        == [amount : Nat, spent : Nat, reserved : Nat, principalOut : Nat,
                dueAt : Nat, state : DrawStates]
QueuedSpend == [amount : Nat, dueAt : Nat, queuedAt : Nat, posted : BOOLEAN]

Init ==
  /\ balance = 0
  /\ depositors = [d \in Depositors |-> NoDepositor]
  /\ draws = [c \in Campaigns |-> NoDraw]
  /\ queued = [id \in SpendIds |-> NoSpend]
  /\ totalDeposited = 0 /\ totalDrawSpent = 0 /\ totalOutflow = 0
  /\ totalClaimed = 0 /\ totalPosted = 0
  /\ everDeposited = 0 /\ exitsPaid = 0 /\ donated = 0
  /\ paused = FALSE
  /\ executing = [c \in Campaigns |-> Idle]
  /\ now = 1

\* No transaction of the operator or the admin runs inside another one.
Settled == \A c \in Campaigns : ~executing[c].active

\* _unspent
Unspent(r) == IF r.deposited > r.spent THEN r.deposited - r.spent ELSE 0
unspent == [d \in Depositors |-> Unspent(depositors[d])]

\* Mutant: what was claimed already is forgotten.
owedOutflowOnly == totalOutflow

owed == totalOutflow + totalClaimed
claimable == IF totalPosted > owed THEN totalPosted - owed ELSE 0

----------------------------------------------------------------------------
(* The trader's side: anyone, at any time, also while a buy executes.      *)

Deposit(d, size) ==
  /\ ~paused
  /\ depositors[d].exitRequestedAt = 0
  /\ depositors[d].deposited + size <= DEPOSITOR_CAP
  /\ totalDeposited + size <= POOL_CAP
  /\ depositors' = [depositors EXCEPT ![d].deposited = @ + size]
  /\ totalDeposited' = totalDeposited + size
  /\ everDeposited' = everDeposited + size
  /\ balance' = balance + size
  /\ UNCHANGED <<exitsPaid, drawVars, queueVars, adminVars, now>>

Donate(amount) ==
  /\ amount # 0
  /\ donated + amount <= MAX_DONATED
  /\ donated' = donated + amount
  /\ balance' = balance + amount
  /\ UNCHANGED <<depositorVars, drawVars, queueVars, totalClaimed, paused, now>>

RequestExit(d) ==
  /\ depositors[d].deposited # 0
  /\ depositors' = [depositors EXCEPT ![d] =
       [depositors[d] EXCEPT !.exitRequestedAt = now, !.exitAmount = unspent[d]]]
  /\ UNCHANGED <<balance, totalDeposited, everDeposited, exitsPaid,
                 drawVars, queueVars, adminVars, now>>

\* Mutant: a charge posted after the request is not counted.
PayoutAsRequested(d) == depositors[d].exitAmount

\* The lower of what was unspent at the request and what is unspent now.
Payout(d) == Least(depositors[d].exitAmount, unspent[d])

\* Mutant: the delay is not waited for.
ExecuteExitAtOnce(d) ==
  /\ depositors[d].exitRequestedAt # 0
  /\ Payout(d) <= balance
  /\ totalDeposited' = totalDeposited - depositors[d].deposited
  /\ depositors' = [depositors EXCEPT ![d] = NoDepositor]
  /\ exitsPaid' = exitsPaid + Payout(d)
  /\ balance' = balance - Payout(d)
  /\ UNCHANGED <<everDeposited, drawVars, queueVars, adminVars, now>>

\* A pool that is short makes the transfer fail and the whole exit with it.
ExecuteExit(d) ==
  /\ depositors[d].exitRequestedAt # 0
  /\ now >= depositors[d].exitRequestedAt + EXIT_DELAY
  /\ Payout(d) <= balance
  /\ totalDeposited' = totalDeposited - depositors[d].deposited
  /\ depositors' = [depositors EXCEPT ![d] = NoDepositor]
  /\ exitsPaid' = exitsPaid + Payout(d)
  /\ balance' = balance - Payout(d)
  /\ UNCHANGED <<everDeposited, drawVars, queueVars, adminVars, now>>

----------------------------------------------------------------------------
(* The admin's and the guardian's side.                                    *)

\* pause() by the guardian, the operator or the owner, and setPaused by the
\* owner: either value may follow either value.
SetPaused ==
  /\ Settled
  /\ paused' = ~paused
  /\ UNCHANGED <<balance, depositorVars, drawVars, queueVars, totalClaimed, donated, now>>

ClaimOperator(amount) ==
  /\ Settled
  /\ ~paused
  /\ amount <= claimable
  /\ amount <= balance
  /\ totalClaimed' = totalClaimed + amount
  /\ balance' = balance - amount
  /\ UNCHANGED <<depositorVars, drawVars, queueVars, donated, paused, now>>

----------------------------------------------------------------------------
(* The operator's side, keyed by depositor.                                *)

\* queueSpendBatch: entries[id] is what the id minted for an entry files.  A
\* fresh id is one no queued spend has; the hash mixes the position in, so
\* ids never repeat.
QueueSpendBatch(entries) ==
  /\ Settled
  /\ \A id \in DOMAIN entries :
       /\ queued[id].queuedAt = 0
       /\ entries[id].dueAt <= now + POST_WINDOW
  /\ queued' = [id \in SpendIds |->
       IF id \in DOMAIN entries
         THEN [amount |-> entries[id].amount, dueAt |-> entries[id].dueAt,
               queuedAt |-> now, posted |-> FALSE]
         ELSE queued[id]]
  /\ UNCHANGED <<balance, depositorVars, drawVars, totalPosted, adminVars, now>>

\* _post answers Posted: known, not posted, due, and inside its window.
Known(id)    == queued[id].queuedAt # 0
Expired(id)  == now > queued[id].queuedAt + POST_WINDOW
Postable(id) == Known(id) /\ ~queued[id].posted /\ now >= queued[id].dueAt /\ ~Expired(id)

\* The charges a posting lays on d, and the part of them d's deposit backs.
Charged(d, ids, who) ==
  Total([id \in SpendIds |-> IF id \in ids /\ who[id] = d THEN queued[id].amount ELSE 0])
\* Mutant: the whole charge counts, backed or not.
CountedInFull(ids, who) == [d \in Depositors |-> Charged(d, ids, who)]

Counted(ids, who) ==
  [d \in Depositors |-> Least(unspent[d], Charged(d, ids, who))]

\* postQueuedBatch: an unknown entry or one not due reverts the batch; one
\* posted before or expired is passed over; the rest are charged to the
\* depositors the operator names.
PostQueuedBatch(who) ==
  /\ Settled
  /\ \A id \in DOMAIN who :
       Known(id) /\ (queued[id].posted \/ now >= queued[id].dueAt)
  /\ LET posts   == {id \in DOMAIN who : Postable(id)}
         counted == Counted(posts, who)
     IN /\ queued' = [id \in SpendIds |->
             IF id \in posts THEN [queued[id] EXCEPT !.posted = TRUE] ELSE queued[id]]
        /\ depositors' = [d \in Depositors |->
             [depositors[d] EXCEPT !.spent = @ + counted[d]]]
        /\ totalPosted' = totalPosted + Total(counted)
  /\ UNCHANGED <<balance, totalDeposited, everDeposited, exitsPaid,
                 drawVars, adminVars, now>>

\* postQueued: a batch of one that reverts unless it posts.
PostQueued(id, d) ==
  /\ Postable(id)
  /\ PostQueuedBatch([i \in {id} |-> d])

----------------------------------------------------------------------------
(* The operator's side, keyed by campaign.                                 *)

OpenDraw(c, amount, dueAt) ==
  /\ Settled
  /\ ~paused
  /\ draws[c].state = "None"
  /\ amount # 0 /\ amount <= DRAW_CAP
  /\ dueAt >= now + MIN_FUNDING_DELAY
  /\ draws' = [draws EXCEPT ![c] =
       [draws[c] EXCEPT !.amount = amount, !.dueAt = dueAt, !.state = "Pending"]]
  /\ UNCHANGED <<balance, depositorVars, totalDrawSpent, totalOutflow, executing,
                 queueVars, adminVars, now>>

Fund(c, accounts) ==
  LET seeded == GAS_HEADROOM * accounts IN
  /\ Settled
  /\ ~paused
  /\ draws[c].state = "Pending"
  /\ now >= draws[c].dueAt
  /\ draws[c].spent + seeded <= draws[c].amount
  /\ seeded <= balance
  /\ draws' = [draws EXCEPT ![c] =
       [draws[c] EXCEPT !.spent = draws[c].spent + seeded, !.state = "Funded"]]
  /\ totalDrawSpent' = totalDrawSpent + seeded
  /\ totalOutflow' = totalOutflow + seeded
  /\ balance' = balance - seeded
  /\ UNCHANGED <<depositorVars, executing, queueVars, adminVars, now>>

TopUpDraw(c, amount) ==
  /\ Settled
  /\ ~paused
  /\ draws[c].state \in {"Pending", "Funded"}
  /\ amount # 0 /\ draws[c].amount + amount <= DRAW_CAP
  /\ draws' = [draws EXCEPT ![c].amount = @ + amount]
  /\ UNCHANGED <<balance, depositorVars, totalDrawSpent, totalOutflow, executing,
                 queueVars, adminVars, now>>

\* Mutant: the gas ceiling is not set aside.
MayBuyBarePrincipal(c, principal, gasCeiling) ==
  /\ Settled
  /\ ~paused
  /\ draws[c].state = "Funded"
  /\ draws[c].reserved = 0
  /\ draws[c].spent + principal <= draws[c].amount
  /\ principal <= balance

\* What fundPrincipal and fundAndExecute check before a buy.
MayBuy(c, principal, gasCeiling) ==
  /\ Settled
  /\ ~paused
  /\ draws[c].state = "Funded"
  /\ draws[c].reserved = 0
  /\ draws[c].spent + principal + gasCeiling <= draws[c].amount
  /\ principal <= balance

FundPrincipal(c, principal, gasCeiling) ==
  /\ MayBuy(c, principal, gasCeiling)
  /\ draws' = [draws EXCEPT ![c] =
       [draws[c] EXCEPT !.reserved = principal + gasCeiling, !.principalOut = principal]]
  /\ totalOutflow' = totalOutflow + principal
  /\ balance' = balance - principal
  /\ UNCHANGED <<depositorVars, totalDrawSpent, executing, queueVars, adminVars, now>>

Commit(c, actual) ==
  /\ Settled
  /\ draws[c].reserved # 0
  /\ actual <= draws[c].reserved
  /\ actual >= draws[c].principalOut
  /\ draws' = [draws EXCEPT ![c] =
       [draws[c] EXCEPT !.spent = draws[c].spent + actual, !.reserved = 0, !.principalOut = 0]]
  /\ totalDrawSpent' = totalDrawSpent + actual
  /\ UNCHANGED <<balance, depositorVars, totalOutflow, executing, queueVars, adminVars, now>>

\* rollback: the call carries the principal back.
Rollback(c) ==
  /\ Settled
  /\ draws[c].reserved # 0
  /\ draws' = [draws EXCEPT ![c] =
       [draws[c] EXCEPT !.reserved = 0, !.principalOut = 0]]
  /\ totalOutflow' = totalOutflow - draws[c].principalOut
  /\ balance' = balance + draws[c].principalOut
  /\ UNCHANGED <<depositorVars, totalDrawSpent, executing, queueVars, adminVars, now>>

CloseDraw(c) ==
  /\ Settled
  /\ draws[c].state \in {"Pending", "Funded"}
  /\ draws[c].reserved = 0
  /\ draws' = [draws EXCEPT ![c].state = "Closed"]
  /\ UNCHANGED <<balance, depositorVars, totalDrawSpent, totalOutflow, executing,
                 queueVars, adminVars, now>>

\* fundAndExecute up to the account's execute.  A transaction whose inner
\* call reverts is undone whole and takes no step at all.
FundAndExecute(c, principal, gasCeiling) ==
  /\ MayBuy(c, principal, gasCeiling)
  /\ executing' = [executing EXCEPT ![c] =
       [active |-> TRUE, principal |-> principal, gasCeiling |-> gasCeiling]]
  /\ totalOutflow' = totalOutflow + principal
  /\ balance' = balance - principal
  /\ UNCHANGED <<draws, depositorVars, totalDrawSpent, queueVars, adminVars, now>>

\* fundAndExecute from the return of execute: the gas measured, capped by
\* the ceiling, joins the principal in the draw's charge.
Executed(c, gas) ==
  LET actual == executing[c].principal + gas IN
  /\ executing[c].active
  /\ gas <= executing[c].gasCeiling
  /\ draws' = [draws EXCEPT ![c].spent = @ + actual]
  /\ totalDrawSpent' = totalDrawSpent + actual
  /\ executing' = [executing EXCEPT ![c] = Idle]
  /\ UNCHANGED <<balance, depositorVars, totalOutflow, queueVars, adminVars, now>>

\* A block later.
Tick ==
  /\ Settled
  /\ now < MAX_TIME
  /\ now' = now + 1
  /\ UNCHANGED <<balance, depositorVars, drawVars, queueVars, adminVars>>

----------------------------------------------------------------------------
Batches(Targets) == UNION {[ids -> Targets] : ids \in (SUBSET SpendIds) \ {{}}}

TraderNext ==
  \/ \E d \in Depositors, size \in Sizes : Deposit(d, size)
  \/ \E d \in Depositors : RequestExit(d) \/ ExecuteExit(d)
  \/ \E amount \in Amounts : Donate(amount)

AdminNext ==
  \/ SetPaused
  \/ \E amount \in Amounts : ClaimOperator(amount)

QueueNext ==
  \/ \E entries \in Batches([amount : Amounts, dueAt : DueTimes]) : QueueSpendBatch(entries)
  \/ \E id \in SpendIds, d \in Depositors : PostQueued(id, d)
  \/ \E who \in Batches(Depositors) : PostQueuedBatch(who)

DrawNext == \E c \in Campaigns :
  \/ \E amount \in Amounts, dueAt \in DueTimes : OpenDraw(c, amount, dueAt)
  \/ \E accounts \in 1..MAX_ACCOUNTS : Fund(c, accounts)
  \/ \E amount \in Amounts : TopUpDraw(c, amount)
  \/ \E principal, gasCeiling \in Amounts :
       FundPrincipal(c, principal, gasCeiling) \/ FundAndExecute(c, principal, gasCeiling)
  \/ \E actual \in 0..draws[c].reserved : Commit(c, actual)
  \/ Rollback(c)
  \/ CloseDraw(c)
  \/ \E gas \in 0..executing[c].gasCeiling : Executed(c, gas)

Next == TraderNext \/ AdminNext \/ QueueNext \/ DrawNext \/ Tick

Spec == Init /\ [][Next]_vars

----------------------------------------------------------------------------
(* Properties.                                                             *)

\* Every field stays an unsigned number: no subtraction of the contract's
\* checked arithmetic is ever the reason a call reverts.
TypeOK ==
  /\ balance \in Nat
  /\ depositors \in [Depositors -> Depositor]
  /\ draws \in [Campaigns -> Draw]
  /\ queued \in [SpendIds -> QueuedSpend]
  /\ totalDeposited \in Nat /\ totalDrawSpent \in Nat /\ totalOutflow \in Nat
  /\ totalClaimed \in Nat /\ totalPosted \in Nat
  /\ everDeposited \in Nat /\ exitsPaid \in Nat /\ donated \in Nat
  /\ paused \in BOOLEAN
  /\ executing \in [Campaigns -> [active : BOOLEAN, principal : Nat, gasCeiling : Nat]]
  /\ now \in Nat \ {0}

\* The identity the contract states over its public counters and the monitor
\* asserts on every run (pool-solvency.ts, identityHolds): no wei moves
\* uncounted, also in the middle of a fundAndExecute.
BalanceIdentity ==
  balance = everDeposited + donated - totalOutflow - exitsPaid - totalClaimed

\* What the depositors could still take out, summed over all of them, is what
\* came in less exits and postings (pool-solvency.ts, owedToDepositors).  It
\* fails if a deposit is lost with an exiting record, if a posting counts
\* more than the deposit backs, or if an exit pays less than the credit.
OwedToDepositors == Total(unspent) = everDeposited - exitsPaid - totalPosted

\* The published caps hold of the sums, whatever deposits and exits cross.
deposits == [d \in Depositors |-> depositors[d].deposited]
CapsHold ==
  /\ totalDeposited = Total(deposits)
  /\ totalDeposited <= POOL_CAP
  /\ \A d \in Depositors : depositors[d].deposited <= DEPOSITOR_CAP

\* A draw never commits more than it was opened for, counting the buy in
\* flight on either path, and a closed draw has nothing in flight.
DrawWithinAmount == \A c \in Campaigns :
  /\ draws[c].spent + draws[c].reserved
       + executing[c].principal + executing[c].gasCeiling <= draws[c].amount
  /\ draws[c].amount <= DRAW_CAP
  /\ draws[c].principalOut <= draws[c].reserved
  /\ draws[c].state # "Funded" =>
       draws[c].reserved = 0 /\ ~executing[c].active

\* Everything that left as headroom or principal is charged to a draw or is
\* the principal of a buy in flight: no ETH leaves for a fleet uncharged.
inFlight == [c \in Campaigns |-> draws[c].principalOut + executing[c].principal]
drawSpent == [c \in Campaigns |-> draws[c].spent]
OutflowCharged ==
  /\ totalDrawSpent = Total(drawSpent)
  /\ totalOutflow <= totalDrawSpent + Total(inFlight)

\* A claim leaves every unspent deposit in the pool ("a full claim leaves
\* every unspent deposit in the pool", FleetPool.sol on claimable).
ClaimStep == totalClaimed' # totalClaimed
ClaimLeavesDepositsWhole == [][ClaimStep => balance' >= Total(unspent)]_vars

\* A trader who waits out the exit is never surprised by a stale charge: when
\* an exit executes, every charge queued by the time it was requested is
\* posted or can never be, so none waits for the trader's next deposit.
ExitStep(d) == depositors[d].exitRequestedAt # 0 /\ depositors'[d].deposited = 0
ExitOutlastsOldCharges == [][
  \A d \in Depositors : ExitStep(d) =>
    \A id \in SpendIds :
      Known(id) /\ queued[id].queuedAt <= depositors[d].exitRequestedAt =>
        queued[id].posted \/ Expired(id)]_vars

\* The pool implements the ledger it promises its depositors.
Ledger == INSTANCE DepositLedger WITH credit <- unspent
LedgerSpec == Ledger!LedgerSpec
=============================================================================
