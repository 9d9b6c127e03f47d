# Chit, specified

Chit is a private funding layer for trading fleets: a trader deposits a
published size of ETH into a pool, an operator funds a fleet of accounts from
the pool, and charges reach the trader's deposit later and in batches, so that
no transaction ties a depositor to a fleet. This directory holds TLA+ models of
the parts of the system that keep that money straight, the TLC runs that check
them on small instances, and proofs of the most important results for every
value of the constants.

Paths below are relative to the repository. `PROJECT.json` lists, for every
definition that models code, the lines it models, and for every checked
property a plausible bug (a "mutant", defined in the module beside the operator
it replaces) that the run detects.

## The system

### Components, their state and their operations

| Component | State | Operations |
|---|---|---|
| `FleetPool` (contracts/fleet/FleetPool.sol) | ETH balance; deposits and exits by depositor; draws by campaign; queued charges by hash; running totals; the pause | deposit, donate, requestExit, executeExit; queueSpendBatch, postQueued, postQueuedBatch; openDraw, fund, topUpDraw, fundPrincipal, fundAndExecute, commit, rollback, closeDraw; claimOperator, setPaused, pause, setOperator, setGuardian |
| Owed-spend ledger (src/fleet/pool-buy.ts, store-neon.ts, chain-pool.ts) | `fleet_owed_spend`: charges recorded, leased, sent under a hash, queued or void; an instance's memory of the batches it sent | charge, withdraw, the queueing half of sweep: resolve, take, sign, record, broadcast, settle |
| Operator lock (store-neon.ts `withLock`) | the row `operator` of `fleet_locks`, with an expiry | acquire, renew, holder check, release |
| Posting, funding and pausing half of the sweep (pool-buy.ts) | notice marks, failure counters | post what is due inside its window, fund due draws, pause when a charge has lapsed |
| Buys through the pool (pool-buy.ts, chain-buy.ts) | the draw's spent read before and after | buy, settle, prime |
| `FleetCampaignEscrow` (contracts/fleet) | campaigns; reservations by key | register, fund, reserve, lock, commit, rollback, reclaimExpiredLock, withdrawSpent, close |
| `FleetPaymaster` (contracts/fleet) | what it draws on in the escrow; EntryPoint deposit | validate (reserve), postOp (commit), refund |
| `SessionAccount`, `FleetSessionPolicy` | sessions with their caps, expiry and spent; what Permit2 lets the router pull | grant, pause, resume, revoke, setSellAllowed, execute, sell, withdraw, withdrawToken |
| `ChitBuyback` (contracts/chit), keeper | cooldown, last price | buyback, sweep |
| Campaign service and budget (campaign-service.ts, campaign-budget.ts, campaign-state.ts) | campaign records, keyed reservations, idempotency records | the lifecycle, reserve, commit, rollback, close, runIdempotent |
| Campaign routes (campaign-routes.ts) | each instance's records; claimed slices, failures, cooldowns, signed nonces | create, confirm, activate, top up, trade, buy, pause, resume, revoke, close, withdraw |
| Sales (sell.ts, sell-chain.ts) | sale records: awaiting, sold, paid, returned | count a transfer, advance, swap, pay out, return tokens |
| Gas sponsorship (sponsor-*.ts) | sponsors and their policies, records by operation | register, setPolicy, setPaused, close, sponsor, submit |
| Shared store (store.ts, store-neon.ts) | nonces, slices, failures, held alerts | burnNonce, claimSlice, count, hold |
| Bot orders (bot-orders.ts, bot-orders-runtime.ts) | orders, the claims of each day | ask, put, cancel; a run: settle dead claims, judge, claim, send, write; fire the shields |
| Bot taps (bot-session.ts, bot-updates.ts, bot-session-chain.ts) | claimed updates, a trade lock per person | handle an update: claim it, take the lock, read the share, send, wait for the receipt, free |
| Bot copies (bot-watch.ts, bot-copy.ts, bot-session.ts) | the watch's cursor and marks, claimed buys, kept buys, the day's ledgers of a token and of a follower | a pass: retry what is kept, read the window, claim, mirror, announce; a tapped buy |
| The rest of the bot (bot-*.ts) | links, wallets, sentences, risk rules, alerts | link an account, parse a sentence, watch a risk |
| Competition, monitoring, presentation, browser app, scripts | none, or read-only views | scores, reads, cards |

### How they interact

The service runs as serverless functions. Instances share nothing but the Neon
store, the chain, and one operator account; anything an instance remembers
(such as the references of the batches it sent) goes with it. A queueing sweep
runs twice a day, a posting sweep every two hours, and opportunistic sweeps (which
never queue) ride on other requests. Whatever signs with the operator account
takes the operator lock, a row with a 120 s expiry that the holder renews. The
Telegram bot keeps its own tables in the same store and sends through session
keys, which the account's contract holds to their caps; its routes are called by
a clock every few minutes, on whatever instance answers.

A charge travels: recorded as owed when a buy or a funding has spent, or just
before a withdrawal pays; leased to a sweep with up to 32 others; named with the
hash of the batch that queues it *before* the node sees that batch; confirmed,
voided or handed back by what the chain later says; then, in the pool contract,
posted against a depositor in its window.

### What is hard

* A transaction is signed, recorded, broadcast, mined and confirmed at five
  different moments, any of which may be the last thing an instance does; a
  broadcast may succeed and report an error, be dropped by the node, revert, or
  be mined long after the wait for it gave up.
* The outcome of an earlier transaction is decided from two separate reads, the
  receipt and the account's nonce.
* Two leases (the operator lock and the lease of a row) lapse by the clock and
  not by what their holder is doing.
* The pool queues a charge without remembering which row it came from, so a row
  sent twice is charged twice and nothing on the chain objects.
* In the contract, a depositor's exit runs against charges that are filed, due
  and posted while it waits, and the operator's claim is a difference of running
  totals that every other call moves.
* A campaign's state is remembered by each instance, restored from the chain by
  the others, and changed by requests that read, ask the chain, and write.
* A bot run works from one read of what is open while the person cancels, an
  alarm fires, the day's budget fills, or the platform kills it; a send that
  throws may still have been relayed.
* A session key's call hands control to foreign code before it is done.

`PROJECT.json` lists these hazards one by one, each at its line, with the
properties that cover it or the part of the plan that will.

## The modules

| Module | What it is |
|---|---|
| `Totals` | `Total(f)`, the sum of a function into the naturals, as the number of units its values own: it needs no recursion, so lemmas about it can be proved |
| `TotalsProofs` | the lemmas about `Total` that the proofs with sums cite: the pool, the escrow, campaigns, orders and copies |
| `FleetPool` | the pool contract: one action per function |
| `DepositLedger` | abstract: what the pool promises a depositor |
| `FleetPoolProofs` | the theorems about `FleetPool`, and about `PoolSweep`, which extends it |
| `MCFleetPool` | the pool's instances for TLC (symmetry) |
| `OperatorAccount` | the operator's account on the chain, as `chain-pool.ts` sees it: nonces, the node's pool, mined and lost transactions |
| `OwedLedger` | charges from record to queue: sweeps, withdrawals, lock, faults, on the operator account |
| `FleetCampaignEscrow` | the escrow contract: one action per function |
| `KeyedBudget` | abstract: what a sponsorship budget promises, campaign by campaign and key by key |
| `MCFleetCampaignEscrow` | the escrow's instances for TLC (symmetry) |
| `ChargeLedger` | abstract: what the service promises about a charge |
| `OwedLedgerProofs` | the theorems about `OwedLedger` |
| `MCOwedLedger` | the ledger's instances for TLC (symmetry) |
| `Sales` | a sale from its transfers to its payout, on the operator account |
| `SaleLedger` | abstract: what the service promises a depositor who sells |
| `SalesProofs` | the theorems about `Sales` |
| `MCSales` | the sales' instances for TLC (symmetry) |
| `Campaigns` | the campaign routes over the pool: requests on instances that remember, draws, sessions, slices, withdrawals, the funding half of the sweep |
| `CampaignsProofs` | the theorems about `Campaigns` |
| `Sponsorship` | gas sponsorship, the paymaster, and the escrow they charge: extends `FleetCampaignEscrow` |
| `SponsorshipProofs` | the theorems about `FleetCampaignEscrow`, and about `Sponsorship` over it |
| `SessionAccount` | the account contract and what may call back into it |
| `BotTaps` | the taps of a person on Sell: deliveries, the trade lock, the send; extends `SessionAccount` |
| `PoolSweep` | the posting half of the sweep, its brake and the mark it reads past, over the pool: extends `FleetPool` |
| `BotOrders` | the bot's orders and the runs that send them |
| `BotOrdersProofs` | the theorems about `BotOrders` |
| `VenueCopies` | a leader's buys, the passes that mirror them, the followers' own taps |
| `BotTradingProofs` | the theorems about `SessionAccount`, about `BotTaps` over it, and about `VenueCopies` |
| `MCCampaigns`, `MCPoolSweep`, `MCSponsorship`, `MCBotTaps`, `MCBotOrders`, `MCVenueCopies` | their instances for TLC (symmetry, or the values a .cfg cannot write) |

### FleetPool

Each external function is one action, because a transaction is atomic; a revert
is a guard that does not hold, so a reverting call is no step. `fundAndExecute`
is the exception: it hands control to an account that runs code the pool does
not control, so it is two steps, `FundAndExecute` and `Executed`, and between
them whatever anyone may call (deposits, exits, donations) may run. Operator
and admin calls are excluded there by `Settled`, because `onlyOperator` and the
owner's checks refuse a call that comes from inside the operator's own
transaction. The transfers in `fund`, `executeExit` and `claimOperator` come
after every effect of those functions: what a receiver calls back is what it
could call in its next transaction, so they need no such split.

`now` is block time and moves only between transactions (`Tick`). Solidity's
checked arithmetic makes an overflow a revert; `TypeOK` proves that no
subtraction is ever the reason, and the caps keep the sums far from 2^256, so
numbers are plain naturals. The depositor a charge is laid on is the operator's
choice at posting (the contract cannot check it: that is the privacy design),
hence `\E who`. `MAX_DONATED`, `MAX_ACCOUNTS` and `MAX_TIME` bound what the
contract leaves unbounded. Left out: `setOperator`, `setGuardian`, the
two-step owner and who signs what; only the effect of a permitted call is here.

`DepositLedger` knows only `credit`, what each depositor could still take out,
and three running totals. Credit grows by a deposit, shrinks by a charge it
backs, and goes to zero only by being paid out in full. `FleetPool` implements
it with `credit <- unspent`.

### OwedLedger

`OperatorAccount` is shared with `Sales`: `count`, the nonce at the latest block,
and `txs`, every transaction signed, in order: a hash is a position in `txs`. A
nonce is mined once; a transaction that reuses a pooled nonce is refused; a gap
holds back later nonces (`Minable`).

Two kinds of process: a sweeper is an instance the scheduled sweep runs on, a
withdrawal is named by the row of its charge. An action is what happens between
two awaits another process could observe:

| Code | Actions |
|---|---|
| `charge()`, `withdraw()`, `sweep()` | `Charge`, `Withdraw`, `Sweep` |
| `resolve()`: receipt, then nonce | `ReadReceipt`, `ReadCount` |
| `settleSent()`, and the end of `withdraw()` | `Settle` (by `Verdict`, `Then`) |
| `queueOwed()`: `takeOwed` | `Take` |
| `withLock()`: take, lapse, give back | `Acquire`, `LockLapses`, `Release` |
| `signAndBroadcast()`: sign, `guarded` and `markSent`, send, wait | `Record`, `Broadcast`, `Await` |
| the catches of `queueOwed()` and `withdraw()` | `Refuse`, `Caught` |
| `leased_until` passing | `LeaseLapses` |
| the node and the chain | `Mine`, `Drop`, `OtherTraffic` |

`sentRefs` is what an instance remembers; a sweep
starts on a warm instance or a cold one, and a crash forgets.

Things that go wrong are actions too. Each takes one of `MaxFaults`, and only
the kinds in `Faults` happen, so a cfg says exactly what it assumes away:

| Fault | What happens |
|---|---|
| crash, orphan | an instance dies between two steps; a withdrawal dies before its payout has a hash |
| refuse | a step throws before anything is signed |
| lapse, slow | the operator lock, or a row lease, lapses under a live holder |
| release | the query that gives the lock back fails |
| unseen | the node takes the transaction and the caller sees an error, or a receipt comes too late |
| dropped, revert | the node forgets a transaction; a transaction is mined and reverts |
| rpc, race | a receipt that exists is not returned; a transaction is mined between the two reads of `resolve` |
| overlap | a sweep runs while a withdrawal or another sweep does |

A wait that ends because the transaction *cannot* be mined yet is no fault: it
costs nothing. Nor does a transaction that finds its nonce used.

`ChargeLedger` is the promise: a recorded charge ends in the queue once, or
void, and never moves again. `OwedLedger` implements it through `Fate`.

Left out: opportunistic sweeps (`queueOwed` false) resolve and take nothing
new, so they do what a scheduled sweep may do before `Take`; a withdrawal
of zero grains records no row.

### Sales

A request (`Sell`) counts its transfers one by one (`Count`: what the chain shows
and nobody has burned yet) and then saves the sale (`OpenSale`), named by the
first transfer that counted. Any idle instance takes a pending sale's lock and
reads its record (`Advance`); the record says what it needs (`Aim`: swap, payout,
or the tokens' return after `MAX_ATTEMPTS` misses) and whether a transaction for
that is already in flight (`InFlight`), which is then resolved as in
`OwedLedger`. `Miss` is a sale that finds no quote or whose approval is not
mined; `Decided` is the three `settle` functions. `Sell` and `Advance` are
separate because the request advances its sale the way any instance does.

An instance that dies and one whose step throws are one action, `Fail`: either
way what it knew is gone, and its locks are given back or lapse. `hold` is a
lapse of the sale's own lock under a live holder. A payout that is not due is no
step. Left out: amounts (the quote, the minimum, what is measured or read
back), `topUpOwners`, and the approvals' own transactions.

`SaleLedger` is the promise: a transfer counts in one sale at most, and a sale
is sold and then paid, or returned. `Fate` reads it off the chain, so it covers
what the records do not say.

### FleetCampaignEscrow

Each external function is one action: every function that sends ETH does so
after its last effect, so a receiver that calls back does what it could do in
its next transaction. A reverting call is no step, and neither is a call the
code answers without a change (a second rollback, a second close, a commit of
what was committed for the same amount). The operator and the settler may make
the same calls and are one actor; `setSettler` is left out. A campaign's owner
funds, reclaims and closes. `close` takes the keys to release from its caller,
so the model tries every subset. `reclaimedEarly` is the one variable the
contract does not have: it adds up what `reclaimExpiredLock` paid out of
campaigns that were still open, the amount by which the balance falls short.

`KeyedBudget` is the promise without running totals: a key is held for at most
what the funds leave free, then charged once or released, and never moves
again; a closed campaign takes no funds and no key. Its free funds are computed
from the keys, so the refinement fails as soon as a counter drifts.

### Campaigns

A request is handled by one instance and takes a step at every await; `calls`
holds where it is and what it has read, `records` what each instance remembers of
each campaign (`#campaigns`). One wallet owns every campaign, so the lock
`#serialized` takes is one variable.

| Code | Actions |
|---|---|
| a request past its signature and nonce; `#create` | `Ask`, `Create` |
| `#campaign`: the remembered record, or the one `Drawn` restores, and `#syncDraw` | `Load` |
| `#confirm`, `#activate`, `#topUp` | `Confirm`; `CheckDraw`, `OpenSession`, `Recheck`, `OpenDraw`; `TopUp` |
| `#control`, `FleetSessionPolicy`, the close of the draw | `Control`, `ControlSession`, `Apply`, `CloseDraw` |
| `#trade` and its slices | `Validate`, `ClaimSlice`, `NextSlice` |
| `#buy`, `#buyFromPool`, `settle()` | `Authorize`, `Guard`, `Send`, `Moved`, `Unseen`, `MinedLate`, `Judge`, `ChargeBuy`, `Reject`, `Count` |
| `#withdraw` | `CheckWithdrawal`, `RecordWithdrawal`, `Pay`, `Reread` |
| `runIdempotent` | `Lookup`, `Put` |
| `withLock` | `Acquire`, `GiveUp` (a wait as long as a lease lasts) |
| the sweep's funding loop | `Fund`, `ChargeSeed`, `Swept` |
| an exit from outside, an instance that dies | `RequestExit`, `Crash` |

`Rule` is campaign-state.ts as a table. A transaction is one step here: signing,
nonces and the operator lock are `OwedLedger`'s subject, and the ledger of
charges is one number, `charged`. `happened` records which kinds of fault have
occurred, so that a property can say under which it does not hold.

Left out: Stage 1 buys and `CampaignBudget`, the signature, nonce and challenge of
a request, expiry by time, order tokens, lists, holdings and quotes, a lapse of
the wallet's lock under a live holder, fundings whose receipt is not seen.

### PoolSweep

The contract is `FleetPool`'s, a charge is its place in the queue, and
`queueOwed()` is one action (`Queue`): how it comes to be sent is `OwedLedger`'s
subject. `calls` holds where a call is and what it has read, `local` the mark an
instance remembers, `shared` the mark in the database
(`fleet_pool_queue_mark`, `fleet_pool_queue_expired`). `lastPosting` stands for the
schedule, `resumedAt` for the last `PausedSet(false)` in the log; `postedAt`,
`missed` and `pulls` keep what the properties are about.

| Code | Actions |
|---|---|
| `chainSeconds`; block and count of `queued()`, `markFor` | `Begin` |
| `cache.load`: the number, then the rows | `LoadMark`, `LoadRows` |
| `queued()`: the entries past the mark, what of it is final | `ReadEntries` |
| `cache.advance`: the rows, then the number | `SaveRows`, `SaveMark` |
| the posting loop of `sweep()`, the receipt awaited | `Post` |
| `pauseIfTriggered`, `exitWouldFail`, `pool.pause` | `ReadSince`, `ReadExit`, `Simulate`, `ReadPaused`, `Pull` |
| the admin's resume, after `resumeGate` | `Resume` |
| an exit, the queueing half; an instance that dies; time | `Trader`, `Dies`, `Later` |

One sweep runs at a time: the two schedules (vercel.json) fire a quarter of an
hour apart at least, and an instance lives three minutes. They are hours apart
as well, so a sweep starts without a mark of its own; the `Readers` are the
functions that serve traders, on instances of their own, which remember a mark
and move the shared one. The reading of the chain's time and of the queue's
length is one step. Left out: new exit requests, donations and the guardian's
own pause during a sweep, the admin's notices (`sayWhatIsNew`), funding (in
`Campaigns`).

### Sponsorship

The module extends `FleetCampaignEscrow`, and its keys are the pairs of a user
and a nonce. A call of the service reads the sponsor (`AskSponsor`), then the
day's spend and the budget (`CheckSponsorship`), then records the operation and
gives out the signature (`AddOp`); `Submit` and `SettleOp` broadcast it and write
down what the escrow charged; `ReadSponsor` and `PutSponsor` are the edits, which
read and put the whole record. Once signed, an operation lands whenever anybody
sends it inside its window: `LandCommitted` is validation, the call and postOp in
one transaction; in `LandUncommitted` postOp fails, and the EntryPoint keeps what
validation reserved. `Abandon` is a refusal, an error or the death of the
instance. Of the escrow's own calls the sponsor's and those of the
reconciliation are there (`EscrowCall`).

Left out: what the sponsored call names (the policy's targets and selectors), the
bundler's formats, the paymaster's deposit and stake at the EntryPoint, its
signer's rotation.

### SessionAccount

Each function is an action, except `execute` and `sell`, which are two: the call,
and its return (`CallReturns`, `SellReturns`) or its revert (`Reverts`, which puts
back the state from before). Between the two, whoever was called may call
again: `frame` is `_executing` with what a revert needs. The owner's functions do
not look at it, so they run inside a frame as well. `Pull` is the router taking
tokens through Permit2. Block time stands still inside a frame. A rule's target
and selector are one element of `Targets`; one token stands for all. Left out: the
encoding of the router's call, `approve`'s own return values, the factory.

### BotTaps

The module extends `SessionAccount`: the account, its owner, the standing orders
that sell through the same key and the router go on (`Account`) between any two
steps of a request. A request claims its update (`Deliver`), asks for the
person's trade lock (`TakeTrade`), reads what `#sell` reads (`ReadShare`, or
`Stops` when it is refused), sends (`SendSale`: a send that throws may still have
been relayed), waits for the receipt (`Answers`) and frees the lock (`Free`). It
may end anywhere without that (`RequestDies`), and the lock then stays until it
expires: `LIFE < LOCK` (60 s and 90 s) is an assumption of the module, and time
cannot pass the platform's limit on a request. A sale that was sent is mined in the order of
the key's nonces, through `SellCall` (`Mined`, `Ends`), or never. Left out: buys
(a tapped buy is in `VenueCopies`, which takes the lock for granted), the reads
that only refuse, the record of the trade, the cards.

### BotOrders

The orders of one person. `orders` is `bot_orders` with the fields that control
anything; `fires` counts the claims of each day as `bot_order_fires` does; `sends`
is the slots that were really relayed, which no table knows. A run reads once
(`StartRun`, or `FireShields` for the risk watch) and keeps the orders as read;
`CutOff` settles a claim whose run is dead, `Judge` is everything `#fire` and
`#fireSell` ask before the claim, `Claim`, `Send` and `Write` are the store's claim,
`session.execute` or `session.sell`, and the settle. What a run reads of the
chain and of the account may be anything, so `Judge` may come to any verdict
its kind of order allows. `settle` lands on any open order, claimed or not and by
whomever: that is the code, and what follows
from it is under "What the code does not keep".

`Tick` cannot pass the instant at which the platform kills a run, and
`LIFE < LEASE` (300 s and 360 s) is an assumption of the module. Left out:
sentences and cards, positions, the text of what is told.

### VenueCopies

A buy of the leader is a block number. A pass of the watch route reads what is
kept (`StartPass`, `RetryKept`), then the window after the cursor (`ReadWindow`,
`HandOn`, `SetCursor`); for each buy it reads the transaction, the pool and the
gates (`ReadsAnswer`, `ReadsFail`, `KeepingFails`), claims it for the desk
(`ClaimVenueBuy`), goes through the followers (`Skip`, `TakeRoom`, `Refused`,
`ChargeDay`, `SendMirror`, `SendThrows`, `GiveBack`) and posts it (`Announce`). A
follower's own tap is `AskTap`, `SendTap`, `NoteDay`. A pass may overlap another,
on a second instance, and die at any step. All buys are of one token on one UTC
day. Left out: opening and following a leader, Telegram leaders, the memory an
instance keeps of what it has seen (`#seen`: the store is asked anyway), the
tap count an instance keeps for itself, several pages of one window.


## The runs

Where the bounded world ends (the clock stops, every key is settled, every order
closed, every request made) a run does not check deadlock; the two ledger runs
go on for ever and do.

| Run | Instance | Shows |
|---|---|---|
| `pool` | 1 depositor, 1 draw, 2 charges, 4 instants, both buy paths, gas headroom 1, a donation | `OwedToDepositors`, `DrawWithinAmount`, `ExitOutlastsOldCharges`, `ClaimLeavesDepositsWhole`, and that the pool implements `DepositLedger` |
| `escrow_keys` | 1 campaign, 3 keys, amounts 1 and 2, at most 4 funded, 5 instants, `LOCK_WINDOW` 1 | `CountersAreSums`, `Solvent`, `LockOutlastsClose`, and that the escrow implements `KeyedBudget` |
| `owed_settle` | 1 charge, 1 withdrawal, 1 sweeper, 3 faults of 7 kinds, fair | `UnpaidNotCharged`, that the service implements `ChargeLedger`, and `EveryChargeSettles` (liveness) |
| `owed_overlap` | 1 charge, 1 withdrawal, 1 sweeper at the same time, 3 faults of 9 kinds | `PaidStaysCharged`, `RefusedNotPaid` |
| `sale` | 1 transfer, 2 instances, 2 attempts, 3 faults of 5 kinds, fair | `RecordIsTrue`, that the service implements `SaleLedger`, and `EverySaleEnds` (liveness) |
| `sponsor_calls` | 1 sponsor, 1 user with 3 operations, 2 calls at a time, operations that revert and a postOp that fails | `OverlapOvershootsByOneEach`, `LandedChargeIsEscrows`, `BudgetPaysWhatWasSigned` |
| `campaign_trade` | 1 funded campaign, 2 instances, 2 requests at a time of 3, 2 slices, 2 kinds of fault of 6 | `SliceBoughtOnceIfSeen`, `StrandedOnlyByAStop`, `ChargesMatchSpend` |
| `campaign_money` | 2 campaigns of one wallet, one of which cannot be seeded, 2 requests at a time of 5, 2 faults of 3 kinds: a payout that reverts, a read that fails, a key used twice at once; fair | `NeverOvercommitted`, and `EveryDrawIsFunded` (liveness) |
| `sweeps` | 2 charges, one of which the ledger key cannot open, 1 instance for the sweeps and 1 for traders, 7 instants, 1 fault of 4 kinds, fair | `PostedInTime`, `MarkIsTrue`, `NotPulledAgain`, and `EveryLossPauses` (liveness) |
| `session` | 1 key, a router that calls back, 2 tokens and 1 wei at a time, 2 taps on Sell 50% and 2 requests that may die, 3 instants | `SentIsSpent`, `ApprovalEndsWithSale`, `TapsSellOneByOne` |
| `bot_orders` | a DCA of 2 buys and a shield, 1 cron run and 1 alarm at a time, 1 run killed, 4 instants over 2 days, fair | `SentOncePerSlot`, `SentIsCounted`, `DayBudgetHolds`, and `EveryClaimSettles` (liveness) |
| `bot_copies` | 1 buy, 2 followers one of whom taps as well, 2 passes that may overlap, 1 death, fair | `CopiedOnce`, `TokenDayHolds`, `UserDayHolds`, and `EveryKeptBuyEnds` (liveness) |

### Bounds

They are small, and sufficient for the questions. In `pool` a charge of 2 exceeds
what a posting of 1 has left and one of 1 does not, so both sides of the backing rule
occur; a charge may be due before, at and after an exit request and expire before the
exit runs; the caps are reached by a second deposit and by a top-up. With one
depositor the sums over depositors are trivial here: that half is what the
theorems prove, for any set of depositors and draws. Three escrow keys compete
for funds that cover two of them, and a window of one instant lets a lock be
live, renewed, expired and reclaimed before and after a close. In the ledger runs
three faults in any order are enough for a crash during the recovery from an
unseen transaction the node then drops; a charge and a withdrawal share a batch
and separate again. Two attempts of a sale let a miss be followed by a swap or by
the return; the code's three only repeat it. Three sponsored operations against a cap
for two let both callers pass the same check and a third find it closed. Three
requests are two that overlap and one that comes after; two slices let one be
bought while the other is given back; `DEPOSIT` covers one draw and one payout but
not two of both, so draws and payouts race for the same money. A key whose cap
covers two calls lets a nested one and a later one both try to pass it. Two taps on
two instances and three instants let the second fall due while the first sale is
being read, sent, mined or waited for, and after its lock expired; half of two
tokens leaves one, half of which is nothing, so a second sale is of a position that was
filled up again or that the first has not left. Two buys
of a DCA and one budgeted send a day let the second slot fall due on a spent day
and on a fresh one. One buy, room for one mirror and two followers let overlapping
passes contend for the same claim, the same room and the same day. In `sweeps` a
charge is due two instants before it expires and a posting sweep comes every
two, so one failure is what loses a charge; the charge nobody can open is lost
without any, both windows close inside seven instants, so the marks pass one charge
and then the other, and a resume can fall before, into and after a pause. Two
faults or one instant more are beyond what a run can take.

### What the passing ledger and sale runs assume, and why

A property is checked under every fault that does not break it. What is left
out, and what TLC finds when the kind is put into `Faults` of the named
configuration:

* `race` and `rpc`: `resolve()` (chain-pool.ts:232) reads the receipt
  and the nonce in two calls and takes any error of the first for the absence of
  a receipt. With `race`, a batch mined between the two reads is queued again
  unless the instance still remembers its references (`owed_settle`,
  `LedgerSpec`), and a swap or a payout is sent again (`sale`, `SaleSpec`).
  With `rpc`, a receipt that is not returned once does the same, and a payout
  has its charge voided (`owed_overlap`, `PaidStaysCharged`).
* `overlap` where `LedgerSpec` is checked: `resolveSent` and `markSent` write
  by row id, not by hash, so a withdrawal that settles late clears the hash of the
  batch a sweep has put its row in, and the row is queued again. Nothing but the
  spacing of the schedules keeps a withdrawal from running during a sweep.
* `orphan` where `UnpaidNotCharged` is checked: the charge is
  recorded before the wait for the lock, the hash after it, and a withdrawal
  that dies between the two is charged.
* `slow` where `LedgerSpec` is checked: a row lease is as long as the lock's own
  expiry, so a sweep that waits for the lock can outlive the lease on the rows
  it is about to queue. It takes a second sweep at that moment to charge a row
  twice.
* `release` where `RefusedNotPaid` is checked: when the lock cannot be given back
  the throw replaces the outcome, and a payout that was made is answered as a
  refusal.
* `hold` where `SaleSpec` is checked: the holder check before a broadcast asks about the
  operator lock only, so an instance whose renewals of the sale's lock did not
  get through sends a second swap next to another's.

The other runs make their own assumptions. `sponsor_calls` counts operations that
were recorded as successful. `bot_orders` has one cron run at a time, which the
route's guard keeps on one instance and the host's schedule on several: with two,
`SentOncePerSlot` is refuted (below). `sweeps` lets every save of rows succeed
(`save`: see below), has a node that is behind by no more than the margin a mark
keeps (`LAG <= MARGIN`, an assumption of the module), a schedule that fires on
time and one fault in all. `bot_copies` and `campaign_money` assume nothing of
the kind.

### Fairness

In `owed_settle` the cron calls the sweep again and again
(`WF Sweep`), a function that was started runs until it ends or dies (`WF
SweepStep`, `WF Step`), leases lapse with time (`WF LockLapses`,
`WF LeaseLapses`), and the operator account keeps being used by postings,
fundings and buys (`WF OtherTraffic`): without that last one a batch whose
transaction the node forgot would stay sent for ever, since only another use of
its nonce proves it will not be mined. Mining is strongly fair because, with
`race` left out, a sweep between its two reads holds it back for a moment. No
fairness is put on charges, withdrawals or faults.

In `sale` the sales clock calls `advancePending` every five minutes and that
goes through every pending sale, so a sale whose lock is free again and again is
advanced (`SF Advance`); an instance that holds a sale goes on until it is done
(`SF Step`: the operator lock it may wait for is given back again and again);
mining and other traffic are as above. Misses are bounded by `MAX_ATTEMPTS`, not
by a fairness condition.

In `sweeps` the queueing schedule keeps firing (`WF` of its `Begin`) and a sweep
that runs and does not die goes on (`WF Step`); readers, resumes, exits and time
have no fairness, and a sweep that could not pause is followed by another.

In `campaign_money` a request that was accepted goes on (`WF Step`) and the sweep
is on a clock (`WF` of asking for one); no other request has to come. In
`bot_orders` and `bot_copies` the routes are called every five minutes
(`WF StartRun`, `WF StartPass`), what was started and is not killed goes on
(`WF RunNext`, `WF PassNext`), and time passes (`WF Tick`); people, alarms, leaders
and taps have no fairness. Their liveness is stated for a claim or a kept buy whose
lease, or retry window, ends inside `MAX_TIME` (`MAX_CLOCK` of the copies), because
the clock stops there.


## The proofs

`tlapm` checks `TotalsProofs`, `FleetPoolProofs`, `OwedLedgerProofs`,
`SalesProofs`, `CampaignsProofs`, `SponsorshipProofs`, `BotOrdersProofs` and
`BotTradingProofs` with no obligation left. Each theorem holds for every value of
its module's constants that satisfies the assumptions named there; TLC evaluates
those on the instances above. A theorem with a hypothesis of its own says which
fault or schedule it assumes away, and TLC refutes it without that hypothesis.
Every inductive invariant was checked by TLC on its run's instance before it
was proved.

### The pool

The theorems about the pool hold for any finite sets of
depositors, campaigns and charge ids, any sizes, caps and amounts that pass the constructor's checks
(`CapsAssumption`), and any delays with `POST_WINDOW < EXIT_DELAY`
(`TimeAssumption`; the contract fixes 12 h and 24 h).

| Theorem | Says |
|---|---|
| `PoolTyped` | every counter stays a natural number |
| `PoolBalances` | the balance is what came in less what went out |
| `PoolCapped` | the caps hold of the sums |
| `PoolDrawsBounded` | a draw never exceeds its amount, buys in flight included |
| `PoolOwes` | what depositors could take out is deposits less exits and postings |
| `PoolImplementsLedger` | the refinement to `DepositLedger` |
| `PoolClaimsSafely` | a claim leaves every unspent deposit in the pool |
| `PoolExitOutlasts` | an exit leaves no charge behind that was filed before it was asked for |

The argument. `IInv` is the inductive invariant: the type invariant, the balance
identity, the caps, the draw bounds, and four facts that the properties do not
state but need. `SpentBacked`: a depositor's spent never exceeds the deposit, so
what is unspent is a plain difference and a posting moves it by exactly what it
counts. `ExitCovered`: from the request on, nothing makes what is unspent larger
than the amount written down, so an exit pays all of it; and only who has a
deposit has an exit. `OutflowCovers`: what is in flight is part of the outflow,
so a rollback's subtraction is safe. `CleanSlate`: a draw that was never opened
is blank. `TypeStep`, `DepositorStep`, `DrawStep` and `BalanceStep` show that
every action preserves the parts it can disturb, after `DepositorSteps` and
`DrawSteps` have reduced `Next` to the actions that touch them. Sums move by
the lemmas of `TotalsProofs` (changing one point, pointwise differences,
pointwise bounds), which come down to cardinalities of disjoint unions.
`LedgerStep` maps every step to a step of `DepositLedger` or a stutter.
`PoolOwes` adds its equation to the invariant. `PoolClaimsSafely` then
combines it with the balance identity: after a claim of at most `totalPosted -
totalOutflow - totalClaimed` the pool still holds `everDeposited - exitsPaid -
totalPosted`. `PoolExitOutlasts` uses `POST_WINDOW < EXIT_DELAY` and nothing
else about time.

### The escrow

The theorems about the escrow hold for any finite sets of campaigns and keys,
any amounts and any window.

| Theorem | Says |
|---|---|
| `EscrowTyped` | every counter stays a natural number, so no call reverts for an underflow |
| `EscrowCounts` | `reserved` and `spent` are the sums over the keys |
| `EscrowSolvent` | the balance and what was reclaimed early cover every entitlement |
| `EscrowLockHolds` | no close and no reclaim takes a live lock |
| `EscrowImplementsBudget` | the refinement to `KeyedBudget` |

The argument. `TypeOK`, `CountersAreSums` and `Solvent` are inductive only
together: a subtraction from `reserved` is safe because the key is one of the
keys `reserved` adds up, and a sum stays within the funds because `Reserve`
looks at `unused`. A call touches one campaign, so the proof restates the
invariant as `BooksOK`, a property of one campaign's record and keys, and the
bound on the balance; `Frame` says that a step which keeps one campaign's
books and pays no more than its entitlement falls by keeps the invariant, and
`KeyStep` that settling one key keeps the books. Every action is then an
instance of the two. `BudgetStep` reads the abstract state off the
reservations and maps `Lock`, `RegisterCampaign`, `WithdrawSpent` and `Tick` to
stutters, and `Rollback`, `ReclaimExpiredLock` and `Close` to one release.

`OutflowCharged`, what the draws have spent against what the pool has paid out, is
part of `PoolDrawsBounded` and in no run; nor is `CapsHold`, which `PoolCapped`
proves: it restates, of the sums, the caps `deposit` checks.

### The sweep

| Theorem | Says |
|---|---|
| `MarksTellTrue` | `MarkIsTrue`, if the rows a sweep found lost can be saved (`"save" \notin Faults`) |
| `PostsInTime` | `PostedInTime`, under every fault |
| `NotPulledThrice` | `NotPulledAgain`, under every fault |

They hold for any finite set of charges that fill the queue in order, any
instances, any number of faults of the kinds in `Faults`, any schedule, lifetime
and margin with `LAG <= MARGIN`, and any delays from one instant up to
`POST_WINDOW` (`SweepAssumption`; the code's `MIN_DELAY_SECONDS` is 90. A charge
that falls due the instant it is queued would be missed by one instant more
than `PostedInTime` allows).

The argument. What is over stays over: a charge that is posted stays so, and one
whose window closed unposted is never posted (`QueueMoves`). So a mark below which
everything is over stays sound whoever has a copy of it, and so do the charges a
call has found lost, due or expired. That is `SweepBase`, with the order of the
queue, one sweep at a time and the age of the calls; it is the part that needs no
assumption on faults. `ReadEntriesIs` is where a mark moves: what is final has its
window closed by more than the margin, and the node's lag is within the margin,
so a charge the node still shows unposted there is lost. Three invariants stand on it:

* `MarkInv`: every charge lost below a mark is among its rows, or is one of
  the rows the call is about to save. The rows are saved before the number
  moves, and an instance that remembers a mark remembers rows that are saved or
  about to be. A failed save breaks exactly this.
* `TryInv`: a charge not yet posted was missed by every posting sweep that came for
  it, or the one that came last has it still to post. Because the mark is sound, a
  sweep that passes a charge over does so only once its window has closed; because
  the schedule is on time and a sweep has `LIFE` at most, the window cannot
  have closed on fewer misses than the property allows (`LateExcused`).
* `PullInv`: a charge that pulled the brake once since the last resume finds the
  pool paused; one that pulled it twice is in the hands of no sweep that could pull
  again, because `Fresh` compares its expiry with the last resume.

### The owed ledger

| Theorem | Says | Assumes away |
|---|---|---|
| `PaidIsCharged` | `PaidStaysCharged`: a payout that was mined leaves a standing charge | `rpc`, `race`; `release` |
| `RefusalIsTrue` | `RefusedNotPaid`: a withdrawal answered as refused is not paid | `rpc`, `race`; `release` |
| `LedgerIsKept` | the refinement to `ChargeLedger`: queued once, or void, for good | `rpc`, `race`; `overlap`, `slow` |
| `UnpaidIsNotCharged` | `UnpaidNotCharged`: a withdrawal in the queue was paid | `rpc`, `race`; `overlap`, `slow`; `orphan` |

They hold for any charges, withdrawals and sweepers, any batch limit and any
number of the faults that are left: crashes, refusals, lapses of the lock, lost and
unseen transactions, reverts, and for the first two theorems any overlap of sweeps
and withdrawals. `NoFalseReads`, `NoLostRelease`, `NothingOverlaps` and `NoOrphans`
are the hypotheses; each names the faults that break the property in the
list of the previous section. `ActorsDiffer` says that the rows of charges and
withdrawals, the sweepers and the two marks of a free lock are different things,
which in the code they are by their types.

The argument, in layers. `BaseInv` says what a hash and an outcome are worth: a row
or a process names only a transaction that carries it; what is `signed` is one
process's; a payout is one withdrawal's, which signs no other; and the
outcome a process holds is so. The last is where the two reads of `resolve()`
matter: "the nonce was passed and there is no receipt" means that a transaction
can never be mined (`Dead`) only if the receipt was not missed and no block fell
between the two. `Dead` is for good (`DeadForGood`), since a nonce is mined once.
That the nonce a step reads exists at all is a pigeonhole argument
(`NextNonce`). `PayoutsInv` adds that a charge is voided only when its payout is dead
or was never signed. `QueueInv` adds whose a row is: the rows a process works on
are as it read them (`HeldOK`), which nobody changes under it because a sweep runs
alone (`Alone`); and whatever batch a row was ever in is dead or is the one
it names (`RowHeld`). From this a row is mined in no batch but the one it
names, so its fate in `ChargeLedger` can be read off the row (`FateIs`), and
`LedgerMoves` maps every step to a move of rows that go together or to a stutter.
`ChargedInv` adds that an owed row of a withdrawal that is not being paid now was
paid; a withdrawal that dies unsigned (`orphan`) is exactly what it excludes.

### The sales

| Theorem | Says | Assumes away |
|---|---|---|
| `RecordsTyped` | every reachable state is well typed | |
| `SalesReadTrue` | `RecordIsTrue`: what a record says of its transactions is so | |
| `SoldOnce` | the refinement to `SaleLedger`: a transfer counts in one sale, which is sold and paid once, or returned once | `rpc`, `race`; `hold` |

They hold for any transfers, instances, attempts and number of faults. `SaleNames`
says that the two marks of a free lock are no transfer and no instance; `OneAtATime`
is the hypothesis of the third: the lock of a sale outlives its holder's step,
receipts are not missed, and no block falls between the two reads of
`resolve()`. Each of the three kinds of fault breaks `SaleSpec` for TLC.

The first two need none of it. A step of `advancePending` works on a copy of a
record; `BaseInv` says of every copy, and of the record, that the transactions it
names are its own, of the kind it takes them for, and that what its state says of
them is so (`SaleOK`). Mined is for good, so a good copy stays good however old it
is, and whichever copy is saved last, the record is good: two holders of one
lock may pay twice, and the record still tells nothing false.

`FateInv` adds what it takes to sell once. Who has a sale's record has its lock
and goes by the record as it is saved; the transfers of two sales do not meet, because a transfer is burned
before it is counted and burned once; and a transaction of a sale that its record
does not name is dead: it was given up only on a true `reverted` or
`never-mined`. Then no sale has two mined swaps or two mined payouts, its fate
can be read off its record (`FateIs`), and `LedgerMoves` sorts the steps into
those that open a sale, those that turn one on, and stutters.

### The session account and the taps

| Theorem | Says |
|---|---|
| `AccountSentIsSpent` | `SentIsSpent`: what a key's calls sent is what its session spent, the call under way aside, within its cap |
| `AccountApproval` | `ApprovalEndsWithSale`: the router may pull only in a sale under way |
| `TapsSell` | `TapsSellOneByOne`: taps of a person sell one after the other |
| `TapsSentIsSpent`, `TapsApproval` | the same two of the account, with the bot's key among its callers |

They hold for any keys, grants, amounts and targets, and for any taps, requests,
deliveries and deaths. A call may revert, and then the state from before it
returns: so the invariant (`AccountInv`) says of the state that a frame
remembers what it says of the present one (`Restorable`), and `BooksOK`
is stated of any table of sessions against what was sent. For the taps, a request
that holds the trade lock lives inside it (`Exclusive`), which is all that orders
the sales and rests on `LockOutlastsRequest`: the function is cut off after 60 s
and the lock expires after 90. A tap is in one place (`Tapped`), and
a sale nobody has given up is one somebody waits for (`Watched`).

### The bot's orders

| Theorem | Says |
|---|---|
| `SlotSentOnce` | `SentOncePerSlot` |
| `SendsAreCounted` | `SentIsCounted`: what is sent and what is left of a DCA are what was asked |
| `OrdersWithinBudget` | `DayBudgetHolds` |

They assume `OneRunEach`: one run of the orders route and one of the watch at a
time, which is what `vercel.json` schedules (both every five minutes, with
`maxDuration` 300) and nothing in the code enforces across instances. With two
cron runs TLC refutes `SentOncePerSlot` (next section). Under it, an order a run holds is as
it was read, but for having been cancelled (`AsRead`), because the cron does not take shields,
the watch takes nothing else, and claims are cut off only when they are older than
any run (`LeaseOutlastsRun`). So what is unclaimed has not been sent for its slot
(`Unsent`), and the count a run reads once and adds to is the ledger's
(`Counts`). The assumptions are that the two routes' runs differ (`RunsDiffer`),
positive times, and finitely many orders.

### The bot's copies

| Theorem | Says |
|---|---|
| `BuyCopiedOnce` | `CopiedOnce`: a buy is mirrored into an account at most once |
| `TokenDayCapped` | `TokenDayHolds` |
| `UserDayCapped` | `UserDayHolds`: the allowance, one tap and the uncounted taps |

They hold for any number of passes that overlap, die and retry; `FinitePasses` says
that there are finitely many, so that what they hold can be summed. Two
arguments. A buy is claimed once, so one pass mirrors it, and that pass takes
the followers in turn: nobody from its turn on has the buy (`Claims`). And every ledger is
added to before it is compared, so what is counted is at least what was
sent and what may still be (`Ledgers`); only a tap reads first and counts
afterwards, hence the one.

### The campaign routes

| Theorem | Says | Assumes away |
|---|---|---|
| `SlicesBuyOnce` | `SliceBoughtOnceIfSeen`: a slice is bought at most once, unless a receipt was not seen | |
| `OnlyAStopStrands` | `StrandedOnlyByAStop`: a claimed slice is bought or will be decided, unless its request was stopped | |
| `ChargesAreSpend` | `ChargesMatchSpend`: a wallet is charged what left the pool for it | requests that die, or withdrawals |
| `DepositCoversAll` | `NeverOvercommitted`: the deposit covers what was paid and spent and what standing draws may spend | closes; or, with closes, the sweep's fundings, `crash` and `unseen` (`Closable`) |

They hold for any campaigns, instances, requests at a time, slices, keys, amounts
and number of faults, with the numbers a wallet starts from in order
(`CampaignNumbers`: the fleets open at the start are covered by the deposit, a
seed is no more than a draw). TLC refutes the last two without their hypotheses:
a request that dies between a withdrawal's charge and its payment leaves a charge
for nothing, in seven states; and a close can free what was
spent before anything counts it (next section).

`Base` is what every other invariant stands on: which kind of request can be at
which step, that a request past `Acquire` is the one that has the wallet's lock,
and that a draw which was once funded is funded or closed, so that a
record an instance remembers as trading, however old, is of a draw that stood.
`SliceOK` says that a slice is held by one request and is not yet bought while it
is, so a second claim and a second buy have no slice to start from; it is given up
once a receipt went unseen, because from then on the verdict is a guess.
`StrandOK` is the other half: the buy that a request calls `unknown` is
of its own slice, and shows in the draw if it was mined. `BeforeOK` says that what
a buy read of the draw's spent before it sent is what the draw shows until its
own buy is mined, since the wallet's lock keeps its other buys out. So what `settle()`
will charge is known while the buy is still under way, and `ChargeOK` can equate
what is charged and still owed with what left the pool, step by step. `GrantOK`
is about the balance: what was paid and what draws hold, spent or not, fits the
deposit, and a request that has checked and not yet drawn or paid still has its room.
The balance the code reads is made of the charges, so a close, after which a draw counts only by
its charges, keeps `GrantOK` only while no charge is outstanding: `Closable`.

### Sponsorship

| Theorem | Says |
|---|---|
| `DailyCapsOvershoot` | `OverlapOvershootsByOneEach` |
| `LandedIsCharged` | `LandedChargeIsEscrows` |
| `BudgetPaysSigned` | `BudgetPaysWhatWasSigned`, of every step |
| `SponsoredEscrowSolvent` | the escrow's `Solvent` and `CountersAreSums`, with the paymaster as its caller |

They hold for any users, nonces, finitely many calls at a time (`SponsorKeys`),
policies and faults. `Sponsorship` extends the escrow, and the paymaster's charge is a
reserve and a commit in one step, so the escrow's own invariant carries over. An
operation's record follows its key in the escrow (`OpOK`). For the caps, a day's
ledger counts what is recorded together with what was checked and is not recorded yet:
recording moves an amount from one to the other, and a check that passes leaves
at most the cap and one ceiling for each *other* call. The overshoot is stated
against a highest ceiling the policies have (`HighestCeilings`): any finite number of
policies, which is all that sponsors ever set, has one.

### What is only model-checked

* Liveness, everywhere: fairness and `ENABLED` are out of the prover's reach.

`TypeOK` of `OwedLedger`, `SponsorTypeOK` and `SweepTypeOK` hold in the
instances above; no run spends time on them. What
the proofs need of them is part of `BaseInv`, `SponsorInv` and `SweepBase`.


## What the code does not keep

These were refuted by TLC while the models were built. Each is stated in
its module (or is a property above under a fault its run leaves out), with no run of its
own: the passing run beside it shows what does hold.

| Stated as | What breaks it | Where |
|---|---|---|
| `ChargedOnce` (OwedLedger, with `overlap`) | a late settle clears a newer hash | store-neon.ts:227 |
| `UnpaidNotCharged` (with `orphan`) | a withdrawal dies between its charge and its hash | pool-buy.ts:532 |
| `BurnedCounts` (Sales) | transfers are burned one by one and the sale saved after the last; a request that dies in between, or for which one later call throws, leaves transfers no sale counts, and asking again is refused | sell.ts:92 |
| `UnusedIsHeld` (FleetCampaignEscrow) | a lock reclaimed while the campaign is open is paid to the owner and goes back to what is unused, so the close owes it again | FleetCampaignEscrow.sol:227 |
| `NothingStranded` (FleetCampaignEscrow) | what a rollback or a smaller commit frees after the close is paid out by no call | FleetCampaignEscrow.sol:205 |
| `SliceBoughtOnce` (Campaigns, with `unseen`) | a buy whose receipt nobody saw is judged by the draw's spent; it is rejected, its slice given back, and it is mined later | pool-buy.ts:731, campaign-routes.ts:1001 |
| `NeverOvercommitted` (Campaigns, with `close` and `sweep`; no fault needed) | the sweep funds a draw and records the headroom as owed afterwards, outside the wallet's lock; a close in between drops the draw from the balance before the charge is on it, and the next activation draws the headroom again. "A withdrawal or another activation that landed meanwhile cannot leave this draw unbacked" (campaign-routes.ts:1368) is kept; a close is not among them | pool-buy.ts:681, campaign-routes.ts:1319 |
| `ChargesMatchSpend` (Campaigns, with `withdraw` and `crash`) | the same window as `orphan` above: a charge recorded, no payment, and the request gone | pool-buy.ts:532 |
| `AtMostOncePerKey` (Campaigns, with `twin`, or with `rpc`) | two requests with one key both run; and a balance that cannot be read after the payout loses the answer, so the retry pays again | campaign-service.ts:331, campaign-routes.ts:439 |
| `AnsweredPauseStops` (Campaigns, 2 instances) | an instance whose remembered record already says Paused answers so without asking the chain, after another instance resumed | campaign-routes.ts:1301 |
| `SentOncePerSlot` (BotOrders, 2 cron runs) | "never fire the same order twice" (bot-orders-runtime.ts:37): a claim asks for an unclaimed order on the slot that was read, but `settle` writes any open order and clears `firing_at`; a run that read the order before another claimed it refuses it or lets it wait, which removes the other's claim while its send is under way, and the next run sends again. A settle conditional on the claim it is about would close it | bot-orders.ts:588 |
| `MarkIsTrue` (PoolSweep, with `save`) | "a reader must never see a mark that is past a charge whose row is not there yet" (pool-reads-neon.ts:9): the instance whose save of rows failed keeps its own mark and, the next time, saves only what it found since, so the shared mark passes a lost charge that has no row; a sweep that starts from it never sees the loss | pool-reads.ts:208 |
| `UserDailyCap` (Sponsorship) | operations that reverted are passed over by the day's count, and their gas was charged | sponsor-policy.ts:29 |

Read in the code next to these, and not stated as properties:

* `Lock` and `Commit` of the escrow do not look at `lockedUntil`, so the operator may settle, or
  renew, a lock whose window has passed for as long as the owner has not reclaimed it.
* A fund of the sweep counts as landed when the draw is no longer Pending
  (pool-buy.ts:663), which a close brings about too.
* An activation whose `openSession` landed and whose answer was lost is refused for
  good when it is tried again (chain-campaign.ts:93).
* `#trade` does not look at the failure cooldown that `#buy` looks at
  (campaign-routes.ts:863), and an error other than a rejection in the middle of it leaves
  the slices it had claimed claimed (campaign-routes.ts:1037); `StrandedOnlyByAStop` names
  the stops that lead there.
* An instance loads the number of the shared mark and its rows in two queries; another
  that moves the mark in between makes it list a lost charge twice, and it keeps the
  double until it ends (pool-reads-neon.ts:62).
* `pauseIfTriggered` asks for an expiry *after* the last resume (pool-buy.ts:423): a charge whose
  window closes in the very second of a resume is lost without a pause. `EveryLossPauses`
  excludes that second.
* An exit that its depositor has just executed, or an error of the node, looks to
  `exitWouldFail` like an exit the pool cannot pay, and pauses it; a posting a late
  node does not show yet looks like a lost charge and does the same.
* A tapped sale whose receipt does not come inside the wait, or whose send throws after
  it was relayed, frees the trade lock (bot-session.ts:521): the next tap on Sell 50%
  sells half of a position the first has not left yet, which is what the lock is for
  (bot-updates.ts:56). `TapsSellOneByOne` excepts it. Standing orders sell through the
  same key and take no trade lock (bot-orders.ts:438).
* The lock is taken before the tap is acknowledged and given back by what follows
  (bot-session.ts:312): an acknowledgement that throws leaves it until it expires.
* A sale is noted after its receipt was waited for (bot-session.ts:884), not "the moment
  it is sent" (bot-positions.ts:5); a request that dies between leaves it out of the
  record.
* One open shield per person, `MAX_OPEN_ORDERS` and `VENUE_BUYS_PER_DAY` are
  checked and written in two steps.
* A mirror whose send threw after it was relayed gives its room in the token's day
  back (bot-copy.ts:517): `TokenDayHolds` counts what answered.

## Not modelled

* The admin's notices of the sweep and the marks that keep them from repeating
  (`sayWhatIsNew`).
* The operator lock as timers: in `OwedLedger` and `Sales` it may lapse at any
  await. The keys of the contracts (`setOperator`, `setGuardian`, `setSettler`, the
  two-step owner).
* `CampaignBudget`, the books of a campaign funded without the pool; nonces and
  challenges; held alerts.
* `ChitBuyback` and its keeper, one caller and one contract.
* Of the bot: sentences, links, wallets, risk rules, alerts, positions,
  expiry, cards, the Telegram transport. Most of it is formatting, parsing
  and reads; the state they keep is one statement per update.
* Reads, scores, monitoring, market data, wiring, the SDK, the browser app, the web
  site and the scripts keep no state that outlives a call, or only show
  what the components above decided. They are the larger part of the repository's
  lines, which is why most of those lines are in no module.

## The plan

1. Done: the pool, the escrow, their ledgers and proofs; the owed ledger and the
   sales with their refinements.
2. Done: the campaign routes with slices, buys, withdrawals and the funding half
   of the sweep; sponsorship over the escrow; the session account; the bot's orders
   and copies; the posting half of the sweep and its brake, over the pool.
3. Done: proofs of the owed ledger, the sales, sponsorship over the escrow, the session account
   with its taps, the orders, the copies, the sweep and the campaign routes. Every
   safety property the runs check is a theorem; those of item 4 come with their modules.
4. `OperatorLock` (renewal
   against expiry), `PoolKeys` (who may call, rotation), `CampaignBudget`,
   `ChitBuyback`; then the bot's sentences, risk watch and alerts.
