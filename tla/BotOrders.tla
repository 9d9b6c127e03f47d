----------------------------- MODULE BotOrders -----------------------------
(***************************************************************************)
(* The orders of one person of the Telegram bot, and the runs that send    *)
(* them: src/fleet/bot-orders.ts, the route that starts a run              *)
(* (bot-orders-runtime.ts) and the preflight an order is placed after      *)
(* (bot-order-build.ts, bot-session.ts).                                   *)
(*                                                                         *)
(* A run reads the open orders once and works from what it read.  Each     *)
(* write is one statement of the store: a claim takes an open, unclaimed   *)
(* order still on the slot the run read, a settle lands on any open order. *)
(* The platform kills a run LIFE after it started; a claim is a dead run's *)
(* after LEASE.  Runs of cronRuns do a pass over what is due; runs of      *)
(* alarmRuns fire the shields on a token whose pool is being emptied.      *)
(*                                                                         *)
(* The link, the session as the contract tells it, the pool's price, quote *)
(* and depth, the holders line, the position and a simulated sale are read *)
(* afresh for each order and may answer anything.                          *)
(***************************************************************************)
EXTENDS Integers, Sequences, FiniteSets, Totals

CONSTANTS
  Orders,             \* ids of orders the person may place
  Kind,               \* [Orders -> kinds]: Order.kind, tp and sl both "exit"
  CronRuns,           \* runs of the orders route that may be under way at once
  AlarmRuns,          \* runs of the risk watch that fire shields
  TIMES,              \* buys a dca is placed for: remaining when it is put
  EVERY,              \* everyMs of a dca
  LIFE,               \* maxDuration of api/bot/orders.js
  LEASE,              \* FIRING_LEASE_MS
  MAX_REFUSALS,       \* refusals in a row that fail an order
  MAX_OPEN_ORDERS,    \* open orders a person keeps at once
  DAILY_EXECUTES,     \* sends of a UTC day: dailyExecutes
  DAY,                \* length of a UTC day
  MAX_TIME,           \* bound: the last instant
  MAX_CRASHES         \* bound: runs that are killed before they end

kinds == {"limit", "dca", "exit", "shield"}
Runs  == CronRuns \union AlarmRuns

ASSUME OrderKinds == Kind \in [Orders -> kinds] /\ IsFiniteSet(Orders)
\* The two routes are two functions.
ASSUME RunsDiffer == CronRuns \cap AlarmRuns = {}
ASSUME OrderTimes == /\ {TIMES, EVERY, LEASE, MAX_REFUSALS, DAY} \subseteq Nat \ {0}
                     /\ {LIFE, MAX_OPEN_ORDERS, DAILY_EXECUTES, MAX_TIME, MAX_CRASHES} \subseteq Nat
\* 300 s and 360 s.
ASSUME LeaseOutlastsRun == LIFE < LEASE

VARIABLES
  orders,             \* bot_orders
  fires,              \* bot_order_fires: the orders claimed on each day
  sends,              \* the slots each order was sent for, as relayed
  asked,              \* orders that passed the preflight and are not yet put
  runs,               \* each run: where it is and what it holds
  crashes,            \* runs killed so far
  now                 \* the clock

orderVars == <<orders, fires, sends, asked, runs, crashes, now>>

NoClaim == -1
NoOne   == "none"
Never   == 0
NoOrder == [status |-> "none", remaining |-> 0, nextAt |-> Never, refusals |-> 0,
            firingAt |-> NoClaim]
Idle    == [pc |-> "idle"]
day(t)  == t \div DAY
Days    == 0..day(MAX_TIME)

OrdersInit ==
  /\ orders = [o \in Orders |-> NoOrder]
  /\ fires = [d \in Days |-> [o \in Orders |-> 0]]
  /\ sends = [o \in Orders |-> <<>>]
  /\ asked = {}
  /\ runs = [r \in Runs |-> Idle]
  /\ crashes = 0 /\ now = 0

----------------------------------------------------------------------------
(* The store.                                                              *)

open == {o \in Orders : orders[o].status = "open"}

claimable(o, slot) ==
  o \in open /\ orders[o].firingAt = NoClaim /\ orders[o].nextAt = slot

claim(o, at) ==
  /\ orders' = [orders EXCEPT ![o].firingAt = at]
  /\ fires' = [fires EXCEPT ![day(at)][o] = @ + 1]

settle(o, next) ==
  orders' = IF o \in open THEN [orders EXCEPT ![o] = [next EXCEPT !.firingAt = NoClaim]]
                          ELSE orders

\* put, after the preflight: a dca's first slot is the instant it is placed.
NewOrder(o) ==
  [NoOrder EXCEPT !.status = "open", !.remaining = IF Kind[o] = "dca" THEN TIMES ELSE 0,
                  !.nextAt = IF Kind[o] = "dca" THEN now ELSE Never]

firesSince(d) == Total(fires[d])

----------------------------------------------------------------------------
(* What the person and the owner do.                                       *)

keepRuns == UNCHANGED <<fires, sends, runs, crashes, now>>

AskOrder(o) ==
  /\ o \notin asked /\ orders[o].status = "none"
  /\ Cardinality(open) < MAX_OPEN_ORDERS
  /\ Kind[o] = "shield" => \A p \in open : Kind[p] # "shield"
  /\ asked' = asked \union {o}
  /\ UNCHANGED orders /\ keepRuns

PutOrder(o) ==
  /\ o \in asked
  /\ asked' = asked \ {o}
  /\ orders' = [orders EXCEPT ![o] = NewOrder(o)]
  /\ keepRuns

CancelOrder(o) ==
  /\ o \in open
  /\ orders' = [orders EXCEPT ![o].status = "cancelled"]
  /\ UNCHANGED asked /\ keepRuns

Tick ==
  /\ now < MAX_TIME
  /\ \A r \in Runs : runs[r].pc # "idle" => now < runs[r].at + LIFE
  /\ now' = now + 1
  /\ UNCHANGED <<orders, fires, sends, asked, runs, crashes>>

----------------------------------------------------------------------------
(* A run.                                                                  *)

stay == UNCHANGED <<asked, crashes, now>>

Go(r, run) == runs' = [runs EXCEPT ![r] = run]

\* What a dead run left behind, and what is due, of the orders as read.
\* Mutant: the risk watch settles its own claims.
staleDue(o, at) ==
  /\ Kind[o] # "shield"
  /\ orders[o].firingAt # NoClaim /\ at - orders[o].firingAt >= LEASE

stale(o, at) == orders[o].firingAt # NoClaim /\ at - orders[o].firingAt >= LEASE

due(o, at) ==
  /\ orders[o].firingAt = NoClaim
  /\ Kind[o] # "shield"
  /\ Kind[o] = "dca" => orders[o].remaining > 0 /\ orders[o].nextAt <= at

shield(o) == orders[o].firingAt = NoClaim /\ Kind[o] = "shield"

\* A run holds the orders as it read them until it is done with each; a pass
\* that finds nothing to do reads and sends nothing.
Begins(r, cut, todo) ==
  /\ runs[r] = Idle /\ cut \union todo # {}
  /\ Go(r, [pc |-> "pass", at |-> now, executes |-> -1, order |-> NoOne, was |-> NoOrder,
            cut |-> [o \in cut |-> orders[o]], todo |-> [o \in todo |-> orders[o]]])
  /\ UNCHANGED <<orders, fires, sends>> /\ stay

StartRun(r)    == Begins(r, {o \in open : stale(o, now)}, {o \in open : due(o, now)})
FireShields(r) == Begins(r, {}, {o \in open : shield(o)})

without(read, o) == [p \in DOMAIN read \ {o} |-> read[p]]
next(run)        ==
  IF DOMAIN run.todo = {} THEN Idle
  ELSE [run EXCEPT !.pc = "pass", !.order = NoOne, !.was = NoOrder]

\* The order as read, after a slot that counts as spent.
Spent(o, was, at, closes) ==
  IF Kind[o] = "dca"
  THEN [was EXCEPT !.remaining = @ - 1, !.nextAt = at + EVERY,
                   !.status = IF was.remaining <= 1 THEN "done" ELSE "open"]
  ELSE [was EXCEPT !.status = closes]

Skipped(o, was, at) == IF Kind[o] = "dca" THEN [was EXCEPT !.nextAt = at + EVERY] ELSE was

\* Mutants: a send closes nothing but a dca's last slot; a send that did not
\* answer costs a dca nothing.
SentStays(o, was, at) == IF Kind[o] = "dca" THEN Spent(o, was, at, "done") ELSE was
CutFree(o, was, at)   == IF Kind[o] = "dca" THEN Skipped(o, was, at) ELSE [was EXCEPT !.status = "failed"]

Sent(o, was, at) == Spent(o, [was EXCEPT !.refusals = 0], at, "done")
Cut(o, was, at)  == Spent(o, was, at, "failed")

Refused(o, was, at) ==
  LET refused == [was EXCEPT !.refusals = @ + 1] IN
  IF refused.refusals >= MAX_REFUSALS THEN [refused EXCEPT !.status = "failed"]
                                      ELSE Skipped(o, refused, at)

\* What #fire and #fireSell write after a send, #cutOff, #wait, #off, #refuse.
After(o, was, at, verdict) ==
  CASE verdict = "sent"   -> Sent(o, was, at)
    [] verdict = "cut"    -> Cut(o, was, at)
    [] verdict = "wait"   -> Skipped(o, was, at)
    [] verdict = "off"    -> [was EXCEPT !.status = "failed"]
    [] verdict = "refuse" -> Refused(o, was, at)

\* A claim the pass found whose sender is dead: nobody knows the answer.
CutOff(r, o) ==
  /\ runs[r].pc = "pass" /\ o \in DOMAIN runs[r].cut
  /\ settle(o, Cut(o, runs[r].cut[o], runs[r].at))
  /\ LET left == [runs[r] EXCEPT !.cut = without(@, o)] IN
     Go(r, IF DOMAIN left.cut = {} THEN next(left) ELSE left)
  /\ UNCHANGED <<fires, sends>> /\ stay

\* The owner's sends of the day, from the ledger once a run and then counted along.
\* Mutant: a run counts along from nothing.
budgetOwn(run) == IF run.executes = -1 THEN 0 ELSE run.executes

budget(run) == IF run.executes = -1 THEN firesSince(day(run.at)) ELSE run.executes

\* What #fire and #fireSell may make of an order before the claim; a session that
\* says no is a wait when it is read again and is paused, else a refusal.
verdicts(o, run) ==
  {"skip", "wait", "refuse"}
    \union (IF Kind[o] \in {"exit", "shield"} THEN {"off"} ELSE {})
    \union (IF Kind[o] = "shield" \/ budget(run) < DAILY_EXECUTES THEN {"claim"} ELSE {})

Judge(r, o, verdict) ==
  LET left == [runs[r] EXCEPT !.todo = without(@, o)] IN
  /\ runs[r].pc = "pass" /\ DOMAIN runs[r].cut = {} /\ o \in DOMAIN runs[r].todo
  /\ verdict \in verdicts(o, runs[r])
  /\ Go(r, IF verdict = "skip" THEN next(left)
           ELSE [left EXCEPT !.pc = verdict, !.order = o, !.was = runs[r].todo[o],
                             !.executes = IF verdict = "claim" THEN budget(runs[r]) ELSE @])
  /\ UNCHANGED <<orders, fires, sends>> /\ stay

Claim(r) ==
  LET o == runs[r].order IN
  /\ runs[r].pc = "claim"
  /\ IF claimable(o, runs[r].was.nextAt)
     THEN /\ claim(o, runs[r].at)
          /\ Go(r, [runs[r] EXCEPT !.pc = "send", !.executes = @ + 1])
     ELSE /\ Go(r, next(runs[r]))
          /\ UNCHANGED <<orders, fires>>
  /\ UNCHANGED sends /\ stay

\* session.execute or session.sell; one that throws may still have been relayed.
Send(r, relayed, answers) ==
  LET o == runs[r].order IN
  /\ runs[r].pc = "send"
  /\ answers => relayed
  /\ Go(r, [runs[r] EXCEPT !.pc = IF answers THEN "sent" ELSE "cut"])
  /\ sends' = IF relayed THEN [sends EXCEPT ![o] = Append(@, runs[r].was.nextAt)] ELSE sends
  /\ UNCHANGED <<orders, fires>> /\ stay

Write(r) ==
  LET o == runs[r].order IN
  /\ runs[r].pc \in {"sent", "cut", "wait", "refuse", "off"}
  /\ settle(o, After(o, runs[r].was, runs[r].at, runs[r].pc))
  /\ Go(r, next(runs[r]))
  /\ UNCHANGED <<fires, sends>> /\ stay

\* The list is done, maxPerRun or the run's budget of time is reached, or a read threw.
Ends(r) ==
  /\ runs[r].pc = "pass" /\ DOMAIN runs[r].cut = {}
  /\ Go(r, Idle)
  /\ UNCHANGED <<orders, fires, sends>> /\ stay

\* The platform's cut-off, or a process that dies: what it held is gone.
Crash(r) ==
  /\ runs[r] # Idle /\ crashes < MAX_CRASHES
  /\ crashes' = crashes + 1
  /\ Go(r, Idle)
  /\ UNCHANGED <<orders, fires, sends, asked, now>>

----------------------------------------------------------------------------
PersonNext == \E o \in Orders : AskOrder(o) \/ PutOrder(o) \/ CancelOrder(o)

RunNext(r) ==
  \/ \E o \in Orders : CutOff(r, o)
  \/ \E o \in Orders, verdict \in {"skip", "wait", "refuse", "off", "claim"} :
       Judge(r, o, verdict)
  \/ Claim(r) \/ Write(r) \/ Ends(r)
  \/ \E relayed, answers \in BOOLEAN : Send(r, relayed, answers)

OrdersNext ==
  \/ PersonNext \/ Tick
  \/ \E r \in CronRuns : StartRun(r)
  \/ \E r \in AlarmRuns : FireShields(r)
  \/ \E r \in Runs : RunNext(r) \/ Crash(r)

OrdersSpec == OrdersInit /\ [][OrdersNext]_orderVars

\* The route is called every five minutes, a run that is not killed goes on,
\* and the clock does not stop.
OrdersFairSpec ==
  /\ OrdersSpec
  /\ \A r \in CronRuns : WF_orderVars(StartRun(r))
  /\ \A r \in Runs : WF_orderVars(RunNext(r))
  /\ WF_orderVars(Tick)

----------------------------------------------------------------------------
(* Properties.                                                             *)

\* "never fire the same order twice" (bot-orders-runtime.ts:37): a slot is sent
\* for once, whatever runs die, throw after relaying or work from an old read.
SentOncePerSlot ==
  \A o \in Orders : \A i, j \in DOMAIN sends[o] : i # j => sends[o][i] # sends[o][j]

\* No more goes out than the person asked for: what a dca says is left and what
\* was sent are together what it was placed for, a send under way aside.
SentIsCounted ==
  \A o \in Orders : Kind[o] = "dca" =>
    Len(sends[o]) + orders[o].remaining <= TIMES + (IF orders[o].firingAt # NoClaim THEN 1 ELSE 0)

\* Orders are no way around the day's budget of the gas the bot fronts: a day's
\* claims stay within it, shields aside, also when runs die and start over.
DayBudgetHolds ==
  \A d \in Days :
    Total([o \in Orders |-> IF Kind[o] = "shield" THEN 0 ELSE fires[d][o]]) <= DAILY_EXECUTES

\* A claim outlives no run for good: the order is settled, or it was cancelled.
EveryClaimSettles ==
  \A o \in Orders :
    (o \in open /\ orders[o].firingAt # NoClaim /\ orders[o].firingAt + LEASE <= MAX_TIME)
      ~> (o \notin open \/ orders[o].firingAt = NoClaim)
=============================================================================
