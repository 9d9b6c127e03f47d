----------------------------- MODULE Campaigns -----------------------------
(***************************************************************************)
(* The campaign routes over the pool: campaign-routes.ts with the parts of *)
(* campaign-service.ts, store-neon.ts and pool-buy.ts they run.            *)
(*                                                                         *)
(* A request is handled by one instance and takes a step at every await.   *)
(* Each instance remembers the campaigns it has served; the pool's draws   *)
(* and the session policy are the chain's; slices, answers and the lock of *)
(* the one wallet here are the shared store's.  A transaction is one step: *)
(* the operator lock and its nonces are OwedLedger's.                      *)
(***************************************************************************)
EXTENDS Totals, TLC

CONSTANTS
  Campaigns, Instances,
  Handlers,           \* requests that may be running at once
  Slices,             \* the slices of the one order a campaign has
  Keys,               \* idempotency keys of withdrawals
  NoOne,
  Opened,             \* campaigns that are funded and trading from the start
  Refusing,           \* campaigns with an account that refuses the pool's ETH
  Kinds,              \* requests that are made
  MAX_CALLS,          \* requests made before the world ends
  DEPOSIT,            \* what the wallet holds in the pool
  DRAW,               \* what an activation draws, and a top-up adds
  SEED,               \* what fund() moves into the fleet's accounts
  PRICE,              \* what a buy takes from a draw, its gas included
  PAYOUT,             \* what a withdrawal asks for
  FAILURE_LIMIT,      \* buys that burn gas before a campaign is closed for an hour
  Faults, MaxFaults   \* what may go wrong, and how many kinds of it in one world

ASSUME CampaignNumbers ==
  /\ {DEPOSIT, DRAW, SEED, PRICE, PAYOUT, FAILURE_LIMIT, MAX_CALLS} \subseteq Nat
  /\ SEED <= DRAW /\ Campaigns # {}
  /\ IsFiniteSet(Campaigns) /\ IsFiniteSet(Handlers) /\ IsFiniteSet(Keys)
  /\ NoOne \notin Handlers \cup Slices \cup Keys
  /\ Opened \subseteq Campaigns /\ Refusing \subseteq Campaigns
  /\ Cardinality(Opened) * DRAW <= DEPOSIT
  /\ Kinds \subseteq {"create", "confirm", "activate", "topUp", "trade", "buy",
                      "pause", "resume", "revoke", "close", "withdraw", "sweep"}
  /\ \A f \in Faults : f \in {"crash", "exit", "reverts", "unseen", "rpc", "twin", "moved", "timeout"}

VARIABLES
  draws,              \* FleetPool: each campaign's draw
  sessions,           \* FleetSessionPolicy: each campaign's session
  exit,               \* FleetPool: the wallet asked to leave
  paid,               \* ETH the operator paid out, by key
  late,               \* buys sent whose receipt nobody saw
  bought,             \* how often each slice was bought
  charged,            \* the owed-spend ledger: recorded against the wallet
  claims,             \* fleet_slices
  failures, cooling,  \* fleet_campaign_failures, fleet_campaign_cooldowns
  answers,            \* fleet_idempotency
  lock,               \* the wallet's row of fleet_locks
  records,            \* each instance's #campaigns
  calls,              \* the requests being handled
  told,               \* what the last control of a campaign was answered
  count, happened     \* requests made; what may have cut one short

chain == <<draws, sessions, exit, paid, late, bought>>
store == <<charged, claims, failures, cooling, answers, lock>>
vars  == <<chain, store, records, calls, told, count, happened>>

NoDraw   == [state |-> "None", amount |-> 0, spent |-> 0]
NoRecord == [state |-> "unknown", accounts |-> FALSE]
Idle     == [at |-> "idle"]

\* The faults that happen at most once.
Once == {"crash", "exit", "unseen", "rpc", "timeout"}

Init ==
  /\ draws = [c \in Campaigns |->
       IF c \in Opened THEN [state |-> "Funded", amount |-> DRAW, spent |-> SEED] ELSE NoDraw]
  /\ sessions = [c \in Campaigns |-> IF c \in Opened THEN "open" ELSE "none"]
  /\ exit = FALSE
  /\ paid = [k \in Keys |-> 0]
  /\ late = {}
  /\ bought = [s \in Slices |-> 0]
  /\ charged = Cardinality(Opened) * SEED
  /\ claims = {}
  /\ failures = [c \in Campaigns |-> 0]
  /\ cooling = [c \in Campaigns |-> FALSE]
  /\ answers = {}
  /\ lock = NoOne
  /\ records = [i \in Instances |-> [c \in Campaigns |-> NoRecord]]
  /\ calls = [h \in Handlers |-> Idle]
  /\ told = [c \in Campaigns |-> "nothing"]
  /\ count = 0
  /\ happened = {}

----------------------------------------------------------------------------
(* What the chain and the store say.                                       *)

Outflow == Total(paid) + Total([c \in Campaigns |-> draws[c].spent])

Left(c) == draws[c].amount - draws[c].spent
Live(c) == draws[c].state \in {"Pending", "Funded"}

\* What the wallet may still commit: its deposit less every charge recorded,
\* queued or posted, and every draw still standing.
Available ==
  LET held == charged + Total([c \in Campaigns |-> IF Live(c) THEN draws[c].amount ELSE 0])
  IN  IF held < DEPOSIT THEN DEPOSIT - held ELSE 0

\* The state a campaign is restored in by an instance that never saw it.
Drawn(c) ==
  IF sessions[c] = "revoked" THEN "Revoked"
  ELSE IF draws[c].state = "Closed" THEN "Closed"
  ELSE IF draws[c].state = "Pending" THEN "Activating"
  ELSE IF Left(c) < PRICE THEN "Depleted"
  ELSE IF sessions[c] = "paused" THEN "Paused" ELSE "Active"

Restorable(c) == sessions[c] # "none" /\ draws[c].state # "None"

\* #syncDraw: what a remembered state becomes when the draw is read.
Synced(state, c) ==
  CASE draws[c].state = "Closed"                             -> "Closed"
    [] state = "Activating" /\ draws[c].state = "Funded"     -> "Active"
    [] state = "Active" /\ draws[c].state = "Pending"        -> "Activating"
    [] OTHER                                                 -> state

\* campaign-state.ts: where each event may be applied, where it leads, and
\* where it is already so.
Rule(event) ==
  CASE event = "confirm"  -> [from |-> {"Awaiting recovery"}, to |-> "Awaiting funding",
                              so |-> {"Awaiting funding", "Activating", "Active"}]
    [] event = "activate" -> [from |-> {"Awaiting funding"}, to |-> "Activating", so |-> {"Activating", "Active"}]
    [] event = "pause"    -> [from |-> {"Active"}, to |-> "Paused", so |-> {"Paused"}]
    [] event = "resume"   -> [from |-> {"Paused"}, to |-> "Active", so |-> {"Active"}]
    [] event = "revoke"   -> [from |-> {"Active", "Paused"}, to |-> "Revoked", so |-> {"Revoked"}]
    [] event = "deplete"  -> [from |-> {"Active", "Paused"}, to |-> "Depleted", so |-> {"Depleted"}]
    [] event = "close"    -> [from |-> {"Active", "Paused", "Revoked", "Depleted"}, to |-> "Closed",
                              so |-> {"Closed"}]

Admits(state, event)     == state \in Rule(event).from \cup Rule(event).so
Transition(state, event) == IF state \in Rule(event).so THEN state ELSE Rule(event).to

----------------------------------------------------------------------------
(* A request.                                                              *)

C(h)     == calls[h].c
State(h) == records[calls[h].inst][C(h)].state

To(h, at)       == calls' = [calls EXCEPT ![h].at = at]
Remembers(h, s) == records' = [records EXCEPT ![calls[h].inst][C(h)].state = s]
Frees(h)        == lock' = IF lock = h THEN NoOne ELSE lock
Refused(h)      == calls' = [calls EXCEPT ![h] = Idle] /\ Frees(h)
Happens(f)      ==
  /\ f \in Faults /\ (f \in Once => f \notin happened)
  /\ Cardinality(happened \cup {f}) <= MaxFaults
  /\ happened' = happened \cup {f}
Draws(c, new)   == draws' = [draws EXCEPT ![c] = new]

FirstStep(kind) == CASE kind = "withdraw" -> "lookup" [] kind = "sweep" -> "sweep" [] OTHER -> "load"

\* Verified, and past the nonce.  A key that is being handled already is asked
\* for again only by a client that did not wait.
Arrive(h, i, kind, c, key, pending) ==
  /\ calls[h] = Idle /\ (count < MAX_CALLS \/ kind = "sweep")
  /\ \A g \in Handlers : calls[g] # Idle /\ calls[g].key = key /\ key # NoOne => "twin" \in Faults
  /\ calls' = [calls EXCEPT ![h] =
       [at |-> FirstStep(kind), inst |-> i, kind |-> kind, c |-> c, key |-> key, todo |-> pending,
        due |-> {}, slice |-> NoOne, before |-> 0, outcome |-> "none"]]
  /\ count' = IF kind = "sweep" THEN count ELSE count + 1
  /\ UNCHANGED <<chain, store, records, told, happened>>

Ask(h, i) ==
  \/ \E kind \in Kinds \ {"create", "trade", "withdraw", "sweep"}, c \in Campaigns : Arrive(h, i, kind, c, NoOne, {})
  \/ "trade" \in Kinds /\ \E c \in Opened, p \in (SUBSET Slices) \ {{}} : Arrive(h, i, "trade", c, NoOne, p)
  \/ "withdraw" \in Kinds /\ \E k \in Keys : Arrive(h, i, "withdraw", CHOOSE c \in Campaigns : TRUE, k, {})
  \/ "sweep" \in Kinds /\ Arrive(h, i, "sweep", CHOOSE c \in Campaigns : TRUE, NoOne, Campaigns)

\* runIdempotent reads the key first.
Lookup(h) ==
  /\ calls[h].at = "lookup"
  /\ IF calls[h].key \in answers THEN calls' = [calls EXCEPT ![h] = Idle] ELSE To(h, "lock")
  /\ UNCHANGED <<chain, store, records, told, count, happened>>

\* ...and writes the answer last: the first one stays.
Put(h) ==
  /\ calls[h].at = "put"
  /\ answers' = answers \cup ({calls[h].key} \ {NoOne})
  /\ told' = IF calls[h].kind \in {"pause", "resume", "revoke", "close"}
             THEN [told EXCEPT ![C(h)] = Rule(calls[h].kind).to] ELSE told
  /\ calls' = [calls EXCEPT ![h] = Idle]
  /\ UNCHANGED <<chain, charged, claims, failures, cooling, lock, records, count, happened>>

\* #create: only the creating instance knows of the campaign.
Create(i, c) ==
  /\ "create" \in Kinds
  /\ sessions[c] = "none" /\ \A j \in Instances : records[j][c] = NoRecord
  /\ records' = [records EXCEPT ![i][c].state = "Awaiting recovery"]
  /\ UNCHANGED <<chain, store, calls, told, count, happened>>

NextStep(kind) ==
  CASE kind = "trade" -> "validate"
    [] kind = "buy" -> "authorize"
    [] kind = "confirm" -> "confirm"
    [] kind \in {"activate", "topUp"} -> "lock"
    [] OTHER -> "control"

\* #campaign: the record, or the one the chain restores, brought up to date
\* with its draw.
Load(h) ==
  LET r == records[calls[h].inst][C(h)]
      known == IF r = NoRecord THEN [state |-> Drawn(C(h)), accounts |-> TRUE] ELSE r
  IN
  /\ calls[h].at = "load"
  /\ IF r = NoRecord /\ ~Restorable(C(h))
     THEN Refused(h) /\ UNCHANGED records
     ELSE /\ records' = [records EXCEPT ![calls[h].inst][C(h)] =
                           [known EXCEPT !.state = Synced(known.state, C(h))]]
          /\ To(h, NextStep(calls[h].kind)) /\ UNCHANGED lock
  /\ UNCHANGED <<chain, charged, claims, failures, cooling, answers, told, count, happened>>

Confirm(h) ==
  /\ calls[h].at = "confirm"
  /\ IF Admits(State(h), "confirm")
     THEN Remembers(h, Transition(State(h), "confirm")) /\ To(h, "put") /\ UNCHANGED lock
     ELSE Refused(h) /\ UNCHANGED records
  /\ UNCHANGED <<chain, charged, claims, failures, cooling, answers, told, count, happened>>

LockedStep(kind) == IF kind \in {"trade", "buy"} THEN "guard" ELSE "check"

\* #serialized: one money operation of the wallet at a time.
Acquire(h) ==
  /\ calls[h].at = "lock"
  /\ lock = NoOne
  /\ lock' = h
  /\ To(h, LockedStep(calls[h].kind))
  /\ UNCHANGED <<chain, charged, claims, failures, cooling, answers, records, told, count, happened>>

\* Whoever waits for the lock for as long as a lease lasts gives up.
GiveUp(h) ==
  /\ calls[h].at = "lock" /\ lock # NoOne
  /\ Happens("timeout")
  /\ Refused(h)
  /\ UNCHANGED <<chain, charged, claims, failures, cooling, answers, records, told, count>>

----------------------------------------------------------------------------
(* Orders and buys.                                                        *)

\* #validatedOrder.
Validate(h) ==
  /\ calls[h].at = "validate"
  /\ IF State(h) = "Active" /\ ~exit /\ PRICE <= Left(C(h)) THEN To(h, "claim") /\ UNCHANGED lock ELSE Refused(h)
  /\ UNCHANGED <<chain, charged, claims, failures, cooling, answers, records, told, count, happened>>

\* Mutant: a slice is looked up, and claimed only when it runs.
ClaimSliceTaken(h, s) ==
  /\ calls[h].at = "claim" /\ s \in calls[h].todo
  /\ calls' = [calls EXCEPT ![h] = [calls[h] EXCEPT !.todo = @ \ {s}, !.due = @ \cup {s}]]
  /\ claims' = claims \cup {s}
  /\ UNCHANGED <<chain, charged, failures, cooling, answers, lock, records, told, count, happened>>

\* #trade claims every slice that is due before it runs one.
ClaimSlice(h, s) ==
  /\ calls[h].at = "claim" /\ s \in calls[h].todo
  /\ calls' = [calls EXCEPT ![h] = [calls[h] EXCEPT
       !.todo = @ \ {s}, !.due = IF s \in claims THEN @ ELSE @ \cup {s}]]
  /\ claims' = claims \cup {s}
  /\ UNCHANGED <<chain, charged, failures, cooling, answers, lock, records, told, count, happened>>

\* The next slice in order, or the answer when none is left.
NextSlice(h) ==
  /\ calls[h].at = "claim" /\ calls[h].todo = {}
  /\ IF calls[h].due = {} THEN To(h, "put")
     ELSE \E s \in calls[h].due :
            calls' = [calls EXCEPT ![h] = [calls[h] EXCEPT !.at = "lock", !.slice = s, !.due = @ \ {s}]]
  /\ UNCHANGED <<chain, store, records, told, count, happened>>

\* #buy, up to its first buy: an open campaign that is not cooling down.
Authorize(h) ==
  /\ calls[h].at = "authorize"
  /\ IF State(h) = "Active" /\ ~cooling[C(h)] THEN To(h, "lock") /\ UNCHANGED lock ELSE Refused(h)
  /\ UNCHANGED <<chain, charged, claims, failures, cooling, answers, records, told, count, happened>>

\* #buyFromPool asks the chain again under the lock.  What it throws ends the
\* request, and the slices it had claimed stay claimed.
Guard(h) ==
  /\ calls[h].at = "guard"
  /\ IF exit \/ sessions[C(h)] # "open"
     THEN /\ Refused(h)
          /\ IF exit THEN UNCHANGED records
             ELSE Remembers(h, IF sessions[C(h)] = "revoked" THEN "Revoked" ELSE "Paused")
     ELSE /\ calls' = [calls EXCEPT ![h] = [calls[h] EXCEPT !.at = "send", !.before = draws[C(h)].spent]]
          /\ UNCHANGED <<lock, records>>
  /\ UNCHANGED <<chain, charged, claims, failures, cooling, answers, told, count, happened>>

\* A price that moved, or a transaction that cannot be made, spends nothing.
Moved(h) ==
  /\ calls[h].at = "send"
  /\ Happens("moved")
  /\ calls' = [calls EXCEPT ![h] = [calls[h] EXCEPT !.at = "rejected", !.outcome = "refused"]]
  /\ UNCHANGED <<chain, store, records, told, count>>

MayBuy(c) == draws[c].state = "Funded" /\ PRICE <= Left(c) /\ sessions[c] = "open"

Buys(c, s) ==
  /\ Draws(c, [draws[c] EXCEPT !.spent = @ + PRICE])
  /\ bought' = IF s \in Slices THEN [bought EXCEPT ![s] = @ + 1] ELSE bought

\* fundAndExecute is mined, or reverts.
Send(h) ==
  /\ calls[h].at = "send"
  /\ \/ /\ MayBuy(C(h))
        /\ Buys(C(h), calls[h].slice)
        /\ calls' = [calls EXCEPT ![h] = [calls[h] EXCEPT !.at = "after", !.outcome = "mined"]]
        /\ UNCHANGED happened
     \/ /\ IF MayBuy(C(h)) THEN Happens("reverts") ELSE UNCHANGED happened
        /\ calls' = [calls EXCEPT ![h] = [calls[h] EXCEPT !.at = "after", !.outcome = "reverted"]]
        /\ UNCHANGED <<draws, bought>>
  /\ UNCHANGED <<sessions, exit, paid, late, store, records, told, count>>

\* Its receipt is not seen in time: it may be mined yet.
Unseen(h) ==
  /\ calls[h].at = "send"
  /\ Happens("unseen")
  /\ late' = late \cup {<<C(h), calls[h].slice, count>>}
  /\ calls' = [calls EXCEPT ![h] = [calls[h] EXCEPT !.at = "after", !.outcome = "unknown"]]
  /\ UNCHANGED <<draws, sessions, exit, paid, bought, store, records, told, count>>

MinedLate(tx) ==
  /\ tx \in late
  /\ late' = late \ {tx}
  /\ IF MayBuy(tx[1]) THEN Buys(tx[1], tx[2]) ELSE UNCHANGED <<draws, bought>>
  /\ UNCHANGED <<sessions, exit, paid, store, records, calls, told, count, happened>>

\* settle(): the draw's spent, read again, says what to charge and, when
\* nobody saw the receipt, whether there was a buy at all.
Judge(h) ==
  LET spent == draws[C(h)].spent
      landed == calls[h].outcome = "mined" \/ (calls[h].outcome = "unknown" /\ spent > calls[h].before)
  IN
  /\ calls[h].at = "after"
  /\ calls' = [calls EXCEPT ![h] = [calls[h] EXCEPT
       !.at = IF landed THEN "charge" ELSE "rejected", !.before = spent - @]]
  /\ UNCHANGED <<chain, store, records, told, count, happened>>

AfterBuy(kind) == IF kind = "trade" THEN "claim" ELSE "count"

\* Mutant: the draw's spent is charged, not what this buy added to it.
ChargeBuyWhole(h) ==
  /\ calls[h].at = "charge"
  /\ charged' = charged + draws[C(h)].spent
  /\ calls' = [calls EXCEPT ![h] = [calls[h] EXCEPT !.at = AfterBuy(calls[h].kind), !.before = 0]]
  /\ Frees(h)
  /\ UNCHANGED <<chain, claims, failures, cooling, answers, records, told, count, happened>>

ChargeBuy(h) ==
  /\ calls[h].at = "charge"
  /\ charged' = charged + calls[h].before
  /\ calls' = [calls EXCEPT ![h] = [calls[h] EXCEPT !.at = AfterBuy(calls[h].kind), !.before = 0]]
  /\ Frees(h)
  /\ UNCHANGED <<chain, claims, failures, cooling, answers, records, told, count, happened>>

\* Mutant: a rejected slice stays claimed.
RejectKeeping(h) ==
  /\ calls[h].at = "rejected"
  /\ calls' = [calls EXCEPT ![h] = [calls[h] EXCEPT !.at = AfterBuy(calls[h].kind), !.before = 0]]
  /\ Frees(h)
  /\ UNCHANGED <<chain, claims, charged, failures, cooling, answers, records, told, count, happened>>

\* A slice that did not buy is given back.
Reject(h) ==
  /\ calls[h].at = "rejected"
  /\ claims' = claims \ {calls[h].slice}
  /\ calls' = [calls EXCEPT ![h] = [calls[h] EXCEPT !.at = AfterBuy(calls[h].kind), !.before = 0]]
  /\ Frees(h)
  /\ UNCHANGED <<chain, charged, failures, cooling, answers, records, told, count, happened>>

\* What #buy does with its results: failures that burned gas are counted, and
\* a draw too small for another buy depletes the campaign.
Count(h) ==
  LET c == C(h)
      closes == calls[h].outcome = "reverted" /\ failures[c] + 1 >= FAILURE_LIMIT
  IN
  /\ calls[h].at = "count"
  /\ failures' = [failures EXCEPT ![c] = IF closes THEN 0 ELSE IF calls[h].outcome = "reverted" THEN @ + 1 ELSE @]
  /\ cooling' = [cooling EXCEPT ![c] = @ \/ closes]
  /\ IF State(h) = "Active" /\ Left(c) < PRICE THEN Remembers(h, Transition(State(h), "deplete"))
     ELSE UNCHANGED records
  /\ To(h, "put")
  /\ UNCHANGED <<chain, charged, claims, answers, lock, told, count, happened>>

Cooled(c) ==
  /\ cooling[c]
  /\ cooling' = [cooling EXCEPT ![c] = FALSE]
  /\ UNCHANGED <<chain, charged, claims, failures, answers, lock, records, calls, told, count, happened>>

----------------------------------------------------------------------------
(* Withdrawals.                                                            *)

\* #withdraw, under the lock, reads the balance...
CheckWithdrawal(h) ==
  /\ calls[h].at = "check" /\ calls[h].kind = "withdraw"
  /\ IF ~exit /\ PAYOUT <= Available THEN To(h, "record") /\ UNCHANGED lock ELSE Refused(h)
  /\ UNCHANGED <<chain, charged, claims, failures, cooling, answers, records, told, count, happened>>

\* ...the charge is recorded...
RecordWithdrawal(h) ==
  /\ calls[h].at = "record"
  /\ charged' = charged + PAYOUT
  /\ To(h, "pay")
  /\ UNCHANGED <<chain, claims, failures, cooling, answers, lock, records, told, count, happened>>

\* ...the operator pays, or cannot and the charge is void...
Pay(h) ==
  /\ calls[h].at = "pay"
  /\ \/ /\ paid' = [paid EXCEPT ![calls[h].key] = @ + PAYOUT]
        /\ To(h, "reread")
        /\ UNCHANGED <<charged, lock, happened>>
     \/ /\ Happens("reverts")
        /\ charged' = charged - PAYOUT
        /\ Refused(h)
        /\ UNCHANGED paid
  /\ UNCHANGED <<draws, sessions, exit, late, bought, claims, failures, cooling, answers, records, told, count>>

\* ...and the balance is read again for the answer, which may fail.
Reread(h) ==
  /\ calls[h].at = "reread"
  /\ \/ To(h, "put") /\ Frees(h) /\ UNCHANGED happened
     \/ Happens("rpc") /\ Refused(h)
  /\ UNCHANGED <<chain, charged, claims, failures, cooling, answers, records, told, count>>

----------------------------------------------------------------------------
(* Activation, top-ups and control.                                        *)

\* Mutant: the cap is asked, the balance is not.
DrawableWithoutBalance == ~exit

\* #requireDrawable.
Drawable == ~exit /\ DRAW <= Available

\* The first look of #activate and #topUp.
CheckDraw(h) ==
  /\ calls[h].at = "check" /\ calls[h].kind # "withdraw"
  /\ IF Drawable /\ (calls[h].kind = "activate" => Admits(State(h), "activate"))
     THEN To(h, IF calls[h].kind = "activate" THEN "open" ELSE "topUp") /\ UNCHANGED lock
     ELSE Refused(h)
  /\ UNCHANGED <<chain, charged, claims, failures, cooling, answers, records, told, count, happened>>

\* chain.activate creates the accounts, again if need be, and opens the
\* session, which the policy does once.
OpenSession(h) ==
  LET r == records[calls[h].inst][C(h)] IN
  /\ calls[h].at = "open"
  /\ IF ~r.accounts /\ sessions[C(h)] # "none"
     THEN Refused(h) /\ UNCHANGED <<sessions, records>>
     ELSE /\ sessions' = IF r.accounts THEN sessions ELSE [sessions EXCEPT ![C(h)] = "open"]
          /\ records' = [records EXCEPT ![calls[h].inst][C(h)].accounts = TRUE]
          /\ To(h, "recheck") /\ UNCHANGED lock
  /\ UNCHANGED <<draws, exit, paid, late, bought, charged, claims, failures, cooling, answers, told, count, happened>>

\* The chain took its time: the balance is read again.
Recheck(h) ==
  /\ calls[h].at = "recheck"
  /\ IF Drawable THEN To(h, "draw") /\ UNCHANGED lock ELSE Refused(h)
  /\ UNCHANGED <<chain, charged, claims, failures, cooling, answers, records, told, count, happened>>

OpenDraw(h) ==
  /\ calls[h].at = "draw"
  /\ IF draws[C(h)].state # "None" THEN Refused(h) /\ UNCHANGED <<draws, records>>
     ELSE /\ Draws(C(h), [state |-> "Pending", amount |-> DRAW, spent |-> 0])
          /\ Remembers(h, Transition(State(h), "activate"))
          /\ To(h, "put") /\ Frees(h)
  /\ UNCHANGED <<sessions, exit, paid, late, bought, charged, claims, failures, cooling, answers, told, count, happened>>

TopUp(h) ==
  /\ calls[h].at = "topUp"
  /\ IF ~Live(C(h)) THEN Refused(h) /\ UNCHANGED <<draws, records>>
     ELSE /\ Draws(C(h), [draws[C(h)] EXCEPT !.amount = @ + DRAW])
          /\ IF State(h) = "Depleted" THEN Remembers(h, "Active") ELSE UNCHANGED records
          /\ To(h, "put") /\ Frees(h)
  /\ UNCHANGED <<sessions, exit, paid, late, bought, charged, claims, failures, cooling, answers, told, count, happened>>

\* #control asks the chain only when the record would move.
Control(h) ==
  /\ calls[h].at = "control"
  /\ IF ~Admits(State(h), calls[h].kind) THEN Refused(h)
     ELSE /\ To(h, IF Transition(State(h), calls[h].kind) # State(h) /\ records[calls[h].inst][C(h)].accounts
                   THEN "session" ELSE "apply")
          /\ UNCHANGED lock
  /\ UNCHANGED <<chain, charged, claims, failures, cooling, answers, records, told, count, happened>>

\* FleetSessionPolicy.pause, resume and revoke; a close revokes.
ControlSession(h) ==
  LET to == CASE calls[h].kind = "pause" -> "paused" [] calls[h].kind = "resume" -> "open" [] OTHER -> "revoked" IN
  /\ calls[h].at = "session"
  /\ IF sessions[C(h)] = "revoked" /\ to # "revoked"
     THEN Refused(h) /\ UNCHANGED <<sessions, happened>>
     ELSE /\ sessions' = [sessions EXCEPT ![C(h)] = to]
          /\ happened' = IF to = "open" THEN happened ELSE happened \cup {"stopped"}
          /\ To(h, "apply") /\ UNCHANGED lock
  /\ UNCHANGED <<draws, exit, paid, late, bought, charged, claims, failures, cooling, answers, records, told, count>>

\* The state the request set out for, whatever the record says by now.
Apply(h) ==
  /\ calls[h].at = "apply"
  /\ Remembers(h, Rule(calls[h].kind).to)
  /\ To(h, IF calls[h].kind = "close" THEN "closeDraw" ELSE "put")
  /\ UNCHANGED <<chain, store, told, count, happened>>

CloseDraw(h) ==
  /\ calls[h].at = "closeDraw"
  /\ IF Live(C(h)) THEN Draws(C(h), [draws[C(h)] EXCEPT !.state = "Closed"]) ELSE UNCHANGED draws
  /\ To(h, "put")
  /\ UNCHANGED <<sessions, exit, paid, late, bought, store, records, told, count, happened>>

----------------------------------------------------------------------------
(* The sweep's funding half.                                               *)

Fundable(c) == draws[c].state = "Pending" /\ sessions[c] # "none" /\ SEED <= Left(c)

\* Mutant: a draw that cannot be funded ends the sweep.
FundAborting(h, c) ==
  /\ calls[h].at = "sweep" /\ c \in calls[h].todo /\ Fundable(c)
  /\ IF c \in Refusing
     THEN calls' = [calls EXCEPT ![h] = [calls[h] EXCEPT !.todo = {}]] /\ UNCHANGED draws
     ELSE /\ calls' = [calls EXCEPT ![h] = [calls[h] EXCEPT !.at = "chargeSeed", !.todo = @ \ {c}]]
          /\ Draws(c, [draws[c] EXCEPT !.state = "Funded", !.spent = @ + SEED])
  /\ UNCHANGED <<sessions, exit, paid, late, bought, store, records, told, count, happened>>

\* Each draw whose wait is over is funded on its own; one that cannot be is
\* passed over.
Fund(h, c) ==
  /\ calls[h].at = "sweep" /\ c \in calls[h].todo /\ Fundable(c)
  /\ IF c \in Refusing
     THEN calls' = [calls EXCEPT ![h] = [calls[h] EXCEPT !.todo = @ \ {c}]] /\ UNCHANGED draws
     ELSE /\ calls' = [calls EXCEPT ![h] = [calls[h] EXCEPT !.at = "chargeSeed", !.todo = @ \ {c}]]
          /\ Draws(c, [draws[c] EXCEPT !.state = "Funded", !.spent = @ + SEED])
  /\ UNCHANGED <<sessions, exit, paid, late, bought, store, records, told, count, happened>>

ChargeSeed(h) ==
  /\ calls[h].at = "chargeSeed"
  /\ charged' = charged + SEED
  /\ To(h, "sweep")
  /\ UNCHANGED <<chain, claims, failures, cooling, answers, lock, records, told, count, happened>>

Swept(h) ==
  /\ calls[h].at = "sweep" /\ \A c \in calls[h].todo : ~Fundable(c)
  /\ To(h, "put")
  /\ UNCHANGED <<chain, store, records, told, count, happened>>

----------------------------------------------------------------------------
(* What else happens.                                                      *)

\* The wallet asks to leave, on the chain and from outside.
RequestExit ==
  /\ ~exit /\ Happens("exit")
  /\ exit' = TRUE
  /\ UNCHANGED <<draws, sessions, paid, late, bought, store, records, calls, told, count>>

\* An instance dies: what it remembers and its requests are gone, and its
\* lock lapses.
Crash(i) ==
  LET dead == {h \in Handlers : calls[h] # Idle /\ calls[h].inst = i} IN
  /\ Happens("crash")
  /\ records' = [records EXCEPT ![i] = [c \in Campaigns |-> NoRecord]]
  /\ calls' = [h \in Handlers |-> IF h \in dead THEN Idle ELSE calls[h]]
  /\ lock' = IF lock \in dead THEN NoOne ELSE lock
  /\ UNCHANGED <<chain, charged, claims, failures, cooling, answers, told, count>>

Step(h) ==
  \/ Lookup(h) \/ Put(h) \/ Load(h) \/ Confirm(h) \/ Acquire(h)
  \/ Validate(h) \/ (\E s \in Slices : ClaimSlice(h, s)) \/ NextSlice(h)
  \/ Authorize(h) \/ Guard(h) \/ Send(h) \/ Judge(h) \/ ChargeBuy(h) \/ Reject(h) \/ Count(h)
  \/ CheckWithdrawal(h) \/ RecordWithdrawal(h) \/ Pay(h) \/ Reread(h)
  \/ CheckDraw(h) \/ OpenSession(h) \/ Recheck(h) \/ OpenDraw(h) \/ TopUp(h)
  \/ Control(h) \/ ControlSession(h) \/ Apply(h) \/ CloseDraw(h)
  \/ (\E c \in Campaigns : Fund(h, c)) \/ ChargeSeed(h) \/ Swept(h)

Next ==
  \/ \E h \in Handlers : Step(h) \/ Moved(h) \/ Unseen(h) \/ GiveUp(h)
  \/ \E h \in Handlers, i \in Instances : Ask(h, i)
  \/ \E i \in Instances, c \in Campaigns : Create(i, c)
  \/ \E c \in Campaigns : Cooled(c)
  \/ \E tx \in late : MinedLate(tx)
  \/ RequestExit
  \/ \E i \in Instances : Crash(i)

Spec == Init /\ [][Next]_vars

\* Instances answer what they were asked, and the sweep is on a clock.
FairSpec ==
  /\ Spec
  /\ \A h \in Handlers : WF_vars(Step(h))
  /\ WF_vars(\E h \in Handlers, i \in Instances : Ask(h, i) /\ calls'[h].kind = "sweep")

----------------------------------------------------------------------------
(* What is true of it.                                                     *)

\* A slice of an order buys at most once, whichever instances its polls reach.
SliceBoughtOnce == \A s \in Slices : bought[s] <= 1

\* ...unless a receipt was not seen: then the slice is given back, and may run
\* again beside a buy that is still to be mined.
SliceBoughtOnceIfSeen == "unseen" \in happened \/ SliceBoughtOnce

\* Holding a slice: claimed, and its buy not decided.
Holds(h, s) ==
  /\ calls[h] # Idle
  /\ \/ s \in calls[h].due
     \/ s = calls[h].slice /\ calls[h].at \in {"lock", "guard", "send", "after", "charge", "rejected"}

\* A claimed slice was bought or is about to be: none is stranded, so that no
\* poll ever runs it again, unless something cut a request short.
StrandedOnlyByAStop ==
  \/ happened \cap {"crash", "exit", "timeout", "stopped"} # {}
  \/ \A s \in claims : bought[s] > 0 \/ \E h \in Handlers : Holds(h, s)

\* Between taking money and recording the charge, or the other way around.
Moving(h) == calls[h] # Idle /\ calls[h].at \in {"after", "charge", "pay", "chargeSeed"}

\* What left the pool and the operator is what the wallet is charged, once no
\* request is half way, whatever ran together.  A buy nobody saw and a request
\* that died may go uncharged; nothing is charged that was not spent.
ChargesMatchSpend ==
  \/ \E h \in Handlers : Moving(h)
  \/ charged = Outflow
  \/ happened \cap {"crash", "unseen"} # {} /\ charged < Outflow

\* What was paid out and spent, and what standing draws may still spend, never
\* come to more than the deposit, whatever was asked for at once.
NeverOvercommitted ==
  Outflow + Total([c \in Campaigns |-> IF Live(c) THEN Left(c) ELSE 0]) <= DEPOSIT

\* A withdrawal asked for again under its key is not paid again.
AtMostOncePerKey == \A k \in Keys : paid[k] <= PAYOUT

\* A fleet whose control was answered "Paused" has its session stopped.
AnsweredPauseStops ==
  \A c \in Campaigns :
    told[c] = "Paused" /\ (\A h \in Handlers : calls[h] = Idle) => sessions[c] # "open"

\* Every draw is funded or closed, whatever another draw's accounts do.
EveryDrawIsFunded ==
  \A c \in Campaigns \ Refusing : draws[c].state = "Pending" ~> draws[c].state # "Pending"
=============================================================================
