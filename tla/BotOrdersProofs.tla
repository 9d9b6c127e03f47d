-------------------------- MODULE BotOrdersProofs --------------------------
(***************************************************************************)
(* What the orders of the bot keep to, for any number of orders, kinds,    *)
(* killed runs and days, when one run of each route is under way at a time *)
(* (OneRunEach): each is called every five minutes and cut off after five. *)
(*                                                                         *)
(* A run works from what it read.  That is sound because nobody else       *)
(* changes an order a run holds, but for cancelling it (AsRead): the cron  *)
(* does not take shields, the watch takes nothing else, and the cron cuts  *)
(* off only claims older than any run.  So what is unclaimed is unsent     *)
(* (Unsent), a slot only moves on, and a count read once is the count.     *)
(***************************************************************************)
EXTENDS BotOrders, TotalsProofs, SequenceTheorems, TLAPS

OneRunEach ==
  /\ \A r, q \in CronRuns : r = q
  /\ \A r, q \in AlarmRuns : r = q

Statuses == {"none", "open", "cancelled", "done", "failed"}
Order    == [status : Statuses, remaining : Int, nextAt : Nat, refusals : Nat,
             firingAt : Nat \union {NoClaim}]
Reads    == UNION {[S -> Order] : S \in SUBSET Orders}

Unclaimed == {"claim", "wait", "refuse", "off"}
Claimed   == {"send", "sent", "cut"}
PCs       == {"pass"} \union Unclaimed \union Claimed
RunRec    == [pc : PCs, at : Nat, executes : Int, order : Orders \union {NoOne}, was : Order,
              cut : Reads, todo : Reads]

OrdersTypeOK ==
  /\ orders \in [Orders -> Order]
  /\ fires \in [Days -> [Orders -> Nat]]
  /\ sends \in [Orders -> Seq(Nat)]
  /\ asked \subseteq Orders
  /\ runs \in [Runs -> RunRec \union {Idle}]
  /\ crashes \in Nat /\ now \in 0..MAX_TIME

\* The orders a run is not done with, and what it takes each to be.
working(run) == run.pc \in Unclaimed \union Claimed
holds(run)   == IF run.pc = "idle" THEN {}
                ELSE DOMAIN run.cut \union DOMAIN run.todo
                       \union (IF working(run) THEN {run.order} ELSE {})
inHand(run)  == IF run.pc \in Claimed THEN [run.was EXCEPT !.firingAt = run.at] ELSE run.was
same(o, read) == orders[o] = read \/ orders[o] = [read EXCEPT !.status = "cancelled"]

\* An order as a run read it, at that instant.
readAt(o, read, at) == read.status = "open" /\ (Kind[o] = "dca" => read.nextAt <= at)

\* What a run cuts off, what it is to do, and what it has in hand.
CutOK(r, run) ==
  \A o \in DOMAIN run.cut :
    /\ r \in CronRuns
    /\ readAt(o, run.cut[o], run.at) /\ same(o, run.cut[o])
    /\ run.cut[o].firingAt # NoClaim /\ run.cut[o].firingAt + LEASE <= run.at

TodoOK(r, run) ==
  \A o \in DOMAIN run.todo :
    /\ (Kind[o] = "shield") <=> (r \in AlarmRuns)
    /\ readAt(o, run.todo[o], run.at) /\ same(o, run.todo[o])
    /\ run.todo[o].firingAt = NoClaim

HandOK(r, run) ==
  working(run) =>
    /\ run.order \in Orders \ DOMAIN run.todo /\ DOMAIN run.cut = {}
    /\ (Kind[run.order] = "shield") <=> (r \in AlarmRuns)
    /\ readAt(run.order, run.was, run.at) /\ same(run.order, inHand(run))
    /\ run.was.firingAt = NoClaim

\* What is about to be sent has not been, and is not yet counted.
SendOK(run) ==
  run.pc = "send" =>
    /\ \A i \in 1..Len(sends[run.order]) : sends[run.order][i] # run.was.nextAt
    /\ Kind[run.order] = "dca" => Len(sends[run.order]) + run.was.remaining <= TIMES

RunOK(r, run) ==
  run.pc # "idle" =>
    /\ run.at <= now /\ now <= run.at + LIFE
    /\ CutOK(r, run) /\ TodoOK(r, run) /\ HandOK(r, run) /\ SendOK(run)

AsRead == \A r \in Runs : RunOK(r, runs[r])

\* A dca's slot is claimed once it is due; no slot after the next was sent, and the next
\* was not while it is unclaimed; what was sent is counted, but for a claim's.
OrderOK(o) ==
  /\ orders[o].firingAt <= now
  /\ Kind[o] = "dca" /\ orders[o].firingAt # NoClaim => orders[o].nextAt <= orders[o].firingAt
  /\ o \in asked => orders[o].status = "none"
  /\ orders[o].status = "none" => sends[o] = <<>>
  /\ \A i \in 1..Len(sends[o]) : sends[o][i] <= orders[o].nextAt
  /\ orders[o].status = "open" /\ orders[o].firingAt = NoClaim =>
       \A i \in 1..Len(sends[o]) : sends[o][i] # orders[o].nextAt
  /\ \A i, j \in 1..Len(sends[o]) : i # j => sends[o][i] # sends[o][j]
  /\ Kind[o] = "dca" =>
       Len(sends[o]) + orders[o].remaining
         <= TIMES + (IF orders[o].firingAt # NoClaim THEN 1 ELSE 0)

Unsent == \A o \in Orders : OrderOK(o)

\* The day's claims, shields aside, are within what the cron's run counts along.
spends(d)  == [o \in Orders |-> IF Kind[o] = "shield" THEN 0 ELSE fires[d][o]]
counted(d) == Total(spends(d))

CountOK(run) ==
  run.pc # "idle" =>
    /\ run.executes >= -1
    /\ run.executes # -1 => counted(day(run.at)) <= run.executes
    /\ run.pc = "claim" => run.executes \in 0..(DAILY_EXECUTES - 1)

Counts == DayBudgetHolds /\ \A r \in CronRuns : CountOK(runs[r])

OrdersInv == OrdersTypeOK /\ AsRead /\ Unsent /\ Counts

----------------------------------------------------------------------------
(* Numbers, orders as read, and who holds them.                            *)

LEMMA Numbers ==
  /\ TIMES \in Nat \ {0} /\ EVERY \in Nat \ {0} /\ LEASE \in Nat /\ MAX_REFUSALS \in Nat
  /\ DAY \in Nat \ {0} /\ LIFE \in Nat /\ LIFE < LEASE /\ DAILY_EXECUTES \in Nat
  /\ MAX_TIME \in Nat /\ IsFiniteSet(Orders)
BY OrderTimes, LeaseOutlastsRun, OrderKinds

\* An instant's day is one of the days.
LEMMA DayOf ==
  ASSUME NEW t \in 0..MAX_TIME
  PROVE  day(t) \in Days
<1>1. ASSUME NEW a \in Nat, NEW b \in Nat, NEW d \in Nat \ {0}, a <= b
      PROVE  a \div d \in 0..(b \div d)
  BY <1>1, Z3
<1>2. t \in Nat /\ t <= MAX_TIME
  BY Numbers
<1> QED BY <1>1, <1>2, Numbers DEF day, Days

LEMMA RunFields ==
  ASSUME OrdersTypeOK, NEW r \in Runs, runs[r].pc # "idle"
  PROVE  runs[r] \in RunRec
BY DEF OrdersTypeOK, Idle

LEMMA ReadFields ==
  ASSUME NEW kept \in Reads
  PROVE  /\ DOMAIN kept \subseteq Orders /\ \A o \in DOMAIN kept : kept[o] \in Order
         /\ \A o : without(kept, o) \in Reads /\ DOMAIN without(kept, o) = DOMAIN kept \ {o}
         /\ \A o : \A p \in DOMAIN kept \ {o} : without(kept, o)[p] = kept[p]
<1>1. PICK S \in SUBSET Orders : kept \in [S -> Order]
  BY DEF Reads
<1>2. DOMAIN kept = S /\ \A o \in S : kept[o] \in Order
  BY <1>1
<1>3. ASSUME NEW o PROVE without(kept, o) \in Reads
  <2>1. without(kept, o) \in [S \ {o} -> Order]
    BY <1>2 DEF without
  <2> QED BY <2>1 DEF Reads
<1> QED BY <1>2, <1>3 DEF without

\* An order that is as it was read is the same but for its status.
LEMMA SameFields ==
  ASSUME NEW o \in Orders, NEW read \in Order, same(o, read)
  PROVE  /\ orders[o].nextAt = read.nextAt /\ orders[o].remaining = read.remaining
         /\ orders[o].firingAt = read.firingAt /\ orders[o].refusals = read.refusals
         /\ orders[o].status \in {read.status, "cancelled"}
         /\ orders[o].status = "open" => orders[o] = read
BY DEF same, Order

LEMMA HandFields ==
  ASSUME NEW run \in RunRec
  PROVE  /\ inHand(run) \in Order /\ inHand(run).status = run.was.status
         /\ inHand(run).nextAt = run.was.nextAt /\ inHand(run).remaining = run.was.remaining
         /\ run.pc \in Claimed => inHand(run).firingAt = run.at
         /\ run.pc \notin Claimed => inHand(run) = run.was
BY DEF inHand, RunRec, Order

\* What a run holds was open, and is neither new nor done with.
LEMMA HeldFields ==
  ASSUME OrdersTypeOK, AsRead, NEW r \in Runs, NEW o \in holds(runs[r])
  PROVE  /\ runs[r].pc # "idle" /\ o \in Orders /\ orders[o].status \in {"open", "cancelled"}
<1>1. runs[r].pc # "idle"
  BY DEF holds
<1>2. runs[r] \in RunRec /\ RunOK(r, runs[r])
  BY <1>1, RunFields DEF AsRead
<1>3. CASE o \in DOMAIN runs[r].cut
  <2>1. o \in Orders /\ runs[r].cut[o] \in Order
    BY <1>2, <1>3, ReadFields DEF RunRec
  <2>2. runs[r].cut[o].status = "open" /\ same(o, runs[r].cut[o])
    BY <1>1, <1>2, <1>3 DEF RunOK, CutOK, readAt
  <2> QED BY <1>1, <2>1, <2>2, SameFields
<1>4. CASE o \in DOMAIN runs[r].todo
  <2>1. o \in Orders /\ runs[r].todo[o] \in Order
    BY <1>2, <1>4, ReadFields DEF RunRec
  <2>2. runs[r].todo[o].status = "open" /\ same(o, runs[r].todo[o])
    BY <1>1, <1>2, <1>4 DEF RunOK, TodoOK, readAt
  <2> QED BY <1>1, <2>1, <2>2, SameFields
<1>5. CASE working(runs[r]) /\ o = runs[r].order
  <2>1. o \in Orders /\ runs[r].was.status = "open" /\ same(o, inHand(runs[r]))
    BY <1>1, <1>2, <1>5 DEF RunOK, HandOK, readAt
  <2> QED BY <1>1, <1>2, <2>1, HandFields, SameFields
<1> QED BY <1>1, <1>3, <1>4, <1>5 DEF holds

\* The cron's run and the watch's hold no order in common.
LEMMA CronAndAlarm ==
  ASSUME OrdersTypeOK, AsRead, NEW c \in CronRuns, NEW a \in AlarmRuns,
         NEW o \in holds(runs[c]), o \in holds(runs[a])
  PROVE  FALSE
<1>1. c \in Runs /\ a \in Runs /\ a \notin CronRuns /\ c \notin AlarmRuns
  BY RunsDiffer DEF Runs
<1>2. /\ runs[c].pc # "idle" /\ runs[c] \in RunRec /\ RunOK(c, runs[c])
      /\ runs[a].pc # "idle" /\ runs[a] \in RunRec /\ RunOK(a, runs[a]) /\ o \in Orders
  BY <1>1, HeldFields, RunFields DEF AsRead
<1>3. /\ o \in DOMAIN runs[a].todo \/ (working(runs[a]) /\ o = runs[a].order)
      /\ Kind[o] = "shield"
  BY <1>1, <1>2 DEF holds, RunOK, CutOK, TodoOK, HandOK
<1>4. o \in DOMAIN runs[c].cut
  BY <1>1, <1>2, <1>3 DEF holds, RunOK, TodoOK, HandOK
<1>5. /\ runs[c].cut[o] \in Order /\ orders[o].firingAt = runs[c].cut[o].firingAt
      /\ orders[o].firingAt # NoClaim /\ orders[o].firingAt + LEASE <= runs[c].at
  <2>1. runs[c].cut[o] \in Order
    BY <1>2, <1>4, ReadFields DEF RunRec
  <2>2. /\ same(o, runs[c].cut[o]) /\ runs[c].cut[o].firingAt # NoClaim
        /\ runs[c].cut[o].firingAt + LEASE <= runs[c].at
    BY <1>2, <1>4 DEF RunOK, CutOK
  <2> QED BY <1>2, <2>1, <2>2, SameFields
<1>6. CASE o \in DOMAIN runs[a].todo
  <2>1. runs[a].todo[o] \in Order
    BY <1>2, <1>6, ReadFields DEF RunRec
  <2>2. same(o, runs[a].todo[o]) /\ runs[a].todo[o].firingAt = NoClaim
    BY <1>2, <1>6 DEF RunOK, TodoOK
  <2> QED BY <1>2, <1>5, <2>1, <2>2, SameFields
<1>7. CASE working(runs[a]) /\ o = runs[a].order
  <2>1. same(o, inHand(runs[a])) /\ runs[a].was.firingAt = NoClaim
    BY <1>2, <1>7 DEF RunOK, HandOK
  <2>2. orders[o].firingAt = inHand(runs[a]).firingAt /\ inHand(runs[a]) \in Order
    BY <1>2, <2>1, HandFields, SameFields
  <2>3. runs[a].pc \in Claimed /\ orders[o].firingAt = runs[a].at
    BY <1>2, <1>5, <2>1, <2>2, HandFields
  <2>4. /\ runs[c].at <= now /\ now <= runs[a].at + LIFE
        /\ runs[c].at \in Nat /\ runs[a].at \in Nat /\ now \in Nat
    BY <1>2 DEF RunOK, RunRec, OrdersTypeOK
  <2> QED BY <1>5, <2>3, <2>4, Numbers
<1> QED BY <1>3, <1>6, <1>7

LEMMA Alone ==
  ASSUME OrdersTypeOK, AsRead, OneRunEach, NEW r \in Runs, NEW q \in Runs, r # q,
         NEW o \in holds(runs[r])
  PROVE  o \notin holds(runs[q])
<1>1. (r \in CronRuns /\ q \in AlarmRuns) \/ (r \in AlarmRuns /\ q \in CronRuns)
  BY DEF Runs, OneRunEach
<1> QED BY <1>1, CronAndAlarm

\* A run is as well as it was if of what it holds no order changed, but was cancelled.
LEMMA RunKept ==
  ASSUME OrdersTypeOK, NEW r \in Runs, NEW run \in RunRec \union {Idle}, RunOK(r, run),
         \A o \in holds(run) :
           /\ orders'[o] = orders[o] \/ orders'[o] = [orders[o] EXCEPT !.status = "cancelled"]
           /\ sends'[o] = sends[o],
         run.pc # "idle" => run.at <= now' /\ now' <= run.at + LIFE
  PROVE  RunOK(r, run)'
<1> SUFFICES ASSUME run.pc # "idle"
             PROVE  CutOK(r, run)' /\ TodoOK(r, run)' /\ HandOK(r, run)' /\ SendOK(run)'
  BY DEF RunOK
<1>1. run \in RunRec /\ CutOK(r, run) /\ TodoOK(r, run) /\ HandOK(r, run) /\ SendOK(run)
  BY DEF RunOK, Idle
<1>2. ASSUME NEW o \in holds(run), NEW read, same(o, read)
      PROVE  orders'[o] = read \/ orders'[o] = [read EXCEPT !.status = "cancelled"]
  BY <1>2 DEF same
<1>3. CutOK(r, run)'
  BY <1>1, <1>2 DEF CutOK, holds, readAt, same
<1>4. TodoOK(r, run)'
  BY <1>1, <1>2 DEF TodoOK, holds, readAt, same
<1>5. HandOK(r, run)'
  BY <1>1, <1>2 DEF HandOK, holds, readAt, same, working, inHand
<1>6. SendOK(run)'
  <2>1. run.pc = "send" => run.order \in holds(run)
    BY DEF holds, working, Claimed
  <2> QED BY <1>1, <2>1 DEF SendOK
<1> QED BY <1>3, <1>4, <1>5, <1>6

----------------------------------------------------------------------------
(* A run that moves on.                                                    *)

\* A step of one run, which writes no order but those it holds.
Steps(r, new) ==
  /\ Go(r, new) /\ new \in RunRec \union {Idle}
  /\ \A o \in Orders \ holds(runs[r]) : orders'[o] = orders[o] /\ sends'[o] = sends[o]
  /\ now' = now

LEMMA StepsFacts ==
  ASSUME OrdersInv, NEW r \in Runs, NEW new, Steps(r, new)
  PROVE  /\ runs' \in [Runs -> RunRec \union {Idle}] /\ runs'[r] = new
         /\ \A q \in Runs : q # r => runs'[q] = runs[q]
BY DEF OrdersInv, OrdersTypeOK, Steps, Go

LEMMA AsReadStep ==
  ASSUME OrdersInv, OneRunEach, NEW r \in Runs, NEW new, Steps(r, new), RunOK(r, new)'
  PROVE  AsRead'
<1>1. /\ runs' \in [Runs -> RunRec \union {Idle}] /\ runs'[r] = new
      /\ \A q \in Runs : q # r => runs'[q] = runs[q]
  BY StepsFacts
<1>2. ASSUME NEW q \in Runs PROVE RunOK(q, runs[q])'
  <2>1. CASE q = r
    BY <1>1, <2>1 DEF RunOK, CutOK, TodoOK, HandOK, SendOK, readAt, same, inHand, working
  <2>2. CASE q # r
    <3>1. PICK run \in RunRec \union {Idle} : run = runs[q]
      BY DEF OrdersInv, OrdersTypeOK
    <3>2. RunOK(q, run)
      BY <3>1 DEF OrdersInv, AsRead
    <3>3. ASSUME NEW o \in holds(run) PROVE orders'[o] = orders[o] /\ sends'[o] = sends[o]
      <4>1. o \in Orders /\ o \notin holds(runs[r])
        BY <2>2, <3>1, <3>3, Alone, HeldFields DEF OrdersInv
      <4> QED BY <4>1 DEF Steps
    <3>4. run.pc # "idle" => run.at <= now' /\ now' <= run.at + LIFE
      BY <3>2 DEF RunOK, Steps
    <3>5. RunOK(q, run)'
      BY <3>2, <3>3, <3>4, RunKept DEF OrdersInv
    <3>6. runs'[q] = run
      BY <1>1, <2>2, <3>1
    <3> QED
      BY <3>5, <3>6
         DEF RunOK, CutOK, TodoOK, HandOK, SendOK, readAt, same, inHand, working
  <2> QED BY <2>1, <2>2
<1> QED BY <1>2 DEF AsRead

\* Done with what it had in hand, a run goes on with the rest of its list.
LEMMA NextOK ==
  ASSUME OrdersTypeOK, NEW r \in Runs, NEW run \in RunRec, DOMAIN run.cut = {},
         run.at <= now, now <= run.at + LIFE, TodoOK(r, run)
  PROVE  /\ next(run) \in RunRec \union {Idle} /\ RunOK(r, next(run))
         /\ holds(next(run)) \subseteq DOMAIN run.todo
         /\ next(run).pc # "idle" => next(run).pc = "pass" /\ next(run).at = run.at
                                     /\ next(run).executes = run.executes
<1> DEFINE on == [run EXCEPT !.pc = "pass", !.order = NoOne, !.was = NoOrder]
<1>1. NoOrder \in Order
  BY DEF NoOrder, Order, Statuses, NoClaim, Never
<1>2. /\ on \in RunRec /\ on.pc = "pass" /\ on.at = run.at /\ on.cut = run.cut
      /\ on.todo = run.todo /\ on.executes = run.executes
  BY <1>1 DEF RunRec, PCs
<1>3. next(run) = IF DOMAIN run.todo = {} THEN Idle ELSE on
  BY DEF next
<1> HIDE DEF on
<1>4. RunOK(r, on) /\ ~working(on)
  BY <1>2 DEF RunOK, CutOK, TodoOK, HandOK, SendOK, working, Unclaimed, Claimed
<1>5. holds(on) \subseteq DOMAIN run.todo
  BY <1>2, <1>4 DEF holds
<1>6. Idle.pc = "idle" /\ RunOK(r, Idle) /\ holds(Idle) = {}
  BY DEF Idle, RunOK, holds
<1> QED BY <1>2, <1>3, <1>4, <1>5, <1>6

LEMMA CountsKept ==
  ASSUME OrdersInv, NEW r \in Runs, NEW new, Steps(r, new), UNCHANGED fires,
         r \in CronRuns => CountOK(new)
  PROVE  Counts'
<1>1. \A q \in CronRuns : CountOK(runs'[q])
  BY StepsFacts DEF OrdersInv, Counts, Runs
<1>2. \A q \in CronRuns : CountOK(runs[q])'
  BY <1>1 DEF CountOK, counted, spends
<1> QED BY <1>2 DEF OrdersInv, Counts, DayBudgetHolds

\* A step that only moves a run on.
LEMMA StillStep ==
  ASSUME OrdersInv, OneRunEach, NEW r \in Runs, NEW new \in RunRec \union {Idle}, Go(r, new),
         UNCHANGED <<orders, fires, sends, asked, now>>, crashes' \in Nat,
         RunOK(r, new), r \in CronRuns => CountOK(new)
  PROVE  OrdersInv'
<1>1. Steps(r, new)
  BY DEF Steps
<1>2. RunOK(r, new)'
  BY DEF RunOK, CutOK, TodoOK, HandOK, SendOK, readAt, same, inHand, working
<1>3. AsRead'
  BY <1>1, <1>2, AsReadStep
<1>4. /\ runs' \in [Runs -> RunRec \union {Idle}] /\ runs'[r] = new
      /\ \A q \in Runs : q # r => runs'[q] = runs[q]
  BY <1>1, StepsFacts
<1>5. OrdersTypeOK'
  BY <1>4 DEF OrdersInv, OrdersTypeOK
<1>6. Unsent'
  BY DEF OrdersInv, Unsent, OrderOK
<1>7. Counts'
  BY <1>1, CountsKept
<1> QED BY <1>3, <1>5, <1>6, <1>7 DEF OrdersInv

LEMMA IdleOK ==
  ASSUME NEW r PROVE RunOK(r, Idle) /\ CountOK(Idle)
BY DEF RunOK, CountOK, Idle

LEMMA CrashStep ==
  ASSUME OrdersInv, OneRunEach, NEW r \in Runs, Crash(r) \/ Ends(r)
  PROVE  OrdersInv'
BY IdleOK, StillStep DEF Crash, Ends, stay, OrdersInv, OrdersTypeOK

LEMMA StartStep ==
  ASSUME OrdersInv, OneRunEach, NEW r \in Runs,
         (r \in CronRuns /\ StartRun(r)) \/ (r \in AlarmRuns /\ FireShields(r))
  PROVE  OrdersInv'
<1> USE DEF OrdersInv
<1>1. PICK cut, todo :
        /\ Begins(r, cut, todo)
        /\ cut \subseteq open /\ todo \subseteq open
        /\ \A o \in cut : r \in CronRuns /\ stale(o, now)
        /\ \A o \in todo : /\ orders[o].firingAt = NoClaim
                           /\ (Kind[o] = "shield") <=> (r \in AlarmRuns)
                           /\ Kind[o] = "dca" => orders[o].nextAt <= now
  <2>1. CASE r \in CronRuns /\ StartRun(r)
    <3>1. r \notin AlarmRuns
      BY <2>1, RunsDiffer
    <3>2. /\ \A o \in {p \in open : stale(p, now)} : r \in CronRuns /\ stale(o, now)
          /\ \A o \in {p \in open : due(p, now)} :
               /\ orders[o].firingAt = NoClaim
               /\ (Kind[o] = "shield") <=> (r \in AlarmRuns)
               /\ Kind[o] = "dca" => orders[o].nextAt <= now
      BY <2>1, <3>1 DEF due
    <3> QED BY <2>1, <3>2 DEF StartRun
  <2>2. CASE r \in AlarmRuns /\ FireShields(r)
    <3>1. /\ \A o \in {} : r \in CronRuns /\ stale(o, now)
          /\ \A o \in {p \in open : shield(p)} :
               /\ orders[o].firingAt = NoClaim
               /\ (Kind[o] = "shield") <=> (r \in AlarmRuns)
               /\ Kind[o] = "dca" => orders[o].nextAt <= now
      BY <2>2 DEF shield
    <3> QED BY <2>2, <3>1 DEF FireShields
  <2> QED BY <2>1, <2>2
<1> DEFINE read(S) == [o \in S |-> orders[o]]
           fresh   == -1
           new     == [pc |-> "pass", at |-> now, executes |-> fresh, order |-> NoOne,
                       was |-> NoOrder, cut |-> read(cut), todo |-> read(todo)]
<1>2. /\ cut \subseteq Orders /\ todo \subseteq Orders
      /\ \A o \in cut \union todo : orders[o].status = "open"
  BY <1>1 DEF open
<1>3. read(cut) \in Reads /\ read(todo) \in Reads
  <2>1. read(cut) \in [cut -> Order] /\ read(todo) \in [todo -> Order]
    BY <1>2 DEF OrdersTypeOK
  <2> QED BY <1>2, <2>1 DEF Reads
<1>4. new \in RunRec
  <2>1. /\ NoOrder \in Order /\ now \in Nat /\ fresh \in Int /\ "pass" \in PCs
        /\ NoOne \in Orders \union {NoOne}
    BY Numbers DEF OrdersTypeOK, NoOrder, Order, Statuses, NoClaim, Never, PCs
  <2> HIDE DEF read, fresh
  <2> QED BY <1>3, <2>1 DEF RunRec
<1>5. Go(r, new) /\ UNCHANGED <<orders, fires, sends, asked, crashes, now>>
  BY <1>1 DEF Begins, stay
<1>6. now \in Nat /\ LEASE \in Nat /\ LIFE \in Nat
  BY Numbers DEF OrdersTypeOK
<1>7. CutOK(r, new)
  <2>1. ASSUME NEW o \in cut
        PROVE  /\ r \in CronRuns
               /\ Kind[o] = "dca" => orders[o].nextAt <= now
               /\ orders[o].firingAt # NoClaim /\ orders[o].firingAt + LEASE <= now
    <3>1. /\ r \in CronRuns /\ orders[o].firingAt # NoClaim /\ now - orders[o].firingAt >= LEASE
      BY <1>1 DEF stale
    <3>2. /\ orders[o].firingAt \in Nat /\ orders[o].nextAt \in Nat
          /\ orders[o].firingAt <= now
          /\ Kind[o] = "dca" => orders[o].nextAt <= orders[o].firingAt
      BY <1>2, <3>1 DEF OrdersTypeOK, Order, Unsent, OrderOK
    <3> QED BY <1>6, <3>1, <3>2
  <2> QED BY <1>2, <2>1 DEF CutOK, readAt, same
<1>8. TodoOK(r, new)
  BY <1>1, <1>2 DEF TodoOK, readAt, same
<1>9. RunOK(r, new)
  BY <1>6, <1>7, <1>8 DEF RunOK, HandOK, SendOK, working, Unclaimed, Claimed
<1>10. CountOK(new)
  BY DEF CountOK
<1> HIDE DEF new
<1> QED BY <1>4, <1>5, <1>9, <1>10, StillStep DEF OrdersTypeOK

LEMMA JudgeStep ==
  ASSUME OrdersInv, OneRunEach, NEW r \in Runs, NEW o \in Orders,
         NEW verdict \in {"skip", "wait", "refuse", "off", "claim"}, Judge(r, o, verdict)
  PROVE  OrdersInv'
<1> DEFINE run  == runs[r]
           left == [run EXCEPT !.todo = without(@, o)]
           took == [left EXCEPT !.pc = verdict, !.order = o, !.was = run.todo[o],
                                !.executes = IF verdict = "claim" THEN budget(run) ELSE @]
<1> USE DEF OrdersInv
<1>1. /\ run.pc = "pass" /\ DOMAIN run.cut = {} /\ o \in DOMAIN run.todo
      /\ verdict \in verdicts(o, run)
      /\ Go(r, IF verdict = "skip" THEN next(left) ELSE took)
      /\ UNCHANGED <<orders, fires, sends, asked, crashes, now>>
  BY DEF Judge, stay
<1>2. run \in RunRec /\ RunOK(r, run) /\ (r \in CronRuns => CountOK(run))
  BY <1>1, RunFields DEF AsRead, Counts
<1> HIDE DEF run
<1>3. /\ without(run.todo, o) \in Reads /\ DOMAIN without(run.todo, o) = DOMAIN run.todo \ {o}
      /\ \A p \in DOMAIN run.todo \ {o} : without(run.todo, o)[p] = run.todo[p]
      /\ run.todo[o] \in Order
  BY <1>1, <1>2, ReadFields DEF RunRec
<1>4. /\ left \in RunRec /\ left.cut = run.cut /\ left.at = run.at /\ left.pc = "pass"
      /\ left.todo = without(run.todo, o) /\ left.executes = run.executes
  BY <1>1, <1>2, <1>3 DEF RunRec
<1> HIDE DEF left
<1>5. TodoOK(r, left) /\ left.at <= now /\ now <= left.at + LIFE
  BY <1>1, <1>2, <1>3, <1>4 DEF TodoOK, RunOK
<1>6. CASE verdict = "skip"
  <2>1. /\ next(left) \in RunRec \union {Idle} /\ RunOK(r, next(left))
        /\ next(left).pc # "idle" => next(left).pc = "pass" /\ next(left).at = run.at
                                     /\ next(left).executes = run.executes
    BY <1>1, <1>4, <1>5, NextOK
  <2>2. r \in CronRuns => CountOK(next(left))
    BY <1>1, <1>2, <2>1 DEF CountOK
  <2> QED BY <1>1, <1>6, <2>1, <2>2, StillStep DEF OrdersTypeOK
<1>7. CASE verdict # "skip"
  <2>1. verdict \in Unclaimed /\ verdict \in PCs
    BY <1>7 DEF Unclaimed, PCs
  <2>2. /\ budget(run) \in Int
        /\ run.executes = -1 => budget(run) \in Nat /\ counted(day(run.at)) <= budget(run)
    <3>1. day(run.at) \in Days
      <4>1. run.at \in 0..MAX_TIME
        BY <1>1, <1>2, Numbers DEF RunOK, RunRec, OrdersTypeOK
      <4> QED BY <4>1, DayOf
    <3>2. PICK d \in Days : d = day(run.at)
      BY <3>1
    <3>3. fires[d] \in [Orders -> Nat] /\ spends(d) \in [Orders -> Nat]
      BY DEF OrdersTypeOK, spends
    <3>4. \A p \in Orders : spends(d)[p] <= fires[d][p]
      BY <3>3 DEF spends
    <3>5. Total(spends(d)) <= Total(fires[d])
      BY <3>3, <3>4, Numbers, TotalMonotone
    <3>6. Total(fires[d]) \in Nat
      BY <3>3, Numbers, TotalType
    <3>7. firesSince(day(run.at)) = Total(fires[d]) /\ counted(day(run.at)) = Total(spends(d))
      BY <3>2 DEF firesSince, counted
    <3>8. run.executes \in Int
      BY <1>2 DEF RunRec
    <3> QED BY <3>5, <3>6, <3>7, <3>8 DEF budget
  <2>3. /\ took \in RunRec /\ took.pc = verdict /\ took.order = o /\ took.was = run.todo[o]
        /\ took.at = run.at /\ took.cut = run.cut /\ took.todo = without(run.todo, o)
        /\ took.executes = IF verdict = "claim" THEN budget(run) ELSE run.executes
    <3>1. took.executes = IF verdict = "claim" THEN budget(run) ELSE run.executes
      BY <1>4 DEF RunRec
    <3> QED BY <1>3, <1>4, <2>1, <2>2, <3>1 DEF RunRec
  <2> HIDE DEF took
  <2>4. RunOK(r, took)
    <3>1. TodoOK(r, took)
      BY <1>4, <1>5, <2>3 DEF TodoOK
    <3>2. CutOK(r, took) /\ SendOK(took) /\ took.at <= now /\ now <= took.at + LIFE
      BY <1>1, <1>4, <1>5, <2>1, <2>3 DEF CutOK, SendOK, Unclaimed
    <3>3. inHand(took) = run.todo[o]
      BY <2>1, <2>3 DEF inHand, Unclaimed, Claimed
    <3>4. /\ (Kind[o] = "shield") <=> (r \in AlarmRuns)
          /\ readAt(o, run.todo[o], run.at) /\ same(o, run.todo[o])
          /\ run.todo[o].firingAt = NoClaim
      BY <1>1, <1>2 DEF RunOK, TodoOK
    <3>5. HandOK(r, took)
      BY <1>1, <1>3, <2>3, <3>3, <3>4 DEF HandOK
    <3> QED BY <3>1, <3>2, <3>5 DEF RunOK
  <2>5. ASSUME r \in CronRuns PROVE CountOK(took)
    <3>1. Kind[o] # "shield"
      BY <1>1, <1>2, <2>5, RunsDiffer DEF RunOK, TodoOK
    <3>2. verdict = "claim" => budget(run) < DAILY_EXECUTES
      BY <1>1, <3>1 DEF verdicts
    <3>3. /\ run.executes >= -1 /\ run.executes \in Int
          /\ run.executes # -1 => counted(day(run.at)) <= run.executes
      BY <1>1, <1>2, <2>5 DEF CountOK, RunRec
    <3>4. verdict = "claim" => budget(run) >= 0 /\ counted(day(run.at)) <= budget(run)
      <4>1. CASE run.executes = -1
        BY <2>2, <4>1
      <4>2. CASE run.executes # -1
        BY <3>3, <4>2 DEF budget
      <4> QED BY <4>1, <4>2
    <3>5. verdict = "claim" => budget(run) \in 0..(DAILY_EXECUTES - 1)
      BY <2>2, <3>2, <3>4, Numbers
    <3>6. CASE verdict = "claim"
      BY <2>3, <3>4, <3>5, <3>6 DEF CountOK
    <3>7. CASE verdict # "claim"
      BY <2>3, <3>3, <3>7 DEF CountOK
    <3> QED BY <3>6, <3>7
  <2> QED BY <1>1, <1>7, <2>3, <2>4, <2>5, StillStep DEF OrdersTypeOK
<1> QED BY <1>6, <1>7

----------------------------------------------------------------------------
(* What a settle writes.                                                   *)

\* An order open as it is, once what became of it is written.
Settles(o, written) ==
  /\ written \in Order /\ written.status # "none"
  /\ written.nextAt >= orders[o].nextAt
  /\ written.status = "open" =>
       \/ written.nextAt > orders[o].nextAt
       \/ written.nextAt = orders[o].nextAt /\ orders[o].firingAt = NoClaim
  /\ Kind[o] = "dca" =>
       written.remaining <= orders[o].remaining - (IF orders[o].firingAt # NoClaim THEN 1 ELSE 0)

\* A run that settles an order it holds, and has it no more.
LEMMA SettleStep ==
  ASSUME OrdersInv, OneRunEach, NEW r \in Runs, NEW new \in RunRec \union {Idle}, Go(r, new),
         NEW o \in holds(runs[r]), NEW written, settle(o, written), o \in open => Settles(o, written),
         UNCHANGED <<fires, sends, asked, crashes, now>>,
         RunOK(r, new), o \notin holds(new), r \in CronRuns => CountOK(new)
  PROVE  OrdersInv'
<1> USE DEF OrdersInv
<1>1. o \in Orders /\ orders[o].status \in {"open", "cancelled"}
  BY HeldFields
<1>2. /\ orders' \in [Orders -> Order]
      /\ \A p \in Orders \ {o} : orders'[p] = orders[p]
      /\ o \in open => orders'[o] = [written EXCEPT !.firingAt = NoClaim]
      /\ o \notin open => orders'[o] = orders[o]
  <2>1. CASE o \in open
    <3>1. [written EXCEPT !.firingAt = NoClaim] \in Order
      BY <2>1 DEF Settles, Order, NoClaim
    <3>2. orders' = [orders EXCEPT ![o] = [written EXCEPT !.firingAt = NoClaim]]
      BY <2>1 DEF settle
    <3> QED BY <1>1, <2>1, <3>1, <3>2 DEF OrdersTypeOK
  <2>2. CASE o \notin open
    BY <1>1, <2>2 DEF settle, OrdersTypeOK
  <2> QED BY <2>1, <2>2
<1>3. Steps(r, new)
  BY <1>2 DEF Steps
<1>4. RunOK(r, new)'
  <2>1. PICK run \in RunRec \union {Idle} : run = new
    OBVIOUS
  <2>2. ASSUME NEW p \in holds(run) PROVE orders'[p] = orders[p] /\ sends'[p] = sends[p]
    <3>1. p # o
      BY <2>1, <2>2
    <3>2. p \in Orders
      <4>1. run \in RunRec
        BY <2>2 DEF holds, Idle
      <4>2. DOMAIN run.cut \subseteq Orders /\ DOMAIN run.todo \subseteq Orders
        BY <4>1, ReadFields DEF RunRec
      <4>3. working(run) => run.order \in Orders
        BY <2>1 DEF RunOK, HandOK, working, Unclaimed, Claimed
      <4> QED BY <2>2, <4>2, <4>3 DEF holds
    <3> QED BY <1>2, <3>1, <3>2
  <2>3. run.pc # "idle" => run.at <= now' /\ now' <= run.at + LIFE
    BY <2>1 DEF RunOK
  <2> QED BY <2>1, <2>2, <2>3, RunKept
<1>5. AsRead'
  BY <1>3, <1>4, AsReadStep
<1>6. runs' \in [Runs -> RunRec \union {Idle}]
  BY <1>3, StepsFacts
<1>7. OrdersTypeOK'
  BY <1>2, <1>6 DEF OrdersTypeOK
<1>8. Counts'
  BY <1>3, CountsKept
<1>9. Unsent'
  <2>1. ASSUME NEW p \in Orders, p # o \/ p \notin open PROVE OrderOK(p)'
    BY <1>2, <2>1 DEF Unsent, OrderOK
  <2>2. ASSUME o \in open PROVE OrderOK(o)'
    <3> DEFINE is == orders'[o]
    <3>1. Settles(o, written) /\ OrderOK(o) /\ orders[o] \in Order
      BY <1>1, <2>2 DEF Unsent, OrdersTypeOK
    <3>2. /\ is.firingAt = NoClaim /\ is.status = written.status /\ is.nextAt = written.nextAt
          /\ is.remaining = written.remaining
          /\ is.status # "none" /\ is.nextAt \in Nat /\ is.remaining \in Int
      BY <1>2, <2>2, <3>1 DEF Settles, Order
    <3> HIDE DEF is
    <3>3. /\ orders[o].nextAt \in Nat /\ orders[o].remaining \in Int /\ sends[o] \in Seq(Nat)
          /\ Len(sends[o]) \in Nat /\ \A i \in 1..Len(sends[o]) : sends[o][i] \in Nat
      BY <1>1, <3>1 DEF Order, OrdersTypeOK
    <3>4. o \notin asked
      BY <1>1, <3>1 DEF OrderOK
    <3>5. \A i \in 1..Len(sends[o]) : sends[o][i] <= is.nextAt
      BY <3>1, <3>2, <3>3 DEF OrderOK, Settles
    <3>6. is.status = "open" => \A i \in 1..Len(sends[o]) : sends[o][i] # is.nextAt
      <4>1. CASE is.nextAt > orders[o].nextAt
        BY <3>1, <3>2, <3>3, <4>1 DEF OrderOK
      <4>2. CASE is.nextAt = orders[o].nextAt /\ orders[o].firingAt = NoClaim
        BY <2>2, <3>1, <4>2 DEF OrderOK, open
      <4> QED BY <3>1, <3>2, <4>1, <4>2 DEF Settles
    <3>7. Kind[o] = "dca" => Len(sends[o]) + is.remaining <= TIMES
      BY <3>1, <3>2, <3>3, Numbers DEF OrderOK, Settles
    <3>8. \A i, j \in 1..Len(sends[o]) : i # j => sends[o][i] # sends[o][j]
      BY <3>1 DEF OrderOK
    <3>9. is.firingAt <= now'
      BY <3>2, Numbers DEF NoClaim, OrdersTypeOK
    <3> QED BY <3>2, <3>4, <3>5, <3>6, <3>7, <3>8, <3>9, Numbers DEF OrderOK, is
  <2> QED BY <2>1, <2>2 DEF Unsent
<1> QED BY <1>5, <1>7, <1>8, <1>9

\* What Spent, Skipped and Refused make of an order as it was read.
LEMMA SpentFacts ==
  ASSUME NEW o \in Orders, NEW was \in Order, NEW at \in Nat, NEW closes \in {"done", "failed"},
         was.status = "open", Kind[o] = "dca" => was.nextAt <= at
  PROVE  LET spent == Spent(o, was, at, closes)
         IN  /\ spent \in Order /\ spent.status # "none" /\ spent.nextAt >= was.nextAt
             /\ spent.status = "open" => spent.nextAt > was.nextAt
             /\ Kind[o] = "dca" => spent.remaining = was.remaining - 1
<1>1. EVERY \in Nat /\ EVERY > 0 /\ was.nextAt \in Nat /\ was.remaining \in Int
  BY Numbers DEF Order
<1>2. CASE Kind[o] = "dca"
  <2> DEFINE status == IF was.remaining <= 1 THEN "done" ELSE "open"
             left   == was.remaining - 1
             slot   == at + EVERY
             spent  == [was EXCEPT !.remaining = left, !.nextAt = slot, !.status = status]
  <2>1. /\ status \in Statuses /\ status # "none" /\ left \in Int /\ slot \in Nat
        /\ slot > was.nextAt /\ slot >= was.nextAt
    BY <1>1, <1>2 DEF Statuses
  <2> HIDE DEF status, left, slot
  <2>2. /\ spent \in Order /\ spent.status = status /\ spent.nextAt = slot
        /\ spent.remaining = left
    BY <2>1 DEF Order
  <2>3. Spent(o, was, at, closes) = spent
    BY <1>2 DEF Spent, status, left, slot
  <2> QED BY <2>1, <2>2, <2>3 DEF left
<1>3. CASE Kind[o] # "dca"
  <2>1. Spent(o, was, at, closes) = [was EXCEPT !.status = closes] /\ closes \in Statuses
    BY <1>3 DEF Spent, Statuses
  <2>2. LET spent == [was EXCEPT !.status = closes]
        IN  spent \in Order /\ spent.status = closes /\ spent.nextAt = was.nextAt
    BY <2>1 DEF Order
  <2> QED BY <1>1, <1>3, <2>1, <2>2
<1> QED BY <1>2, <1>3

LEMMA SkippedFacts ==
  ASSUME NEW o \in Orders, NEW was \in Order, NEW at \in Nat,
         was.status = "open", Kind[o] = "dca" => was.nextAt <= at
  PROVE  LET after == Skipped(o, was, at)
         IN  /\ after \in Order /\ after.status = "open" /\ after.nextAt >= was.nextAt
             /\ after.remaining = was.remaining
<1>1. EVERY \in Nat /\ EVERY > 0 /\ was.nextAt \in Nat
  BY Numbers DEF Order
<1>2. CASE Kind[o] = "dca"
  <2> DEFINE slot  == at + EVERY
             after == [was EXCEPT !.nextAt = slot]
  <2>1. slot \in Nat /\ slot >= was.nextAt
    BY <1>1, <1>2
  <2>2. Skipped(o, was, at) = after
    BY <1>2 DEF Skipped
  <2> HIDE DEF slot
  <2>3. after \in Order /\ after.nextAt = slot /\ after.status = was.status
        /\ after.remaining = was.remaining
    BY <2>1 DEF Order
  <2> QED BY <2>1, <2>2, <2>3
<1>3. CASE Kind[o] # "dca"
  BY <1>1, <1>3 DEF Skipped
<1> QED BY <1>2, <1>3

LEMMA RefusedFacts ==
  ASSUME NEW o \in Orders, NEW was \in Order, NEW at \in Nat,
         was.status = "open", Kind[o] = "dca" => was.nextAt <= at
  PROVE  LET after == Refused(o, was, at)
         IN  /\ after \in Order /\ after.status # "none" /\ after.nextAt >= was.nextAt
             /\ after.remaining = was.remaining
<1> DEFINE refused == [was EXCEPT !.refusals = @ + 1]
           failed  == [refused EXCEPT !.status = "failed"]
<1>1. /\ refused \in Order /\ refused.status = "open" /\ refused.nextAt = was.nextAt
      /\ refused.remaining = was.remaining
  BY DEF Order
<1> HIDE DEF refused
<1>2. /\ failed \in Order /\ failed.status = "failed" /\ failed.nextAt = was.nextAt
      /\ failed.remaining = was.remaining /\ was.nextAt \in Nat
  BY <1>1 DEF Order, Statuses
<1>3. Refused(o, was, at) = failed \/ Refused(o, was, at) = Skipped(o, refused, at)
  BY DEF Refused, refused
<1> HIDE DEF failed
<1>4. LET after == Skipped(o, refused, at)
      IN  /\ after \in Order /\ after.status = "open" /\ after.nextAt >= was.nextAt
          /\ after.remaining = was.remaining
  BY <1>1, SkippedFacts
<1> QED BY <1>2, <1>3, <1>4

\* What a run writes of the order in its hand.
LEMMA WriteStep ==
  ASSUME OrdersInv, OneRunEach, NEW r \in Runs, Write(r)
  PROVE  OrdersInv'
<1> DEFINE run     == runs[r]
           o       == run.order
           written == After(o, run.was, run.at, run.pc)
<1> USE DEF OrdersInv
<1>1. /\ run.pc \in {"sent", "cut", "wait", "refuse", "off"} /\ working(run)
      /\ settle(o, written) /\ Go(r, next(run))
      /\ UNCHANGED <<fires, sends, asked, crashes, now>>
  BY DEF Write, stay, working, Unclaimed, Claimed
<1>2. /\ run \in RunRec /\ run.pc # "idle" /\ RunOK(r, run)
      /\ r \in CronRuns => CountOK(run)
  BY <1>1, RunFields DEF AsRead, Counts
<1> HIDE DEF run
<1>3. /\ o \in Orders \ DOMAIN run.todo /\ DOMAIN run.cut = {} /\ readAt(o, run.was, run.at)
      /\ same(o, inHand(run)) /\ run.was.firingAt = NoClaim /\ run.was \in Order
      /\ run.at \in Nat
  BY <1>1, <1>2 DEF RunOK, HandOK, RunRec
<1>4. o \in holds(runs[r])
  BY <1>1, <1>2 DEF holds, run
<1>5. /\ next(run) \in RunRec \union {Idle} /\ RunOK(r, next(run))
      /\ holds(next(run)) \subseteq DOMAIN run.todo
      /\ next(run).pc # "idle" => next(run).pc = "pass" /\ next(run).at = run.at
                                   /\ next(run).executes = run.executes
  BY <1>2, <1>3, NextOK DEF RunOK
<1>6. r \in CronRuns => CountOK(next(run))
  BY <1>2, <1>5 DEF CountOK
<1>7. /\ orders[o].nextAt = run.was.nextAt /\ orders[o].remaining = run.was.remaining
      /\ orders[o].firingAt = inHand(run).firingAt
  BY <1>2, <1>3, HandFields, SameFields
<1>8. run.was.status = "open" /\ (Kind[o] = "dca" => run.was.nextAt <= run.at)
  BY <1>3 DEF readAt
<1>9. /\ run.was.nextAt \in Nat /\ run.was.remaining \in Int /\ o \in Orders
  BY <1>3 DEF Order
<1>10. Settles(o, written)
  <2> HIDE DEF o
  <2>1. CASE run.pc \in {"sent", "cut"}
    <3>1. orders[o].firingAt # NoClaim
      BY <1>2, <1>3, <1>7, <2>1, HandFields DEF Claimed, NoClaim
    <3>2. PICK was \in Order, closes \in {"done", "failed"} :
            /\ written = Spent(o, was, run.at, closes)
            /\ was.status = "open" /\ was.nextAt = run.was.nextAt
            /\ was.remaining = run.was.remaining
      <4>1. CASE run.pc = "sent"
        <5> DEFINE was == [run.was EXCEPT !.refusals = 0]
        <5>1. /\ was \in Order /\ was.status = "open" /\ was.nextAt = run.was.nextAt
              /\ was.remaining = run.was.remaining
          BY <1>3, <1>8 DEF Order
        <5>2. written = Spent(o, was, run.at, "done")
          BY <4>1 DEF After, Sent
        <5> QED BY <5>1, <5>2
      <4>2. CASE run.pc = "cut"
        <5>1. written = Spent(o, run.was, run.at, "failed")
          BY <4>2 DEF After, Cut
        <5> QED BY <1>3, <1>8, <5>1
      <4> QED BY <2>1, <4>1, <4>2
    <3>3. /\ written \in Order /\ written.status # "none" /\ written.nextAt >= was.nextAt
          /\ written.status = "open" => written.nextAt > was.nextAt
          /\ Kind[o] = "dca" => written.remaining = was.remaining - 1
      BY <1>3, <1>8, <1>9, <3>2, SpentFacts
    <3> QED BY <1>7, <1>9, <3>1, <3>2, <3>3 DEF Settles
  <2>2. CASE run.pc \in {"wait", "refuse", "off"}
    <3>1. orders[o].firingAt = NoClaim
      BY <1>2, <1>3, <1>7, <2>2, HandFields DEF Claimed
    <3>2. /\ written \in Order /\ written.status # "none" /\ written.nextAt >= run.was.nextAt
          /\ written.remaining = run.was.remaining
      <4>1. CASE run.pc = "wait"
        <5>1. written = Skipped(o, run.was, run.at)
          BY <4>1 DEF After
        <5> QED BY <1>3, <1>8, <1>9, <5>1, SkippedFacts
      <4>2. CASE run.pc = "refuse"
        <5>1. written = Refused(o, run.was, run.at)
          BY <4>2 DEF After
        <5> QED BY <1>3, <1>8, <1>9, <5>1, RefusedFacts
      <4>3. CASE run.pc = "off"
        <5>1. written = [run.was EXCEPT !.status = "failed"]
          BY <4>3 DEF After
        <5>2. LET failed == [run.was EXCEPT !.status = "failed"]
              IN  /\ failed \in Order /\ failed.status = "failed"
                  /\ failed.nextAt = run.was.nextAt /\ failed.remaining = run.was.remaining
          BY <1>3 DEF Order, Statuses
        <5> QED BY <1>9, <5>1, <5>2
      <4> QED BY <2>2, <4>1, <4>2, <4>3
    <3>3. written.nextAt \in Nat /\ written.remaining \in Int
      BY <3>2 DEF Order
    <3> QED BY <1>7, <1>9, <3>1, <3>2, <3>3 DEF Settles
  <2> QED BY <1>1, <2>1, <2>2
<1> HIDE DEF o, written
<1>11. o \notin holds(next(run))
  BY <1>3, <1>5
<1> QED BY <1>1, <1>4, <1>5, <1>6, <1>10, <1>11, SettleStep

\* What a run writes of an order whose claim outlived its run.
LEMMA CutOffStep ==
  ASSUME OrdersInv, OneRunEach, NEW r \in Runs, NEW o \in Orders, CutOff(r, o)
  PROVE  OrdersInv'
<1> DEFINE run     == runs[r]
           was     == run.cut[o]
           left    == [run EXCEPT !.cut = without(@, o)]
           new     == IF DOMAIN left.cut = {} THEN next(left) ELSE left
           written == Cut(o, was, run.at)
<1> USE DEF OrdersInv
<1>1. /\ run.pc = "pass" /\ o \in DOMAIN run.cut /\ settle(o, written) /\ Go(r, new)
      /\ UNCHANGED <<fires, sends, asked, crashes, now>>
  BY DEF CutOff, stay
<1>2. /\ run \in RunRec /\ RunOK(r, run) /\ (r \in CronRuns => CountOK(run))
      /\ ~working(run)
  BY <1>1, RunFields DEF AsRead, Counts, working, Unclaimed, Claimed
<1>3. o \in holds(runs[r])
  BY <1>1 DEF holds
<1> HIDE DEF run
<1>4. /\ without(run.cut, o) \in Reads /\ DOMAIN without(run.cut, o) = DOMAIN run.cut \ {o}
      /\ \A p \in DOMAIN run.cut \ {o} : without(run.cut, o)[p] = run.cut[p]
      /\ was \in Order
  BY <1>1, <1>2, ReadFields DEF RunRec
<1>5. /\ left \in RunRec /\ left.cut = without(run.cut, o) /\ left.at = run.at
      /\ left.pc = "pass" /\ left.todo = run.todo /\ left.executes = run.executes
  BY <1>1, <1>2, <1>4 DEF RunRec
<1> HIDE DEF left
<1>6. /\ readAt(o, was, run.at) /\ same(o, was) /\ was.firingAt # NoClaim
      /\ run.at <= now /\ now <= run.at + LIFE
  BY <1>1, <1>2 DEF RunOK, CutOK
<1>7. TodoOK(r, left) /\ CutOK(r, left) /\ ~working(left)
  BY <1>1, <1>2, <1>4, <1>5 DEF RunOK, TodoOK, CutOK, working, Unclaimed, Claimed
<1>8. o \notin DOMAIN run.todo
  <2>1. orders[o].firingAt # NoClaim
    BY <1>4, <1>6, SameFields
  <2>2. ASSUME o \in DOMAIN run.todo PROVE orders[o].firingAt = NoClaim
    <3>1. same(o, run.todo[o]) /\ run.todo[o].firingAt = NoClaim
      BY <1>1, <1>2, <2>2 DEF RunOK, TodoOK
    <3>2. run.todo[o] \in Order
      BY <1>2, <2>2, ReadFields DEF RunRec
    <3> QED BY <3>1, <3>2, SameFields
  <2> QED BY <2>1, <2>2
<1>9. /\ new \in RunRec \union {Idle} /\ RunOK(r, new) /\ o \notin holds(new)
      /\ r \in CronRuns => CountOK(new)
  <2>1. CASE DOMAIN left.cut = {}
    <3>1. /\ next(left) \in RunRec \union {Idle} /\ RunOK(r, next(left))
          /\ holds(next(left)) \subseteq DOMAIN left.todo
          /\ next(left).pc # "idle" => next(left).pc = "pass" /\ next(left).at = left.at
                                       /\ next(left).executes = left.executes
      BY <1>5, <1>6, <1>7, <2>1, NextOK
    <3>2. r \in CronRuns => CountOK(next(left))
      BY <1>1, <1>2, <1>5, <3>1 DEF CountOK
    <3> QED BY <1>5, <1>8, <2>1, <3>1, <3>2
  <2>2. CASE DOMAIN left.cut # {}
    <3>1. RunOK(r, left)
      BY <1>5, <1>6, <1>7 DEF RunOK, HandOK, SendOK
    <3>2. o \notin holds(left)
      BY <1>4, <1>5, <1>7, <1>8 DEF holds
    <3>3. r \in CronRuns => CountOK(left)
      BY <1>1, <1>2, <1>5 DEF CountOK
    <3> QED BY <1>5, <2>2, <3>1, <3>2, <3>3
  <2> QED BY <2>1, <2>2
<1>10. Settles(o, written)
  <2>1. /\ written \in Order /\ written.status # "none" /\ written.nextAt >= was.nextAt
        /\ written.status = "open" => written.nextAt > was.nextAt
        /\ Kind[o] = "dca" => written.remaining = was.remaining - 1
    <3>1. written = Spent(o, was, run.at, "failed") /\ run.at \in Nat
      BY <1>2 DEF Cut, RunRec
    <3>2. was.status = "open" /\ (Kind[o] = "dca" => was.nextAt <= run.at)
      BY <1>6 DEF readAt
    <3> HIDE DEF was, written
    <3> QED BY <1>4, <3>1, <3>2, SpentFacts
  <2>2. /\ orders[o].nextAt = was.nextAt /\ orders[o].remaining = was.remaining
        /\ orders[o].firingAt = was.firingAt
    BY <1>4, <1>6, SameFields
  <2>3. was.nextAt \in Nat /\ was.remaining \in Int
    BY <1>4 DEF Order
  <2> HIDE DEF was, written
  <2> QED BY <1>6, <2>1, <2>2, <2>3 DEF Settles
<1> HIDE DEF new, written
<1> QED BY <1>1, <1>3, <1>9, <1>10, SettleStep

----------------------------------------------------------------------------
(* A claim, and the send it is for.                                        *)

\* A claim of a shield counts nothing, any other one.
LEMMA ClaimCounts ==
  ASSUME OrdersTypeOK, NEW o \in Orders, NEW e \in Days,
         fires' = [fires EXCEPT ![e][o] = @ + 1]
  PROVE  /\ fires' \in [Days -> [Orders -> Nat]]
         /\ \A d \in Days : /\ counted(d) \in Nat
                            /\ counted(d)' = counted(d) + (IF d = e /\ Kind[o] # "shield" THEN 1 ELSE 0)
<1>1. fires' \in [Days -> [Orders -> Nat]]
      /\ \A d \in Days, p \in Orders :
           fires'[d][p] = IF d = e /\ p = o THEN fires[d][p] + 1 ELSE fires[d][p]
  BY DEF OrdersTypeOK
<1>2. ASSUME NEW d \in Days
      PROVE  /\ counted(d) \in Nat
             /\ counted(d)' = counted(d) + (IF d = e /\ Kind[o] # "shield" THEN 1 ELSE 0)
  <2> DEFINE was == spends(d)
             is  == spends(d)'
  <2>1. was \in [Orders -> Nat] /\ is \in [Orders -> Nat]
    BY <1>1 DEF spends, OrdersTypeOK
  <2>2. /\ \A p \in Orders : p # o => is[p] = was[p]
        /\ is[o] = was[o] + (IF d = e /\ Kind[o] # "shield" THEN 1 ELSE 0)
    BY <1>1 DEF spends, OrdersTypeOK
  <2>3. counted(d) = Total(was) /\ counted(d)' = Total(is)
    BY DEF counted
  <2> HIDE DEF was, is
  <2>4. Total(is) = Total(was) - was[o] + is[o] /\ Total(was) \in Nat
    BY <2>1, <2>2, Numbers, TotalUpdate, TotalType
  <2>5. was[o] \in Nat
    BY <2>1
  <2> QED BY <2>2, <2>3, <2>4, <2>5
<1> QED BY <1>1, <1>2

LEMMA ClaimStep ==
  ASSUME OrdersInv, OneRunEach, NEW r \in Runs, Claim(r)
  PROVE  OrdersInv'
<1> USE DEF OrdersInv
<1>a. runs[r].pc # "idle"
  BY DEF Claim
<1>b. PICK run \in RunRec : run = runs[r]
  BY <1>a, RunFields
<1> DEFINE o   == run.order
           new == [run EXCEPT !.pc = "send", !.executes = @ + 1]
<1>1. run.pc = "claim" /\ working(run) /\ UNCHANGED <<sends, asked, crashes, now>>
  BY <1>b DEF Claim, stay, working, Unclaimed
<1>2. /\ run \in RunRec /\ RunOK(r, run) /\ (r \in CronRuns => CountOK(run))
  BY <1>b DEF AsRead, Counts
<1>3. /\ o \in Orders \ DOMAIN run.todo /\ DOMAIN run.cut = {} /\ readAt(o, run.was, run.at)
      /\ (Kind[o] = "shield") <=> (r \in AlarmRuns)
      /\ same(o, run.was) /\ run.was.firingAt = NoClaim /\ run.was \in Order
      /\ run.at <= now /\ now <= run.at + LIFE /\ run.at \in Nat /\ TodoOK(r, run)
  <2>1. inHand(run) = run.was
    BY <1>1 DEF inHand, Claimed
  <2> QED BY <1>1, <1>2, <2>1 DEF RunOK, HandOK, RunRec
<1>4. o \in holds(run)
  BY <1>1 DEF holds
<1>5. CASE ~claimable(o, run.was.nextAt)
  <2>1. Go(r, next(run)) /\ UNCHANGED <<orders, fires>>
    BY <1>b, <1>5 DEF Claim
  <2>2. /\ next(run) \in RunRec \union {Idle} /\ RunOK(r, next(run))
        /\ next(run).pc # "idle" => next(run).pc = "pass" /\ next(run).at = run.at
                                    /\ next(run).executes = run.executes
    BY <1>2, <1>3, NextOK
  <2>3. r \in CronRuns => CountOK(next(run))
    BY <1>1, <1>2, <2>2 DEF CountOK
  <2> QED BY <1>1, <2>1, <2>2, <2>3, StillStep DEF OrdersTypeOK
<1>6. CASE claimable(o, run.was.nextAt)
  <2>1. /\ Go(r, new) /\ orders' = [orders EXCEPT ![o].firingAt = run.at]
        /\ fires' = [fires EXCEPT ![day(run.at)][o] = @ + 1]
    BY <1>b, <1>6 DEF Claim, claim
  <2>2. /\ new \in RunRec /\ new.pc = "send" /\ new.executes = run.executes + 1
        /\ new.at = run.at /\ new.order = o /\ new.was = run.was /\ new.cut = run.cut
        /\ new.todo = run.todo
    <3>1. "send" \in PCs /\ run.executes + 1 \in Int
      BY <1>2 DEF RunRec, PCs, Claimed
    <3> QED BY <1>2, <3>1 DEF RunRec
  <2> HIDE DEF new
  <2>3. orders[o] = run.was /\ orders[o].status = "open"
    BY <1>3, <1>6, SameFields DEF claimable, open
  <2>4. /\ orders' \in [Orders -> Order] /\ \A p \in Orders \ {o} : orders'[p] = orders[p]
        /\ orders'[o] = [run.was EXCEPT !.firingAt = run.at]
    <3>1. [run.was EXCEPT !.firingAt = run.at] \in Order
      BY <1>3 DEF Order
    <3>2. orders' = [orders EXCEPT ![o] = [run.was EXCEPT !.firingAt = run.at]]
      BY <1>3, <2>1, <2>3
    <3> HIDE DEF o
    <3> QED BY <1>3, <3>1, <3>2 DEF OrdersTypeOK
  <2>5. Steps(r, new)
    BY <1>b, <1>1, <1>4, <2>1, <2>2, <2>4 DEF Steps
  <2>6. PICK d \in Days : d = day(run.at)
    <3>1. run.at \in 0..MAX_TIME
      BY <1>3, Numbers DEF OrdersTypeOK
    <3> QED BY <3>1, DayOf
  <2>7. /\ orders'[o].firingAt = run.at /\ orders'[o].status = "open"
        /\ orders'[o].nextAt = run.was.nextAt /\ orders'[o].remaining = run.was.remaining
        /\ run.was.nextAt \in Nat /\ run.was.remaining \in Int
        /\ run.was.nextAt = orders[o].nextAt /\ run.was.remaining = orders[o].remaining
        /\ orders[o].firingAt = NoClaim /\ run.at # NoClaim
    BY <1>3, <2>3, <2>4 DEF Order, NoClaim
  <2>8. /\ OrderOK(o) /\ sends[o] \in Seq(Nat) /\ Len(sends[o]) \in Nat
    BY <1>3 DEF Unsent, OrdersTypeOK
  <2>9. OrdersTypeOK'
    <3>1. runs' \in [Runs -> RunRec \union {Idle}]
      BY <2>5, StepsFacts
    <3>2. fires' \in [Days -> [Orders -> Nat]]
      BY <1>3, <2>1, <2>6, ClaimCounts
    <3> QED BY <1>1, <2>4, <3>1, <3>2 DEF OrdersTypeOK
  <2>10. RunOK(r, new)'
    <3>1. TodoOK(r, new)'
      <4>1. \A p \in DOMAIN run.todo : p \in Orders /\ p # o
        BY <1>2, <1>3, ReadFields DEF RunRec
      <4> QED BY <1>3, <2>2, <2>4, <4>1 DEF TodoOK, readAt, same
    <3>2. CutOK(r, new)'
      BY <1>3, <2>2 DEF CutOK
    <3>3. HandOK(r, new)'
      <4>1. inHand(new) = [run.was EXCEPT !.firingAt = run.at]
        BY <2>2 DEF inHand, Claimed
      <4> QED BY <1>3, <2>2, <2>4, <4>1 DEF HandOK, readAt, same, inHand
    <3>4. SendOK(new)'
      <4>1. \A i \in 1..Len(sends[o]) : sends[o][i] # run.was.nextAt
        BY <2>3, <2>7, <2>8 DEF OrderOK
      <4>2. Kind[o] = "dca" => Len(sends[o]) + run.was.remaining <= TIMES
        BY <2>7, <2>8, Numbers DEF OrderOK
      <4> QED BY <1>1, <2>2, <4>1, <4>2 DEF SendOK
    <3> QED BY <1>1, <1>3, <2>2, <3>1, <3>2, <3>3, <3>4 DEF RunOK
  <2>11. AsRead'
    BY <2>5, <2>10, AsReadStep
  <2>12. Unsent'
    <3>1. ASSUME NEW p \in Orders, p # o PROVE OrderOK(p)'
      BY <1>1, <2>4, <3>1 DEF Unsent, OrderOK
    <3>2. OrderOK(o)'
      <4>1. o \notin asked
        BY <2>3, <2>8 DEF OrderOK
      <4>2. Kind[o] = "dca" => orders'[o].nextAt <= orders'[o].firingAt
        BY <1>3, <2>7 DEF readAt
      <4>3. \A i \in 1..Len(sends[o]) : sends[o][i] <= orders'[o].nextAt
        BY <2>7, <2>8 DEF OrderOK
      <4>4. \A i, j \in 1..Len(sends[o]) : i # j => sends[o][i] # sends[o][j]
        BY <2>8 DEF OrderOK
      <4>5. Kind[o] = "dca" => Len(sends[o]) + orders'[o].remaining <= TIMES + 1
        BY <2>7, <2>8, Numbers DEF OrderOK
      <4> HIDE DEF o
      <4> QED BY <1>1, <1>3, <2>7, <4>1, <4>2, <4>3, <4>4, <4>5 DEF OrderOK
    <3> QED BY <3>1, <3>2 DEF Unsent
  <2>13. Counts'
    <3>1. \A e \in Days : /\ counted(e) \in Nat
                          /\ counted(e)' = counted(e)
                               + (IF e = d /\ Kind[o] # "shield" THEN 1 ELSE 0)
      <4> HIDE DEF o
      <4> QED BY <1>3, <2>1, <2>6, ClaimCounts
    <3>2. \A e \in Days : counted(e) <= DAILY_EXECUTES
      BY DEF Counts, DayBudgetHolds, counted, spends
    <3>3. CASE r \in CronRuns
      <4>1. /\ run.executes \in 0..(DAILY_EXECUTES - 1) /\ counted(d) <= run.executes
        BY <1>1, <1>2, <2>6, <3>3 DEF CountOK
      <4>2. Kind[o] # "shield"
        BY <1>3, <3>3, RunsDiffer
      <4>3. \A e \in Days : counted(e)' <= DAILY_EXECUTES
        BY <3>1, <3>2, <4>1, <4>2, Numbers
      <4>4. counted(d)' <= new.executes /\ new.executes \in Nat
        BY <2>2, <3>1, <4>1, <4>2, Numbers
      <4>5. CountOK(new)'
        <5>1. counted(day(new.at))' = counted(d)'
          BY <2>2, <2>6 DEF counted, spends
        <5> QED BY <2>2, <4>4, <5>1 DEF CountOK
      <4>6. \A q \in CronRuns : runs'[q] = new
        BY <2>5, <3>3, StepsFacts DEF OneRunEach
      <4>7. \A q \in CronRuns : CountOK(runs[q])'
        BY <4>5, <4>6 DEF CountOK, counted, spends
      <4>8. DayBudgetHolds'
        BY <4>3 DEF DayBudgetHolds, counted, spends
      <4> QED BY <4>7, <4>8 DEF Counts
    <3>4. CASE r \notin CronRuns
      <4>1. Kind[o] = "shield"
        BY <1>3, <3>4 DEF Runs
      <4>2. \A e \in Days : counted(e)' = counted(e)
        BY <3>1, <4>1
      <4>3. DayBudgetHolds'
        BY <3>2, <4>2 DEF DayBudgetHolds, counted, spends
      <4>4. ASSUME NEW q \in CronRuns PROVE CountOK(runs[q])'
        <5>1. runs'[q] = runs[q] /\ q \in Runs
          BY <2>5, <3>4, StepsFacts DEF Runs
        <5>2. CASE runs[q].pc = "idle"
          BY <5>1, <5>2 DEF CountOK
        <5>3. CASE runs[q].pc # "idle"
          <6>1. runs[q] \in RunRec /\ RunOK(q, runs[q]) /\ CountOK(runs[q])
            BY <5>1, <5>3, RunFields DEF AsRead, Counts
          <6>2. PICK e \in Days : e = day(runs[q].at)
            <7>1. runs[q].at \in 0..MAX_TIME
              BY <5>3, <6>1, Numbers DEF RunOK, RunRec, OrdersTypeOK
            <7> QED BY <7>1, DayOf
          <6>3. counted(day(runs[q].at))' = counted(day(runs[q].at))
            <7>1. counted(day(runs[q].at))' = counted(e)'
              BY <5>1, <6>2 DEF counted, spends
            <7> QED BY <4>2, <6>2, <7>1
          <6> QED BY <5>1, <6>1, <6>3 DEF CountOK
        <5> QED BY <5>2, <5>3
      <4> QED BY <4>3, <4>4 DEF Counts
    <3> QED BY <3>3, <3>4
  <2> QED BY <2>9, <2>11, <2>12, <2>13
<1> QED BY <1>5, <1>6

LEMMA SendStep ==
  ASSUME OrdersInv, OneRunEach, NEW r \in Runs, NEW relayed \in BOOLEAN, NEW answers \in BOOLEAN,
         Send(r, relayed, answers)
  PROVE  OrdersInv'
<1> USE DEF OrdersInv
<1>a. runs[r].pc # "idle"
  BY DEF Send
<1>b. PICK run \in RunRec : run = runs[r]
  BY <1>a, RunFields
<1> DEFINE o    == run.order
           slot == run.was.nextAt
           new  == [run EXCEPT !.pc = IF answers THEN "sent" ELSE "cut"]
<1>1. /\ run.pc = "send" /\ working(run) /\ UNCHANGED <<orders, fires, asked, crashes, now>>
      /\ Go(r, new)
      /\ sends' = IF relayed THEN [sends EXCEPT ![o] = Append(@, slot)] ELSE sends
  BY <1>b DEF Send, stay, working, Claimed
<1>2. /\ RunOK(r, run) /\ (r \in CronRuns => CountOK(run))
  BY <1>b DEF AsRead, Counts
<1>3. /\ o \in Orders \ DOMAIN run.todo /\ DOMAIN run.cut = {} /\ readAt(o, run.was, run.at)
      /\ (Kind[o] = "shield") <=> (r \in AlarmRuns)
      /\ same(o, inHand(run)) /\ run.was.firingAt = NoClaim /\ run.was \in Order
      /\ run.at <= now /\ now <= run.at + LIFE /\ run.at \in Nat /\ TodoOK(r, run)
  BY <1>1, <1>2 DEF RunOK, HandOK, RunRec
<1>4. /\ new \in RunRec /\ new.pc \in {"sent", "cut"} /\ new.at = run.at /\ new.order = o
      /\ new.was = run.was /\ new.cut = run.cut /\ new.todo = run.todo
      /\ new.executes = run.executes
  BY DEF RunRec, PCs, Claimed
<1> HIDE DEF new
<1>5. CountOK(new) \/ r \notin CronRuns
  BY <1>1, <1>2, <1>4 DEF CountOK
<1>6. o \in holds(runs[r])
  BY <1>b, <1>1 DEF holds
<1>7. /\ orders[o].nextAt = slot /\ orders[o].remaining = run.was.remaining
      /\ orders[o].firingAt = run.at /\ orders[o].status \in {"open", "cancelled"}
  BY <1>1, <1>3, <1>6, HandFields, HeldFields, SameFields DEF Claimed
<1>8. /\ slot \in Nat /\ run.was.remaining \in Int /\ run.at # NoClaim
      /\ sends[o] \in Seq(Nat) /\ Len(sends[o]) \in Nat /\ OrderOK(o)
  BY <1>3 DEF Order, NoClaim, OrdersTypeOK, Unsent
<1>9. /\ \A i \in 1..Len(sends[o]) : sends[o][i] # slot
      /\ Kind[o] = "dca" => Len(sends[o]) + run.was.remaining <= TIMES
  BY <1>1, <1>2 DEF RunOK, SendOK
<1> HIDE DEF o, slot
<1>10. /\ sends' \in [Orders -> Seq(Nat)] /\ \A p \in Orders \ {o} : sends'[p] = sends[p]
       /\ sends'[o] = Append(sends[o], slot) \/ sends'[o] = sends[o]
  BY <1>1, <1>3, <1>8 DEF OrdersTypeOK
<1>11. Steps(r, new)
  BY <1>1, <1>4, <1>6, <1>10 DEF Steps
<1>12. RunOK(r, new)'
  <2>1. TodoOK(r, new)'
    BY <1>1, <1>3, <1>4 DEF TodoOK, readAt, same
  <2>2. CutOK(r, new)'
    BY <1>3, <1>4 DEF CutOK
  <2>3. HandOK(r, new)'
    <3>1. inHand(new) = inHand(run)
      BY <1>1, <1>4 DEF inHand, Claimed
    <3> QED BY <1>1, <1>3, <1>4, <3>1 DEF HandOK, readAt, same, inHand
  <2>4. SendOK(new)'
    BY <1>4 DEF SendOK
  <2> QED BY <1>1, <1>3, <1>4, <2>1, <2>2, <2>3, <2>4 DEF RunOK
<1>13. AsRead'
  BY <1>11, <1>12, AsReadStep
<1>14. OrdersTypeOK'
  BY <1>1, <1>10, <1>11, StepsFacts DEF OrdersTypeOK
<1>15. Counts'
  BY <1>1, <1>5, <1>11, CountsKept
<1>16. Unsent'
  <2>1. ASSUME NEW p \in Orders, sends'[p] = sends[p] PROVE OrderOK(p)'
    <3>1. OrderOK(p)
      BY DEF Unsent
    <3>2. orders' = orders /\ asked' = asked /\ now' = now
      BY <1>1
    <3> QED BY ONLY <2>1, <3>1, <3>2 DEF OrderOK
  <2>2. ASSUME sends'[o] = Append(sends[o], slot) PROVE OrderOK(o)'
    <3>1. /\ Len(sends'[o]) = Len(sends[o]) + 1 /\ sends'[o][Len(sends[o]) + 1] = slot
          /\ \A i \in 1..Len(sends[o]) : sends'[o][i] = sends[o][i]
      BY <1>8, <2>2
    <3>2. \A i \in 1..Len(sends'[o]) : i \in 1..Len(sends[o]) \/ i = Len(sends[o]) + 1
      BY <1>8, <3>1
    <3>3. \A i \in 1..Len(sends'[o]) : sends'[o][i] <= orders'[o].nextAt
      BY <1>1, <1>7, <1>8, <3>1, <3>2 DEF OrderOK
    <3>4. \A i, j \in 1..Len(sends'[o]) : i # j => sends'[o][i] # sends'[o][j]
      BY <1>8, <1>9, <3>1, <3>2 DEF OrderOK
    <3>5. Kind[o] = "dca" => Len(sends'[o]) + orders'[o].remaining <= TIMES + 1
      BY <1>1, <1>7, <1>8, <1>9, <3>1, Numbers
    <3>6. /\ orders'[o].firingAt <= now' /\ orders'[o].firingAt # NoClaim
          /\ Kind[o] = "dca" => orders'[o].nextAt <= orders'[o].firingAt
          /\ orders'[o].status # "none" /\ o \notin asked'
      BY <1>1, <1>7, <1>8 DEF OrderOK
    <3> QED BY <3>3, <3>4, <3>5, <3>6 DEF OrderOK
  <2> QED BY <1>3, <1>10, <2>1, <2>2 DEF Unsent
<1> QED BY <1>13, <1>14, <1>15, <1>16

----------------------------------------------------------------------------
(* The person, and the clock.                                              *)

\* Nobody's run moves, and of the orders a run holds none changes but by a cancel.
LEMMA Beside ==
  ASSUME OrdersInv, OrdersTypeOK', UNCHANGED <<fires, sends, runs>>,
         \A r \in Runs : \A o \in holds(runs[r]) :
           orders'[o] = orders[o] \/ orders'[o] = [orders[o] EXCEPT !.status = "cancelled"],
         \A r \in Runs : runs[r].pc # "idle" => runs[r].at <= now' /\ now' <= runs[r].at + LIFE
  PROVE  AsRead' /\ Counts'
<1> USE DEF OrdersInv
<1>1. ASSUME NEW r \in Runs PROVE RunOK(r, runs[r])'
  <2>1. PICK run \in RunRec \union {Idle} : run = runs[r]
    BY DEF OrdersTypeOK
  <2>2. RunOK(r, run)'
    BY <2>1, RunKept DEF AsRead
  <2>3. runs'[r] = run
    BY <2>1
  <2> QED
    BY <2>2, <2>3 DEF RunOK, CutOK, TodoOK, HandOK, SendOK, readAt, same, inHand, working
<1>2. Counts'
  BY DEF Counts, DayBudgetHolds, CountOK, counted, spends
<1> QED BY <1>1, <1>2 DEF AsRead

LEMMA RunTimes ==
  ASSUME OrdersInv, NEW r \in Runs, runs[r].pc # "idle"
  PROVE  runs[r].at <= now /\ now <= runs[r].at + LIFE /\ runs[r].at \in Nat
BY RunFields DEF OrdersInv, AsRead, RunOK, RunRec

LEMMA PersonStep ==
  ASSUME OrdersInv, PersonNext
  PROVE  OrdersInv'
<1> USE DEF OrdersInv
<1>1. PICK o \in Orders : AskOrder(o) \/ PutOrder(o) \/ CancelOrder(o)
  BY DEF PersonNext
<1>2. UNCHANGED <<fires, sends, runs, crashes, now>>
  BY <1>1 DEF AskOrder, PutOrder, CancelOrder, keepRuns
<1>3. \A r \in Runs : runs[r].pc # "idle" => runs[r].at <= now' /\ now' <= runs[r].at + LIFE
  BY <1>2, RunTimes
<1>4. OrderOK(o) /\ orders[o] \in Order /\ sends[o] \in Seq(Nat)
  BY DEF Unsent, OrdersTypeOK
<1>5. CASE AskOrder(o)
  <2>1. UNCHANGED orders /\ asked' = asked \union {o} /\ orders[o].status = "none"
    BY <1>5 DEF AskOrder
  <2>2. OrdersTypeOK'
    BY <1>2, <2>1 DEF OrdersTypeOK
  <2>3. Unsent'
    BY <1>2, <2>1 DEF Unsent, OrderOK
  <2> QED BY <1>2, <1>3, <2>1, <2>2, <2>3, Beside
<1>6. CASE PutOrder(o)
  <2> DEFINE left == IF Kind[o] = "dca" THEN TIMES ELSE 0
             slot == IF Kind[o] = "dca" THEN now ELSE Never
             put  == [NoOrder EXCEPT !.status = "open", !.remaining = left, !.nextAt = slot]
  <2>1. /\ o \in asked /\ asked' = asked \ {o} /\ orders' = [orders EXCEPT ![o] = put]
        /\ orders[o].status = "none" /\ sends[o] = <<>>
    BY <1>4, <1>6 DEF PutOrder, NewOrder, OrderOK
  <2>2. left \in Int /\ left <= TIMES /\ slot \in Nat /\ TIMES \in Nat
    BY Numbers DEF Never, OrdersTypeOK
  <2>3. now \in Nat /\ NoClaim <= now
    BY Numbers DEF OrdersTypeOK, NoClaim
  <2> HIDE DEF left, slot
  <2>4. put \in Order /\ put.status = "open" /\ put.firingAt = NoClaim /\ put.remaining = left
    BY <2>2 DEF NoOrder, Order, Statuses, NoClaim
  <2> HIDE DEF put
  <2>5. /\ orders' \in [Orders -> Order] /\ orders'[o] = put
        /\ \A p \in Orders \ {o} : orders'[p] = orders[p]
    BY <2>1, <2>4 DEF OrdersTypeOK
  <2>6. OrdersTypeOK'
    BY <1>2, <2>1, <2>5 DEF OrdersTypeOK
  <2>7. ASSUME NEW r \in Runs, NEW p \in holds(runs[r]) PROVE orders'[p] = orders[p]
    <3>1. p \in Orders /\ p # o
      BY <2>1, HeldFields
    <3> QED BY <2>5, <3>1
  <2>8. AsRead' /\ Counts'
    BY <1>2, <1>3, <2>6, <2>7, Beside
  <2>9. Unsent'
    <3>1. ASSUME NEW p \in Orders, p # o PROVE OrderOK(p)'
      BY <1>2, <2>1, <2>5, <3>1 DEF Unsent, OrderOK
    <3>2. OrderOK(o)'
      <4>1. Len(sends'[o]) = 0 /\ sends'[o] = <<>>
        BY <1>2, <2>1
      <4> QED BY <1>2, <2>1, <2>2, <2>3, <2>4, <2>5, <4>1 DEF OrderOK
    <3> QED BY <3>1, <3>2 DEF Unsent
  <2> QED BY <2>6, <2>8, <2>9
<1>7. CASE CancelOrder(o)
  <2>1. UNCHANGED asked /\ orders' = [orders EXCEPT ![o].status = "cancelled"]
        /\ orders[o].status = "open"
    BY <1>7 DEF CancelOrder, open
  <2>2. [orders[o] EXCEPT !.status = "cancelled"] \in Order
    BY <1>4 DEF Order, Statuses
  <2>3. /\ orders' \in [Orders -> Order]
        /\ orders'[o] = [orders[o] EXCEPT !.status = "cancelled"]
        /\ \A p \in Orders \ {o} : orders'[p] = orders[p]
    BY <2>1, <2>2 DEF OrdersTypeOK
  <2>4. OrdersTypeOK'
    BY <1>2, <2>1, <2>3 DEF OrdersTypeOK
  <2>5. ASSUME NEW r \in Runs, NEW p \in holds(runs[r])
        PROVE  orders'[p] = orders[p] \/ orders'[p] = [orders[p] EXCEPT !.status = "cancelled"]
    BY <2>3, HeldFields
  <2>6. AsRead' /\ Counts'
    BY <1>2, <1>3, <2>4, <2>5, Beside
  <2>7. Unsent'
    <3>1. ASSUME NEW p \in Orders, p # o PROVE OrderOK(p)'
      BY <1>2, <2>1, <2>3, <3>1 DEF Unsent, OrderOK
    <3>2. /\ orders'[o].status = "cancelled" /\ orders'[o].nextAt = orders[o].nextAt
          /\ orders'[o].firingAt = orders[o].firingAt /\ orders'[o].remaining = orders[o].remaining
      BY <1>4, <2>3 DEF Order
    <3>3. OrderOK(o)'
      BY <1>2, <1>4, <2>1, <3>2 DEF OrderOK
    <3> QED BY <3>1, <3>3 DEF Unsent
  <2> QED BY <2>4, <2>6, <2>7
<1> QED BY <1>1, <1>5, <1>6, <1>7

LEMMA TickStep ==
  ASSUME OrdersInv, Tick
  PROVE  OrdersInv'
<1> USE DEF OrdersInv
<1>1. /\ now' = now + 1 /\ now' \in 0..MAX_TIME /\ now \in Nat
      /\ UNCHANGED <<orders, fires, sends, asked, runs, crashes>>
  BY Numbers DEF Tick, OrdersTypeOK
<1>2. OrdersTypeOK'
  BY <1>1 DEF OrdersTypeOK
<1>3. ASSUME NEW r \in Runs, runs[r].pc # "idle"
      PROVE  runs[r].at <= now' /\ now' <= runs[r].at + LIFE
  <2>1. runs[r].at <= now /\ now < runs[r].at + LIFE /\ runs[r].at \in Nat
    BY <1>3, RunTimes DEF Tick
  <2> QED BY <1>1, <2>1, Numbers
<1>4. AsRead' /\ Counts'
  BY <1>1, <1>2, <1>3, Beside
<1>5. Unsent'
  <2>1. ASSUME NEW o \in Orders PROVE OrderOK(o)'
    <3>1. OrderOK(o) /\ orders[o].firingAt \in Nat \union {NoClaim}
      BY DEF Unsent, OrdersTypeOK, Order
    <3>2. orders'[o].firingAt <= now'
      BY <1>1, <3>1 DEF OrderOK, NoClaim
    <3> QED BY <1>1, <3>1, <3>2 DEF OrderOK
  <2> QED BY <2>1 DEF Unsent
<1> QED BY <1>2, <1>4, <1>5

----------------------------------------------------------------------------
(* The invariant.                                                          *)

LEMMA OrdersInitInv == OrdersInit => OrdersInv
<1> SUFFICES ASSUME OrdersInit PROVE OrdersInv
  OBVIOUS
<1> USE DEF OrdersInit
<1>1. NoOrder \in Order /\ NoOrder.status = "none" /\ NoOrder.firingAt = NoClaim
      /\ NoOrder.remaining = 0
  BY DEF NoOrder, Order, Statuses, NoClaim, Never
<1>2. OrdersTypeOK
  <2>1. now \in 0..MAX_TIME
    BY Numbers
  <2>2. sends \in [Orders -> Seq(Nat)]
    OBVIOUS
  <2> QED BY <1>1, <2>1, <2>2 DEF OrdersTypeOK
<1>3. \A r \in Runs : runs[r] = Idle
  OBVIOUS
<1>4. AsRead
  BY <1>3, IdleOK DEF AsRead
<1>5. Unsent
  BY <1>1, Numbers DEF Unsent, OrderOK, NoClaim
<1>6. Counts
  <2>1. \A r \in CronRuns : CountOK(runs[r])
    BY <1>3, IdleOK DEF Runs
  <2>2. ASSUME NEW d \in Days PROVE Total(spends(d)) <= DAILY_EXECUTES
    <3>1. spends(d) \in [Orders -> Nat] /\ \A o \in Orders : spends(d)[o] = 0
      BY DEF spends
    <3>2. Total(spends(d)) = 0
      BY <3>1, TotalZero
    <3> QED BY <3>2, Numbers
  <2> QED BY <2>1, <2>2 DEF Counts, DayBudgetHolds, spends
<1> QED BY <1>2, <1>4, <1>5, <1>6 DEF OrdersInv

LEMMA OrdersStep == OneRunEach /\ OrdersInv /\ [OrdersNext]_orderVars => OrdersInv'
<1> SUFFICES ASSUME OneRunEach, OrdersInv, [OrdersNext]_orderVars PROVE OrdersInv'
  OBVIOUS
<1>1. CASE PersonNext
  BY <1>1, PersonStep
<1>2. CASE Tick
  BY <1>2, TickStep
<1>3. CASE \/ \E r \in CronRuns : StartRun(r)
           \/ \E r \in AlarmRuns : FireShields(r)
  BY <1>3, StartStep DEF Runs
<1>4. ASSUME NEW r \in Runs, RunNext(r) \/ Crash(r) PROVE OrdersInv'
  <2>1. CASE Crash(r) \/ Ends(r)
    BY <2>1, CrashStep
  <2>2. CASE \E o \in Orders : CutOff(r, o)
    BY <2>2, CutOffStep
  <2>3. CASE \E o \in Orders, verdict \in {"skip", "wait", "refuse", "off", "claim"} :
               Judge(r, o, verdict)
    BY <2>3, JudgeStep
  <2>4. CASE Claim(r)
    BY <2>4, ClaimStep
  <2>5. CASE Write(r)
    BY <2>5, WriteStep
  <2>6. CASE \E relayed, answers \in BOOLEAN : Send(r, relayed, answers)
    BY <2>6, SendStep
  <2> QED BY <1>4, <2>1, <2>2, <2>3, <2>4, <2>5, <2>6 DEF RunNext
<1>5. CASE UNCHANGED orderVars
  <2>1. UNCHANGED <<orders, fires, sends, asked, runs, crashes, now>>
    BY <1>5 DEF orderVars
  <2>2. OrdersTypeOK'
    BY <2>1 DEF OrdersInv, OrdersTypeOK
  <2>3. \A r \in Runs : runs[r].pc # "idle" => runs[r].at <= now' /\ now' <= runs[r].at + LIFE
    BY <2>1, RunTimes
  <2>4. AsRead' /\ Counts'
    BY <2>1, <2>2, <2>3, Beside
  <2>5. Unsent'
    BY <2>1 DEF OrdersInv, Unsent, OrderOK
  <2> QED BY <2>2, <2>4, <2>5 DEF OrdersInv
<1> QED BY <1>1, <1>2, <1>3, <1>4, <1>5 DEF OrdersNext

\* What the runs keep to, at every step.
LEMMA OrdersInvHolds == ASSUME OneRunEach PROVE OrdersSpec => []OrdersInv
<1>1. OrdersInv /\ [OrdersNext]_orderVars => OrdersInv'
  BY OrdersStep
<1> QED BY <1>1, OrdersInitInv, PTL DEF OrdersSpec

\* One run of each route at a time, no order goes out twice for one slot: not when a run is
\* killed between its claim, its send and its write, not when a send throws after it was
\* relayed, and not by the run that cuts off a dead one's claim.
THEOREM SlotSentOnce == ASSUME OneRunEach PROVE OrdersSpec => []SentOncePerSlot
<1>1. OrdersInv => SentOncePerSlot
  <2> SUFFICES ASSUME OrdersInv, NEW o \in Orders, NEW i \in DOMAIN sends[o],
                      NEW j \in DOMAIN sends[o], i # j
               PROVE  sends[o][i] # sends[o][j]
    BY DEF SentOncePerSlot
  <2>1. sends[o] \in Seq(Nat) /\ OrderOK(o)
    BY DEF OrdersInv, OrdersTypeOK, Unsent
  <2> QED BY <2>1 DEF OrderOK
<1> QED BY <1>1, OrdersInvHolds, PTL

\* A dca sends no more buys than it was placed for: what is sent and what is left are what
\* was asked, a claim's own send aside, whatever dies.
THEOREM SendsAreCounted == ASSUME OneRunEach PROVE OrdersSpec => []SentIsCounted
<1>1. OrdersInv => SentIsCounted
  BY DEF OrdersInv, Unsent, OrderOK, SentIsCounted
<1> QED BY <1>1, OrdersInvHolds, PTL

\* The claims of a day stay within the owner's sends of the day, shields aside: a run counts
\* along from the ledger, which a killed run leaves behind.
THEOREM OrdersWithinBudget == ASSUME OneRunEach PROVE OrdersSpec => []DayBudgetHolds
<1>1. OrdersInv => DayBudgetHolds
  BY DEF OrdersInv, Counts
<1> QED BY <1>1, OrdersInvHolds, PTL
=============================================================================
