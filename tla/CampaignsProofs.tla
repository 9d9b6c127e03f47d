-------------------------- MODULE CampaignsProofs --------------------------
(***************************************************************************)
(* What holds of the campaign routes, for any campaigns, instances,        *)
(* requests, slices, keys, amounts and faults.                             *)
(*                                                                         *)
(* Base says where a request may be and what it then holds: which kinds    *)
(* reach which step, who has the wallet's lock, and that a draw once       *)
(* funded stays funded until it is closed.  Over it stand four books.      *)
(* Slices (SliceOK, StrandOK): a claimed slice is in the hands of one      *)
(* request, or bought, or given up by a stop.  The draw's spent (BeforeOK):*)
(* what a buy read before it sent is what the draw still shows, but for    *)
(* the buy itself.  Charges (ChargeOK, PaidOK): what is charged and what   *)
(* requests under way owe is what left the pool.  Grants (GrantOK): what   *)
(* was paid and drawn fits the deposit, with room for what a request       *)
(* behind the lock has checked and not taken yet.                          *)
(***************************************************************************)
EXTENDS Campaigns, TotalsProofs

Controls == {"pause", "resume", "revoke", "close"}

\* What kind of request is where.
KindsAt(at) ==
  CASE at = "load"                          -> Kinds \ {"create", "withdraw", "sweep"}
    [] at \in {"validate", "claim"}         -> {"trade"}
    [] at \in {"authorize", "count"}        -> {"buy"}
    [] at = "confirm"                       -> {"confirm"}
    [] at = "lock"                          -> {"trade", "buy", "activate", "topUp", "withdraw"}
    [] at \in {"guard", "send", "after", "charge", "rejected"} -> {"trade", "buy"}
    [] at = "check"                         -> {"activate", "topUp", "withdraw"}
    [] at \in {"lookup", "record", "pay", "reread"} -> {"withdraw"}
    [] at \in {"open", "recheck", "draw"}   -> {"activate"}
    [] at = "topUp"                         -> {"topUp"}
    [] at \in {"control", "session", "apply"} -> Controls
    [] at = "closeDraw"                     -> {"close"}
    [] at \in {"sweep", "chargeSeed"}       -> {"sweep"}
    [] at = "put"                           -> Kinds \ {"create"}

Buying == {"guard", "send", "after", "charge", "rejected"}
Locked == Buying \cup {"check", "record", "pay", "reread", "open", "recheck", "draw", "topUp"}
Holding == {"lock"} \cup Buying
Owing   == {"send", "after", "charge", "chargeSeed", "pay"}
Ats     == Locked \cup {"lock", "load", "validate", "claim", "authorize", "count", "confirm", "lookup",
                        "control", "session", "apply", "closeDraw", "sweep", "chargeSeed", "put"}

Traded == {"Active", "Paused", "Depleted", "Revoked", "Closed"}
States == Traded \cup {"unknown", "Awaiting recovery", "Awaiting funding", "Activating"}

Outcomes == {"none", "mined", "reverted", "refused", "unknown"}
Draw    == [state : {"None", "Pending", "Funded", "Closed"}, amount : Nat, spent : Nat]
Record  == [state : States, accounts : BOOLEAN]
Request == [at : Ats, inst : Instances, kind : Kinds, c : Campaigns, key : Keys \cup {NoOne},
            todo : SUBSET (Slices \cup Campaigns), due : SUBSET Slices, slice : Slices \cup {NoOne},
            before : Int, outcome : Outcomes]

\* A draw that has been funded stays funded until it is closed for good.
Stood(d) == d.state \in {"Funded", "Closed"}

CallOK(h, q, d, l) ==
  \/ q = Idle
  \/ /\ q \in Request
     /\ q.kind \in KindsAt(q.at)
     /\ q.kind # "trade" => q.due = {} /\ q.slice = NoOne
     /\ q.kind = "trade" => q.c \in Opened
     /\ q.kind = "withdraw" => q.key \in Keys
     /\ q.kind = "trade" /\ q.at \in Holding => q.slice \in Slices
     /\ q.at \in {"load", "validate", "put"} => q.due = {}
     /\ q.at \in Holding => q.slice \notin q.due
     /\ q.at \in Locked => l = h
     /\ q.at \in Buying \cup {"count", "session", "apply", "closeDraw"} => Stood(d[q.c])
     /\ q.at = "lock" /\ q.kind = "buy" => Stood(d[q.c])

DrawOK(c, d) ==
  /\ d \in Draw
  /\ d.spent <= d.amount
  /\ d.state = "None" => d.amount = 0
  /\ d.state = "Closed" => "close" \in Kinds
  /\ c \in Opened => Stood(d)

RecordsOK(r, d) ==
  /\ r \in [Instances -> [Campaigns -> Record]]
  /\ \A i \in Instances, c \in Campaigns : r[i][c].state \in Traded => Stood(d[c])

SessionsOK(n, d, f) ==
  /\ n \in [Campaigns -> {"none", "open", "paused", "revoked"}]
  /\ \A c \in Campaigns : n[c] \in {"paused", "revoked"} => Stood(d[c])
  /\ "stopped" \in f \/ \A c \in Opened : n[c] = "open"

LateOK(x, f) ==
  /\ \A tx \in x : tx[1] \in Campaigns /\ tx[2] \in Slices \cup {NoOne}
  /\ \A s, t \in x : s = t
  /\ "unseen" \notin f => x = {}

Rest ==
  /\ draws \in [Campaigns -> Draw]
  /\ \A c \in Campaigns : DrawOK(c, draws[c])
  /\ RecordsOK(records, draws)
  /\ SessionsOK(sessions, draws, happened)
  /\ LateOK(late, happened)
  /\ happened \subseteq Faults \cup {"stopped"} /\ (exit => "exit" \in happened)
  /\ paid \in [Keys -> Nat] /\ bought \in [Slices -> Nat] /\ charged \in Int

CallsOK ==
  /\ calls \in [Handlers -> {Idle} \cup Request]
  /\ \A h \in Handlers : CallOK(h, calls[h], draws, lock)

Base == Rest /\ CallsOK

HoldsIn(q, s) == q # Idle /\ (s \in q.due \/ (s = q.slice /\ q.at \in Holding))
BoughtIn(q)   == q.at = "charge" \/ (q.at = "after" /\ q.outcome = "mined")

SliceGood ==
  /\ \A h \in Handlers : calls[h].at = "after" => calls[h].outcome # "unknown"
  /\ \A h, g \in Handlers, s \in Slices : HoldsIn(calls[h], s) /\ HoldsIn(calls[g], s) => h = g
  /\ \A h \in Handlers, s \in Slices : HoldsIn(calls[h], s) =>
       /\ s \in claims
       /\ bought[s] = IF BoughtIn(calls[h]) /\ s = calls[h].slice THEN 1 ELSE 0
  /\ \A s \in Slices : bought[s] <= 1 /\ (s \notin claims => bought[s] = 0)

SliceOK == "unseen" \in happened \/ SliceGood

Stops == {"crash", "exit", "timeout", "stopped"}

\* A buy that is charged was of the slice, and one nobody saw shows in the draw.
StrandAt(q, b, l, d) ==
  q.at \in {"after", "charge"} /\ q.slice \in Slices =>
    /\ BoughtIn(q) => b[q.slice] > 0
    /\ q.at = "after" /\ q.outcome = "unknown" =>
         /\ \A tx \in l : tx[2] = q.slice
         /\ d[q.c].spent > q.before => b[q.slice] > 0

StrandGood ==
  /\ claims \subseteq Slices
  /\ \A s \in claims : bought[s] > 0 \/ \E h \in Handlers : HoldsIn(calls[h], s)
  /\ \A h \in Handlers : StrandAt(calls[h], bought, late, draws)

StrandOK == happened \cap Stops # {} \/ StrandGood

BeforeAt(q, d, f) ==
  /\ q.at \in {"send", "after"} =>
       /\ q.before >= 0 /\ q.before <= d[q.c].spent
       /\ "unseen" \in f \/ (q.at = "after" /\ q.outcome = "mined") \/ q.before = d[q.c].spent
  /\ q.at = "charge" => q.before >= 0

BeforeOK == \A h \in Handlers : BeforeAt(calls[h], draws, happened)

OwedBy(q, d) ==
  CASE q.at \in {"send", "after"} -> d[q.c].spent - q.before
    [] q.at = "charge"     -> q.before
    [] q.at = "chargeSeed" -> SEED
    [] OTHER               -> 0
PayingBy(q) == IF q.at = "pay" THEN PAYOUT ELSE 0
owed   == [h \in Handlers |-> OwedBy(calls[h], draws)]
paying == [h \in Handlers |-> PayingBy(calls[h])]
spents == [c \in Campaigns |-> draws[c].spent]

ChargeOK ==
  /\ charged + Total(owed) <= Outflow + Total(paying)
  /\ happened \cap {"crash", "unseen"} = {} => charged + Total(owed) = Outflow + Total(paying)

commits == [c \in Campaigns |-> IF Live(c) THEN draws[c].amount ELSE draws[c].spent]
Granted == Total(paid) + Total(commits)

GrantOK ==
  /\ Granted <= DEPOSIT
  /\ \A h \in Handlers :
       /\ calls[h].at \in {"draw", "topUp"} => Granted + DRAW <= DEPOSIT
       /\ calls[h].at \in {"record", "pay"} => Granted + PAYOUT <= DEPOSIT

PaidOK == Total(paid) + Total(paying) <= charged

----------------------------------------------------------------------------
Bare(q) == \A s \in Slices : ~HoldsIn(q, s)

\* What most steps of a request leave alone: the slices...
SliceQuiet(h) ==
  /\ UNCHANGED <<claims, bought, late>> /\ happened \subseteq happened'
  /\ \A g \in Handlers \ {h} : calls'[g] = calls[g]
  /\ \/ /\ \A s \in Slices : HoldsIn(calls[h], s) <=> HoldsIn(calls'[h], s)
        /\ calls[h].at \notin {"after", "charge"} /\ calls'[h].at \notin {"after", "charge"}
     \/ calls'[h] = Idle /\ happened' \cap Stops # {}

\* ...and the money.
MoneyQuiet(h) ==
  /\ UNCHANGED <<draws, paid, charged>> /\ happened \subseteq happened'
  /\ \A g \in Handlers \ {h} : calls'[g] = calls[g]
  /\ calls[h].at \notin Owing /\ calls'[h].at \notin Owing
  /\ calls'[h].at \in {"draw", "topUp"} => DRAW <= Available
  /\ calls'[h].at = "record" => PAYOUT <= Available

LEMMA WalkFacts ==
  ASSUME NEW p \in Request, NEW a \in Ats, NEW q, q = [p EXCEPT !.at = a]
  PROVE  /\ q \in Request /\ q.at = a /\ q.inst = p.inst /\ q.kind = p.kind /\ q.c = p.c
         /\ q.key = p.key /\ q.todo = p.todo /\ q.due = p.due /\ q.slice = p.slice
         /\ q.before = p.before /\ q.outcome = p.outcome
BY DEF Request

\* A request that is anywhere is one.
LEMMA Running ==
  ASSUME Base, NEW h \in Handlers, calls[h].at # "idle"
  PROVE  /\ calls[h] # Idle /\ calls[h] \in Request
         /\ CallOK(h, calls[h], draws, lock)
         /\ calls[h].inst \in Instances /\ calls[h].c \in Campaigns /\ calls[h].before \in Int
BY DEF Base, CallsOK, Idle, Request

LEMMA BareIf ==
  ASSUME NEW h, NEW q, NEW d, NEW l, CallOK(h, q, d, l),
         \/ q = Idle
         \/ q.kind # "trade"
         \/ q.at \in {"load", "validate", "put"}
  PROVE  Bare(q)
BY CampaignNumbers DEF CallOK, Bare, HoldsIn, Idle, Holding, Buying

\* One request moves, and nobody loses the lock to it.
LEMMA CallMoves ==
  ASSUME CallsOK, NEW h \in Handlers, NEW q \in {Idle} \cup Request,
         calls' = [calls EXCEPT ![h] = q],
         CallOK(h, q, draws', lock'),
         \A g \in Handlers : g # h /\ lock = g => lock' = g,
         \A c \in Campaigns : Stood(draws[c]) => Stood(draws'[c])
  PROVE  CallsOK' /\ calls'[h] = q /\ \A g \in Handlers \ {h} : calls'[g] = calls[g]
<1>1. /\ calls' \in [Handlers -> {Idle} \cup Request] /\ calls'[h] = q
      /\ \A g \in Handlers \ {h} : calls'[g] = calls[g]
  BY DEF CallsOK
<1>2. ASSUME NEW g \in Handlers \ {h} PROVE CallOK(g, calls'[g], draws', lock')
  <2>1. CallOK(g, calls[g], draws, lock) /\ calls'[g] = calls[g] /\ g # h
    BY <1>1 DEF CallsOK
  <2>2. calls[g] \in Request => calls[g].c \in Campaigns
    BY DEF Request
  <2> QED BY <2>1, <2>2 DEF CallOK
<1> QED BY <1>1, <1>2 DEF CallsOK

LEMMA RestSame ==
  ASSUME Rest, UNCHANGED <<draws, sessions, exit, paid, late, bought, charged, records>>,
         happened' \in {happened} \cup {happened \cup {f} : f \in Faults \cup {"stopped"}}
  PROVE  Rest'
BY DEF Rest, SessionsOK, LateOK

\* Where a draw that trades, or is being controlled, has to stand.
Standing == Buying \cup {"count", "session", "apply", "closeDraw"}

\* A request that holds no slice goes on...
LEMMA WalkBare ==
  ASSUME Base, Rest', NEW h \in Handlers, NEW a \in Ats,
         calls[h].at # "idle", To(h, a),
         calls[h].kind \in KindsAt(a),
         calls[h].kind = "trade" => calls[h].due = {} /\ calls[h].at \notin Holding /\ a \notin Holding,
         calls[h].at \notin Owing, a \notin Owing,
         a = "record" => PAYOUT <= Available, a \in {"draw", "topUp"} => DRAW <= Available,
         a \in Locked => lock' = h,
         a \in Standing \/ (a = "lock" /\ calls[h].kind = "buy") => Stood(draws'[C(h)]),
         \A g \in Handlers : g # h /\ lock = g => lock' = g,
         UNCHANGED <<draws, paid, charged, claims, bought, late>>, happened \subseteq happened'
  PROVE  Base' /\ SliceQuiet(h) /\ MoneyQuiet(h)
<1> DEFINE q == [calls[h] EXCEPT !.at = a]
<1>1. calls[h] \in Request /\ CallOK(h, calls[h], draws, lock) /\ calls[h] # Idle
  BY Running
<1>2. calls' = [calls EXCEPT ![h] = q]
  BY DEF To
<1>3. /\ q \in Request /\ q.at = a /\ q.kind = calls[h].kind /\ q.c = calls[h].c
      /\ q.due = calls[h].due /\ q.slice = calls[h].slice /\ q.key = calls[h].key
  BY <1>1, WalkFacts
<1> HIDE DEF q
<1>4. CallOK(h, q, draws', lock')
  BY <1>1, <1>3 DEF CallOK, C, Standing
<1>5. Bare(calls[h]) /\ Bare(q)
  <2>1. CASE calls[h].kind # "trade"
    BY <1>1, <1>3, <1>4, <2>1, BareIf
  <2>2. CASE calls[h].kind = "trade"
    BY <1>3, <2>2 DEF Bare, HoldsIn
  <2> QED BY <2>1, <2>2
<1>6. CallsOK' /\ calls'[h] = q /\ \A g \in Handlers \ {h} : calls'[g] = calls[g]
  BY <1>2, <1>3, <1>4, CallMoves DEF Base
<1> QED BY <1>3, <1>5, <1>6 DEF Base, SliceQuiet, MoneyQuiet, Bare, Owing

\* ...or ends.
LEMMA LeaveBare ==
  ASSUME Base, Rest', NEW h \in Handlers,
         calls' = [calls EXCEPT ![h] = Idle],
         Bare(calls[h]) \/ happened' \cap Stops # {},
         calls[h].at \notin Owing,
         \A g \in Handlers : g # h /\ lock = g => lock' = g,
         UNCHANGED <<draws, paid, charged, claims, bought, late>>, happened \subseteq happened'
  PROVE  Base' /\ SliceQuiet(h) /\ MoneyQuiet(h)
<1>1. CallOK(h, Idle, draws', lock')
  BY DEF CallOK
<1>2. CallsOK' /\ calls'[h] = Idle /\ \A g \in Handlers \ {h} : calls'[g] = calls[g]
  BY <1>1, CallMoves DEF Base
<1>3. Bare(Idle)
  BY DEF Bare, HoldsIn
<1>4. Idle.at = "idle" /\ "idle" \notin Owing
  BY DEF Idle, Owing
<1> QED BY <1>2, <1>3, <1>4 DEF Base, SliceQuiet, MoneyQuiet, Bare, Owing

----------------------------------------------------------------------------
LEMMA LookupQuiet ==
  ASSUME Base, NEW h \in Handlers, Lookup(h)
  PROVE  Base' /\ SliceQuiet(h) /\ MoneyQuiet(h)
<1>1. /\ calls[h].at = "lookup" /\ UNCHANGED <<chain, store, records, happened>>
      /\ calls' = [calls EXCEPT ![h] = Idle] \/ To(h, "lock")
  BY DEF Lookup
<1>2. Rest'
  BY <1>1, RestSame DEF Base, chain, store
<1>3. /\ CallOK(h, calls[h], draws, lock) /\ calls[h].kind = "withdraw"
  BY <1>1, Running DEF CallOK, KindsAt
<1>4. CASE calls' = [calls EXCEPT ![h] = Idle]
  BY <1>1, <1>2, <1>3, <1>4, BareIf, LeaveBare DEF Owing, chain, store
<1>5. CASE To(h, "lock")
  BY <1>1, <1>2, <1>3, <1>5, WalkBare DEF Owing, chain, store, KindsAt, Ats, Locked, Standing, Buying
<1> QED BY <1>1, <1>4, <1>5

LEMMA PutQuiet ==
  ASSUME Base, NEW h \in Handlers, Put(h)
  PROVE  Base' /\ SliceQuiet(h) /\ MoneyQuiet(h)
<1>1. /\ calls[h].at = "put" /\ calls' = [calls EXCEPT ![h] = Idle]
      /\ UNCHANGED <<chain, charged, claims, lock, records, happened>>
  BY DEF Put
<1>2. Rest'
  BY <1>1, RestSame DEF Base, chain
<1>3. Bare(calls[h])
  BY <1>1, Running, BareIf
<1> QED BY <1>1, <1>2, <1>3, LeaveBare DEF Owing, chain

\* A record that changes tells of a draw that stands.
LEMMA RecordsStep ==
  ASSUME NEW d, RecordsOK(records, d), NEW i \in Instances, NEW c \in Campaigns, NEW r \in Record,
         r.state \in Traded => Stood(d[c]),
         records' = [records EXCEPT ![i][c] = r]
  PROVE  RecordsOK(records', d)
BY DEF RecordsOK

LEMMA RemembersStep ==
  ASSUME NEW d, RecordsOK(records, d), NEW h \in Handlers, calls[h] \in Request, NEW s \in States,
         s \in Traded => Stood(d[C(h)]),
         Remembers(h, s)
  PROVE  RecordsOK(records', d)
<1> DEFINE i == calls[h].inst
           c == calls[h].c
           r == [records[i][c] EXCEPT !.state = s]
<1>1. i \in Instances /\ c \in Campaigns
  BY DEF Request
<1>2. records[i][c] \in Record
  BY <1>1 DEF RecordsOK
<1>3. r \in Record /\ r.state = s
  BY <1>2 DEF Record
<1>4. records' = [records EXCEPT ![i][c] = r]
  BY DEF Remembers, C
<1>5. r.state \in Traded => Stood(d[c])
  BY <1>3 DEF C
<1> QED BY <1>1, <1>3, <1>4, <1>5, RecordsStep

LEMMA RecordFacts ==
  ASSUME Base, NEW h \in Handlers, calls[h].at # "idle"
  PROVE  /\ records[calls[h].inst][C(h)] \in Record
         /\ State(h) \in States
         /\ State(h) \in Traded => Stood(draws[C(h)])
         /\ draws[C(h)] \in Draw /\ DrawOK(C(h), draws[C(h)])
<1>1. calls[h].inst \in Instances /\ calls[h].c \in Campaigns
  BY Running
<1> QED BY <1>1 DEF Base, Rest, RecordsOK, State, C, Record

LEMMA RestRecords ==
  ASSUME Rest, RecordsOK(records', draws),
         UNCHANGED <<draws, sessions, exit, paid, late, bought, charged, happened>>
  PROVE  Rest'
BY DEF Rest

\* What the chain restores.
LEMMA DrawnFacts ==
  ASSUME Rest, NEW c \in Campaigns, draws[c].state # "None"
  PROVE  /\ Drawn(c) \in States
         /\ Drawn(c) \in Traded => Stood(draws[c])
<1>1. draws[c] \in Draw /\ (sessions[c] = "revoked" => Stood(draws[c]))
  BY DEF Rest, SessionsOK
<1> QED BY <1>1 DEF Drawn, States, Traded, Stood, Draw

LEMMA SyncedFacts ==
  ASSUME NEW c \in Campaigns, NEW s \in States, s \in Traded => Stood(draws[c])
  PROVE  /\ Synced(s, c) \in States
         /\ Synced(s, c) \in Traded => Stood(draws[c])
BY DEF Synced, States, Traded, Stood

LEMMA LoadQuiet ==
  ASSUME Base, NEW h \in Handlers, Load(h)
  PROVE  Base' /\ SliceQuiet(h) /\ MoneyQuiet(h)
<1> DEFINE i == calls[h].inst
           c == C(h)
           r == records[i][c]
           known == IF r = NoRecord THEN [state |-> Drawn(c), accounts |-> TRUE] ELSE r
           new == [known EXCEPT !.state = Synced(known.state, c)]
           a == NextStep(calls[h].kind)
<1>1. /\ calls[h].at = "load"
      /\ UNCHANGED <<chain, charged, claims, failures, cooling, answers, told, count, happened>>
      /\ \/ Refused(h) /\ UNCHANGED records
         \/ /\ r # NoRecord \/ Restorable(c)
            /\ records' = [records EXCEPT ![i][c] = new]
            /\ To(h, a) /\ UNCHANGED lock
  BY DEF Load
<1>2. /\ CallOK(h, calls[h], draws, lock) /\ Bare(calls[h])
      /\ calls[h].kind \in Kinds \ {"create", "withdraw", "sweep"}
      /\ calls[h].due = {}
      /\ i \in Instances /\ c \in Campaigns
  <2>1. CallOK(h, calls[h], draws, lock) /\ calls[h] # Idle /\ calls[h] \in Request
    BY <1>1, Running
  <2> QED BY <1>1, <2>1, BareIf DEF CallOK, KindsAt, C, Request
<1>3. CASE Refused(h) /\ UNCHANGED records
  <2>1. Rest'
    BY <1>1, <1>3, RestSame DEF Base, chain
  <2> QED BY <1>1, <1>2, <1>3, <2>1, LeaveBare DEF Refused, Frees, Owing, chain
<1>4. CASE /\ r # NoRecord \/ Restorable(c)
           /\ records' = [records EXCEPT ![i][c] = new]
           /\ To(h, a) /\ UNCHANGED lock
  <2>1. r \in Record /\ (r.state \in Traded => Stood(draws[c]))
    BY <1>1, RecordFacts DEF State
  <2>2. known \in Record /\ (known.state \in Traded => Stood(draws[c]))
    BY <1>2, <1>4, <2>1, DrawnFacts DEF Base, Record, Restorable
  <2>3. new \in Record /\ (new.state \in Traded => Stood(draws[c]))
    <3>1. known.state \in States
      BY <2>2 DEF Record
    <3>2. /\ Synced(known.state, c) \in States
          /\ Synced(known.state, c) \in Traded => Stood(draws[c])
      BY <1>2, <2>2, <3>1, SyncedFacts
    <3> HIDE DEF known
    <3> QED BY <2>2, <3>2 DEF Record
  <2> HIDE DEF new
  <2>4. RecordsOK(records', draws)
    BY <1>2, <1>4, <2>3, RecordsStep DEF Base, Rest
  <2>5. Rest'
    BY <1>1, <2>4, RestRecords DEF Base, chain
  <2>6. /\ a \in {"validate", "authorize", "confirm", "lock", "control"}
        /\ calls[h].kind \in KindsAt(a)
        /\ calls[h].kind = "trade" => a = "validate"
        /\ calls[h].kind = "buy" => a = "authorize"
    BY <1>2, CampaignNumbers DEF NextStep, KindsAt, Controls
  <2> HIDE DEF a
  <2>7. /\ a \in Ats /\ a \notin Owing /\ a \notin Locked /\ a \notin Standing
        /\ a # "record" /\ a \notin {"draw", "topUp"}
        /\ (a \in Holding => a = "lock") /\ "load" \notin Owing /\ "load" \notin Holding
    BY <2>6 DEF Ats, Owing, Locked, Standing, Holding, Buying
  <2> QED BY <1>1, <1>2, <1>4, <2>5, <2>6, <2>7, WalkBare DEF chain
<1> QED BY <1>1, <1>3, <1>4

\* A refusal of a request that holds no slice.
LEMMA RefusedQuiet ==
  ASSUME Base, NEW h \in Handlers, Refused(h), Bare(calls[h]), calls[h].at \notin Owing,
         UNCHANGED <<chain, charged, claims, records, happened>>
  PROVE  Base' /\ SliceQuiet(h) /\ MoneyQuiet(h)
<1>1. Rest'
  BY RestSame DEF Base, chain
<1> QED BY <1>1, LeaveBare DEF Refused, Frees, chain

\* A step of a request that holds no slice, with nothing else changed.
LEMMA ToQuiet ==
  ASSUME Base, NEW h \in Handlers, NEW a \in Ats, To(h, a),
         calls[h].at # "idle",
         calls[h].kind \in KindsAt(a),
         calls[h].kind = "trade" => calls[h].due = {} /\ calls[h].at \notin Holding /\ a \notin Holding,
         calls[h].at \notin Owing, a \notin Owing,
         a = "record" => PAYOUT <= Available, a \in {"draw", "topUp"} => DRAW <= Available,
         a \in Locked => lock' = h,
         a \in Standing \/ (a = "lock" /\ calls[h].kind = "buy") => Stood(draws[C(h)]),
         \A g \in Handlers : g # h /\ lock = g => lock' = g,
         UNCHANGED <<chain, charged, claims, records, happened>>
  PROVE  Base' /\ SliceQuiet(h) /\ MoneyQuiet(h)
<1>1. Rest'
  BY RestSame DEF Base, chain
<1> QED BY <1>1, WalkBare DEF chain

LEMMA ConfirmQuiet ==
  ASSUME Base, NEW h \in Handlers, Confirm(h)
  PROVE  Base' /\ SliceQuiet(h) /\ MoneyQuiet(h)
<1>1. /\ calls[h].at = "confirm"
      /\ UNCHANGED <<chain, charged, claims, happened>>
      /\ \/ Refused(h) /\ UNCHANGED records
         \/ /\ Admits(State(h), "confirm")
            /\ Remembers(h, Transition(State(h), "confirm"))
            /\ To(h, "put") /\ UNCHANGED lock
  BY DEF Confirm
<1>2. /\ calls[h] \in Request /\ calls[h].kind = "confirm" /\ Bare(calls[h])
  <2>1. CallOK(h, calls[h], draws, lock) /\ calls[h] # Idle /\ calls[h] \in Request
    BY <1>1, Running
  <2>2. calls[h].kind = "confirm"
    BY <1>1, <2>1 DEF CallOK, KindsAt
  <2> QED BY <2>1, <2>2, BareIf
<1>3. CASE Refused(h) /\ UNCHANGED records
  BY <1>1, <1>2, <1>3, RefusedQuiet DEF Owing
<1>4. CASE /\ Admits(State(h), "confirm")
           /\ Remembers(h, Transition(State(h), "confirm"))
           /\ To(h, "put") /\ UNCHANGED lock
  <2> DEFINE s == Transition(State(h), "confirm")
  <2>1. State(h) \in States /\ (State(h) \in Traded => Stood(draws[C(h)]))
    BY <1>1, RecordFacts
  <2>2. Rule("confirm").so = {"Awaiting funding", "Activating", "Active"} /\ Rule("confirm").to = "Awaiting funding"
    BY DEF Rule
  <2>3. s \in States /\ (s \in Traded => Stood(draws[C(h)]))
    BY <2>1, <2>2 DEF Transition, States, Traded
  <2> HIDE DEF s
  <2>4. RecordsOK(records', draws)
    BY <1>2, <1>4, <2>3, RemembersStep DEF Base, Rest, s
  <2>5. Rest'
    BY <1>1, <2>4, RestRecords DEF Base, chain
  <2>6. /\ "put" \in Ats /\ "put" \notin Owing /\ "put" \notin Locked /\ "put" \notin Standing
        /\ "confirm" \in KindsAt("put") /\ "confirm" \notin Owing
    <3>1. calls[h].kind \in Kinds
      BY <1>2 DEF Request
    <3> QED BY <1>2, <3>1 DEF Ats, Owing, Locked, Standing, Buying, KindsAt
  <2> QED BY <1>1, <1>2, <1>4, <2>5, <2>6, WalkBare DEF chain
<1> QED BY <1>1, <1>3, <1>4

LEMMA GiveUpQuiet ==
  ASSUME Base, NEW h \in Handlers, GiveUp(h)
  PROVE  Base' /\ SliceQuiet(h) /\ MoneyQuiet(h)
<1>1. /\ calls[h].at = "lock" /\ "timeout" \in Faults /\ happened' = happened \cup {"timeout"}
      /\ Refused(h) /\ UNCHANGED <<chain, charged, claims, records>>
  BY DEF GiveUp, Happens
<1>2. Rest'
  BY <1>1, RestSame DEF Base, chain
<1>3. happened' \cap Stops # {}
  BY <1>1 DEF Stops
<1> QED BY <1>1, <1>2, <1>3, LeaveBare DEF Refused, Frees, Owing, chain

\* The lock is free: nobody is where only its holder is.
LEMMA AcquireQuiet ==
  ASSUME Base, NEW h \in Handlers, Acquire(h)
  PROVE  Base' /\ SliceQuiet(h) /\ MoneyQuiet(h)
<1> DEFINE a == LockedStep(calls[h].kind)
<1>1. /\ calls[h].at = "lock" /\ lock = NoOne /\ lock' = h /\ To(h, a)
      /\ UNCHANGED <<chain, charged, claims, records, happened>>
  BY DEF Acquire
<1>2. CallOK(h, calls[h], draws, lock) /\ calls[h] # Idle /\ calls[h] \in Request
  BY <1>1, Running
<1>3. calls[h].kind \in {"trade", "buy", "activate", "topUp", "withdraw"}
  BY <1>1, <1>2 DEF CallOK, KindsAt
<1>4. \A g \in Handlers : ~(g # h /\ lock = g)
  BY <1>1, CampaignNumbers
<1>5. CASE calls[h].kind \in {"activate", "topUp", "withdraw"}
  <2>1. a = "check"
    BY <1>5 DEF LockedStep
  <2>2. /\ a \in Ats /\ a \notin Owing /\ a \notin Standing /\ calls[h].kind \in KindsAt(a)
        /\ "lock" \notin Owing
    BY <1>5, <2>1 DEF Ats, Owing, Locked, Standing, Buying, KindsAt
  <2> QED BY <1>1, <1>4, <1>5, <2>1, <2>2, ToQuiet
<1>6. CASE calls[h].kind \in {"trade", "buy"}
  <2> DEFINE q == [calls[h] EXCEPT !.at = "guard"]
  <2>1. a = "guard" /\ "guard" \in Ats
    BY <1>6 DEF LockedStep, Ats, Locked, Buying
  <2>2. calls' = [calls EXCEPT ![h] = q]
    BY <1>1, <2>1 DEF To
  <2>3. /\ q \in Request /\ q.at = "guard" /\ q.kind = calls[h].kind /\ q.c = calls[h].c
        /\ q.due = calls[h].due /\ q.slice = calls[h].slice
    BY <1>2, <2>1, WalkFacts
  <2> HIDE DEF q
  <2>4. Rest' /\ UNCHANGED draws
    BY <1>1, RestSame DEF Base, chain
  <2>5. Stood(draws[calls[h].c])
    <3>1. calls[h].kind = "trade" => calls[h].c \in Opened
      BY <1>2 DEF CallOK
    <3>2. \A c \in Campaigns : c \in Opened => Stood(draws[c])
      BY DEF Base, Rest, DrawOK
    <3>3. calls[h].kind = "buy" => Stood(draws[calls[h].c])
      BY <1>1, <1>2 DEF CallOK
    <3>4. calls[h].c \in Campaigns
      BY <1>2 DEF Request
    <3> QED BY <1>6, <3>1, <3>2, <3>3, <3>4
  <2>6. CallOK(h, q, draws', lock')
    <3>1. q.kind \in KindsAt("guard")
      BY <1>6, <2>3 DEF KindsAt
    <3> QED BY <1>1, <1>2, <1>6, <2>3, <2>4, <2>5, <3>1 DEF CallOK, Holding, Buying, Locked
  <2>7. CallsOK' /\ calls'[h] = q /\ \A g \in Handlers \ {h} : calls'[g] = calls[g]
    BY <1>4, <2>2, <2>3, <2>4, <2>6, CallMoves DEF Base
  <2>8. \A s \in Slices : HoldsIn(calls[h], s) <=> HoldsIn(q, s)
    BY <1>1, <1>2, <2>3 DEF HoldsIn, Holding, Buying, Idle
  <2> QED BY <1>1, <1>2, <2>3, <2>4, <2>7, <2>8 DEF Base, SliceQuiet, MoneyQuiet, Owing, chain
<1> QED BY <1>3, <1>5, <1>6

LEMMA ValidateQuiet ==
  ASSUME Base, NEW h \in Handlers, Validate(h)
  PROVE  Base' /\ SliceQuiet(h) /\ MoneyQuiet(h)
<1>1. /\ calls[h].at = "validate"
      /\ UNCHANGED <<chain, charged, claims, records, happened>>
      /\ Refused(h) \/ (To(h, "claim") /\ UNCHANGED lock)
  BY DEF Validate
<1>2. calls[h].kind = "trade" /\ calls[h].due = {} /\ Bare(calls[h])
  <2>1. CallOK(h, calls[h], draws, lock) /\ calls[h] # Idle
    BY <1>1, Running
  <2> QED BY <1>1, <2>1, BareIf DEF CallOK, KindsAt
<1>3. CASE Refused(h)
  BY <1>1, <1>2, <1>3, RefusedQuiet DEF Owing
<1>4. CASE To(h, "claim") /\ UNCHANGED lock
  BY <1>1, <1>2, <1>4, ToQuiet DEF Owing, Ats, KindsAt, Holding, Buying, Locked, Standing
<1> QED BY <1>1, <1>3, <1>4

\* A request that claims a slice, or takes up one it has claimed.
LEMMA SliceMoves ==
  ASSUME Base, NEW h \in Handlers, NEW q \in Request, calls' = [calls EXCEPT ![h] = q],
         calls[h].at = "claim", q.at \in {"claim", "lock"},
         q.kind = calls[h].kind, q.c = calls[h].c,
         q.at = "lock" => q.slice \in Slices /\ q.slice \notin q.due,
         UNCHANGED <<chain, charged, lock, records, happened>>
  PROVE  /\ Base' /\ MoneyQuiet(h) /\ calls'[h] = q
         /\ \A g \in Handlers \ {h} : calls'[g] = calls[g]
<1>1. CallOK(h, calls[h], draws, lock) /\ calls[h] # Idle /\ calls[h] \in Request
  BY Running
<1>2. calls[h].kind = "trade" /\ calls[h].c \in Opened
  BY <1>1 DEF CallOK, KindsAt
<1>3. q.kind \in KindsAt(q.at)
  BY <1>2 DEF KindsAt
<1>4. CallOK(h, q, draws', lock')
  BY <1>2, <1>3 DEF CallOK, Holding, Buying, Locked
<1>5. Rest'
  BY RestSame DEF Base, chain
<1>6. CallsOK' /\ calls'[h] = q /\ \A g \in Handlers \ {h} : calls'[g] = calls[g]
  BY <1>4, CallMoves DEF Base, chain
<1> QED BY <1>5, <1>6 DEF Base, MoneyQuiet, Owing, chain

Due(p, t, s)  == [p EXCEPT !.todo = t, !.due = s]
Takes(p, s)   == [p EXCEPT !.at = "lock", !.slice = s, !.due = @ \ {s}]

LEMMA ClaimQuiet ==
  ASSUME Base, NEW h \in Handlers, NEW s \in Slices, ClaimSlice(h, s)
  PROVE  /\ Base' /\ MoneyQuiet(h)
         /\ \A g \in Handlers \ {h} : calls'[g] = calls[g]
         /\ calls'[h] # Idle /\ calls'[h].at = "claim"
         /\ calls'[h].due = IF s \in claims THEN calls[h].due ELSE calls[h].due \cup {s}
<1> DEFINE q == Due(calls[h], calls[h].todo \ {s}, IF s \in claims THEN calls[h].due ELSE calls[h].due \cup {s})
<1>1. /\ calls[h].at = "claim" /\ calls' = [calls EXCEPT ![h] = q]
      /\ UNCHANGED <<chain, charged, lock, records, happened>>
  BY DEF ClaimSlice, Due
<1>2. calls[h] \in Request
  BY <1>1, Running
<1>3. /\ q \in Request /\ q.at = "claim" /\ q.kind = calls[h].kind /\ q.c = calls[h].c
      /\ q.due = IF s \in claims THEN calls[h].due ELSE calls[h].due \cup {s}
  BY <1>1, <1>2 DEF Due, Request
<1> HIDE DEF q
<1>4. q # Idle
  BY <1>3 DEF Idle
<1> QED BY <1>1, <1>3, <1>4, SliceMoves

LEMMA NextSliceQuiet ==
  ASSUME Base, NEW h \in Handlers, NextSlice(h)
  PROVE  Base' /\ SliceQuiet(h) /\ MoneyQuiet(h)
<1>1. /\ calls[h].at = "claim" /\ UNCHANGED <<chain, store, records, happened>>
      /\ \/ calls[h].due = {} /\ To(h, "put")
         \/ \E s \in calls[h].due : calls' = [calls EXCEPT ![h] = Takes(calls[h], s)]
  BY DEF NextSlice, Takes
<1>2. CallOK(h, calls[h], draws, lock) /\ calls[h] # Idle /\ calls[h] \in Request
  BY <1>1, Running
<1>3. calls[h].kind = "trade" /\ calls[h].kind \in Kinds
  BY <1>1, <1>2 DEF CallOK, KindsAt, Request
<1>4. CASE calls[h].due = {} /\ To(h, "put")
  BY <1>1, <1>3, <1>4, ToQuiet DEF Owing, Ats, KindsAt, Holding, Buying, Locked, Standing, store
<1>5. CASE \E s \in calls[h].due : calls' = [calls EXCEPT ![h] = Takes(calls[h], s)]
  <2>1. PICK s \in calls[h].due : calls' = [calls EXCEPT ![h] = Takes(calls[h], s)]
    BY <1>5
  <2> DEFINE q == Takes(calls[h], s)
  <2>2. s \in Slices /\ calls[h].due \subseteq Slices
    BY <1>2 DEF Request
  <2>3. /\ q \in Request /\ q.at = "lock" /\ q.kind = calls[h].kind /\ q.c = calls[h].c
        /\ q.slice = s /\ q.due = calls[h].due \ {s}
    BY <1>2, <2>2 DEF Takes, Request, Ats
  <2> HIDE DEF q
  <2>4. /\ Base' /\ MoneyQuiet(h) /\ calls'[h] = q
        /\ \A g \in Handlers \ {h} : calls'[g] = calls[g]
    BY <1>1, <2>1, <2>2, <2>3, SliceMoves DEF q, store
  <2>5. \A t \in Slices : HoldsIn(calls[h], t) <=> HoldsIn(q, t)
    BY <1>1, <1>2, <2>3 DEF HoldsIn, Holding, Buying, Idle
  <2> QED BY <1>1, <2>3, <2>4, <2>5 DEF SliceQuiet, chain, store
<1> QED BY <1>1, <1>4, <1>5

LEMMA AuthorizeQuiet ==
  ASSUME Base, NEW h \in Handlers, Authorize(h)
  PROVE  Base' /\ SliceQuiet(h) /\ MoneyQuiet(h)
<1>1. /\ calls[h].at = "authorize"
      /\ UNCHANGED <<chain, charged, claims, records, happened>>
      /\ Refused(h) \/ (State(h) = "Active" /\ To(h, "lock") /\ UNCHANGED lock)
  BY DEF Authorize
<1>2. calls[h].kind = "buy" /\ Bare(calls[h])
  <2>1. CallOK(h, calls[h], draws, lock) /\ calls[h] # Idle
    BY <1>1, Running
  <2>2. calls[h].kind = "buy"
    BY <1>1, <2>1 DEF CallOK, KindsAt
  <2> QED BY <2>1, <2>2, BareIf
<1>3. CASE Refused(h)
  BY <1>1, <1>2, <1>3, RefusedQuiet DEF Owing
<1>4. CASE State(h) = "Active" /\ To(h, "lock") /\ UNCHANGED lock
  <2>1. Stood(draws[C(h)])
    BY <1>1, <1>4, RecordFacts DEF Traded
  <2> QED BY <1>1, <1>2, <1>4, <2>1, ToQuiet DEF Owing, Ats, KindsAt, Locked, Standing, Buying
<1> QED BY <1>1, <1>3, <1>4

----------------------------------------------------------------------------
(* Buys.                                                                   *)

\* What is known of a request that buys.
LEMMA BuyerFacts ==
  ASSUME Base, NEW h \in Handlers, calls[h].at \in Buying
  PROVE  /\ calls[h] \in Request /\ calls[h] # Idle /\ CallOK(h, calls[h], draws, lock)
         /\ calls[h].kind \in {"trade", "buy"} /\ lock = h
         /\ calls[h].c \in Campaigns /\ Stood(draws[calls[h].c])
         /\ calls[h].slice \notin calls[h].due
         /\ calls[h].kind = "buy" => Bare(calls[h])
         /\ calls[h].kind = "trade" => calls[h].c \in Opened /\ calls[h].slice \in Slices
<1>1. calls[h].at # "idle"
  BY DEF Buying
<1>2. CallOK(h, calls[h], draws, lock) /\ calls[h] # Idle /\ calls[h] \in Request
  BY <1>1, Running
<1>3. calls[h].kind \in {"trade", "buy"}
  BY <1>2 DEF CallOK, KindsAt, Buying
<1>4. calls[h].kind = "buy" => Bare(calls[h])
  BY <1>2, BareIf
<1> QED BY <1>2, <1>3, <1>4 DEF CallOK, Locked, Holding, Request

\* A buy goes on, holding the lock.
LEMMA BuyMoves ==
  ASSUME Base, Rest', NEW h \in Handlers, NEW q \in Request, calls' = [calls EXCEPT ![h] = q],
         calls[h].at \in Buying, q.at \in Buying,
         q.kind = calls[h].kind, q.c = calls[h].c, q.slice = calls[h].slice, q.due = calls[h].due,
         UNCHANGED lock,
         \A c \in Campaigns : Stood(draws[c]) => Stood(draws'[c])
  PROVE  /\ Base' /\ calls'[h] = q
         /\ \A g \in Handlers \ {h} : calls'[g] = calls[g]
         /\ \A s \in Slices : HoldsIn(calls[h], s) <=> HoldsIn(q, s)
<1>1. /\ CallOK(h, calls[h], draws, lock) /\ calls[h] # Idle /\ lock = h
      /\ Stood(draws[calls[h].c]) /\ calls[h].c \in Campaigns /\ calls[h].kind \in {"trade", "buy"}
  BY BuyerFacts
<1>2. q.kind \in KindsAt(q.at)
  BY <1>1 DEF KindsAt, Buying
<1>3. Stood(draws'[q.c])
  BY <1>1
<1>4. q.at \notin {"load", "validate", "put", "lock"}
  BY DEF Buying
<1>5. CallOK(h, q, draws', lock')
  BY <1>1, <1>2, <1>3, <1>4 DEF CallOK, Holding, Locked
<1>6. CallsOK' /\ calls'[h] = q /\ \A g \in Handlers \ {h} : calls'[g] = calls[g]
  BY <1>5, CallMoves DEF Base
<1>7. q # Idle
  BY DEF Idle, Buying
<1> QED BY <1>1, <1>6, <1>7 DEF Base, HoldsIn, Holding

\* A buy is over: the lock is freed and nothing is held but what is due.
LEMMA BuyEnds ==
  ASSUME Base, Rest', NEW h \in Handlers, NEW q \in Request, calls' = [calls EXCEPT ![h] = q],
         calls[h].at \in Buying, q.at = AfterBuy(calls[h].kind),
         q.kind = calls[h].kind, q.c = calls[h].c, q.slice = calls[h].slice, q.due = calls[h].due,
         Frees(h), UNCHANGED draws
  PROVE  /\ Base' /\ calls'[h] = q /\ q # Idle /\ q.at \in {"claim", "count"}
         /\ \A g \in Handlers \ {h} : calls'[g] = calls[g]
<1>1. /\ CallOK(h, calls[h], draws, lock) /\ calls[h] # Idle /\ lock = h
      /\ Stood(draws[calls[h].c]) /\ calls[h].c \in Campaigns /\ calls[h].kind \in {"trade", "buy"}
  BY BuyerFacts
<1>2. q.kind \in KindsAt(q.at) /\ q.at \in {"claim", "count"}
  BY <1>1 DEF KindsAt, AfterBuy
<1>3. CallOK(h, q, draws', lock')
  BY <1>1, <1>2 DEF CallOK, Holding, Locked, Buying
<1>4. \A g \in Handlers : g # h /\ lock = g => lock' = g
  BY <1>1
<1>5. CallsOK' /\ calls'[h] = q /\ \A g \in Handlers \ {h} : calls'[g] = calls[g]
  BY <1>3, <1>4, CallMoves DEF Base
<1> QED BY <1>2, <1>5 DEF Base, Idle

Decides(p, a, o) == [p EXCEPT !.at = a, !.outcome = o]
Reads(p, a, b)   == [p EXCEPT !.at = a, !.before = b]

LEMMA DecidesFields ==
  ASSUME NEW p \in Request, NEW a \in Ats, NEW o \in Outcomes,
         NEW q, q = Decides(p, a, o)
  PROVE  /\ q \in Request /\ q.at = a /\ q.outcome = o /\ q.before = p.before
         /\ q.kind = p.kind /\ q.c = p.c /\ q.slice = p.slice /\ q.due = p.due
BY DEF Decides, Request

LEMMA ReadsFields ==
  ASSUME NEW p \in Request, NEW a \in Ats, NEW b \in Int, NEW q, q = Reads(p, a, b)
  PROVE  /\ q \in Request /\ q.at = a /\ q.before = b /\ q.outcome = p.outcome
         /\ q.kind = p.kind /\ q.c = p.c /\ q.slice = p.slice /\ q.due = p.due
BY DEF Reads, Request

LEMMA GuardBase ==
  ASSUME Base, NEW h \in Handlers, Guard(h)
  PROVE  /\ Base' /\ SliceQuiet(h)
         /\ \/ MoneyQuiet(h)
            \/ /\ calls'[h] \in Request /\ calls'[h].at = "send"
               /\ calls[h].at = "guard" /\ calls'[h].c = calls[h].c
               /\ calls'[h].before = draws[calls[h].c].spent
               /\ \A g \in Handlers \ {h} : calls'[g] = calls[g]
               /\ UNCHANGED <<chain, charged, happened>>
<1>1. /\ calls[h].at = "guard"
      /\ UNCHANGED <<chain, charged, claims, happened>>
      /\ \/ /\ exit \/ sessions[C(h)] # "open"
            /\ Refused(h)
            /\ IF exit THEN UNCHANGED records
               ELSE Remembers(h, IF sessions[C(h)] = "revoked" THEN "Revoked" ELSE "Paused")
         \/ /\ calls' = [calls EXCEPT ![h] = Reads(calls[h], "send", draws[C(h)].spent)]
            /\ UNCHANGED <<lock, records>>
  BY DEF Guard, Reads
<1>2. calls[h].at \in Buying /\ calls[h].at \notin Owing
  BY <1>1 DEF Buying, Owing
<1>3. /\ calls[h] \in Request /\ calls[h] # Idle /\ calls[h].c \in Campaigns /\ Stood(draws[calls[h].c])
      /\ calls[h].kind \in {"trade", "buy"}
      /\ calls[h].kind = "buy" => Bare(calls[h])
      /\ calls[h].kind = "trade" => calls[h].c \in Opened
  BY <1>2, BuyerFacts
<1>4. CASE /\ exit \/ sessions[C(h)] # "open"
           /\ Refused(h)
           /\ IF exit THEN UNCHANGED records
              ELSE Remembers(h, IF sessions[C(h)] = "revoked" THEN "Revoked" ELSE "Paused")
  <2>1. RecordsOK(records', draws)
    <3>1. RecordsOK(records, draws)
      BY DEF Base, Rest
    <3>2. CASE exit
      BY <1>4, <3>1, <3>2
    <3>3. CASE ~exit
      <4> DEFINE s == IF sessions[C(h)] = "revoked" THEN "Revoked" ELSE "Paused"
      <4>1. s \in States /\ Stood(draws[C(h)]) /\ Remembers(h, s)
        BY <1>3, <1>4, <3>3 DEF States, Traded, C
      <4> HIDE DEF s
      <4> QED BY <1>3, <3>1, <4>1, RemembersStep
    <3> QED BY <3>2, <3>3
  <2>2. Rest'
    BY <1>1, <2>1, RestRecords DEF Base, chain
  <2>3. Bare(calls[h]) \/ happened' \cap Stops # {}
    <3>1. CASE calls[h].kind = "buy"
      BY <1>3, <3>1
    <3>2. CASE calls[h].kind = "trade"
      BY <1>1, <1>3, <1>4, <3>2 DEF Base, Rest, SessionsOK, Stops, C
    <3> QED BY <1>3, <3>1, <3>2
  <2> QED BY <1>1, <1>2, <1>4, <2>2, <2>3, LeaveBare DEF Refused, Frees, chain
<1>5. CASE /\ calls' = [calls EXCEPT ![h] = Reads(calls[h], "send", draws[C(h)].spent)]
           /\ UNCHANGED <<lock, records>>
  <2> DEFINE q == Reads(calls[h], "send", draws[C(h)].spent)
  <2>1. draws[calls[h].c].spent \in Int /\ "send" \in Ats /\ "send" \in Buying
    BY <1>3 DEF Base, Rest, Draw, Ats, Locked, Buying
  <2>2. /\ q \in Request /\ q.at = "send" /\ q.before = draws[calls[h].c].spent
        /\ q.kind = calls[h].kind /\ q.c = calls[h].c /\ q.slice = calls[h].slice /\ q.due = calls[h].due
    BY <1>3, <2>1, ReadsFields DEF C
  <2> HIDE DEF q
  <2>3. Rest' /\ calls' = [calls EXCEPT ![h] = q] /\ UNCHANGED <<lock, draws>>
    BY <1>1, <1>5, RestSame DEF Base, chain, q
  <2>4. /\ Base' /\ calls'[h] = q
        /\ \A g \in Handlers \ {h} : calls'[g] = calls[g]
        /\ \A s \in Slices : HoldsIn(calls[h], s) <=> HoldsIn(q, s)
    BY <1>2, <2>1, <2>2, <2>3, BuyMoves
  <2> QED BY <1>1, <2>2, <2>4 DEF SliceQuiet, chain
<1> QED BY <1>1, <1>4, <1>5

Grows == happened' \in {happened} \cup {happened \cup {f} : f \in Faults \cup {"stopped"}}

\* One draw changes.
LEMMA RestDraw ==
  ASSUME Rest, NEW c \in Campaigns, NEW d, draws' = [draws EXCEPT ![c] = d], DrawOK(c, d),
         Stood(draws[c]) => Stood(d),
         RecordsOK(records', draws), UNCHANGED <<sessions, exit, paid>>, Grows,
         LateOK(late', happened'), bought' \in [Slices -> Nat], charged' \in Int
  PROVE  /\ Rest' /\ draws'[c] = d
         /\ \A e \in Campaigns \ {c} : draws'[e] = draws[e]
         /\ \A e \in Campaigns : Stood(draws[e]) => Stood(draws'[e])
<1>1. /\ draws' \in [Campaigns -> Draw] /\ draws'[c] = d
      /\ \A e \in Campaigns \ {c} : draws'[e] = draws[e]
  BY DEF Rest, DrawOK
<1>2. \A e \in Campaigns : Stood(draws[e]) => Stood(draws'[e])
  BY <1>1
<1>3. \A e \in Campaigns : DrawOK(e, draws'[e])
  BY <1>1 DEF Rest
<1>4. RecordsOK(records', draws')
  BY <1>2 DEF RecordsOK
<1>5. SessionsOK(sessions', draws', happened')
  BY <1>2 DEF Rest, SessionsOK, Grows
<1>6. happened' \subseteq Faults \cup {"stopped"} /\ (exit' => "exit" \in happened') /\ paid' \in [Keys -> Nat]
  BY DEF Rest, Grows
<1> QED BY <1>1, <1>2, <1>3, <1>4, <1>5, <1>6 DEF Rest

Spends(d, n) == [d EXCEPT !.spent = @ + n]

\* A buy that is mined.
LEMMA BuysFacts ==
  ASSUME Rest, NEW c \in Campaigns, NEW s, Buys(c, s), MayBuy(c),
         UNCHANGED <<sessions, exit, paid, records, charged>>, Grows, LateOK(late', happened')
  PROVE  /\ Rest' /\ \A e \in Campaigns : Stood(draws[e]) => Stood(draws'[e])
         /\ draws'[c] = Spends(draws[c], PRICE) /\ draws'[c].state = "Funded" /\ draws[c].state = "Funded"
         /\ draws'[c].amount = draws[c].amount /\ draws'[c].spent = draws[c].spent + PRICE
         /\ \A e \in Campaigns \ {c} : draws'[e] = draws[e]
         /\ \A t \in Slices : bought'[t] = IF t = s THEN bought[t] + 1 ELSE bought[t]
<1> DEFINE d == Spends(draws[c], PRICE)
<1>1. DrawOK(c, draws[c]) /\ PRICE \in Nat /\ RecordsOK(records, draws) /\ bought \in [Slices -> Nat] /\ charged \in Int
  BY CampaignNumbers DEF Rest
<1>2. /\ draws' = [draws EXCEPT ![c] = d]
      /\ bought' = IF s \in Slices THEN [bought EXCEPT ![s] = @ + 1] ELSE bought
      /\ draws[c].state = "Funded" /\ PRICE <= draws[c].amount - draws[c].spent
  BY DEF Buys, Draws, Spends, MayBuy, Left
<1>3. /\ d \in Draw /\ d.state = "Funded" /\ d.amount = draws[c].amount /\ d.spent = draws[c].spent + PRICE
      /\ d.amount \in Nat /\ draws[c].spent \in Nat
  BY <1>1, <1>2 DEF DrawOK, Draw, Spends
<1> HIDE DEF d
<1>4. DrawOK(c, d) /\ Stood(d)
  BY <1>1, <1>2, <1>3 DEF DrawOK, Stood
<1>5. /\ bought' \in [Slices -> Nat]
      /\ \A t \in Slices : bought'[t] = IF t = s THEN bought[t] + 1 ELSE bought[t]
  BY <1>1, <1>2
<1>6. /\ Rest' /\ draws'[c] = d
      /\ \A e \in Campaigns \ {c} : draws'[e] = draws[e]
      /\ \A e \in Campaigns : Stood(draws[e]) => Stood(draws'[e])
  BY <1>1, <1>2, <1>4, <1>5, RestDraw
<1> QED BY <1>2, <1>3, <1>5, <1>6 DEF d

LEMMA MovedBase ==
  ASSUME Base, NEW h \in Handlers, Moved(h)
  PROVE  /\ Base' /\ SliceQuiet(h)
         /\ calls[h].at = "send" /\ calls'[h] \in Request /\ calls'[h].at = "rejected"
         /\ \A g \in Handlers \ {h} : calls'[g] = calls[g]
         /\ UNCHANGED <<chain, charged>> /\ happened \subseteq happened'
<1> DEFINE q == Decides(calls[h], "rejected", "refused")
<1>1. /\ calls[h].at = "send" /\ "moved" \in Faults /\ happened' = happened \cup {"moved"}
      /\ calls' = [calls EXCEPT ![h] = q] /\ UNCHANGED <<chain, store, records>>
  BY DEF Moved, Happens, Decides
<1>2. "rejected" \in Buying /\ "rejected" \in Ats /\ calls[h].at \in Buying /\ "refused" \in Outcomes
  BY <1>1 DEF Buying, Ats, Locked, Outcomes
<1>3. calls[h] \in Request
  BY <1>2, BuyerFacts
<1>4. /\ q \in Request /\ q.at = "rejected"
      /\ q.kind = calls[h].kind /\ q.c = calls[h].c /\ q.slice = calls[h].slice /\ q.due = calls[h].due
  BY <1>2, <1>3, DecidesFields
<1> HIDE DEF q
<1>5. Rest'
  BY <1>1, RestSame DEF Base, chain, store
<1>6. /\ Base' /\ calls'[h] = q
      /\ \A g \in Handlers \ {h} : calls'[g] = calls[g]
      /\ \A s \in Slices : HoldsIn(calls[h], s) <=> HoldsIn(q, s)
  BY <1>1, <1>2, <1>4, <1>5, BuyMoves DEF chain, store
<1> QED BY <1>1, <1>4, <1>6 DEF SliceQuiet, chain, store

\* What every decided transaction leaves: the request after it.
AfterIt(h, o) ==
  /\ calls'[h] \in Request /\ calls'[h].at = "after" /\ calls'[h].outcome = o
  /\ calls'[h].before = calls[h].before /\ calls'[h].c = calls[h].c
  /\ calls'[h].slice = calls[h].slice /\ calls'[h].due = calls[h].due
  /\ \A g \in Handlers \ {h} : calls'[g] = calls[g]
  /\ \A s \in Slices : HoldsIn(calls[h], s) <=> HoldsIn(calls'[h], s)

LEMMA DecidedBase ==
  ASSUME Base, Rest', NEW h \in Handlers, calls[h].at = "send",
         NEW o \in Outcomes,
         calls' = [calls EXCEPT ![h] = Decides(calls[h], "after", o)],
         UNCHANGED lock, \A c \in Campaigns : Stood(draws[c]) => Stood(draws'[c])
  PROVE  Base' /\ AfterIt(h, o)
<1> DEFINE q == Decides(calls[h], "after", o)
<1>1. "after" \in Buying /\ "after" \in Ats /\ calls[h].at \in Buying
  BY DEF Buying, Ats, Locked
<1>2. calls[h] \in Request
  BY <1>1, BuyerFacts
<1>3. /\ q \in Request /\ q.at = "after" /\ q.outcome = o /\ q.before = calls[h].before
      /\ q.kind = calls[h].kind /\ q.c = calls[h].c /\ q.slice = calls[h].slice /\ q.due = calls[h].due
  BY <1>1, <1>2, DecidesFields
<1> HIDE DEF q
<1>4. calls' = [calls EXCEPT ![h] = q]
  BY DEF q
<1>5. /\ Base' /\ calls'[h] = q
      /\ \A g \in Handlers \ {h} : calls'[g] = calls[g]
      /\ \A s \in Slices : HoldsIn(calls[h], s) <=> HoldsIn(q, s)
  BY <1>1, <1>3, <1>4, BuyMoves
<1> QED BY <1>3, <1>5 DEF AfterIt

LEMMA SendBase ==
  ASSUME Base, NEW h \in Handlers, Send(h)
  PROVE  /\ Base' /\ calls[h].at = "send" /\ UNCHANGED <<claims, late, paid, charged>>
         /\ happened \subseteq happened' /\ happened' \cap Stops = happened \cap Stops
         /\ ("unseen" \in happened' <=> "unseen" \in happened)
         /\ \/ /\ AfterIt(h, "mined") /\ MayBuy(C(h))
               /\ draws'[C(h)] = Spends(draws[C(h)], PRICE)
               /\ draws'[C(h)].spent = draws[C(h)].spent + PRICE
               /\ \A e \in Campaigns \ {C(h)} : draws'[e] = draws[e]
               /\ \A t \in Slices : bought'[t] = IF t = calls[h].slice THEN bought[t] + 1 ELSE bought[t]
            \/ AfterIt(h, "reverted") /\ UNCHANGED <<draws, bought>>
<1>1. /\ calls[h].at = "send" /\ UNCHANGED <<sessions, exit, paid, late, store, records>>
      /\ \/ /\ MayBuy(C(h)) /\ Buys(C(h), calls[h].slice)
            /\ calls' = [calls EXCEPT ![h] = Decides(calls[h], "after", "mined")]
            /\ UNCHANGED happened
         \/ /\ happened' = happened \/ ("reverts" \in Faults /\ happened' = happened \cup {"reverts"})
            /\ calls' = [calls EXCEPT ![h] = Decides(calls[h], "after", "reverted")]
            /\ UNCHANGED <<draws, bought>>
  BY DEF Send, Happens, Decides
<1>2. calls[h].c \in Campaigns /\ Rest /\ LateOK(late, happened)
  BY <1>1, BuyerFacts DEF Buying, Base, Rest
<1>3. /\ happened \subseteq happened' /\ happened' \cap Stops = happened \cap Stops
      /\ ("unseen" \in happened' <=> "unseen" \in happened)
  BY <1>1 DEF Stops
<1>4. CASE /\ MayBuy(C(h)) /\ Buys(C(h), calls[h].slice)
           /\ calls' = [calls EXCEPT ![h] = Decides(calls[h], "after", "mined")]
           /\ UNCHANGED happened
  <2>1. /\ Rest' /\ \A e \in Campaigns : Stood(draws[e]) => Stood(draws'[e])
        /\ draws'[C(h)] = Spends(draws[C(h)], PRICE)
        /\ draws'[C(h)].spent = draws[C(h)].spent + PRICE
        /\ \A e \in Campaigns \ {C(h)} : draws'[e] = draws[e]
        /\ \A t \in Slices : bought'[t] = IF t = calls[h].slice THEN bought[t] + 1 ELSE bought[t]
    BY <1>1, <1>2, <1>4, BuysFacts DEF Grows, C, store
  <2>2. Base' /\ AfterIt(h, "mined")
    <3>1. "mined" \in Outcomes
      BY DEF Outcomes
    <3> QED BY <3>1, <1>1, <1>4, <2>1, DecidedBase DEF store
  <2> QED BY <1>1, <1>3, <1>4, <2>1, <2>2 DEF store
<1>5. CASE /\ happened' = happened \/ ("reverts" \in Faults /\ happened' = happened \cup {"reverts"})
           /\ calls' = [calls EXCEPT ![h] = Decides(calls[h], "after", "reverted")]
           /\ UNCHANGED <<draws, bought>>
  <2>1. Rest'
    BY <1>1, <1>2, <1>5, RestSame DEF store
  <2>2. Base' /\ AfterIt(h, "reverted")
    <3>1. "reverted" \in Outcomes
      BY DEF Outcomes
    <3> QED BY <3>1, <1>1, <1>5, <2>1, DecidedBase DEF store
  <2> QED BY <1>1, <1>3, <1>5, <2>2 DEF store
<1> QED BY <1>1, <1>4, <1>5

LEMMA UnseenBase ==
  ASSUME Base, NEW h \in Handlers, Unseen(h)
  PROVE  /\ Base' /\ calls[h].at = "send" /\ AfterIt(h, "unknown")
         /\ UNCHANGED <<claims, bought, draws, paid, charged>>
         /\ "unseen" \notin happened /\ happened' = happened \cup {"unseen"}
         /\ late = {} /\ \A tx \in late' : tx[2] = calls[h].slice
<1>1. /\ calls[h].at = "send" /\ UNCHANGED <<draws, sessions, exit, paid, bought, store, records>>
      /\ "unseen" \in Faults /\ "unseen" \notin happened /\ happened' = happened \cup {"unseen"}
      /\ calls' = [calls EXCEPT ![h] = Decides(calls[h], "after", "unknown")]
      /\ late' = late \cup {<<C(h), calls[h].slice, count>>}
  BY DEF Unseen, Happens, Decides, Once
<1>2. calls[h].c \in Campaigns /\ calls[h].slice \in Slices \cup {NoOne}
  BY <1>1, Running DEF Request
<1>3. late = {}
  BY <1>1 DEF Base, Rest, LateOK
<1>4. late' = {<<calls[h].c, calls[h].slice, count>>}
  BY <1>1, <1>3 DEF C
<1>5. LateOK(late', happened')
  BY <1>1, <1>2, <1>4 DEF LateOK
<1>6. Rest'
  BY <1>1, <1>5 DEF Base, Rest, SessionsOK, store
<1>7. "unknown" \in Outcomes
  BY DEF Outcomes
<1>8. Base' /\ AfterIt(h, "unknown")
  BY <1>1, <1>6, <1>7, DecidedBase DEF store
<1> QED BY <1>1, <1>3, <1>4, <1>8 DEF store

LEMMA MinedLateBase ==
  ASSUME Base, NEW tx \in late, MinedLate(tx)
  PROVE  /\ Base' /\ UNCHANGED <<calls, claims, paid, charged, happened>> /\ late' = {}
         /\ "unseen" \in happened
         /\ tx[1] \in Campaigns /\ \A x \in late : x = tx
         /\ \/ UNCHANGED <<draws, bought>>
            \/ /\ MayBuy(tx[1])
               /\ draws'[tx[1]] = Spends(draws[tx[1]], PRICE)
               /\ draws'[tx[1]].spent = draws[tx[1]].spent + PRICE
               /\ \A e \in Campaigns \ {tx[1]} : draws'[e] = draws[e]
               /\ \A t \in Slices : bought'[t] = IF t = tx[2] THEN bought[t] + 1 ELSE bought[t]
<1>1. /\ late' = late \ {tx}
      /\ UNCHANGED <<sessions, exit, paid, store, records, calls, happened>>
      /\ IF MayBuy(tx[1]) THEN Buys(tx[1], tx[2]) ELSE UNCHANGED <<draws, bought>>
  BY DEF MinedLate
<1>2. tx[1] \in Campaigns /\ (\A x \in late : x = tx) /\ "unseen" \in happened
  BY DEF Base, Rest, LateOK
<1>3. late' = {} /\ LateOK(late', happened')
  BY <1>1, <1>2 DEF LateOK
<1>4. /\ Rest' /\ \A e \in Campaigns : Stood(draws[e]) => Stood(draws'[e])
      /\ \/ UNCHANGED <<draws, bought>>
         \/ /\ MayBuy(tx[1])
            /\ draws'[tx[1]] = Spends(draws[tx[1]], PRICE)
            /\ draws'[tx[1]].spent = draws[tx[1]].spent + PRICE
            /\ \A e \in Campaigns \ {tx[1]} : draws'[e] = draws[e]
            /\ \A t \in Slices : bought'[t] = IF t = tx[2] THEN bought[t] + 1 ELSE bought[t]
  <2>1. CASE MayBuy(tx[1])
    BY <1>1, <1>2, <1>3, <2>1, BuysFacts DEF Base, Grows, store
  <2>2. CASE ~MayBuy(tx[1])
    BY <1>1, <1>3, <2>2 DEF Base, Rest, store
  <2> QED BY <2>1, <2>2
<1>5. ASSUME NEW g \in Handlers PROVE CallOK(g, calls'[g], draws', lock')
  <2>1. CallOK(g, calls[g], draws, lock) /\ calls'[g] = calls[g] /\ lock' = lock
    BY <1>1 DEF Base, CallsOK, store
  <2>2. calls[g] \in Request => calls[g].c \in Campaigns
    BY DEF Request
  <2> QED BY <1>4, <2>1, <2>2 DEF CallOK
<1>6. CallsOK'
  BY <1>1, <1>5 DEF Base, CallsOK
<1> QED BY <1>1, <1>2, <1>3, <1>4, <1>6 DEF Base, store

LEMMA JudgeBase ==
  ASSUME Base, NEW h \in Handlers, Judge(h)
  PROVE  /\ Base' /\ calls[h].at = "after" /\ UNCHANGED <<chain, store, happened>>
         /\ calls'[h] \in Request /\ calls'[h].outcome = calls[h].outcome /\ calls'[h].c = calls[h].c
         /\ calls'[h].slice = calls[h].slice /\ calls'[h].due = calls[h].due
         /\ calls'[h].before = draws[calls[h].c].spent - calls[h].before
         /\ calls'[h].at = IF \/ calls[h].outcome = "mined"
                              \/ calls[h].outcome = "unknown" /\ draws[calls[h].c].spent > calls[h].before
                           THEN "charge" ELSE "rejected"
         /\ \A g \in Handlers \ {h} : calls'[g] = calls[g]
         /\ \A s \in Slices : HoldsIn(calls[h], s) <=> HoldsIn(calls'[h], s)
<1> DEFINE spent == draws[calls[h].c].spent
           a == IF \/ calls[h].outcome = "mined"
                   \/ calls[h].outcome = "unknown" /\ spent > calls[h].before
                THEN "charge" ELSE "rejected"
           q == Reads(calls[h], a, spent - calls[h].before)
<1>1. /\ calls[h].at = "after" /\ calls' = [calls EXCEPT ![h] = q]
      /\ UNCHANGED <<chain, store, records, happened>>
  BY DEF Judge, Reads, C
<1>2. a \in Buying /\ a \in Ats /\ calls[h].at \in Buying
  BY <1>1 DEF Buying, Ats, Locked
<1>3. calls[h] \in Request /\ calls[h].before \in Int /\ spent \in Int
  BY <1>2, BuyerFacts DEF Request, Base, Rest, Draw
<1>4. spent - calls[h].before \in Int
  BY <1>3
<1> HIDE DEF a, spent
<1>5. /\ q \in Request /\ q.at = a /\ q.before = spent - calls[h].before /\ q.outcome = calls[h].outcome
      /\ q.kind = calls[h].kind /\ q.c = calls[h].c /\ q.slice = calls[h].slice /\ q.due = calls[h].due
  BY <1>2, <1>3, <1>4, ReadsFields
<1> HIDE DEF q
<1>6. Rest'
  BY <1>1, RestSame DEF Base, chain, store
<1>7. /\ Base' /\ calls'[h] = q
      /\ \A g \in Handlers \ {h} : calls'[g] = calls[g]
      /\ \A s \in Slices : HoldsIn(calls[h], s) <=> HoldsIn(q, s)
  BY <1>1, <1>2, <1>5, <1>6, BuyMoves DEF chain, store
<1> QED BY <1>1, <1>5, <1>7 DEF a, spent

\* A buy is over, charged or not.
LEMMA OverBase ==
  ASSUME Base, NEW h \in Handlers, calls[h].at \in {"charge", "rejected"},
         calls' = [calls EXCEPT ![h] = Reads(calls[h], AfterBuy(calls[h].kind), 0)], Frees(h),
         charged' \in Int,
         UNCHANGED <<chain, records, happened>>
  PROVE  /\ Base' /\ calls'[h] \in Request /\ calls'[h].at \in {"claim", "count"}
         /\ calls'[h].due = calls[h].due /\ lock = h
         /\ \A g \in Handlers \ {h} : calls'[g] = calls[g]
<1> DEFINE a == AfterBuy(calls[h].kind)
           q == Reads(calls[h], a, 0)
<1>1. calls[h].at \in Buying /\ a \in Ats
  BY DEF Buying, Ats, AfterBuy
<1>2. calls[h] \in Request /\ lock = h
  BY <1>1, BuyerFacts
<1> HIDE DEF a
<1>3. /\ q \in Request /\ q.at = a
      /\ q.kind = calls[h].kind /\ q.c = calls[h].c /\ q.slice = calls[h].slice /\ q.due = calls[h].due
  BY <1>1, <1>2, ReadsFields
<1> HIDE DEF q
<1>4. Rest'
  BY DEF Base, Rest, chain
<1>5. calls' = [calls EXCEPT ![h] = q] /\ q.at = AfterBuy(calls[h].kind)
  BY <1>3 DEF q, a
<1>6. /\ Base' /\ calls'[h] = q /\ q # Idle /\ q.at \in {"claim", "count"}
      /\ \A g \in Handlers \ {h} : calls'[g] = calls[g]
  BY <1>1, <1>3, <1>4, <1>5, BuyEnds DEF chain
<1> QED BY <1>2, <1>3, <1>6

LEMMA ChargeBuyBase ==
  ASSUME Base, NEW h \in Handlers, ChargeBuy(h)
  PROVE  /\ Base' /\ calls[h].at = "charge" /\ charged' = charged + calls[h].before
         /\ UNCHANGED <<chain, claims, happened>>
         /\ calls'[h] \in Request /\ calls'[h].at \in {"claim", "count"}
         /\ calls'[h].due = calls[h].due /\ lock = h
         /\ \A g \in Handlers \ {h} : calls'[g] = calls[g]
<1>1. /\ calls[h].at = "charge" /\ charged' = charged + calls[h].before
      /\ calls' = [calls EXCEPT ![h] = Reads(calls[h], AfterBuy(calls[h].kind), 0)] /\ Frees(h)
      /\ UNCHANGED <<chain, claims, records, happened>>
  BY DEF ChargeBuy, Reads
<1>2. charged' \in Int
  BY <1>1, Running DEF Base, Rest
<1> QED BY <1>1, <1>2, OverBase

LEMMA RejectBase ==
  ASSUME Base, NEW h \in Handlers, Reject(h)
  PROVE  /\ Base' /\ calls[h].at = "rejected" /\ claims' = claims \ {calls[h].slice}
         /\ UNCHANGED <<chain, charged, happened>>
         /\ calls'[h] \in Request /\ calls'[h].at \in {"claim", "count"}
         /\ calls'[h].due = calls[h].due /\ lock = h
         /\ \A g \in Handlers \ {h} : calls'[g] = calls[g]
<1>1. /\ calls[h].at = "rejected" /\ claims' = claims \ {calls[h].slice}
      /\ calls' = [calls EXCEPT ![h] = Reads(calls[h], AfterBuy(calls[h].kind), 0)] /\ Frees(h)
      /\ UNCHANGED <<chain, charged, records, happened>>
  BY DEF Reject, Reads
<1>2. charged' \in Int
  BY <1>1 DEF Base, Rest
<1> QED BY <1>1, <1>2, OverBase

LEMMA CountQuiet ==
  ASSUME Base, NEW h \in Handlers, Count(h)
  PROVE  Base' /\ SliceQuiet(h) /\ MoneyQuiet(h)
<1>1. /\ calls[h].at = "count" /\ To(h, "put") /\ UNCHANGED <<chain, charged, claims, lock, happened>>
      /\ \/ State(h) = "Active" /\ Remembers(h, Transition(State(h), "deplete"))
         \/ UNCHANGED records
  BY DEF Count
<1>2. /\ calls[h] \in Request /\ calls[h].kind = "buy" /\ calls[h].kind \in Kinds
      /\ Stood(draws[C(h)])
  BY <1>1, Running DEF CallOK, KindsAt, C, Request
<1>3. RecordsOK(records', draws)
  <2>1. RecordsOK(records, draws)
    BY DEF Base, Rest
  <2>2. State(h) = "Active" => Transition(State(h), "deplete") = "Depleted"
    BY DEF Transition, Rule
  <2>3. "Depleted" \in States
    BY DEF States, Traded
  <2> QED BY <1>1, <1>2, <2>1, <2>2, <2>3, RemembersStep
<1>4. Rest'
  BY <1>1, <1>3, RestRecords DEF Base, chain
<1> QED BY <1>1, <1>2, <1>4, WalkBare DEF Owing, Ats, KindsAt, Locked, Standing, Buying, chain

----------------------------------------------------------------------------
(* Withdrawals, draws and control.                                         *)

MovedTo(h, a) ==
  /\ calls'[h] \in Request /\ calls'[h].at = a /\ calls'[h].c = calls[h].c
  /\ \A g \in Handlers \ {h} : calls'[g] = calls[g]

\* A step that is no trade's, whatever it does to the money.
LEMMA WalkMoney ==
  ASSUME Base, Rest', NEW h \in Handlers, NEW a \in Ats, To(h, a),
         calls[h].at # "idle", calls[h].kind \in KindsAt(a), calls[h].kind # "trade",
         calls[h].at \notin {"after", "charge"}, a \notin {"after", "charge"},
         a \in Locked => lock' = h,
         a \in Standing \/ (a = "lock" /\ calls[h].kind = "buy") => Stood(draws'[C(h)]),
         \A g \in Handlers : g # h /\ lock = g => lock' = g,
         \A c \in Campaigns : Stood(draws[c]) => Stood(draws'[c]),
         UNCHANGED <<claims, bought, late>>, happened \subseteq happened'
  PROVE  Base' /\ SliceQuiet(h) /\ MovedTo(h, a)
<1> DEFINE q == [calls[h] EXCEPT !.at = a]
<1>1. calls[h] \in Request /\ CallOK(h, calls[h], draws, lock) /\ calls[h] # Idle
  BY Running
<1>2. calls' = [calls EXCEPT ![h] = q]
  BY DEF To
<1>3. /\ q \in Request /\ q.at = a /\ q.kind = calls[h].kind /\ q.c = calls[h].c
      /\ q.due = calls[h].due /\ q.slice = calls[h].slice /\ q.key = calls[h].key
  BY <1>1, WalkFacts
<1> HIDE DEF q
<1>4. CallOK(h, q, draws', lock')
  BY <1>1, <1>3 DEF CallOK, C, Standing
<1>5. Bare(calls[h]) /\ Bare(q)
  BY <1>1, <1>3, <1>4, BareIf
<1>6. CallsOK' /\ calls'[h] = q /\ \A g \in Handlers \ {h} : calls'[g] = calls[g]
  BY <1>2, <1>3, <1>4, CallMoves DEF Base
<1> QED BY <1>3, <1>5, <1>6 DEF Base, SliceQuiet, MovedTo, Bare

\* What is known of a request that is where only the lock's holder is, and is
\* no buy.
LEMMA HolderFacts ==
  ASSUME Base, NEW h \in Handlers, calls[h].at \in Locked \ Buying
  PROVE  /\ calls[h].at # "idle" /\ calls[h] \in Request /\ lock = h /\ Bare(calls[h])
         /\ calls[h].kind \in KindsAt(calls[h].at) /\ calls[h].kind # "trade" /\ calls[h].kind \in Kinds
         /\ calls[h].c \in Campaigns /\ calls[h].inst \in Instances
<1>1. calls[h].at # "idle"
  BY DEF Locked, Buying
<1>2. CallOK(h, calls[h], draws, lock) /\ calls[h] \in Request /\ calls[h] # Idle
  BY <1>1, Running
<1>3. calls[h].kind \in KindsAt(calls[h].at) /\ calls[h].kind # "trade"
  BY <1>2 DEF CallOK, KindsAt, Locked, Buying
<1>4. Bare(calls[h])
  BY <1>2, <1>3, BareIf
<1> QED BY <1>1, <1>2, <1>3, <1>4 DEF CallOK, Request

LEMMA CheckWithdrawalQuiet ==
  ASSUME Base, NEW h \in Handlers, CheckWithdrawal(h)
  PROVE  Base' /\ SliceQuiet(h) /\ MoneyQuiet(h)
<1>1. /\ calls[h].at = "check" /\ calls[h].kind = "withdraw"
      /\ UNCHANGED <<chain, charged, claims, records, happened>>
      /\ Refused(h) \/ (PAYOUT <= Available /\ To(h, "record") /\ UNCHANGED lock)
  BY DEF CheckWithdrawal
<1>2. /\ calls[h].at # "idle" /\ Bare(calls[h]) /\ lock = h
  BY <1>1, HolderFacts DEF Locked, Buying
<1>3. CASE Refused(h)
  BY <1>1, <1>2, <1>3, RefusedQuiet DEF Owing
<1>4. CASE PAYOUT <= Available /\ To(h, "record") /\ UNCHANGED lock
  BY <1>1, <1>2, <1>4, ToQuiet DEF Owing, Ats, KindsAt, Locked, Standing, Buying
<1> QED BY <1>1, <1>3, <1>4

LEMMA RecordBase ==
  ASSUME Base, NEW h \in Handlers, RecordWithdrawal(h)
  PROVE  /\ Base' /\ SliceQuiet(h) /\ MovedTo(h, "pay")
         /\ calls[h].at = "record" /\ charged' = charged + PAYOUT
         /\ UNCHANGED <<chain, happened>> /\ lock = h
<1>1. /\ calls[h].at = "record" /\ charged' = charged + PAYOUT /\ To(h, "pay")
      /\ UNCHANGED <<chain, claims, lock, records, happened>>
  BY DEF RecordWithdrawal
<1>2. /\ calls[h].at # "idle" /\ lock = h /\ calls[h].kind \in KindsAt("record") /\ calls[h].kind # "trade"
  BY <1>1, HolderFacts DEF Locked, Buying
<1>3. charged' \in Int
  BY <1>1, CampaignNumbers DEF Base, Rest
<1>4. Rest'
  BY <1>1, <1>3 DEF Base, Rest, chain
<1>5. calls[h].kind \in KindsAt("pay")
  BY <1>2 DEF KindsAt
<1> QED BY <1>1, <1>2, <1>4, <1>5, WalkMoney DEF Ats, Locked, Standing, Buying, chain

LEMMA PayBase ==
  ASSUME Base, NEW h \in Handlers, Pay(h)
  PROVE  /\ Base' /\ SliceQuiet(h) /\ calls[h].at = "pay" /\ calls'[h].at \in {"idle", "reread"}
         /\ \A g \in Handlers \ {h} : calls'[g] = calls[g]
         /\ UNCHANGED draws /\ happened \subseteq happened' /\ lock = h
         /\ happened \cap {"crash", "unseen"} = happened' \cap {"crash", "unseen"}
         /\ calls[h].key \in Keys
         /\ \/ charged' = charged /\ paid' = [paid EXCEPT ![calls[h].key] = @ + PAYOUT]
            \/ charged' = charged - PAYOUT /\ paid' = paid
<1>1. /\ calls[h].at = "pay" /\ UNCHANGED <<draws, sessions, exit, late, bought, claims, records>>
      /\ \/ /\ paid' = [paid EXCEPT ![calls[h].key] = @ + PAYOUT]
            /\ To(h, "reread")
            /\ UNCHANGED <<charged, lock, happened>>
         \/ /\ "reverts" \in Faults /\ happened' = happened \cup {"reverts"}
            /\ charged' = charged - PAYOUT
            /\ Refused(h)
            /\ UNCHANGED paid
  BY DEF Pay, Happens
<1>2. /\ calls[h].at # "idle" /\ lock = h /\ calls[h].kind \in KindsAt("pay") /\ calls[h].kind # "trade"
      /\ Bare(calls[h]) /\ calls[h] \in Request
  BY <1>1, HolderFacts DEF Locked, Buying
<1>3. calls[h].key \in Keys
  BY <1>1, <1>2, Running DEF CallOK, KindsAt
<1>4. CASE /\ paid' = [paid EXCEPT ![calls[h].key] = @ + PAYOUT]
           /\ To(h, "reread")
           /\ UNCHANGED <<charged, lock, happened>>
  <2>1. paid' \in [Keys -> Nat]
    BY <1>3, <1>4, CampaignNumbers DEF Base, Rest
  <2>2. Rest'
    BY <1>1, <1>4, <2>1 DEF Base, Rest
  <2>3. calls[h].kind \in KindsAt("reread")
    BY <1>2 DEF KindsAt
  <2>4. Base' /\ SliceQuiet(h) /\ MovedTo(h, "reread")
    BY <1>1, <1>2, <1>4, <2>2, <2>3, WalkMoney DEF Ats, Locked, Standing, Buying
  <2> QED BY <1>1, <1>2, <1>3, <1>4, <2>4 DEF MovedTo
<1>5. CASE /\ "reverts" \in Faults /\ happened' = happened \cup {"reverts"}
           /\ charged' = charged - PAYOUT
           /\ Refused(h)
           /\ UNCHANGED paid
  <2>1. charged' \in Int
    BY <1>5, CampaignNumbers DEF Base, Rest
  <2>2. Rest'
    BY <1>1, <1>5, <2>1 DEF Base, Rest, SessionsOK, LateOK
  <2>3. CallOK(h, Idle, draws', lock') /\ Bare(Idle) /\ Idle.at = "idle"
    BY DEF CallOK, Bare, HoldsIn, Idle
  <2>4. \A g \in Handlers : g # h /\ lock = g => lock' = g
    BY <1>2
  <2>5. CallsOK' /\ calls'[h] = Idle /\ \A g \in Handlers \ {h} : calls'[g] = calls[g]
    BY <1>1, <1>5, <2>3, <2>4, CallMoves DEF Base, Refused
  <2>6. SliceQuiet(h)
    BY <1>1, <1>2, <1>5, <2>3, <2>5 DEF SliceQuiet, Bare
  <2> QED BY <1>1, <1>2, <1>3, <1>5, <2>2, <2>3, <2>5, <2>6 DEF Base
<1> QED BY <1>1, <1>4, <1>5

LEMMA RereadQuiet ==
  ASSUME Base, NEW h \in Handlers, Reread(h)
  PROVE  Base' /\ SliceQuiet(h) /\ MoneyQuiet(h)
<1>1. /\ calls[h].at = "reread"
      /\ UNCHANGED <<chain, charged, claims, records>>
      /\ \/ To(h, "put") /\ Frees(h) /\ UNCHANGED happened
         \/ "rpc" \in Faults /\ happened' = happened \cup {"rpc"} /\ Refused(h)
  BY DEF Reread, Happens
<1>2. /\ calls[h].at # "idle" /\ lock = h /\ Bare(calls[h])
      /\ calls[h].kind \in KindsAt("reread") /\ calls[h].kind \in Kinds
  BY <1>1, HolderFacts DEF Locked, Buying
<1>3. CASE To(h, "put") /\ Frees(h) /\ UNCHANGED happened
  <2>1. \A g \in Handlers : g # h /\ lock = g => lock' = g
    BY <1>2
  <2> QED BY <1>1, <1>2, <1>3, <2>1, ToQuiet DEF Owing, Ats, KindsAt, Locked, Standing, Buying
<1>4. CASE "rpc" \in Faults /\ happened' = happened \cup {"rpc"} /\ Refused(h)
  <2>1. Rest'
    BY <1>1, <1>4, RestSame DEF Base, chain
  <2> QED BY <1>1, <1>2, <1>4, <2>1, LeaveBare DEF Refused, Frees, Owing, chain
<1> QED BY <1>1, <1>3, <1>4

LEMMA CheckDrawQuiet ==
  ASSUME Base, NEW h \in Handlers, CheckDraw(h)
  PROVE  Base' /\ SliceQuiet(h) /\ MoneyQuiet(h)
<1> DEFINE a == IF calls[h].kind = "activate" THEN "open" ELSE "topUp"
<1>1. /\ calls[h].at = "check" /\ calls[h].kind # "withdraw"
      /\ UNCHANGED <<chain, charged, claims, records, happened>>
      /\ Refused(h) \/ (DRAW <= Available /\ To(h, a) /\ UNCHANGED lock)
  BY DEF CheckDraw, Drawable
<1>2. /\ calls[h].at # "idle" /\ Bare(calls[h]) /\ lock = h
      /\ calls[h].kind \in KindsAt("check")
  BY <1>1, HolderFacts DEF Locked, Buying
<1>3. CASE Refused(h)
  BY <1>1, <1>2, <1>3, RefusedQuiet DEF Owing
<1>4. CASE DRAW <= Available /\ To(h, a) /\ UNCHANGED lock
  <2>1. calls[h].kind \in KindsAt(a) /\ calls[h].kind # "trade" /\ a \in {"open", "topUp"}
    BY <1>1, <1>2 DEF KindsAt
  <2> HIDE DEF a
  <2> QED BY <1>1, <1>2, <1>4, <2>1, ToQuiet DEF Owing, Ats, Locked, Standing, Buying
<1> QED BY <1>1, <1>3, <1>4

LEMMA RecheckQuiet ==
  ASSUME Base, NEW h \in Handlers, Recheck(h)
  PROVE  Base' /\ SliceQuiet(h) /\ MoneyQuiet(h)
<1>1. /\ calls[h].at = "recheck"
      /\ UNCHANGED <<chain, charged, claims, records, happened>>
      /\ Refused(h) \/ (DRAW <= Available /\ To(h, "draw") /\ UNCHANGED lock)
  BY DEF Recheck, Drawable
<1>2. /\ calls[h].at # "idle" /\ Bare(calls[h]) /\ lock = h
      /\ calls[h].kind \in KindsAt("recheck")
  BY <1>1, HolderFacts DEF Locked, Buying
<1>3. CASE Refused(h)
  BY <1>1, <1>2, <1>3, RefusedQuiet DEF Owing
<1>4. CASE DRAW <= Available /\ To(h, "draw") /\ UNCHANGED lock
  <2>1. calls[h].kind \in KindsAt("draw") /\ calls[h].kind # "trade"
    BY <1>1, <1>2 DEF KindsAt
  <2> QED BY <1>1, <1>2, <1>4, <2>1, ToQuiet DEF Owing, Ats, Locked, Standing, Buying
<1> QED BY <1>1, <1>3, <1>4

LEMMA OpenSessionQuiet ==
  ASSUME Base, NEW h \in Handlers, OpenSession(h)
  PROVE  Base' /\ SliceQuiet(h) /\ MoneyQuiet(h)
<1> DEFINE i == calls[h].inst
           c == C(h)
           r == records[i][c]
           new == [r EXCEPT !.accounts = TRUE]
<1>1. /\ calls[h].at = "open"
      /\ UNCHANGED <<draws, exit, paid, late, bought, charged, claims, happened>>
      /\ \/ Refused(h) /\ UNCHANGED <<sessions, records>>
         \/ /\ sessions' = sessions \/ sessions' = [sessions EXCEPT ![c] = "open"]
            /\ records' = [records EXCEPT ![i][c].accounts = TRUE]
            /\ To(h, "recheck") /\ UNCHANGED lock
  BY DEF OpenSession
<1>2. /\ calls[h].at # "idle" /\ Bare(calls[h]) /\ lock = h
      /\ calls[h].kind \in KindsAt("open") /\ c \in Campaigns /\ i \in Instances
  BY <1>1, HolderFacts DEF Locked, Buying, C
<1>3. CASE Refused(h) /\ UNCHANGED <<sessions, records>>
  BY <1>1, <1>2, <1>3, RefusedQuiet DEF Owing, chain
<1>4. CASE /\ sessions' = sessions \/ sessions' = [sessions EXCEPT ![c] = "open"]
           /\ records' = [records EXCEPT ![i][c].accounts = TRUE]
           /\ To(h, "recheck") /\ UNCHANGED lock
  <2>1. r \in Record /\ (r.state \in Traded => Stood(draws[c]))
    BY <1>2, RecordFacts DEF State
  <2>2. new \in Record /\ new.state = r.state
    BY <2>1 DEF Record
  <2>3. records' = [records EXCEPT ![i][c] = new]
    BY <1>4
  <2> HIDE DEF new, r
  <2>4. RecordsOK(records', draws)
    BY <1>2, <2>1, <2>2, <2>3, RecordsStep DEF Base, Rest
  <2>5. SessionsOK(sessions', draws, happened)
    <3>1. SessionsOK(sessions, draws, happened) /\ Opened \subseteq Campaigns
      BY CampaignNumbers DEF Base, Rest
    <3>2. CASE sessions' = sessions
      BY <3>1, <3>2
    <3>3. CASE sessions' = [sessions EXCEPT ![c] = "open"]
      <4> HIDE DEF c
      <4>1. /\ sessions' \in [Campaigns -> {"none", "open", "paused", "revoked"}]
            /\ \A e \in Campaigns : sessions'[e] = IF e = c THEN "open" ELSE sessions[e]
        BY <1>2, <3>1, <3>3 DEF SessionsOK
      <4> QED BY <3>1, <4>1 DEF SessionsOK
    <3> QED BY <1>4, <3>2, <3>3
  <2>6. Rest'
    BY <1>1, <2>4, <2>5 DEF Base, Rest
  <2>7. calls[h].kind \in KindsAt("recheck") /\ calls[h].kind # "trade"
    BY <1>2 DEF KindsAt
  <2> QED BY <1>1, <1>2, <1>4, <2>6, <2>7, WalkBare DEF Owing, Ats, Locked, Standing, Buying
<1> QED BY <1>1, <1>3, <1>4

Opens == [state |-> "Pending", amount |-> DRAW, spent |-> 0]

LEMMA OpenDrawBase ==
  ASSUME Base, NEW h \in Handlers, OpenDraw(h)
  PROVE  /\ Base' /\ SliceQuiet(h) /\ lock = h /\ calls[h].c \in Campaigns
         /\ \/ MoneyQuiet(h)
            \/ /\ calls[h].at = "draw" /\ MovedTo(h, "put") /\ UNCHANGED <<paid, charged, happened>>
               /\ draws[calls[h].c].state = "None" /\ draws'[calls[h].c] = Opens
               /\ \A e \in Campaigns \ {calls[h].c} : draws'[e] = draws[e]
<1> DEFINE c == calls[h].c
           s == Transition(State(h), "activate")
<1>1. /\ calls[h].at = "draw"
      /\ UNCHANGED <<sessions, exit, paid, late, bought, charged, claims, happened>>
      /\ \/ Refused(h) /\ UNCHANGED <<draws, records>>
         \/ /\ draws[C(h)].state = "None"
            /\ draws' = [draws EXCEPT ![c] = Opens]
            /\ Remembers(h, s)
            /\ To(h, "put") /\ Frees(h)
  BY DEF OpenDraw, Draws, Opens, C
<1>2. /\ calls[h].at # "idle" /\ Bare(calls[h]) /\ lock = h /\ calls[h] \in Request
      /\ calls[h].kind \in KindsAt("draw") /\ calls[h].kind \in Kinds /\ c \in Campaigns
  BY <1>1, HolderFacts DEF Locked, Buying
<1>3. CASE Refused(h) /\ UNCHANGED <<draws, records>>
  BY <1>1, <1>2, <1>3, RefusedQuiet DEF Owing, chain
<1>4. CASE /\ draws[C(h)].state = "None"
           /\ draws' = [draws EXCEPT ![c] = Opens]
           /\ Remembers(h, s)
           /\ To(h, "put") /\ Frees(h)
  <2>1. ~Stood(draws[c]) /\ ~Stood(draws[C(h)])
    BY <1>4 DEF Stood, C
  <2>2. State(h) \in States \ Traded
    BY <1>2, <2>1, RecordFacts
  <2>3. s = "Activating" /\ "Activating" \in States \ Traded
    BY <2>2 DEF Transition, Rule, States, Traded
  <2>4. RecordsOK(records', draws)
    <3>1. RecordsOK(records, draws)
      BY DEF Base, Rest
    <3> HIDE DEF s
    <3> QED BY <1>2, <1>4, <2>3, <3>1, RemembersStep
  <2>5. DrawOK(c, Opens)
    <3>1. c \notin Opened
      BY <1>2, <2>1 DEF Base, Rest, DrawOK
    <3> QED BY <3>1, CampaignNumbers DEF DrawOK, Opens, Draw
  <2>6. /\ Rest' /\ draws'[c] = Opens
        /\ \A e \in Campaigns \ {c} : draws'[e] = draws[e]
        /\ \A e \in Campaigns : Stood(draws[e]) => Stood(draws'[e])
    BY <1>1, <1>2, <1>4, <2>1, <2>4, <2>5, RestDraw DEF Base, Rest, Grows
  <2>7. calls[h].kind \in KindsAt("put") /\ calls[h].kind # "trade"
    BY <1>2 DEF KindsAt
  <2>8. \A g \in Handlers : g # h /\ lock = g => lock' = g
    BY <1>2
  <2>9. Base' /\ SliceQuiet(h) /\ MovedTo(h, "put")
    BY <1>1, <1>2, <1>4, <2>6, <2>7, <2>8, WalkMoney DEF Ats, Locked, Standing, Buying
  <2> QED BY <1>1, <1>2, <1>4, <2>6, <2>9 DEF C
<1> QED BY <1>1, <1>2, <1>3, <1>4

Raised(d) == [d EXCEPT !.amount = @ + DRAW]

LEMMA TopUpBase ==
  ASSUME Base, NEW h \in Handlers, TopUp(h)
  PROVE  /\ Base' /\ SliceQuiet(h) /\ lock = h /\ calls[h].c \in Campaigns
         /\ \/ MoneyQuiet(h)
            \/ /\ calls[h].at = "topUp" /\ MovedTo(h, "put") /\ UNCHANGED <<paid, charged, happened>>
               /\ Live(calls[h].c) /\ draws'[calls[h].c] = Raised(draws[calls[h].c])
               /\ \A e \in Campaigns \ {calls[h].c} : draws'[e] = draws[e]
<1> DEFINE c == calls[h].c
           d == Raised(draws[c])
<1>1. /\ calls[h].at = "topUp"
      /\ UNCHANGED <<sessions, exit, paid, late, bought, charged, claims, happened>>
      /\ \/ Refused(h) /\ UNCHANGED <<draws, records>>
         \/ /\ Live(c)
            /\ draws' = [draws EXCEPT ![c] = d]
            /\ \/ State(h) = "Depleted" /\ Remembers(h, "Active")
               \/ UNCHANGED records
            /\ To(h, "put") /\ Frees(h)
  BY DEF TopUp, Draws, Raised, C
<1>2. /\ calls[h].at # "idle" /\ Bare(calls[h]) /\ lock = h /\ calls[h] \in Request
      /\ calls[h].kind \in KindsAt("topUp") /\ calls[h].kind \in Kinds /\ c \in Campaigns
  BY <1>1, HolderFacts DEF Locked, Buying
<1>3. CASE Refused(h) /\ UNCHANGED <<draws, records>>
  BY <1>1, <1>2, <1>3, RefusedQuiet DEF Owing, chain
<1>4. CASE /\ Live(c)
           /\ draws' = [draws EXCEPT ![c] = d]
           /\ \/ State(h) = "Depleted" /\ Remembers(h, "Active")
              \/ UNCHANGED records
           /\ To(h, "put") /\ Frees(h)
  <2>1. RecordsOK(records', draws)
    <3>1. RecordsOK(records, draws)
      BY DEF Base, Rest
    <3>2. State(h) \in Traded => Stood(draws[C(h)])
      BY <1>2, RecordFacts
    <3>3. "Depleted" \in Traded /\ "Active" \in States
      BY DEF Traded, States
    <3> QED BY <1>2, <1>4, <3>1, <3>2, <3>3, RemembersStep
  <2>2. DrawOK(c, d) /\ (Stood(draws[c]) => Stood(d))
    <3>1. DrawOK(c, draws[c]) /\ DRAW \in Nat /\ draws[c].state # "None"
      BY <1>2, <1>4, CampaignNumbers DEF Base, Rest, Live
    <3>2. d \in Draw /\ d.state = draws[c].state /\ d.spent = draws[c].spent /\ d.amount = draws[c].amount + DRAW
      BY <3>1 DEF DrawOK, Draw, Raised
    <3>3. draws[c].spent \in Nat /\ draws[c].amount \in Nat
      BY <3>1 DEF DrawOK, Draw
    <3> HIDE DEF d
    <3> QED BY <3>1, <3>2, <3>3 DEF DrawOK, Stood
  <2> HIDE DEF d
  <2>3. /\ Rest' /\ draws'[c] = d
        /\ \A e \in Campaigns \ {c} : draws'[e] = draws[e]
        /\ \A e \in Campaigns : Stood(draws[e]) => Stood(draws'[e])
    BY <1>1, <1>2, <1>4, <2>1, <2>2, RestDraw DEF Base, Rest, Grows
  <2>4. calls[h].kind \in KindsAt("put") /\ calls[h].kind # "trade"
    BY <1>2 DEF KindsAt
  <2>5. \A g \in Handlers : g # h /\ lock = g => lock' = g
    BY <1>2
  <2>6. Base' /\ SliceQuiet(h) /\ MovedTo(h, "put")
    BY <1>1, <1>2, <1>4, <2>3, <2>4, <2>5, WalkMoney DEF Ats, Locked, Standing, Buying
  <2> QED BY <1>1, <1>2, <1>4, <2>3, <2>6 DEF d
<1> QED BY <1>1, <1>2, <1>3, <1>4

\* What is known of a request that controls a campaign.
LEMMA ControlFacts ==
  ASSUME Base, NEW h \in Handlers, calls[h].at \in {"control", "session", "apply", "closeDraw"}
  PROVE  /\ calls[h].at # "idle" /\ calls[h] \in Request /\ Bare(calls[h])
         /\ calls[h].kind \in Controls /\ calls[h].kind # "trade" /\ calls[h].kind \in Kinds
         /\ calls[h].c \in Campaigns
         /\ calls[h].at # "control" => Stood(draws[calls[h].c])
         /\ Rule(calls[h].kind).to \in States \cap Traded
         /\ Rule(calls[h].kind).from \cup Rule(calls[h].kind).so \subseteq Traded
<1>1. calls[h].at # "idle"
  OBVIOUS
<1>2. CallOK(h, calls[h], draws, lock) /\ calls[h] \in Request /\ calls[h] # Idle
  BY <1>1, Running
<1>3. calls[h].kind \in Controls
  BY <1>2 DEF CallOK, KindsAt, Controls
<1>4. calls[h].kind # "trade"
  BY <1>3 DEF Controls
<1>5. Bare(calls[h])
  BY <1>2, <1>4, BareIf
<1>6. /\ Rule(calls[h].kind).to \in States \cap Traded
      /\ Rule(calls[h].kind).from \cup Rule(calls[h].kind).so \subseteq Traded
  <2>1. CASE calls[h].kind = "pause"
    BY <2>1 DEF Rule, States, Traded
  <2>2. CASE calls[h].kind = "resume"
    BY <2>2 DEF Rule, States, Traded
  <2>3. CASE calls[h].kind = "revoke"
    BY <2>3 DEF Rule, States, Traded
  <2>4. CASE calls[h].kind = "close"
    BY <2>4 DEF Rule, States, Traded
  <2> QED BY <1>3, <2>1, <2>2, <2>3, <2>4 DEF Controls
<1>7. calls[h].c \in Campaigns /\ calls[h].kind \in Kinds
  BY <1>2 DEF Request
<1>8. calls[h].at # "control" => Stood(draws[calls[h].c])
  BY <1>2 DEF CallOK
<1> QED BY <1>1, <1>2, <1>3, <1>4, <1>5, <1>6, <1>7, <1>8

LEMMA ControlQuiet ==
  ASSUME Base, NEW h \in Handlers, Control(h)
  PROVE  Base' /\ SliceQuiet(h) /\ MoneyQuiet(h)
<1>1. /\ calls[h].at = "control"
      /\ UNCHANGED <<chain, charged, claims, records, happened>>
      /\ \/ Refused(h)
         \/ /\ Admits(State(h), calls[h].kind)
            /\ To(h, "session") \/ To(h, "apply")
            /\ UNCHANGED lock
  BY DEF Control
<1>2. /\ calls[h].at # "idle" /\ Bare(calls[h]) /\ calls[h].kind \in Controls /\ calls[h].kind # "trade"
      /\ Rule(calls[h].kind).from \cup Rule(calls[h].kind).so \subseteq Traded
  BY <1>1, ControlFacts
<1>3. CASE Refused(h)
  BY <1>1, <1>2, <1>3, RefusedQuiet DEF Owing
<1>4. CASE /\ Admits(State(h), calls[h].kind)
           /\ To(h, "session") \/ To(h, "apply")
           /\ UNCHANGED lock
  <2>1. State(h) \in Traded
    BY <1>2, <1>4 DEF Admits
  <2>2. Stood(draws[C(h)])
    BY <1>2, <2>1, RecordFacts
  <2>3. calls[h].kind \in KindsAt("session") /\ calls[h].kind \in KindsAt("apply")
    BY <1>2 DEF KindsAt
  <2>4. CASE To(h, "session")
    BY <1>1, <1>2, <1>4, <2>2, <2>3, <2>4, ToQuiet DEF Owing, Ats, Locked, Buying
  <2>5. CASE To(h, "apply")
    BY <1>1, <1>2, <1>4, <2>2, <2>3, <2>5, ToQuiet DEF Owing, Ats, Locked, Buying
  <2> QED BY <1>4, <2>4, <2>5
<1> QED BY <1>1, <1>3, <1>4

LEMMA ControlSessionQuiet ==
  ASSUME Base, NEW h \in Handlers, ControlSession(h)
  PROVE  Base' /\ SliceQuiet(h) /\ MoneyQuiet(h)
<1> DEFINE c == C(h)
           to == CASE calls[h].kind = "pause" -> "paused" [] calls[h].kind = "resume" -> "open" [] OTHER -> "revoked"
<1>1. /\ calls[h].at = "session"
      /\ UNCHANGED <<draws, exit, paid, late, bought, charged, claims, records>>
      /\ \/ Refused(h) /\ UNCHANGED <<sessions, happened>>
         \/ /\ sessions' = [sessions EXCEPT ![c] = to]
            /\ happened' = IF to = "open" THEN happened ELSE happened \cup {"stopped"}
            /\ To(h, "apply") /\ UNCHANGED lock
  BY DEF ControlSession
<1>2. /\ calls[h].at # "idle" /\ Bare(calls[h]) /\ calls[h].kind \in Controls /\ calls[h].kind # "trade"
      /\ c \in Campaigns /\ Stood(draws[c])
  BY <1>1, ControlFacts DEF C
<1>3. CASE Refused(h) /\ UNCHANGED <<sessions, happened>>
  BY <1>1, <1>2, <1>3, RefusedQuiet DEF Owing, chain
<1>4. CASE /\ sessions' = [sessions EXCEPT ![c] = to]
           /\ happened' = IF to = "open" THEN happened ELSE happened \cup {"stopped"}
           /\ To(h, "apply") /\ UNCHANGED lock
  <2>1. to \in {"open", "paused", "revoked"}
    OBVIOUS
  <2> HIDE DEF to, c
  <2>2. SessionsOK(sessions', draws, happened')
    <3>1. SessionsOK(sessions, draws, happened)
      BY DEF Base, Rest
    <3>2. /\ sessions' \in [Campaigns -> {"none", "open", "paused", "revoked"}]
          /\ \A e \in Campaigns : sessions'[e] = IF e = c THEN to ELSE sessions[e]
      BY <1>2, <1>4, <2>1, <3>1 DEF SessionsOK
    <3>3. \A e \in Campaigns : sessions'[e] \in {"paused", "revoked"} => Stood(draws[e])
      BY <1>2, <3>1, <3>2 DEF SessionsOK
    <3>4. "stopped" \in happened' \/ \A e \in Opened : sessions'[e] = "open"
      BY <1>4, <3>1, <3>2, CampaignNumbers DEF SessionsOK
    <3> QED BY <3>2, <3>3, <3>4 DEF SessionsOK
  <2>3. /\ happened \subseteq happened' /\ happened' \subseteq Faults \cup {"stopped"}
        /\ LateOK(late', happened') /\ (exit' => "exit" \in happened')
    BY <1>1, <1>4 DEF Base, Rest, LateOK
  <2>4. Rest'
    BY <1>1, <2>2, <2>3 DEF Base, Rest
  <2>5. calls[h].kind \in KindsAt("apply")
    BY <1>2 DEF KindsAt
  <2>6. Stood(draws'[C(h)])
    BY <1>1, <1>2 DEF c
  <2> QED BY <1>1, <1>2, <1>4, <2>3, <2>4, <2>5, <2>6, WalkBare DEF Owing, Ats, Locked, Buying
<1> QED BY <1>1, <1>3, <1>4

LEMMA ApplyQuiet ==
  ASSUME Base, NEW h \in Handlers, Apply(h)
  PROVE  Base' /\ SliceQuiet(h) /\ MoneyQuiet(h)
<1> DEFINE a == IF calls[h].kind = "close" THEN "closeDraw" ELSE "put"
           s == Rule(calls[h].kind).to
<1>1. /\ calls[h].at = "apply" /\ Remembers(h, s) /\ To(h, a)
      /\ UNCHANGED <<chain, store, happened>>
  BY DEF Apply
<1>2. /\ calls[h].at # "idle" /\ Bare(calls[h]) /\ calls[h].kind \in Controls /\ calls[h].kind # "trade"
      /\ calls[h].kind \in Kinds /\ calls[h] \in Request
      /\ Stood(draws[C(h)]) /\ s \in States
  BY <1>1, ControlFacts DEF C
<1> HIDE DEF s
<1>3. RecordsOK(records', draws)
  BY <1>1, <1>2, RemembersStep DEF Base, Rest
<1>4. Rest'
  BY <1>1, <1>3, RestRecords DEF Base, chain, store
<1>5. calls[h].kind \in KindsAt(a) /\ a \in {"closeDraw", "put"}
  BY <1>2 DEF KindsAt, Controls
<1> HIDE DEF a
<1>6. Stood(draws'[C(h)])
  BY <1>1, <1>2 DEF chain
<1> QED BY <1>1, <1>2, <1>4, <1>5, <1>6, WalkBare DEF Owing, Ats, Locked, Buying, chain, store

Shuts(d) == [d EXCEPT !.state = "Closed"]

LEMMA CloseDrawBase ==
  ASSUME Base, NEW h \in Handlers, CloseDraw(h)
  PROVE  /\ Base' /\ SliceQuiet(h) /\ calls[h].at = "closeDraw" /\ calls[h].kind = "close"
         /\ MovedTo(h, "put") /\ UNCHANGED <<paid, charged, happened>> /\ calls[h].c \in Campaigns
         /\ \/ UNCHANGED draws
            \/ /\ Live(calls[h].c) /\ draws'[calls[h].c] = Shuts(draws[calls[h].c])
               /\ \A e \in Campaigns \ {calls[h].c} : draws'[e] = draws[e]
<1> DEFINE c == calls[h].c
           d == Shuts(draws[c])
<1>1. /\ calls[h].at = "closeDraw" /\ To(h, "put")
      /\ UNCHANGED <<sessions, exit, paid, late, bought, store, records, happened>>
      /\ (Live(c) /\ draws' = [draws EXCEPT ![c] = d]) \/ UNCHANGED draws
  BY DEF CloseDraw, Draws, Shuts, C
<1>2. /\ calls[h].at # "idle" /\ calls[h].kind \in Controls /\ calls[h].kind # "trade"
      /\ calls[h].kind \in Kinds /\ c \in Campaigns
  BY <1>1, ControlFacts
<1>3. /\ Rest' /\ \A e \in Campaigns : Stood(draws[e]) => Stood(draws'[e])
      /\ \/ UNCHANGED draws
         \/ /\ Live(c) /\ draws'[c] = d
            /\ \A e \in Campaigns \ {c} : draws'[e] = draws[e]
  <2>1. CASE UNCHANGED draws
    BY <1>1, <2>1, RestSame DEF Base, store
  <2>2. CASE Live(c) /\ draws' = [draws EXCEPT ![c] = d]
    <3>1. DrawOK(c, draws[c])
      BY <1>2 DEF Base, Rest
    <3>2. DrawOK(c, d) /\ Stood(d)
      <4>1. "close" \in Kinds
        BY <1>1, <1>2, Running DEF CallOK, KindsAt
      <4> QED BY <3>1, <4>1 DEF DrawOK, Draw, Shuts, Stood
    <3> HIDE DEF d
    <3> QED BY <1>1, <1>2, <2>2, <3>2, RestDraw DEF Base, Rest, Grows, store
  <2> QED BY <1>1, <2>1, <2>2
<1>4. calls[h].kind \in KindsAt("put")
  BY <1>2 DEF KindsAt, Controls
<1>5. Base' /\ SliceQuiet(h) /\ MovedTo(h, "put")
  BY <1>1, <1>2, <1>3, <1>4, WalkMoney DEF Ats, Locked, Standing, Buying, store
<1>6. calls[h].kind = "close"
  BY <1>1, <1>2, Running DEF CallOK, KindsAt
<1> QED BY <1>1, <1>2, <1>3, <1>5, <1>6 DEF store

----------------------------------------------------------------------------
(* The sweep, and what else happens.                                       *)

Funds(d) == [d EXCEPT !.state = "Funded", !.spent = @ + SEED]
Passes(p, a, c) == [p EXCEPT !.at = a, !.todo = @ \ {c}]

LEMMA FundsFields ==
  ASSUME NEW d \in Draw, NEW new, new = Funds(d)
  PROVE  new \in Draw /\ new.state = "Funded" /\ new.amount = d.amount /\ new.spent = d.spent + SEED
<1>1. d.spent \in Nat /\ SEED \in Nat /\ d.spent + SEED \in Nat
  BY CampaignNumbers DEF Draw
<1> DEFINE n == d.spent + SEED
<1>2. new = [d EXCEPT !.state = "Funded", !.spent = n]
  BY DEF Funds
<1> HIDE DEF n
<1>3. n \in Nat
  BY <1>1 DEF n
<1>4. new \in Draw /\ new.state = "Funded" /\ new.amount = d.amount /\ new.spent = n
  BY <1>2, <1>3 DEF Draw
<1> QED BY <1>4 DEF n

LEMMA FundBase ==
  ASSUME Base, NEW h \in Handlers, NEW c \in Campaigns, Fund(h, c)
  PROVE  /\ Base' /\ SliceQuiet(h)
         /\ \/ MoneyQuiet(h)
            \/ /\ calls[h].at = "sweep" /\ calls[h].kind = "sweep" /\ calls[h].kind \in Kinds
               /\ MovedTo(h, "chargeSeed") /\ UNCHANGED <<paid, charged, happened>>
               /\ draws[c].state = "Pending" /\ SEED <= Left(c) /\ draws'[c] = Funds(draws[c])
               /\ \A e \in Campaigns \ {c} : draws'[e] = draws[e]
<1> DEFINE a == IF c \in Refusing THEN "sweep" ELSE "chargeSeed"
           q == Passes(calls[h], a, c)
           d == Funds(draws[c])
<1>1. /\ calls[h].at = "sweep" /\ draws[c].state = "Pending" /\ SEED <= Left(c)
      /\ UNCHANGED <<sessions, exit, paid, late, bought, store, records, happened>>
      /\ \/ c \in Refusing /\ calls' = [calls EXCEPT ![h] = [calls[h] EXCEPT !.todo = @ \ {c}]] /\ UNCHANGED draws
         \/ c \notin Refusing /\ calls' = [calls EXCEPT ![h] = q] /\ draws' = [draws EXCEPT ![c] = d]
  BY DEF Fund, Fundable, Draws, Passes, Funds
<1>2. CallOK(h, calls[h], draws, lock) /\ calls[h] \in Request /\ calls[h] # Idle
  BY <1>1, Running
<1>3. calls[h].kind = "sweep" /\ calls[h].kind \in Kinds
  BY <1>1, <1>2 DEF CallOK, KindsAt, Request
<1>4. a \in Ats /\ a \in {"sweep", "chargeSeed"}
  BY DEF Ats
<1>5. /\ q \in Request /\ q.at = a /\ q.kind = calls[h].kind /\ q.c = calls[h].c
      /\ q.due = calls[h].due /\ q.slice = calls[h].slice
  BY <1>2, <1>4 DEF Passes, Request
<1>6. c \in Refusing => q = [calls[h] EXCEPT !.todo = @ \ {c}]
  BY <1>1, <1>2 DEF Passes, Request
<1> HIDE DEF q
<1>7. calls' = [calls EXCEPT ![h] = q]
  BY <1>1, <1>6
<1>8. Rest' /\ \A e \in Campaigns : Stood(draws[e]) => Stood(draws'[e])
  <2>1. CASE UNCHANGED draws
    BY <1>1, <2>1, RestSame DEF Base, store
  <2>2. CASE draws' = [draws EXCEPT ![c] = d]
    <3>1. DrawOK(c, draws[c]) /\ SEED \in Nat
      BY CampaignNumbers DEF Base, Rest
    <3>2. d \in Draw /\ d.state = "Funded" /\ d.amount = draws[c].amount /\ d.spent = draws[c].spent + SEED
      BY <3>1, FundsFields DEF DrawOK
    <3>3. draws[c].spent \in Nat /\ draws[c].amount \in Nat
      BY <3>1 DEF DrawOK, Draw
    <3> HIDE DEF d
    <3>4. DrawOK(c, d) /\ Stood(d)
      BY <1>1, <3>1, <3>2, <3>3 DEF DrawOK, Stood, Left
    <3> QED BY <1>1, <2>2, <3>4, RestDraw DEF Base, Rest, Grows, store
  <2> QED BY <1>1, <2>1, <2>2
<1>9. CallOK(h, q, draws', lock')
  <2>1. q.kind \in KindsAt(q.at)
    BY <1>3, <1>4, <1>5 DEF KindsAt
  <2> QED BY <1>2, <1>3, <1>4, <1>5, <2>1 DEF CallOK, Holding, Locked, Buying
<1>10. CallsOK' /\ calls'[h] = q /\ \A g \in Handlers \ {h} : calls'[g] = calls[g]
  BY <1>1, <1>5, <1>7, <1>8, <1>9, CallMoves DEF Base, store
<1>11. Bare(calls[h]) /\ Bare(q)
  BY <1>2, <1>3, <1>5, <1>9, BareIf
<1>12. SliceQuiet(h)
  BY <1>1, <1>4, <1>5, <1>10, <1>11 DEF SliceQuiet, Bare, store
<1>13. CASE c \in Refusing
  BY <1>1, <1>5, <1>8, <1>10, <1>12, <1>13 DEF MoneyQuiet, Owing, Base, store
<1>14. CASE c \notin Refusing
  <2>1. draws'[c] = d /\ \A e \in Campaigns \ {c} : draws'[e] = draws[e]
    BY <1>1, <1>14 DEF Base, Rest
  <2> QED BY <1>1, <1>3, <1>5, <1>8, <1>10, <1>12, <1>14, <2>1 DEF MovedTo, Base, store
<1> QED BY <1>13, <1>14

LEMMA ChargeSeedBase ==
  ASSUME Base, NEW h \in Handlers, ChargeSeed(h)
  PROVE  /\ Base' /\ SliceQuiet(h) /\ MovedTo(h, "sweep")
         /\ calls[h].at = "chargeSeed" /\ charged' = charged + SEED /\ UNCHANGED <<chain, happened>>
<1>1. /\ calls[h].at = "chargeSeed" /\ charged' = charged + SEED /\ To(h, "sweep")
      /\ UNCHANGED <<chain, claims, lock, records, happened>>
  BY DEF ChargeSeed
<1>2. calls[h].kind = "sweep"
  BY <1>1, Running DEF CallOK, KindsAt
<1>3. charged' \in Int
  BY <1>1, CampaignNumbers DEF Base, Rest
<1>4. Rest'
  BY <1>1, <1>3 DEF Base, Rest, chain
<1>5. "sweep" \in KindsAt("sweep")
  BY DEF KindsAt
<1> QED BY <1>1, <1>2, <1>4, <1>5, WalkMoney DEF Ats, Locked, Standing, Buying, chain

LEMMA SweptQuiet ==
  ASSUME Base, NEW h \in Handlers, Swept(h)
  PROVE  Base' /\ SliceQuiet(h) /\ MoneyQuiet(h)
<1>1. calls[h].at = "sweep" /\ To(h, "put") /\ UNCHANGED <<chain, store, records, happened>>
  BY DEF Swept
<1>2. calls[h].kind = "sweep" /\ calls[h].kind \in Kinds
  BY <1>1, Running DEF CallOK, KindsAt, Request
<1> QED BY <1>1, <1>2, ToQuiet DEF Owing, Ats, KindsAt, Locked, Standing, Buying, store

LEMMA ArriveQuiet ==
  ASSUME Base, NEW h \in Handlers, NEW i \in Instances, NEW kind \in Kinds \ {"create"},
         NEW c \in Campaigns, NEW k \in Keys \cup {NoOne}, NEW todo \in SUBSET (Slices \cup Campaigns),
         kind = "trade" => c \in Opened, kind = "withdraw" => k \in Keys,
         Arrive(h, i, kind, c, k, todo)
  PROVE  Base' /\ SliceQuiet(h) /\ MoneyQuiet(h)
<1> DEFINE a == FirstStep(kind)
           q == [at |-> a, inst |-> i, kind |-> kind, c |-> c, key |-> k, todo |-> todo,
                 due |-> {}, slice |-> NoOne, before |-> 0, outcome |-> "none"]
<1>1. calls[h] = Idle /\ calls' = [calls EXCEPT ![h] = q] /\ UNCHANGED <<chain, store, records, happened>>
  BY DEF Arrive
<1>2. /\ a \in {"lookup", "sweep", "load"} /\ kind \in KindsAt(a)
  BY DEF FirstStep, KindsAt
<1>3. a \in Ats /\ a \notin Holding /\ a \notin Locked /\ a \notin Standing /\ a \notin Owing
  BY <1>2 DEF Ats, Holding, Locked, Standing, Buying, Owing
<1> HIDE DEF a
<1>4. /\ q \in Request /\ q.at = a /\ q.kind = kind /\ q.c = c /\ q.key = k /\ q.due = {} /\ q.slice = NoOne
  BY <1>3 DEF Request, Outcomes
<1> HIDE DEF q
<1>5. CallOK(h, q, draws', lock')
  BY <1>2, <1>3, <1>4 DEF CallOK, Standing
<1>6. Rest' /\ UNCHANGED <<draws, lock>>
  BY <1>1, RestSame DEF Base, chain, store
<1>7. CallsOK' /\ calls'[h] = q /\ \A g \in Handlers \ {h} : calls'[g] = calls[g]
  BY <1>1, <1>4, <1>5, <1>6, CallMoves DEF Base
<1>8. Bare(calls[h]) /\ Bare(q) /\ calls[h].at = "idle"
  BY <1>1, <1>3, <1>4 DEF Bare, HoldsIn, Idle
<1> QED BY <1>1, <1>2, <1>3, <1>4, <1>6, <1>7, <1>8 DEF Base, SliceQuiet, MoneyQuiet, Bare, Owing, chain, store

LEMMA AskQuiet ==
  ASSUME Base, NEW h \in Handlers, NEW i \in Instances, Ask(h, i)
  PROVE  Base' /\ SliceQuiet(h) /\ MoneyQuiet(h)
<1> DEFINE any == CHOOSE c \in Campaigns : TRUE
<1>1. any \in Campaigns /\ Opened \subseteq Campaigns
  BY CampaignNumbers
<1>2. CASE \E kind \in Kinds \ {"create", "trade", "withdraw", "sweep"}, c \in Campaigns :
             Arrive(h, i, kind, c, NoOne, {})
  BY <1>2, ArriveQuiet
<1>3. CASE "trade" \in Kinds /\ \E c \in Opened, p \in (SUBSET Slices) \ {{}} : Arrive(h, i, "trade", c, NoOne, p)
  BY <1>1, <1>3, ArriveQuiet
<1>4. CASE "withdraw" \in Kinds /\ \E k \in Keys : Arrive(h, i, "withdraw", any, k, {})
  <2> HIDE DEF any
  <2> QED BY <1>1, <1>4, ArriveQuiet
<1>5. CASE "sweep" \in Kinds /\ Arrive(h, i, "sweep", any, NoOne, Campaigns)
  <2> HIDE DEF any
  <2> QED BY <1>1, <1>5, ArriveQuiet
<1> QED BY <1>2, <1>3, <1>4, <1>5 DEF Ask

\* Nothing happens to the requests, the slices and the money.
Still ==
  /\ UNCHANGED <<calls, draws, paid, charged, claims, bought, late>>
  /\ happened \subseteq happened'

LEMMA CallsSame ==
  ASSUME CallsOK, UNCHANGED <<calls, draws, lock>>
  PROVE  CallsOK'
BY DEF CallsOK

LEMMA CreateStill ==
  ASSUME Base, NEW i \in Instances, NEW c \in Campaigns, Create(i, c)
  PROVE  Base' /\ Still
<1> DEFINE r == [records[i][c] EXCEPT !.state = "Awaiting recovery"]
<1>1. records' = [records EXCEPT ![i][c] = r] /\ UNCHANGED <<chain, store, calls, happened>>
  BY DEF Create
<1>2. records[i][c] \in Record /\ RecordsOK(records, draws)
  BY DEF Base, Rest, RecordsOK
<1>3. r \in Record /\ r.state \notin Traded
  BY <1>2 DEF Record, States, Traded
<1> HIDE DEF r
<1>4. RecordsOK(records', draws)
  BY <1>1, <1>2, <1>3, RecordsStep
<1>5. Rest'
  BY <1>1, <1>4, RestRecords DEF Base, chain, store
<1> QED BY <1>1, <1>5, CallsSame DEF Base, Still, chain, store

LEMMA CooledStill ==
  ASSUME Base, NEW c \in Campaigns, Cooled(c)
  PROVE  Base' /\ Still
<1>1. UNCHANGED <<chain, charged, claims, lock, records, calls, happened>>
  BY DEF Cooled
<1>2. Rest'
  BY <1>1, RestSame DEF Base, chain
<1> QED BY <1>1, <1>2, CallsSame DEF Base, Still, chain

LEMMA RequestExitStill ==
  ASSUME Base, RequestExit
  PROVE  Base' /\ Still
<1>1. /\ UNCHANGED <<draws, sessions, paid, late, bought, store, records, calls>>
      /\ "exit" \in Faults /\ happened' = happened \cup {"exit"}
  BY DEF RequestExit, Happens
<1>2. Rest'
  BY <1>1 DEF Base, Rest, SessionsOK, LateOK, store
<1> QED BY <1>1, <1>2, CallsSame DEF Base, Still, store

LEMMA CrashBase ==
  ASSUME Base, NEW i \in Instances, Crash(i)
  PROVE  /\ Base' /\ UNCHANGED <<chain, charged, claims>>
         /\ "crash" \in Faults /\ happened' = happened \cup {"crash"}
         /\ \A h \in Handlers : calls'[h] = calls[h] \/ calls'[h] = Idle
<1> DEFINE dead == {h \in Handlers : calls[h] # Idle /\ calls[h].inst = i}
<1>1. /\ "crash" \in Faults /\ happened' = happened \cup {"crash"}
      /\ records' = [records EXCEPT ![i] = [c \in Campaigns |-> NoRecord]]
      /\ calls' = [h \in Handlers |-> IF h \in dead THEN Idle ELSE calls[h]]
      /\ lock' = IF lock \in dead THEN NoOne ELSE lock
      /\ UNCHANGED <<chain, charged, claims>>
  BY DEF Crash, Happens
<1>2. RecordsOK(records', draws)
  <2>1. NoRecord \in Record /\ NoRecord.state \notin Traded
    BY DEF NoRecord, Record, States, Traded
  <2>2. RecordsOK(records, draws)
    BY DEF Base, Rest
  <2> HIDE DEF dead
  <2> QED BY <1>1, <2>1, <2>2 DEF RecordsOK
<1>3. Rest'
  BY <1>1, <1>2 DEF Base, Rest, SessionsOK, LateOK, chain
<1>4. ASSUME NEW h \in Handlers PROVE CallOK(h, calls'[h], draws', lock')
  <2>1. CallOK(h, calls[h], draws, lock) /\ UNCHANGED draws
    BY <1>1 DEF Base, CallsOK, chain
  <2>2. CASE h \in dead
    BY <1>1, <2>2 DEF CallOK
  <2>3. CASE h \notin dead
    <3>1. calls'[h] = calls[h] /\ (lock = h => lock' = h)
      BY <1>1, <2>3
    <3> QED BY <2>1, <3>1 DEF CallOK
  <2> QED BY <2>2, <2>3
<1>5. calls' \in [Handlers -> {Idle} \cup Request]
  BY <1>1 DEF Base, CallsOK
<1>6. \A h \in Handlers : calls'[h] = calls[h] \/ calls'[h] = Idle
  BY <1>1
<1> QED BY <1>1, <1>3, <1>4, <1>5, <1>6 DEF Base, CallsOK

LEMMA InitBase == ASSUME Init PROVE Base
<1>1. /\ SEED \in Nat /\ DRAW \in Nat /\ SEED <= DRAW /\ Opened \subseteq Campaigns
      /\ IsFiniteSet(Campaigns)
  BY CampaignNumbers
<1>2. \A c \in Campaigns : /\ c \in Opened => draws[c] = [state |-> "Funded", amount |-> DRAW, spent |-> SEED]
                           /\ c \notin Opened => draws[c] = [state |-> "None", amount |-> 0, spent |-> 0]
  BY DEF Init, NoDraw
<1>3. ASSUME NEW c \in Campaigns PROVE DrawOK(c, draws[c])
  BY <1>1, <1>2 DEF DrawOK, Draw, Stood
<1>4. draws \in [Campaigns -> Draw]
  <2>1. draws = [c \in Campaigns |-> draws[c]]
    BY DEF Init
  <2>2. \A c \in Campaigns : draws[c] \in Draw
    BY <1>3 DEF DrawOK
  <2> QED BY <2>1, <2>2
<1>5. RecordsOK(records, draws)
  <2>1. NoRecord \in Record /\ NoRecord.state \notin Traded
    BY DEF NoRecord, Record, States, Traded
  <2> QED BY <2>1 DEF Init, RecordsOK
<1>6. SessionsOK(sessions, draws, happened) /\ LateOK(late, happened)
  BY <1>1 DEF Init, SessionsOK, LateOK
<1>7. charged \in Int
  <2>1. IsFiniteSet(Opened)
    BY <1>1, FS_Subset
  <2>2. Cardinality(Opened) \in Nat
    BY <2>1, FS_CardinalityType
  <2> QED BY <1>1, <2>2 DEF Init
<1>8. Rest
  BY <1>3, <1>4, <1>5, <1>6, <1>7 DEF Rest, Init
<1>9. CallsOK
  BY DEF Init, CallsOK, CallOK
<1> QED BY <1>8, <1>9 DEF Base

SliceStep ==
  \/ Still
  \/ \E h \in Handlers : SliceQuiet(h)
  \/ \E h \in Handlers, s \in Slices : ClaimSlice(h, s)
  \/ \E h \in Handlers : Send(h) \/ Unseen(h) \/ Judge(h) \/ ChargeBuy(h) \/ Reject(h)
  \/ \E tx \in late : MinedLate(tx)
  \/ \E i \in Instances : Crash(i)

MoneyStep ==
  \/ Still
  \/ \E h \in Handlers : MoneyQuiet(h)
  \/ \E h \in Handlers : Guard(h) \/ Moved(h) \/ Send(h) \/ Unseen(h) \/ Judge(h) \/ ChargeBuy(h) \/ Reject(h)
  \/ \E h \in Handlers : RecordWithdrawal(h) \/ Pay(h) \/ OpenDraw(h) \/ TopUp(h) \/ CloseDraw(h) \/ ChargeSeed(h)
  \/ \E h \in Handlers, c \in Campaigns : Fund(h, c)
  \/ \E tx \in late : MinedLate(tx)
  \/ \E i \in Instances : Crash(i)

\* A step keeps the base, and is one of few for the slices and for the money.
LEMMA HandlerSteps ==
  ASSUME Base, NEW h \in Handlers, Step(h)
  PROVE  Base' /\ SliceStep /\ MoneyStep
<1>1. CASE Lookup(h) \/ Put(h) \/ Load(h) \/ Confirm(h) \/ Acquire(h)
  BY <1>1, LookupQuiet, PutQuiet, LoadQuiet, ConfirmQuiet, AcquireQuiet DEF SliceStep, MoneyStep
<1>2. CASE Validate(h) \/ NextSlice(h) \/ Authorize(h) \/ Count(h)
  BY <1>2, ValidateQuiet, NextSliceQuiet, AuthorizeQuiet, CountQuiet DEF SliceStep, MoneyStep
<1>3. CASE \E s \in Slices : ClaimSlice(h, s)
  BY <1>3, ClaimQuiet DEF SliceStep, MoneyStep
<1>4. CASE Guard(h) \/ Send(h)
  BY <1>4, GuardBase, SendBase DEF SliceStep, MoneyStep
<1>5. CASE Judge(h) \/ ChargeBuy(h) \/ Reject(h)
  BY <1>5, JudgeBase, ChargeBuyBase, RejectBase DEF SliceStep, MoneyStep
<1>6. CASE CheckWithdrawal(h) \/ RecordWithdrawal(h) \/ Pay(h) \/ Reread(h)
  BY <1>6, CheckWithdrawalQuiet, RecordBase, PayBase, RereadQuiet DEF SliceStep, MoneyStep
<1>7. CASE CheckDraw(h) \/ OpenSession(h) \/ Recheck(h)
  BY <1>7, CheckDrawQuiet, OpenSessionQuiet, RecheckQuiet DEF SliceStep, MoneyStep
<1>8. CASE OpenDraw(h) \/ TopUp(h)
  BY <1>8, OpenDrawBase, TopUpBase DEF SliceStep, MoneyStep
<1>9. CASE Control(h) \/ ControlSession(h) \/ Apply(h) \/ CloseDraw(h)
  BY <1>9, ControlQuiet, ControlSessionQuiet, ApplyQuiet, CloseDrawBase DEF SliceStep, MoneyStep
<1>10. CASE (\E c \in Campaigns : Fund(h, c)) \/ ChargeSeed(h) \/ Swept(h)
  BY <1>10, FundBase, ChargeSeedBase, SweptQuiet DEF SliceStep, MoneyStep
<1> QED BY <1>1, <1>2, <1>3, <1>4, <1>5, <1>6, <1>7, <1>8, <1>9, <1>10 DEF Step

LEMMA NextSteps ==
  ASSUME Base, Next
  PROVE  Base' /\ SliceStep /\ MoneyStep
<1>1. CASE \E h \in Handlers : Step(h) \/ Moved(h) \/ Unseen(h) \/ GiveUp(h)
  BY <1>1, HandlerSteps, MovedBase, UnseenBase, GiveUpQuiet DEF SliceStep, MoneyStep
<1>2. CASE \E h \in Handlers, i \in Instances : Ask(h, i)
  BY <1>2, AskQuiet DEF SliceStep, MoneyStep
<1>3. CASE \E i \in Instances, c \in Campaigns : Create(i, c)
  BY <1>3, CreateStill DEF SliceStep, MoneyStep
<1>4. CASE \E c \in Campaigns : Cooled(c)
  BY <1>4, CooledStill DEF SliceStep, MoneyStep
<1>5. CASE \E tx \in late : MinedLate(tx)
  BY <1>5, MinedLateBase DEF SliceStep, MoneyStep
<1>6. CASE RequestExit
  BY <1>6, RequestExitStill DEF SliceStep, MoneyStep
<1>7. CASE \E i \in Instances : Crash(i)
  BY <1>7, CrashBase DEF SliceStep, MoneyStep
<1> QED BY <1>1, <1>2, <1>3, <1>4, <1>5, <1>6, <1>7 DEF Next

LEMMA BaseUnchanged == ASSUME Base, UNCHANGED vars PROVE Base' /\ Still
<1>1. UNCHANGED <<draws, sessions, exit, paid, late, bought, charged, claims, lock, records, calls, happened>>
  BY DEF vars, chain, store
<1>2. Rest'
  BY <1>1, RestSame DEF Base
<1> QED BY <1>1, <1>2, CallsSame DEF Base, Still

----------------------------------------------------------------------------
(* A slice is bought once.                                                 *)

\* Nobody holds more than before, and what was bought is as it was.
LEMMA SliceShrinks ==
  ASSUME SliceGood, UNCHANGED <<claims, bought>>,
         \A g \in Handlers : \/ calls'[g] = calls[g]
                             \/ calls'[g] = Idle
                             \/ /\ \A s \in Slices : HoldsIn(calls'[g], s) => HoldsIn(calls[g], s)
                                /\ ~BoughtIn(calls[g]) /\ calls'[g].at \notin {"after", "charge"}
  PROVE  SliceGood'
<1>1. Idle.at = "idle" /\ \A s : ~HoldsIn(Idle, s)
  BY DEF Idle, HoldsIn
<1>2. ASSUME NEW g \in Handlers
      PROVE  /\ \A s \in Slices : HoldsIn(calls'[g], s) => HoldsIn(calls[g], s)
             /\ calls'[g].at = "after" => calls'[g].outcome # "unknown"
             /\ \A s \in Slices : HoldsIn(calls'[g], s) => bought[s] = IF BoughtIn(calls'[g]) /\ s = calls'[g].slice THEN 1 ELSE 0
  <2>1. CASE calls'[g] = calls[g]
    BY <2>1 DEF SliceGood
  <2>2. CASE calls'[g] = Idle
    BY <1>1, <2>2
  <2>3. CASE /\ \A s \in Slices : HoldsIn(calls'[g], s) => HoldsIn(calls[g], s)
             /\ ~BoughtIn(calls[g]) /\ calls'[g].at \notin {"after", "charge"}
    <3>1. ~BoughtIn(calls'[g])
      BY <2>3 DEF BoughtIn
    <3> QED BY <2>3, <3>1 DEF SliceGood
  <2> QED BY <2>1, <2>2, <2>3
<1> QED BY <1>2 DEF SliceGood

LEMMA SliceQuietKeeps ==
  ASSUME SliceGood, NEW h \in Handlers, SliceQuiet(h) PROVE SliceGood'
<1>1. \A g \in Handlers : \/ calls'[g] = calls[g]
                          \/ calls'[g] = Idle
                          \/ /\ \A s \in Slices : HoldsIn(calls'[g], s) => HoldsIn(calls[g], s)
                             /\ ~BoughtIn(calls[g]) /\ calls'[g].at \notin {"after", "charge"}
  BY DEF SliceQuiet, BoughtIn
<1> QED BY <1>1, SliceShrinks DEF SliceQuiet

LEMMA SliceClaimed ==
  ASSUME Base, SliceGood, NEW h \in Handlers, NEW s \in Slices, ClaimSlice(h, s) PROVE SliceGood'
<1>1. /\ calls[h].at = "claim" /\ claims' = claims \cup {s} /\ UNCHANGED chain
  BY DEF ClaimSlice
<1>2. /\ \A g \in Handlers \ {h} : calls'[g] = calls[g]
      /\ calls'[h] # Idle /\ calls'[h].at = "claim"
      /\ calls'[h].due = IF s \in claims THEN calls[h].due ELSE calls[h].due \cup {s}
  BY ClaimQuiet
<1>3. /\ calls[h] # Idle /\ ~BoughtIn(calls[h]) /\ ~BoughtIn(calls'[h]) /\ UNCHANGED bought
  BY <1>1, <1>2 DEF Idle, BoughtIn, chain
<1>4. \A t \in Slices : HoldsIn(calls'[h], t) <=> HoldsIn(calls[h], t) \/ (t = s /\ s \notin claims)
  BY <1>1, <1>2, <1>3 DEF HoldsIn, Holding, Buying
<1>5. s \notin claims => bought[s] = 0 /\ \A g \in Handlers : ~HoldsIn(calls[g], s)
  BY DEF SliceGood
<1>6. ASSUME NEW g \in Handlers PROVE calls'[g].at = "after" => calls'[g].outcome # "unknown"
  BY <1>2 DEF SliceGood
<1>7. ASSUME NEW g \in Handlers, NEW t \in Slices, HoldsIn(calls'[g], t)
      PROVE  /\ t \in claims'
             /\ bought'[t] = IF BoughtIn(calls'[g]) /\ t = calls'[g].slice THEN 1 ELSE 0
  <2>1. CASE g # h
    BY <1>1, <1>2, <1>3, <1>7, <2>1 DEF SliceGood
  <2>2. CASE g = h
    BY <1>1, <1>3, <1>4, <1>5, <1>7, <2>2 DEF SliceGood
  <2> QED BY <2>1, <2>2
<1>8. ASSUME NEW g \in Handlers, NEW e \in Handlers, NEW t \in Slices,
             HoldsIn(calls'[g], t), HoldsIn(calls'[e], t)
      PROVE  g = e
  BY <1>2, <1>4, <1>5, <1>8 DEF SliceGood
<1>9. \A t \in Slices : bought'[t] <= 1 /\ (t \notin claims' => bought'[t] = 0)
  BY <1>1, <1>3 DEF SliceGood
<1> QED BY <1>6, <1>7, <1>8, <1>9 DEF SliceGood

\* The one request that buys keeps what it holds, and the slice it is at is
\* bought when it says so.
LEMMA SliceAdvances ==
  ASSUME SliceGood, NEW h \in Handlers, UNCHANGED claims,
         \A g \in Handlers \ {h} : calls'[g] = calls[g],
         \A s \in Slices : HoldsIn(calls'[h], s) <=> HoldsIn(calls[h], s),
         calls'[h].slice = calls[h].slice,
         calls'[h].at = "after" => calls'[h].outcome # "unknown",
         calls[h].slice \in Slices => HoldsIn(calls[h], calls[h].slice),
         \A s \in Slices : bought'[s] = IF s = calls[h].slice
                                        THEN IF BoughtIn(calls'[h]) THEN 1 ELSE 0
                                        ELSE bought[s]
  PROVE  SliceGood'
<1>1. ASSUME NEW g \in Handlers PROVE calls'[g].at = "after" => calls'[g].outcome # "unknown"
  BY DEF SliceGood
<1>2. ASSUME NEW g \in Handlers, NEW s \in Slices, HoldsIn(calls'[g], s)
      PROVE  /\ s \in claims' /\ HoldsIn(calls[g], s)
             /\ bought'[s] = IF BoughtIn(calls'[g]) /\ s = calls'[g].slice THEN 1 ELSE 0
  <2>1. CASE g # h
    <3>1. HoldsIn(calls[g], s) /\ calls'[g] = calls[g]
      BY <1>2, <2>1
    <3>2. s # calls[h].slice
      BY <2>1, <3>1 DEF SliceGood
    <3> QED BY <3>1, <3>2 DEF SliceGood
  <2>2. CASE g = h
    BY <1>2, <2>2 DEF SliceGood
  <2> QED BY <2>1, <2>2
<1>3. ASSUME NEW g \in Handlers, NEW e \in Handlers, NEW s \in Slices,
             HoldsIn(calls'[g], s), HoldsIn(calls'[e], s)
      PROVE  g = e
  BY <1>2, <1>3 DEF SliceGood
<1>4. \A s \in Slices : bought'[s] <= 1 /\ (s \notin claims' => bought'[s] = 0)
  BY DEF SliceGood
<1> QED BY <1>1, <1>2, <1>3, <1>4 DEF SliceGood

\* A request that buys a slice of an order holds it.
LEMMA BuyerHolds ==
  ASSUME Base, NEW h \in Handlers, calls[h].at \in Buying
  PROVE  calls[h].slice \in Slices => HoldsIn(calls[h], calls[h].slice)
<1>1. calls[h] # Idle
  BY BuyerFacts
<1> QED BY <1>1 DEF HoldsIn, Holding

\* A buy is over: what it held of the slice is gone.
LEMMA SliceEnds ==
  ASSUME Base, SliceGood, NEW h \in Handlers, calls[h].at \in {"charge", "rejected"}, UNCHANGED bought,
         claims' = IF calls[h].at = "rejected" THEN claims \ {calls[h].slice} ELSE claims,
         calls'[h] \in Request, calls'[h].at \in {"claim", "count"}, calls'[h].due = calls[h].due,
         \A g \in Handlers \ {h} : calls'[g] = calls[g]
  PROVE  SliceGood'
<1>1. /\ calls[h].at \in Buying /\ calls[h] # Idle /\ calls[h].slice \notin calls[h].due
  BY BuyerFacts DEF Buying
<1>2. calls[h].slice \in Slices => HoldsIn(calls[h], calls[h].slice)
  BY <1>1, BuyerHolds
<1>3. calls'[h] # Idle /\ ~BoughtIn(calls'[h])
  BY DEF Idle, BoughtIn
<1>4. \A s \in Slices : HoldsIn(calls'[h], s) => HoldsIn(calls[h], s) /\ s # calls[h].slice
  BY <1>1, <1>3 DEF HoldsIn, Holding, Buying
<1>5. ASSUME NEW g \in Handlers, NEW s \in Slices, HoldsIn(calls'[g], s)
      PROVE  /\ s \in claims' /\ HoldsIn(calls[g], s)
             /\ bought'[s] = IF BoughtIn(calls'[g]) /\ s = calls'[g].slice THEN 1 ELSE 0
  <2>1. HoldsIn(calls[g], s) /\ (g # h => calls'[g] = calls[g])
    BY <1>4, <1>5
  <2>2. s # calls[h].slice
    BY <1>2, <1>4, <1>5, <2>1 DEF SliceGood
  <2>3. s \in claims' /\ s \in claims
    BY <2>1, <2>2 DEF SliceGood
  <2>4. CASE g = h
    BY <1>3, <2>1, <2>2, <2>3, <2>4 DEF SliceGood
  <2>5. CASE g # h
    BY <2>1, <2>3, <2>5 DEF SliceGood
  <2> QED BY <2>4, <2>5
<1>6. ASSUME NEW g \in Handlers, NEW e \in Handlers, NEW s \in Slices,
             HoldsIn(calls'[g], s), HoldsIn(calls'[e], s)
      PROVE  g = e
  BY <1>5, <1>6 DEF SliceGood
<1>7. \A s \in Slices : bought'[s] <= 1 /\ (s \notin claims' => bought'[s] = 0)
  <2>1. calls[h].at = "rejected" /\ calls[h].slice \in Slices => bought[calls[h].slice] = 0
    BY <1>2 DEF SliceGood, BoughtIn
  <2> QED BY <2>1 DEF SliceGood
<1>8. ASSUME NEW g \in Handlers PROVE calls'[g].at = "after" => calls'[g].outcome # "unknown"
  BY DEF SliceGood
<1> QED BY <1>5, <1>6, <1>7, <1>8 DEF SliceGood

LEMMA SliceKept ==
  ASSUME Base, SliceOK, SliceStep PROVE SliceOK'
<1>0. SUFFICES ASSUME "unseen" \notin happened' PROVE SliceGood'
  BY DEF SliceOK
<1>1. CASE Still
  BY <1>0, <1>1 DEF Still, SliceOK, SliceGood
<1>2. CASE \E h \in Handlers : SliceQuiet(h)
  BY <1>0, <1>2, SliceQuietKeeps DEF SliceQuiet, SliceOK
<1>3. CASE \E h \in Handlers, s \in Slices : ClaimSlice(h, s)
  BY <1>0, <1>3, SliceClaimed DEF ClaimSlice, SliceOK
<1>4. ASSUME NEW h \in Handlers, Send(h) PROVE SliceGood'
  <2>1. /\ calls[h].at = "send" /\ UNCHANGED claims /\ happened \subseteq happened'
        /\ \/ /\ AfterIt(h, "mined")
              /\ \A t \in Slices : bought'[t] = IF t = calls[h].slice THEN bought[t] + 1 ELSE bought[t]
           \/ AfterIt(h, "reverted") /\ UNCHANGED bought
    BY <1>4, SendBase
  <2>2. SliceGood
    BY <1>0, <2>1 DEF SliceOK
  <2>3. calls[h].slice \in Slices => HoldsIn(calls[h], calls[h].slice)
    BY <2>1, BuyerHolds DEF Buying
  <2>4. calls[h].slice \in Slices => bought[calls[h].slice] = 0
    BY <2>1, <2>2, <2>3 DEF SliceGood, BoughtIn
  <2>5. calls'[h].outcome = "mined" \/ calls'[h].outcome = "reverted"
    BY <2>1 DEF AfterIt
  <2>6. \A s \in Slices : bought'[s] = IF s = calls[h].slice
                                       THEN IF BoughtIn(calls'[h]) THEN 1 ELSE 0
                                       ELSE bought[s]
    BY <2>1, <2>4 DEF AfterIt, BoughtIn
  <2> QED BY <2>1, <2>2, <2>3, <2>5, <2>6, SliceAdvances DEF AfterIt
<1>5. CASE \E h \in Handlers : Unseen(h)
  BY <1>0, <1>5, UnseenBase
<1>6. ASSUME NEW h \in Handlers, Judge(h) PROVE SliceGood'
  <2>1. SliceGood /\ calls[h].at = "after" /\ UNCHANGED <<claims, bought>>
    BY <1>0, <1>6, JudgeBase DEF SliceOK, chain, store
  <2>2. /\ calls'[h].slice = calls[h].slice
        /\ calls'[h].at = IF \/ calls[h].outcome = "mined"
                             \/ calls[h].outcome = "unknown" /\ draws[calls[h].c].spent > calls[h].before
                          THEN "charge" ELSE "rejected"
        /\ \A g \in Handlers \ {h} : calls'[g] = calls[g]
        /\ \A s \in Slices : HoldsIn(calls[h], s) <=> HoldsIn(calls'[h], s)
    BY <1>6, JudgeBase
  <2>3. calls[h].slice \in Slices => HoldsIn(calls[h], calls[h].slice)
    BY <2>1, BuyerHolds DEF Buying
  <2>4. BoughtIn(calls'[h]) <=> BoughtIn(calls[h])
    BY <2>1, <2>2 DEF SliceGood, BoughtIn
  <2>5. \A s \in Slices : bought'[s] = IF s = calls[h].slice
                                       THEN IF BoughtIn(calls'[h]) THEN 1 ELSE 0
                                       ELSE bought[s]
    BY <2>1, <2>3, <2>4 DEF SliceGood
  <2> QED BY <2>1, <2>2, <2>3, <2>5, SliceAdvances
<1>7. CASE \E h \in Handlers : ChargeBuy(h)
  BY <1>0, <1>7, ChargeBuyBase, SliceEnds DEF SliceOK, chain
<1>8. CASE \E h \in Handlers : Reject(h)
  BY <1>0, <1>8, RejectBase, SliceEnds DEF SliceOK, chain
<1>9. CASE \E tx \in late : MinedLate(tx)
  BY <1>0, <1>9, MinedLateBase
<1>10. CASE \E i \in Instances : Crash(i)
  BY <1>0, <1>10, CrashBase, SliceShrinks DEF SliceOK, chain
<1> QED BY <1>1, <1>2, <1>3, <1>4, <1>5, <1>6, <1>7, <1>8, <1>9, <1>10 DEF SliceStep

LEMMA SliceInit == ASSUME Init PROVE SliceOK
BY DEF Init, SliceOK, SliceGood, HoldsIn, Idle

\* Slices of an order.  However many polls, buys, controls and deaths run
\* together on however many instances, a slice buys at most once unless a
\* buy's receipt was not seen.
THEOREM SlicesBuyOnce == Spec => []SliceBoughtOnceIfSeen
<1>1. Init => Base /\ SliceOK
  BY InitBase, SliceInit
<1>2. Base /\ SliceOK /\ [Next]_vars => (Base /\ SliceOK)'
  <2>1. ASSUME Base, SliceOK, Next PROVE (Base /\ SliceOK)'
    BY <2>1, NextSteps, SliceKept
  <2>2. ASSUME Base, SliceOK, UNCHANGED vars PROVE (Base /\ SliceOK)'
    BY <2>2, BaseUnchanged, SliceKept DEF SliceStep
  <2> QED BY <2>1, <2>2
<1>3. Base /\ SliceOK => SliceBoughtOnceIfSeen
  BY DEF SliceOK, SliceGood, SliceBoughtOnceIfSeen, SliceBoughtOnce
<1> QED BY <1>1, <1>2, <1>3, PTL DEF Spec

----------------------------------------------------------------------------
(* What a buy read of its draw before it was sent.                         *)

LEMMA BeforeFrame ==
  ASSUME BeforeOK, NEW h \in Handlers, \A g \in Handlers \ {h} : calls'[g] = calls[g],
         happened \subseteq happened',
         BeforeAt(calls'[h], draws', happened'),
         \A g \in Handlers \ {h} : calls[g].at \in {"send", "after"} =>
            draws'[calls[g].c].spent = draws[calls[g].c].spent
  PROVE  BeforeOK'
<1>1. ASSUME NEW g \in Handlers \ {h} PROVE BeforeAt(calls'[g], draws', happened')
  BY DEF BeforeOK, BeforeAt
<1> QED BY <1>1 DEF BeforeOK

\* What stands and is not bought from spends nothing.
StoodSame == \A c \in Campaigns : Stood(draws[c]) => draws'[c].spent = draws[c].spent

LEMMA BeforeSame ==
  ASSUME Base, BeforeOK, NEW h \in Handlers, \A g \in Handlers \ {h} : calls'[g] = calls[g],
         happened \subseteq happened', StoodSame,
         calls'[h].at \notin {"send", "after", "charge"}
  PROVE  BeforeOK'
<1>1. BeforeAt(calls'[h], draws', happened')
  BY DEF BeforeAt
<1>2. ASSUME NEW g \in Handlers \ {h}, calls[g].at \in {"send", "after"}
      PROVE  draws'[calls[g].c].spent = draws[calls[g].c].spent
  BY <1>2, BuyerFacts DEF Buying, StoodSame
<1> QED BY <1>1, <1>2, BeforeFrame

\* Nobody else is where only the holder of the lock is.
LEMMA Alone ==
  ASSUME Base, NEW h \in Handlers, NEW g \in Handlers, lock = h, g # h
  PROVE  calls[g].at \notin Locked
<1>1. "idle" \notin Locked
  BY DEF Locked, Buying
<1> QED BY <1>1, Running DEF CallOK

LEMMA BeforeSend ==
  ASSUME Base, BeforeOK, NEW h \in Handlers, Send(h)
  PROVE  BeforeOK'
<1>1. /\ calls[h].at = "send" /\ happened \subseteq happened'
      /\ ("unseen" \in happened' <=> "unseen" \in happened)
      /\ \/ AfterIt(h, "mined") /\ draws'[C(h)].spent = draws[C(h)].spent + PRICE
         \/ AfterIt(h, "reverted") /\ UNCHANGED draws
  BY SendBase
<1>2. /\ lock = h /\ calls[h].c \in Campaigns /\ draws[calls[h].c].spent \in Nat /\ PRICE \in Nat
      /\ calls[h].before \in Int
  BY <1>1, BuyerFacts, Running, CampaignNumbers DEF Buying, Base, Rest, Draw
<1>3. BeforeAt(calls[h], draws, happened)
  BY DEF BeforeOK
<1>4. /\ calls'[h].at = "after" /\ calls'[h].before = calls[h].before /\ calls'[h].c = calls[h].c
      /\ \A g \in Handlers \ {h} : calls'[g] = calls[g]
  BY <1>1 DEF AfterIt
<1>5. BeforeAt(calls'[h], draws', happened')
  <2>1. CASE AfterIt(h, "mined") /\ draws'[C(h)].spent = draws[C(h)].spent + PRICE
    BY <1>1, <1>2, <1>3, <1>4, <2>1 DEF BeforeAt, AfterIt, C
  <2>2. CASE AfterIt(h, "reverted") /\ UNCHANGED draws
    BY <1>1, <1>2, <1>3, <1>4, <2>2 DEF BeforeAt, AfterIt
  <2> QED BY <1>1, <2>1, <2>2
<1>6. \A g \in Handlers \ {h} : calls[g].at \notin {"send", "after"}
  BY <1>2, Alone DEF Locked, Buying
<1> QED BY <1>1, <1>4, <1>5, <1>6, BeforeFrame

LEMMA BeforeKept ==
  ASSUME Base, BeforeOK, MoneyStep PROVE BeforeOK'
<1>1. CASE Still
  BY <1>1 DEF Still, BeforeOK, BeforeAt
<1>2. CASE \E h \in Handlers : MoneyQuiet(h)
  BY <1>2, BeforeSame DEF MoneyQuiet, StoodSame, Owing
<1>3. ASSUME NEW h \in Handlers, Guard(h) PROVE BeforeOK'
  <2>1. CASE MoneyQuiet(h)
    BY <2>1, BeforeSame DEF MoneyQuiet, StoodSame, Owing
  <2>2. CASE /\ calls'[h] \in Request /\ calls'[h].at = "send"
             /\ calls[h].at = "guard" /\ calls'[h].c = calls[h].c
             /\ calls'[h].before = draws[calls[h].c].spent
             /\ \A g \in Handlers \ {h} : calls'[g] = calls[g]
             /\ UNCHANGED <<chain, charged, happened>>
    <3>1. draws[calls[h].c].spent \in Nat /\ UNCHANGED draws
      BY <2>2, BuyerFacts DEF Buying, Base, Rest, Draw, chain
    <3>2. BeforeAt(calls'[h], draws', happened')
      BY <2>2, <3>1 DEF BeforeAt
    <3> QED BY <2>2, <3>1, <3>2, BeforeFrame
  <2> QED BY <1>3, <2>1, <2>2, GuardBase
<1>4. CASE \E h \in Handlers : Moved(h)
  BY <1>4, MovedBase, BeforeSame DEF StoodSame, chain
<1>5. CASE \E h \in Handlers : Send(h)
  BY <1>5, BeforeSend
<1>6. ASSUME NEW h \in Handlers, Unseen(h) PROVE BeforeOK'
  <2>1. /\ calls[h].at = "send" /\ AfterIt(h, "unknown") /\ UNCHANGED draws
        /\ happened' = happened \cup {"unseen"}
    BY <1>6, UnseenBase
  <2>2. BeforeAt(calls'[h], draws', happened')
    BY <2>1 DEF BeforeOK, BeforeAt, AfterIt
  <2> QED BY <2>1, <2>2, BeforeFrame DEF AfterIt
<1>7. ASSUME NEW h \in Handlers, Judge(h) PROVE BeforeOK'
  <2>1. /\ calls[h].at = "after" /\ UNCHANGED <<draws, happened>>
        /\ calls'[h].before = draws[calls[h].c].spent - calls[h].before
        /\ calls'[h].at \in {"charge", "rejected"}
        /\ \A g \in Handlers \ {h} : calls'[g] = calls[g]
    BY <1>7, JudgeBase DEF chain
  <2>2. draws[calls[h].c].spent \in Nat /\ calls[h].before \in Int
    BY <2>1, BuyerFacts, Running DEF Buying, Base, Rest, Draw
  <2>3. BeforeAt(calls'[h], draws', happened')
    BY <2>1, <2>2 DEF BeforeOK, BeforeAt
  <2> QED BY <2>1, <2>3, BeforeFrame
<1>8. CASE \E h \in Handlers : ChargeBuy(h)
  BY <1>8, ChargeBuyBase, BeforeSame DEF StoodSame, chain
<1>9. CASE \E h \in Handlers : Reject(h)
  BY <1>9, RejectBase, BeforeSame DEF StoodSame, chain
<1>10. CASE \E h \in Handlers : RecordWithdrawal(h)
  BY <1>10, RecordBase, BeforeSame DEF StoodSame, chain, MovedTo
<1>11. CASE \E h \in Handlers : Pay(h)
  BY <1>11, PayBase, BeforeSame DEF StoodSame
<1>12. ASSUME NEW h \in Handlers, OpenDraw(h) PROVE BeforeOK'
  BY <1>12, OpenDrawBase, BeforeSame DEF StoodSame, MovedTo, MoneyQuiet, Owing, Stood
<1>13. ASSUME NEW h \in Handlers, TopUp(h) PROVE BeforeOK'
  <2>1. CASE MoneyQuiet(h)
    BY <2>1, BeforeSame DEF MoneyQuiet, StoodSame, Owing
  <2>2. CASE ~MoneyQuiet(h)
    <3>1. /\ calls[h].c \in Campaigns /\ MovedTo(h, "put") /\ UNCHANGED happened
          /\ draws'[calls[h].c] = Raised(draws[calls[h].c])
          /\ \A e \in Campaigns \ {calls[h].c} : draws'[e] = draws[e]
      BY <1>13, <2>2, TopUpBase
    <3>2. draws'[calls[h].c].spent = draws[calls[h].c].spent
      BY <3>1 DEF Raised, Base, Rest, Draw
    <3> QED BY <3>1, <3>2, BeforeSame DEF StoodSame, MovedTo
  <2> QED BY <2>1, <2>2
<1>14. ASSUME NEW h \in Handlers, CloseDraw(h) PROVE BeforeOK'
  <2>1. /\ calls[h].c \in Campaigns /\ MovedTo(h, "put") /\ UNCHANGED happened
        /\ \/ UNCHANGED draws
           \/ /\ draws'[calls[h].c] = Shuts(draws[calls[h].c])
              /\ \A e \in Campaigns \ {calls[h].c} : draws'[e] = draws[e]
    BY <1>14, CloseDrawBase
  <2>2. Shuts(draws[calls[h].c]).spent = draws[calls[h].c].spent
    BY <2>1 DEF Shuts, Base, Rest, Draw
  <2> QED BY <2>1, <2>2, BeforeSame DEF StoodSame, MovedTo
<1>15. CASE \E h \in Handlers : ChargeSeed(h)
  BY <1>15, ChargeSeedBase, BeforeSame DEF StoodSame, MovedTo, chain
<1>16. ASSUME NEW h \in Handlers, NEW c \in Campaigns, Fund(h, c) PROVE BeforeOK'
  BY <1>16, FundBase, BeforeSame DEF StoodSame, MovedTo, MoneyQuiet, Owing, Stood
<1>17. ASSUME NEW tx \in late, MinedLate(tx) PROVE BeforeOK'
  <2>1. /\ UNCHANGED <<calls, happened>> /\ "unseen" \in happened /\ tx[1] \in Campaigns
        /\ \/ UNCHANGED draws
           \/ /\ draws'[tx[1]].spent = draws[tx[1]].spent + PRICE
              /\ \A e \in Campaigns \ {tx[1]} : draws'[e] = draws[e]
    BY <1>17, MinedLateBase
  <2>2. \A c \in Campaigns : draws[c].spent \in Nat /\ PRICE \in Nat
    BY CampaignNumbers DEF Base, Rest, Draw
  <2>3. \A c \in Campaigns : draws[c].spent <= draws'[c].spent /\ draws'[c].spent \in Nat
    BY <2>1, <2>2
  <2>4. ASSUME NEW g \in Handlers PROVE BeforeAt(calls'[g], draws', happened')
    <3>1. BeforeAt(calls[g], draws, happened) /\ calls'[g] = calls[g]
      BY <2>1 DEF BeforeOK
    <3>2. CASE calls[g].at \in {"send", "after"}
      <4>1. calls[g].c \in Campaigns /\ calls[g].before \in Int
        BY <3>2, Running
      <4> QED BY <2>1, <2>2, <2>3, <3>1, <3>2, <4>1 DEF BeforeAt
    <3>3. CASE calls[g].at \notin {"send", "after"}
      BY <3>1, <3>3 DEF BeforeAt
    <3> QED BY <3>2, <3>3
  <2> QED BY <2>4 DEF BeforeOK
<1>18. CASE \E i \in Instances : Crash(i)
  <2>1. /\ UNCHANGED draws /\ happened \subseteq happened'
        /\ \A h \in Handlers : calls'[h] = calls[h] \/ calls'[h] = Idle
    BY <1>18, CrashBase DEF chain
  <2> QED BY <2>1 DEF BeforeOK, BeforeAt, Idle
<1> QED BY <1>1, <1>2, <1>3, <1>4, <1>5, <1>6, <1>7, <1>8, <1>9, <1>10, <1>11, <1>12, <1>13, <1>14,
           <1>15, <1>16, <1>17, <1>18 DEF MoneyStep

LEMMA BeforeInit == ASSUME Init PROVE BeforeOK
BY DEF Init, BeforeOK, BeforeAt, Idle

----------------------------------------------------------------------------
(* No slice is stranded.                                                   *)

\* Only a buy changes what a draw that stands has spent.
LEMMA StoodKept ==
  ASSUME Base, MoneyStep
  PROVE  StoodSame \/ (\E h \in Handlers : Send(h)) \/ (\E tx \in late : MinedLate(tx))
<1>1. CASE Still \/ \E h \in Handlers : MoneyQuiet(h)
  BY <1>1 DEF Still, MoneyQuiet, StoodSame
<1>2. ASSUME NEW h \in Handlers, Guard(h) PROVE StoodSame
  BY <1>2, GuardBase DEF MoneyQuiet, StoodSame, chain
<1>3. CASE \E h \in Handlers : Moved(h) \/ Unseen(h) \/ Judge(h)
  BY <1>3, MovedBase, UnseenBase, JudgeBase DEF StoodSame, chain
<1>4. CASE \E h \in Handlers : ChargeBuy(h) \/ Reject(h)
  BY <1>4, ChargeBuyBase, RejectBase DEF StoodSame, chain
<1>5. CASE \E h \in Handlers : RecordWithdrawal(h) \/ Pay(h) \/ ChargeSeed(h)
  BY <1>5, RecordBase, PayBase, ChargeSeedBase DEF StoodSame, chain
<1>6. ASSUME NEW h \in Handlers, OpenDraw(h) PROVE StoodSame
  BY <1>6, OpenDrawBase DEF StoodSame, MoneyQuiet, Stood
<1>7. ASSUME NEW h \in Handlers, TopUp(h) PROVE StoodSame
  <2>1. CASE MoneyQuiet(h)
    BY <2>1 DEF MoneyQuiet, StoodSame
  <2>2. CASE ~MoneyQuiet(h)
    <3>1. /\ calls[h].c \in Campaigns /\ draws'[calls[h].c] = Raised(draws[calls[h].c])
          /\ \A e \in Campaigns \ {calls[h].c} : draws'[e] = draws[e]
      BY <1>7, <2>2, TopUpBase
    <3>2. draws'[calls[h].c].spent = draws[calls[h].c].spent
      BY <3>1 DEF Raised, Base, Rest, Draw
    <3> QED BY <3>1, <3>2 DEF StoodSame
  <2> QED BY <2>1, <2>2
<1>8. ASSUME NEW h \in Handlers, CloseDraw(h) PROVE StoodSame
  <2>1. /\ calls[h].c \in Campaigns
        /\ \/ UNCHANGED draws
           \/ /\ draws'[calls[h].c] = Shuts(draws[calls[h].c])
              /\ \A e \in Campaigns \ {calls[h].c} : draws'[e] = draws[e]
    BY <1>8, CloseDrawBase
  <2>2. Shuts(draws[calls[h].c]).spent = draws[calls[h].c].spent
    BY <2>1 DEF Shuts, Base, Rest, Draw
  <2> QED BY <2>1, <2>2 DEF StoodSame
<1>9. ASSUME NEW h \in Handlers, NEW c \in Campaigns, Fund(h, c) PROVE StoodSame
  BY <1>9, FundBase DEF StoodSame, MoneyQuiet, Stood
<1>10. CASE \E i \in Instances : Crash(i)
  BY <1>10, CrashBase DEF StoodSame, chain
<1> QED BY <1>1, <1>2, <1>3, <1>4, <1>5, <1>6, <1>7, <1>8, <1>9, <1>10 DEF MoneyStep

LEMMA StrandFrame ==
  ASSUME StrandGood, NEW h \in Handlers, \A g \in Handlers \ {h} : calls'[g] = calls[g],
         claims' \subseteq Slices,
         \A s \in Slices : bought[s] > 0 => bought'[s] > 0,
         \A s \in claims' : \/ bought'[s] > 0
                            \/ HoldsIn(calls'[h], s)
                            \/ s \in claims /\ ~HoldsIn(calls[h], s),
         \A g \in Handlers \ {h} : calls[g].at = "after" =>
            late' \subseteq late /\ draws'[calls[g].c].spent = draws[calls[g].c].spent,
         StrandAt(calls'[h], bought', late', draws')
  PROVE  StrandGood'
<1>1. ASSUME NEW g \in Handlers \ {h} PROVE StrandAt(calls'[g], bought', late', draws')
  <2>1. StrandAt(calls[g], bought, late, draws) /\ calls'[g] = calls[g]
    BY DEF StrandGood
  <2> QED BY <2>1 DEF StrandAt, BoughtIn
<1>2. ASSUME NEW s \in claims' PROVE bought'[s] > 0 \/ \E g \in Handlers : HoldsIn(calls'[g], s)
  <2>1. CASE s \in claims /\ ~HoldsIn(calls[h], s)
    <3>1. bought[s] > 0 \/ \E g \in Handlers \ {h} : HoldsIn(calls[g], s)
      BY <2>1 DEF StrandGood
    <3> QED BY <1>2, <2>1, <3>1
  <2> QED BY <2>1
<1> QED BY <1>1, <1>2 DEF StrandGood

\* The steps that buy nothing, and hold as much as they did.
LEMMA StrandSame ==
  ASSUME Base, StrandGood, NEW h \in Handlers, \A g \in Handlers \ {h} : calls'[g] = calls[g],
         UNCHANGED <<claims, bought, late>>, StoodSame,
         \A s \in Slices : HoldsIn(calls[h], s) => HoldsIn(calls'[h], s) \/ bought[s] > 0,
         StrandAt(calls'[h], bought, late, draws')
  PROVE  StrandGood'
<1>1. ASSUME NEW g \in Handlers \ {h}, calls[g].at = "after"
      PROVE  draws'[calls[g].c].spent = draws[calls[g].c].spent
  BY <1>1, BuyerFacts DEF Buying, StoodSame
<1>2. claims' \subseteq Slices
  BY DEF StrandGood
<1> QED BY <1>1, <1>2, StrandFrame

\* Whoever is buying is alone at it.
LEMMA OthersNotAfter ==
  ASSUME Base, NEW h \in Handlers, calls[h].at \in Buying
  PROVE  \A g \in Handlers \ {h} : calls[g].at \notin {"send", "after"}
BY BuyerFacts, Alone DEF Locked, Buying

LEMMA StrandSend ==
  ASSUME Base, StrandGood, NEW h \in Handlers, Send(h) PROVE StrandGood'
<1>1. /\ calls[h].at = "send" /\ UNCHANGED <<claims, late>>
      /\ \/ /\ AfterIt(h, "mined")
            /\ \A t \in Slices : bought'[t] = IF t = calls[h].slice THEN bought[t] + 1 ELSE bought[t]
         \/ AfterIt(h, "reverted") /\ UNCHANGED <<draws, bought>>
  BY SendBase
<1>2. \A t \in Slices : bought[t] \in Nat
  BY DEF Base, Rest
<1>3. \A s \in Slices : bought[s] > 0 => bought'[s] > 0
  BY <1>1, <1>2
<1>4. StrandAt(calls'[h], bought', late', draws')
  BY <1>1, <1>2 DEF AfterIt, StrandAt, BoughtIn
<1>5. \A g \in Handlers \ {h} : calls[g].at # "after"
  BY <1>1, OthersNotAfter DEF Buying
<1>6. /\ \A g \in Handlers \ {h} : calls'[g] = calls[g]
      /\ \A s \in Slices : HoldsIn(calls[h], s) <=> HoldsIn(calls'[h], s)
  BY <1>1 DEF AfterIt
<1>7. claims' = claims /\ claims \subseteq Slices
  BY <1>1 DEF StrandGood
<1> QED BY <1>3, <1>4, <1>5, <1>6, <1>7, StrandFrame

LEMMA StrandUnseen ==
  ASSUME Base, BeforeOK, StrandGood, NEW h \in Handlers, Unseen(h) PROVE StrandGood'
<1>1. /\ calls[h].at = "send" /\ UNCHANGED <<claims, bought, draws>>
      /\ AfterIt(h, "unknown") /\ "unseen" \notin happened
      /\ \A tx \in late' : tx[2] = calls[h].slice
  BY UnseenBase
<1>2. calls[h].before = draws[calls[h].c].spent /\ draws[calls[h].c].spent \in Nat
  BY <1>1, BuyerFacts DEF BeforeOK, BeforeAt, Buying, Base, Rest, Draw
<1>3. StrandAt(calls'[h], bought', late', draws')
  BY <1>1, <1>2 DEF AfterIt, StrandAt, BoughtIn
<1>4. \A g \in Handlers \ {h} : calls[g].at # "after"
  BY <1>1, OthersNotAfter DEF Buying
<1>5. /\ \A g \in Handlers \ {h} : calls'[g] = calls[g]
      /\ \A s \in Slices : HoldsIn(calls[h], s) <=> HoldsIn(calls'[h], s)
  BY <1>1 DEF AfterIt
<1>6. claims' = claims /\ claims \subseteq Slices
  BY <1>1 DEF StrandGood
<1> QED BY <1>1, <1>3, <1>4, <1>5, <1>6, StrandFrame

\* A buy that came late was of the slice whose buy nobody saw.
LEMMA StrandMined ==
  ASSUME Base, StrandGood, NEW tx \in late, MinedLate(tx) PROVE StrandGood'
<1>1. /\ UNCHANGED <<calls, claims>> /\ late' = {}
      /\ \/ UNCHANGED <<draws, bought>>
         \/ \A t \in Slices : bought'[t] = IF t = tx[2] THEN bought[t] + 1 ELSE bought[t]
  BY MinedLateBase
<1>2. \A t \in Slices : bought[t] \in Nat
  BY DEF Base, Rest
<1>3. \A s \in Slices : bought[s] > 0 => bought'[s] > 0
  BY <1>1, <1>2
<1>4. ASSUME NEW g \in Handlers PROVE StrandAt(calls'[g], bought', late', draws')
  <2>1. StrandAt(calls[g], bought, late, draws) /\ calls'[g] = calls[g]
    BY <1>1 DEF StrandGood
  <2>2. calls[g].at = "after" /\ calls[g].outcome = "unknown" /\ calls[g].slice \in Slices
          => tx[2] = calls[g].slice
    BY <2>1 DEF StrandAt
  <2> QED BY <1>1, <1>2, <1>3, <2>1, <2>2 DEF StrandAt, BoughtIn
<1>5. claims' = claims /\ claims \subseteq Slices
  BY <1>1 DEF StrandGood
<1> QED BY <1>1, <1>3, <1>4, <1>5 DEF StrandGood

LEMMA StrandClaimed ==
  ASSUME Base, StrandGood, NEW h \in Handlers, NEW s \in Slices, ClaimSlice(h, s), StoodSame
  PROVE  StrandGood'
<1>1. /\ calls[h].at = "claim" /\ claims' = claims \cup {s} /\ UNCHANGED chain
  BY DEF ClaimSlice
<1>2. /\ \A g \in Handlers \ {h} : calls'[g] = calls[g]
      /\ calls'[h] # Idle /\ calls'[h].at = "claim"
      /\ calls'[h].due = IF s \in claims THEN calls[h].due ELSE calls[h].due \cup {s}
  BY ClaimQuiet
<1>3. \A t \in Slices : HoldsIn(calls[h], t) => HoldsIn(calls'[h], t)
  BY <1>1, <1>2 DEF HoldsIn, Holding, Buying
<1>4. s \notin claims => HoldsIn(calls'[h], s)
  BY <1>2 DEF HoldsIn
<1>5. StrandAt(calls'[h], bought', late', draws')
  BY <1>2 DEF StrandAt
<1>6. claims' \subseteq Slices
  BY <1>1 DEF StrandGood
<1>7. UNCHANGED <<bought, late, draws>>
  BY <1>1 DEF chain
<1> QED BY <1>1, <1>2, <1>3, <1>4, <1>5, <1>6, <1>7, StrandFrame

\* A buy is over: the slice was bought, or is given back.
LEMMA StrandEnds ==
  ASSUME Base, StrandGood, NEW h \in Handlers, calls[h].at \in {"charge", "rejected"},
         claims' = IF calls[h].at = "rejected" THEN claims \ {calls[h].slice} ELSE claims,
         calls'[h] \in Request, calls'[h].at \in {"claim", "count"}, calls'[h].due = calls[h].due,
         \A g \in Handlers \ {h} : calls'[g] = calls[g],
         UNCHANGED chain
  PROVE  StrandGood'
<1>1. calls'[h] # Idle
  BY DEF Idle
<1>2. calls[h].at = "charge" /\ calls[h].slice \in Slices => bought[calls[h].slice] > 0
  BY DEF StrandGood, StrandAt, BoughtIn
<1>3. \A s \in Slices : HoldsIn(calls[h], s) => HoldsIn(calls'[h], s) \/ s = calls[h].slice
  BY <1>1 DEF HoldsIn
<1>4. claims' \subseteq claims /\ claims' \subseteq Slices
  BY DEF StrandGood
<1>5. ASSUME NEW s \in claims'
      PROVE  bought'[s] > 0 \/ HoldsIn(calls'[h], s) \/ (s \in claims /\ ~HoldsIn(calls[h], s))
  BY <1>2, <1>3, <1>4 DEF chain
<1>6. StrandAt(calls'[h], bought', late', draws')
  BY DEF StrandAt
<1>7. UNCHANGED <<bought, late, draws>>
  BY DEF chain
<1> QED BY <1>4, <1>5, <1>6, <1>7, StrandFrame

LEMMA StrandKept ==
  ASSUME Base, BeforeOK, StrandOK, SliceStep, MoneyStep PROVE StrandOK'
<1>0. SUFFICES ASSUME happened' \cap Stops = {} PROVE StrandGood'
  BY DEF StrandOK
<1>1. ASSUME NEW h \in Handlers, Send(h) PROVE StrandGood'
  BY <1>0, <1>1, SendBase, StrandSend DEF StrandOK
<1>2. ASSUME NEW tx \in late, MinedLate(tx) PROVE StrandGood'
  BY <1>0, <1>2, MinedLateBase, StrandMined DEF StrandOK
<1>3. SUFFICES ASSUME StoodSame PROVE StrandGood'
  BY <1>1, <1>2, StoodKept
<1>4. CASE Still
  BY <1>0, <1>4 DEF Still, StrandOK, StrandGood, StrandAt
<1>5. ASSUME NEW h \in Handlers, SliceQuiet(h) PROVE StrandGood'
  <2>1. /\ UNCHANGED <<claims, bought, late>> /\ \A g \in Handlers \ {h} : calls'[g] = calls[g]
        /\ \A s \in Slices : HoldsIn(calls[h], s) <=> HoldsIn(calls'[h], s)
        /\ calls'[h].at \notin {"after", "charge"} /\ happened \subseteq happened'
    BY <1>0, <1>5 DEF SliceQuiet
  <2>2. StrandGood /\ StrandAt(calls'[h], bought, late, draws')
    BY <1>0, <2>1 DEF StrandOK, StrandAt
  <2> QED BY <1>3, <2>1, <2>2, StrandSame
<1>6. CASE \E h \in Handlers, s \in Slices : ClaimSlice(h, s)
  BY <1>0, <1>3, <1>6, StrandClaimed DEF ClaimSlice, StrandOK
<1>7. CASE \E h \in Handlers : Unseen(h)
  <2>1. "unseen" \notin Stops
    BY DEF Stops
  <2> QED BY <1>0, <1>7, <2>1, UnseenBase, StrandUnseen DEF StrandOK
<1>8. ASSUME NEW h \in Handlers, Judge(h) PROVE StrandGood'
  <2>1. /\ calls[h].at = "after" /\ UNCHANGED <<claims, bought, late, happened>>
        /\ calls'[h].slice = calls[h].slice
        /\ calls'[h].at = IF \/ calls[h].outcome = "mined"
                             \/ calls[h].outcome = "unknown" /\ draws[calls[h].c].spent > calls[h].before
                          THEN "charge" ELSE "rejected"
        /\ \A g \in Handlers \ {h} : calls'[g] = calls[g]
        /\ \A s \in Slices : HoldsIn(calls[h], s) <=> HoldsIn(calls'[h], s)
    BY <1>8, JudgeBase DEF chain, store
  <2>2. StrandGood
    BY <1>0, <2>1 DEF StrandOK
  <2>3. StrandAt(calls'[h], bought, late, draws')
    BY <2>1, <2>2 DEF StrandGood, StrandAt, BoughtIn
  <2> QED BY <1>3, <2>1, <2>2, <2>3, StrandSame
<1>9. CASE \E h \in Handlers : ChargeBuy(h)
  BY <1>0, <1>9, ChargeBuyBase, StrandEnds DEF StrandOK
<1>10. CASE \E h \in Handlers : Reject(h)
  BY <1>0, <1>10, RejectBase, StrandEnds DEF StrandOK
<1>11. CASE \E i \in Instances : Crash(i)
  BY <1>0, <1>11, CrashBase DEF Stops
<1> QED BY <1>1, <1>2, <1>4, <1>5, <1>6, <1>7, <1>8, <1>9, <1>10, <1>11 DEF SliceStep

LEMMA StrandInit == ASSUME Init PROVE StrandOK
BY DEF Init, StrandOK, StrandGood, StrandAt, Idle

LEMMA HoldsSame == ASSUME NEW h \in Handlers, NEW s PROVE HoldsIn(calls[h], s) <=> Holds(h, s)
BY DEF HoldsIn, Holds, Holding, Buying

\* No stranded slice.  A slice that some poll claimed was bought, or a request
\* that still runs will decide it, unless a death, an exit, a wait that ran
\* out or a stopped session ended the request that held it.
THEOREM OnlyAStopStrands == Spec => []StrandedOnlyByAStop
<1>1. Init => Base /\ BeforeOK /\ StrandOK
  BY InitBase, BeforeInit, StrandInit
<1>2. Base /\ BeforeOK /\ StrandOK /\ [Next]_vars => (Base /\ BeforeOK /\ StrandOK)'
  <2>1. ASSUME Base, BeforeOK, StrandOK, Next PROVE (Base /\ BeforeOK /\ StrandOK)'
    BY <2>1, NextSteps, BeforeKept, StrandKept
  <2>2. ASSUME Base, BeforeOK, StrandOK, UNCHANGED vars PROVE (Base /\ BeforeOK /\ StrandOK)'
    BY <2>2, BaseUnchanged, BeforeKept, StrandKept DEF SliceStep, MoneyStep
  <2> QED BY <2>1, <2>2
<1>3. Base /\ BeforeOK /\ StrandOK => StrandedOnlyByAStop
  BY HoldsSame DEF StrandOK, StrandGood, StrandedOnlyByAStop, Stops
<1> QED BY <1>1, <1>2, <1>3, PTL DEF Spec

----------------------------------------------------------------------------
(* What is charged is what was spent.                                      *)

MoneyTyped ==
  /\ owed \in [Handlers -> Nat] /\ paying \in [Handlers -> Nat]
  /\ paid \in [Keys -> Nat] /\ spents \in [Campaigns -> Nat]
  /\ Total(owed) \in Nat /\ Total(paying) \in Nat /\ Total(paid) \in Nat /\ Total(spents) \in Nat
  /\ Outflow = Total(paid) + Total(spents) /\ Outflow \in Nat /\ charged \in Int

LEMMA MoneyTypes == Base /\ BeforeOK => MoneyTyped
<1> SUFFICES ASSUME Base, BeforeOK PROVE MoneyTyped
  OBVIOUS
<1>1. /\ IsFiniteSet(Handlers) /\ IsFiniteSet(Campaigns) /\ IsFiniteSet(Keys)
      /\ SEED \in Nat /\ PAYOUT \in Nat
  BY CampaignNumbers
<1>2. ASSUME NEW h \in Handlers PROVE OwedBy(calls[h], draws) \in Nat
  <2>1. CASE calls[h].at \in {"send", "after"}
    <3>1. draws[calls[h].c].spent \in Nat /\ calls[h].before \in Int /\ BeforeAt(calls[h], draws, happened)
      BY <2>1, Running DEF Base, Rest, Draw, BeforeOK
    <3> QED BY <2>1, <3>1 DEF OwedBy, BeforeAt
  <2>2. CASE calls[h].at = "charge"
    <3>1. calls[h].before \in Int /\ BeforeAt(calls[h], draws, happened)
      BY <2>2, Running DEF BeforeOK
    <3> QED BY <2>2, <3>1 DEF OwedBy, BeforeAt
  <2>3. CASE calls[h].at \notin {"send", "after", "charge"}
    BY <1>1, <2>3 DEF OwedBy
  <2> QED BY <2>1, <2>2, <2>3
<1>3. owed \in [Handlers -> Nat] /\ paying \in [Handlers -> Nat]
  BY <1>1, <1>2 DEF owed, paying, PayingBy
<1>4. paid \in [Keys -> Nat] /\ spents \in [Campaigns -> Nat] /\ charged \in Int
  BY DEF Base, Rest, Draw, spents
<1>5. Total(owed) \in Nat /\ Total(paying) \in Nat /\ Total(paid) \in Nat /\ Total(spents) \in Nat
  BY <1>1, <1>3, <1>4, TotalType
<1>6. Outflow = Total(paid) + Total(spents)
  BY DEF Outflow, spents
<1> QED BY <1>3, <1>4, <1>5, <1>6 DEF MoneyTyped

LEMMA MoneyTypesNext == (Base /\ BeforeOK => MoneyTyped)'
BY MoneyTypes, PTL

LEMMA OutflowSame ==
  ASSUME Base, Base', UNCHANGED paid, \A c \in Campaigns : draws'[c].spent = draws[c].spent
  PROVE  Outflow' = Outflow
<1>1. spents' = spents
  BY DEF spents
<1> QED BY <1>1 DEF Outflow, spents

LEMMA OutflowSpent ==
  ASSUME Base, BeforeOK, Base', BeforeOK', UNCHANGED paid, NEW c \in Campaigns, NEW n \in Nat,
         draws'[c].spent = draws[c].spent + n, \A e \in Campaigns \ {c} : draws'[e] = draws[e]
  PROVE  Outflow' = Outflow + n
<1>1. /\ spents \in [Campaigns -> Nat] /\ spents' \in [Campaigns -> Nat]
      /\ Outflow = Total(paid) + Total(spents) /\ Outflow' = Total(paid') + Total(spents')
      /\ Total(paid) \in Nat /\ Total(spents) \in Nat
  BY MoneyTypes, MoneyTypesNext DEF MoneyTyped
<1>2. spents'[c] = spents[c] + n /\ \A e \in Campaigns : e # c => spents'[e] = spents[e]
  BY DEF spents
<1>3. Total(spents') = Total(spents) - spents[c] + spents'[c]
  BY <1>1, <1>2, TotalUpdate, CampaignNumbers
<1> QED BY <1>1, <1>2, <1>3

\* One request moves money, or what it owes.
LEMMA ChargeMoves ==
  ASSUME Base, BeforeOK, ChargeOK, Base', BeforeOK', NEW h \in Handlers,
         happened \subseteq happened',
         \A g \in Handlers \ {h} : owed'[g] = owed[g] /\ paying'[g] = paying[g],
         charged' + owed'[h] - charged - owed[h] <= Outflow' + paying'[h] - Outflow - paying[h],
         happened' \cap {"crash", "unseen"} = {} =>
            charged' + owed'[h] - charged - owed[h] = Outflow' + paying'[h] - Outflow - paying[h]
  PROVE  ChargeOK'
<1>1. /\ owed \in [Handlers -> Nat] /\ paying \in [Handlers -> Nat]
      /\ Total(owed) \in Nat /\ Total(paying) \in Nat /\ Outflow \in Nat /\ charged \in Int
      /\ owed' \in [Handlers -> Nat] /\ paying' \in [Handlers -> Nat]
      /\ Total(owed') \in Nat /\ Total(paying') \in Nat /\ Outflow' \in Nat /\ charged' \in Int
  BY MoneyTypes, MoneyTypesNext DEF MoneyTyped
<1>2. /\ Total(owed') = Total(owed) - owed[h] + owed'[h]
      /\ Total(paying') = Total(paying) - paying[h] + paying'[h]
  BY <1>1, TotalUpdate, CampaignNumbers
<1>3. owed[h] \in Nat /\ owed'[h] \in Nat /\ paying[h] \in Nat /\ paying'[h] \in Nat
  BY <1>1
<1>4. charged' + Total(owed') <= Outflow' + Total(paying')
  BY <1>1, <1>2, <1>3 DEF ChargeOK
<1>5. ASSUME happened' \cap {"crash", "unseen"} = {}
      PROVE  charged' + Total(owed') = Outflow' + Total(paying')
  <2>1. charged + Total(owed) = Outflow + Total(paying)
    BY <1>5 DEF ChargeOK
  <2> QED BY <1>1, <1>2, <1>3, <1>5, <2>1
<1> QED BY <1>4, <1>5 DEF ChargeOK

LEMMA OwedFrame ==
  ASSUME Base, NEW h \in Handlers, \A g \in Handlers \ {h} : calls'[g] = calls[g],
         StoodSame \/ \A g \in Handlers \ {h} : calls[g].at \notin {"send", "after"}
  PROVE  \A g \in Handlers \ {h} : owed'[g] = owed[g] /\ paying'[g] = paying[g]
<1> TAKE g \in Handlers \ {h}
<1>1. paying'[g] = paying[g]
  BY DEF paying
<1>2. CASE calls[g].at \in {"send", "after"}
  <2>1. draws'[calls[g].c].spent = draws[calls[g].c].spent
    BY <1>2, BuyerFacts DEF Buying, StoodSame
  <2> QED BY <1>1, <2>1 DEF owed, OwedBy
<1>3. CASE calls[g].at \notin {"send", "after"}
  BY <1>1, <1>3 DEF owed, OwedBy
<1> QED BY <1>2, <1>3

\* A step that leaves the money where it is, and at most forgets a debt.
LEMMA ChargeStays ==
  ASSUME Base, BeforeOK, ChargeOK, Base', BeforeOK', NEW h \in Handlers,
         \A g \in Handlers \ {h} : calls'[g] = calls[g],
         happened \subseteq happened', UNCHANGED <<charged, paid>>,
         \A c \in Campaigns : draws'[c].spent = draws[c].spent,
         OwedBy(calls'[h], draws') <= OwedBy(calls[h], draws),
         "unseen" \notin happened => OwedBy(calls'[h], draws') = OwedBy(calls[h], draws),
         calls[h].at # "pay", calls'[h].at # "pay"
  PROVE  ChargeOK'
<1>1. Outflow' = Outflow
  BY OutflowSame
<1>2. \A g \in Handlers \ {h} : owed'[g] = owed[g] /\ paying'[g] = paying[g]
  BY OwedFrame DEF StoodSame
<1>3. owed'[h] <= owed[h] /\ ("unseen" \notin happened => owed'[h] = owed[h])
  BY DEF owed
<1>4. paying'[h] = 0 /\ paying[h] = 0
  BY DEF paying, PayingBy
<1>5. /\ owed[h] \in Nat /\ owed'[h] \in Nat /\ Outflow \in Nat /\ charged \in Int
  BY MoneyTypes, MoneyTypesNext DEF MoneyTyped
<1>6. charged' + owed'[h] - charged - owed[h] <= Outflow' + paying'[h] - Outflow - paying[h]
  BY <1>1, <1>3, <1>4, <1>5
<1>7. happened' \cap {"crash", "unseen"} = {} =>
         charged' + owed'[h] - charged - owed[h] = Outflow' + paying'[h] - Outflow - paying[h]
  <2>1. happened' \cap {"crash", "unseen"} = {} => owed'[h] = owed[h]
    BY <1>3
  <2> QED BY <1>1, <1>4, <1>5, <2>1
<1> QED BY <1>2, <1>6, <1>7, ChargeMoves

\* A step that moves money: what is charged, spent, paid and owed move by as
\* much.
LEMMA ChargePays ==
  ASSUME Base, BeforeOK, ChargeOK, Base', BeforeOK', NEW h \in Handlers,
         \A g \in Handlers \ {h} : calls'[g] = calls[g],
         happened \subseteq happened',
         StoodSame \/ \A g \in Handlers \ {h} : calls[g].at \notin {"send", "after"},
         charged' + OwedBy(calls'[h], draws') - charged - OwedBy(calls[h], draws)
           = Outflow' + PayingBy(calls'[h]) - Outflow - PayingBy(calls[h])
  PROVE  ChargeOK'
<1>1. \A g \in Handlers \ {h} : owed'[g] = owed[g] /\ paying'[g] = paying[g]
  BY OwedFrame
<1>2. /\ owed[h] = OwedBy(calls[h], draws) /\ owed'[h] = OwedBy(calls'[h], draws')
      /\ paying[h] = PayingBy(calls[h]) /\ paying'[h] = PayingBy(calls'[h])
  BY DEF owed, paying
<1>3. charged' + owed'[h] - charged - owed[h] = Outflow' + paying'[h] - Outflow - paying[h]
  BY <1>2
<1>4. /\ owed[h] \in Nat /\ owed'[h] \in Nat /\ paying[h] \in Nat /\ paying'[h] \in Nat
      /\ Outflow \in Nat /\ Outflow' \in Nat /\ charged \in Int /\ charged' \in Int
  BY MoneyTypes, MoneyTypesNext DEF MoneyTyped
<1>5. charged' + owed'[h] - charged - owed[h] <= Outflow' + paying'[h] - Outflow - paying[h]
  BY <1>3, <1>4
<1> QED BY <1>1, <1>3, <1>5, ChargeMoves

LEMMA ChargeSend ==
  ASSUME Base, BeforeOK, ChargeOK, BeforeOK', NEW h \in Handlers, Send(h) PROVE ChargeOK'
<1>1. /\ Base' /\ calls[h].at = "send" /\ UNCHANGED <<paid, charged>> /\ happened \subseteq happened'
      /\ \/ /\ AfterIt(h, "mined")
            /\ draws'[C(h)].spent = draws[C(h)].spent + PRICE
            /\ \A e \in Campaigns \ {C(h)} : draws'[e] = draws[e]
         \/ AfterIt(h, "reverted") /\ UNCHANGED draws
  BY SendBase
<1>2. /\ calls[h].c \in Campaigns /\ draws[calls[h].c].spent \in Nat /\ PRICE \in Nat
      /\ calls[h].before \in Int
  BY <1>1, BuyerFacts, Running, CampaignNumbers DEF Buying, Base, Rest, Draw
<1>3. \A g \in Handlers \ {h} : calls[g].at \notin {"send", "after"}
  BY <1>1, OthersNotAfter DEF Buying
<1>4. /\ calls'[h].at = "after" /\ calls'[h].before = calls[h].before /\ calls'[h].c = calls[h].c
      /\ \A g \in Handlers \ {h} : calls'[g] = calls[g]
  BY <1>1 DEF AfterIt
<1>5. /\ OwedBy(calls[h], draws) = draws[calls[h].c].spent - calls[h].before
      /\ OwedBy(calls'[h], draws') = draws'[calls[h].c].spent - calls[h].before
      /\ PayingBy(calls[h]) = 0 /\ PayingBy(calls'[h]) = 0
  BY <1>1, <1>4 DEF OwedBy, PayingBy
<1>6. CASE /\ draws'[C(h)].spent = draws[C(h)].spent + PRICE
           /\ \A e \in Campaigns \ {C(h)} : draws'[e] = draws[e]
  <2>1. Outflow' = Outflow + PRICE
    BY <1>1, <1>2, <1>6, OutflowSpent DEF C
  <2>2. Outflow \in Nat /\ charged \in Int /\ charged' = charged
    BY <1>1, MoneyTypes DEF MoneyTyped
  <2>3. charged' + OwedBy(calls'[h], draws') - charged - OwedBy(calls[h], draws)
          = Outflow' + PayingBy(calls'[h]) - Outflow - PayingBy(calls[h])
    BY <1>2, <1>5, <1>6, <2>1, <2>2 DEF C
  <2> QED BY <1>1, <1>3, <1>4, <2>3, ChargePays
<1>7. CASE UNCHANGED draws
  BY <1>1, <1>2, <1>4, <1>5, <1>7, ChargeStays
<1> QED BY <1>1, <1>6, <1>7

LEMMA ChargeMined ==
  ASSUME Base, BeforeOK, ChargeOK, BeforeOK', NEW tx \in late, MinedLate(tx) PROVE ChargeOK'
<1>1. /\ Base' /\ UNCHANGED <<calls, paid, charged, happened>> /\ "unseen" \in happened
      /\ tx[1] \in Campaigns
      /\ \/ UNCHANGED draws
         \/ /\ draws'[tx[1]].spent = draws[tx[1]].spent + PRICE
            /\ \A e \in Campaigns \ {tx[1]} : draws'[e] = draws[e]
  BY MinedLateBase
<1>2. CASE UNCHANGED draws
  BY <1>1, <1>2 DEF ChargeOK, owed, paying, Outflow
<1>3. CASE /\ draws'[tx[1]].spent = draws[tx[1]].spent + PRICE
           /\ \A e \in Campaigns \ {tx[1]} : draws'[e] = draws[e]
  <2>1. PRICE \in Nat /\ \A c \in Campaigns : draws[c].spent \in Nat
    BY CampaignNumbers DEF Base, Rest, Draw
  <2>2. Outflow' = Outflow + PRICE
    BY <1>1, <1>3, <2>1, OutflowSpent
  <2>3. /\ owed \in [Handlers -> Nat] /\ owed' \in [Handlers -> Nat]
        /\ Total(owed) \in Nat /\ Total(owed') \in Nat /\ Total(paying) \in Nat
        /\ Outflow \in Nat /\ charged \in Int
    BY <1>1, MoneyTypes, MoneyTypesNext DEF MoneyTyped
  <2>4. ASSUME NEW g \in Handlers
        PROVE  /\ owed'[g] <= owed[g] + PRICE
               /\ lock # g => owed'[g] = owed[g]
    <3>1. calls'[g] = calls[g] /\ owed[g] = OwedBy(calls[g], draws) /\ owed'[g] = OwedBy(calls[g], draws')
      BY <1>1 DEF owed
    <3>2. CASE calls[g].at \in {"send", "after"}
      <4>1. calls[g].c \in Campaigns /\ calls[g].before \in Int /\ lock = g
        BY <3>2, Running, BuyerFacts DEF Buying
      <4>2. draws'[calls[g].c].spent <= draws[calls[g].c].spent + PRICE /\ draws'[calls[g].c].spent \in Nat
        BY <1>3, <2>1, <4>1
      <4> QED BY <2>1, <3>1, <3>2, <4>1, <4>2 DEF OwedBy
    <3>3. CASE calls[g].at \notin {"send", "after"}
      <4>1. owed'[g] = owed[g]
        BY <3>1, <3>3 DEF OwedBy
      <4> QED BY <2>1, <2>3, <4>1
    <3> QED BY <3>2, <3>3
  <2>5. Total(owed') <= Total(owed) + PRICE
    <3>1. CASE lock \in Handlers
      <4>1. Total(owed') = Total(owed) - owed[lock] + owed'[lock]
        BY <2>3, <2>4, <3>1, TotalUpdate, CampaignNumbers
      <4> QED BY <2>1, <2>3, <2>4, <3>1, <4>1
    <3>2. CASE lock \notin Handlers
      <4>1. owed' = owed
        BY <2>3, <2>4, <3>2
      <4> QED BY <2>1, <2>3, <4>1
    <3> QED BY <3>1, <3>2
  <2>6. paying' = paying
    BY <1>1 DEF paying
  <2>7. charged + Total(owed) <= Outflow + Total(paying)
    BY DEF ChargeOK
  <2>8. charged' + Total(owed') <= Outflow' + Total(paying')
    BY <1>1, <2>1, <2>2, <2>3, <2>5, <2>6, <2>7
  <2> QED BY <1>1, <2>8 DEF ChargeOK
<1> QED BY <1>1, <1>2, <1>3

\* A death may forget what was to be charged.
LEMMA ChargeCrash ==
  ASSUME Base, BeforeOK, ChargeOK, BeforeOK', NEW i \in Instances, Crash(i),
         "crash" \notin Faults \/ "withdraw" \notin Kinds
  PROVE  ChargeOK'
<1>1. /\ Base' /\ UNCHANGED <<draws, paid, charged>> /\ "withdraw" \notin Kinds
      /\ "crash" \in happened'
      /\ \A h \in Handlers : calls'[h] = calls[h] \/ calls'[h] = Idle
  BY CrashBase DEF chain
<1>2. /\ owed \in [Handlers -> Nat] /\ owed' \in [Handlers -> Nat]
      /\ Total(owed) \in Nat /\ Total(owed') \in Nat /\ Total(paying) \in Nat
      /\ Outflow \in Nat /\ charged \in Int
  BY <1>1, MoneyTypes, MoneyTypesNext DEF MoneyTyped
<1>3. ASSUME NEW h \in Handlers PROVE owed'[h] <= owed[h] /\ paying'[h] = paying[h]
  <2>1. Idle.at = "idle"
    BY DEF Idle
  <2>2. calls[h].at # "pay"
    <3>1. SUFFICES ASSUME calls[h].at = "pay" PROVE FALSE
      OBVIOUS
    <3>2. calls[h].kind \in KindsAt("pay") /\ calls[h].kind \in Kinds
      BY <3>1, HolderFacts DEF Locked, Buying
    <3> QED BY <1>1, <3>2 DEF KindsAt
  <2>3. calls'[h].at # "pay" /\ paying'[h] = paying[h]
    BY <1>1, <2>1, <2>2 DEF paying, PayingBy
  <2>4. owed'[h] = owed[h] \/ owed'[h] = 0
    BY <1>1, <2>1 DEF owed, OwedBy
  <2> QED BY <1>2, <2>3, <2>4
<1>4. Total(owed') <= Total(owed)
  BY <1>2, <1>3, TotalMonotone, CampaignNumbers
<1>5. paying' = paying
  BY <1>3 DEF paying
<1>6. Outflow' = Outflow
  BY <1>1, OutflowSame
<1>7. charged + Total(owed) <= Outflow + Total(paying)
  BY DEF ChargeOK
<1>8. charged' + Total(owed') <= Outflow' + Total(paying')
  BY <1>1, <1>2, <1>4, <1>5, <1>6, <1>7
<1> QED BY <1>1, <1>8 DEF ChargeOK

LEMMA ChargeJudge ==
  ASSUME Base, BeforeOK, ChargeOK, BeforeOK', NEW h \in Handlers, Judge(h) PROVE ChargeOK'
<1>1. /\ Base' /\ calls[h].at = "after" /\ UNCHANGED <<draws, paid, charged, happened>>
      /\ calls'[h].before = draws[calls[h].c].spent - calls[h].before
      /\ calls'[h].at = "charge" \/ (calls'[h].at = "rejected" /\ calls[h].outcome # "mined")
      /\ \A g \in Handlers \ {h} : calls'[g] = calls[g]
  BY JudgeBase DEF chain, store
<1>2. draws[calls[h].c].spent \in Nat /\ calls[h].before \in Int /\ BeforeAt(calls[h], draws, happened)
  BY <1>1, BuyerFacts, Running DEF Buying, Base, Rest, Draw, BeforeOK
<1>3. OwedBy(calls[h], draws) = draws[calls[h].c].spent - calls[h].before
  BY <1>1 DEF OwedBy
<1>4. CASE calls'[h].at = "charge"
  <2>1. OwedBy(calls'[h], draws') = draws[calls[h].c].spent - calls[h].before
    BY <1>1, <1>4 DEF OwedBy
  <2> QED BY <1>1, <1>2, <1>3, <1>4, <2>1, ChargeStays
<1>5. CASE calls'[h].at = "rejected" /\ calls[h].outcome # "mined"
  <2>1. OwedBy(calls'[h], draws') = 0
    BY <1>5 DEF OwedBy
  <2>2. /\ draws[calls[h].c].spent - calls[h].before >= 0
        /\ "unseen" \notin happened => draws[calls[h].c].spent - calls[h].before = 0
    BY <1>1, <1>2, <1>5 DEF BeforeAt
  <2> QED BY <1>1, <1>3, <1>5, <2>1, <2>2, ChargeStays
<1> QED BY <1>1, <1>4, <1>5

LEMMA ChargeMovedBuy ==
  ASSUME Base, BeforeOK, ChargeOK, BeforeOK', NEW h \in Handlers, Moved(h) PROVE ChargeOK'
<1>1. /\ Base' /\ calls[h].at = "send" /\ UNCHANGED <<draws, paid, charged>> /\ happened \subseteq happened'
      /\ calls'[h].at = "rejected" /\ \A g \in Handlers \ {h} : calls'[g] = calls[g]
  BY MovedBase DEF chain
<1>2. draws[calls[h].c].spent \in Nat /\ calls[h].before \in Int /\ BeforeAt(calls[h], draws, happened)
  BY <1>1, BuyerFacts, Running DEF Buying, Base, Rest, Draw, BeforeOK
<1>3. /\ OwedBy(calls[h], draws) = draws[calls[h].c].spent - calls[h].before
      /\ OwedBy(calls'[h], draws') = 0
  BY <1>1 DEF OwedBy
<1>4. /\ draws[calls[h].c].spent - calls[h].before >= 0
      /\ "unseen" \notin happened => draws[calls[h].c].spent - calls[h].before = 0
  BY <1>1, <1>2 DEF BeforeAt
<1> QED BY <1>1, <1>3, <1>4, ChargeStays

LEMMA PaidMore ==
  ASSUME Base, Base', NEW k \in Keys, paid'[k] = paid[k] + PAYOUT,
         \A e \in Keys : e # k => paid'[e] = paid[e]
  PROVE  Total(paid') = Total(paid) + PAYOUT
<1>1. paid \in [Keys -> Nat] /\ paid' \in [Keys -> Nat] /\ PAYOUT \in Nat /\ IsFiniteSet(Keys)
  BY CampaignNumbers DEF Base, Rest
<1>2. Total(paid') = Total(paid) - paid[k] + paid'[k]
  BY <1>1, TotalUpdate
<1>3. paid[k] \in Nat /\ Total(paid) \in Nat
  BY <1>1, TotalType
<1> QED BY <1>1, <1>2, <1>3

LEMMA ChargePay ==
  ASSUME Base, BeforeOK, ChargeOK, BeforeOK', NEW h \in Handlers, Pay(h) PROVE ChargeOK'
<1>1. /\ Base' /\ calls[h].at = "pay" /\ calls'[h].at \in {"idle", "reread"} /\ UNCHANGED draws
      /\ \A g \in Handlers \ {h} : calls'[g] = calls[g]
      /\ happened \subseteq happened' /\ calls[h].key \in Keys
      /\ \/ charged' = charged /\ paid' = [paid EXCEPT ![calls[h].key] = @ + PAYOUT]
         \/ charged' = charged - PAYOUT /\ paid' = paid
  BY PayBase
<1>2. /\ OwedBy(calls[h], draws) = 0 /\ OwedBy(calls'[h], draws') = 0
      /\ PayingBy(calls[h]) = PAYOUT /\ PayingBy(calls'[h]) = 0
  BY <1>1 DEF OwedBy, PayingBy
<1>3. /\ Outflow \in Nat /\ Outflow' \in Nat /\ charged \in Int /\ PAYOUT \in Nat /\ paid \in [Keys -> Nat]
      /\ paid' \in [Keys -> Nat] /\ Total(paid) \in Nat /\ Total(spents) \in Nat
      /\ Outflow = Total(paid) + Total(spents) /\ Outflow' = Total(paid') + Total(spents')
  BY <1>1, MoneyTypes, MoneyTypesNext, CampaignNumbers DEF MoneyTyped
<1>4. spents' = spents
  BY <1>1 DEF spents
<1>5. CASE charged' = charged /\ paid' = [paid EXCEPT ![calls[h].key] = @ + PAYOUT]
  <2>4. Outflow' = Outflow + PAYOUT
    <3>1. /\ paid'[calls[h].key] = paid[calls[h].key] + PAYOUT
          /\ \A k \in Keys : k # calls[h].key => paid'[k] = paid[k]
      BY <1>1, <1>3, <1>5
    <3>2. Total(paid') = Total(paid) + PAYOUT
      BY <1>1, <3>1, PaidMore
    <3> QED BY <1>3, <1>4, <3>2
  <2>5. charged' + OwedBy(calls'[h], draws') - charged - OwedBy(calls[h], draws)
          = Outflow' + PayingBy(calls'[h]) - Outflow - PayingBy(calls[h])
    BY <1>2, <1>3, <1>5, <2>4
  <2> QED BY <1>1, <2>5, ChargePays DEF StoodSame
<1>6. CASE charged' = charged - PAYOUT /\ paid' = paid
  <2>1. Outflow' = Outflow
    BY <1>3, <1>4, <1>6
  <2>2. charged' + OwedBy(calls'[h], draws') - charged - OwedBy(calls[h], draws)
          = Outflow' + PayingBy(calls'[h]) - Outflow - PayingBy(calls[h])
    BY <1>2, <1>3, <1>6, <2>1
  <2> QED BY <1>1, <2>2, ChargePays DEF StoodSame
<1> QED BY <1>1, <1>5, <1>6

LEMMA ChargeFund ==
  ASSUME Base, BeforeOK, ChargeOK, BeforeOK', NEW h \in Handlers, NEW c \in Campaigns, Fund(h, c),
         ~MoneyQuiet(h)
  PROVE  ChargeOK'
<1>1. /\ Base' /\ calls[h].at = "sweep" /\ MovedTo(h, "chargeSeed") /\ UNCHANGED <<paid, charged, happened>>
      /\ draws[c].state = "Pending" /\ draws'[c] = Funds(draws[c])
      /\ \A e \in Campaigns \ {c} : draws'[e] = draws[e]
  BY FundBase
<1>2. draws[c] \in Draw /\ SEED \in Nat
  BY CampaignNumbers DEF Base, Rest
<1>3. draws'[c].spent = draws[c].spent + SEED
  BY <1>1, <1>2, FundsFields
<1>4. Outflow' = Outflow + SEED
  BY <1>1, <1>2, <1>3, OutflowSpent
<1>5. StoodSame
  BY <1>1 DEF StoodSame, Stood
<1>6. /\ OwedBy(calls[h], draws) = 0 /\ OwedBy(calls'[h], draws') = SEED
      /\ PayingBy(calls[h]) = 0 /\ PayingBy(calls'[h]) = 0
  BY <1>1 DEF OwedBy, PayingBy, MovedTo
<1>7. Outflow \in Nat /\ charged \in Int /\ charged' = charged
  BY <1>1, MoneyTypes DEF MoneyTyped
<1>8. charged' + OwedBy(calls'[h], draws') - charged - OwedBy(calls[h], draws)
        = Outflow' + PayingBy(calls'[h]) - Outflow - PayingBy(calls[h])
  BY <1>2, <1>4, <1>6, <1>7
<1> QED BY <1>1, <1>5, <1>8, ChargePays DEF MovedTo

\* A step that records a charge of what was owed, or before what is paid.
LEMMA ChargeRecords ==
  ASSUME Base, BeforeOK, ChargeOK, Base', BeforeOK', NEW h \in Handlers,
         \A g \in Handlers \ {h} : calls'[g] = calls[g], happened \subseteq happened',
         UNCHANGED <<draws, paid>>,
         charged' = charged + OwedBy(calls[h], draws) + PayingBy(calls'[h]),
         OwedBy(calls'[h], draws') = 0, PayingBy(calls[h]) = 0
  PROVE  ChargeOK'
<1>1. Outflow' = Outflow
  BY OutflowSame
<1>2. /\ owed[h] \in Nat /\ paying'[h] \in Nat /\ Outflow \in Nat /\ charged \in Int
      /\ owed[h] = OwedBy(calls[h], draws) /\ paying'[h] = PayingBy(calls'[h])
  <2>1. owed \in [Handlers -> Nat] /\ paying' \in [Handlers -> Nat] /\ Outflow \in Nat /\ charged \in Int
    BY MoneyTypes, MoneyTypesNext DEF MoneyTyped
  <2> QED BY <2>1 DEF owed, paying
<1>3. charged' + OwedBy(calls'[h], draws') - charged - OwedBy(calls[h], draws)
        = Outflow' + PayingBy(calls'[h]) - Outflow - PayingBy(calls[h])
  BY <1>1, <1>2
<1> QED BY <1>3, ChargePays DEF StoodSame

LEMMA ChargeKept ==
  ASSUME Base, BeforeOK, ChargeOK, MoneyStep, Base', BeforeOK',
         "crash" \notin Faults \/ "withdraw" \notin Kinds
  PROVE  ChargeOK'
<1>1. CASE Still
  <2>1. owed' = owed /\ paying' = paying /\ Outflow' = Outflow /\ charged' = charged
    BY <1>1 DEF Still, owed, paying, Outflow
  <2> QED BY <1>1, <2>1 DEF Still, ChargeOK
<1>2. ASSUME NEW h \in Handlers, MoneyQuiet(h) PROVE ChargeOK'
  <2>1. /\ OwedBy(calls[h], draws) = 0 /\ OwedBy(calls'[h], draws') = 0
        /\ calls[h].at # "pay" /\ calls'[h].at # "pay"
    BY <1>2 DEF MoneyQuiet, Owing, OwedBy
  <2> QED BY <1>2, <2>1, ChargeStays DEF MoneyQuiet
<1>3. ASSUME NEW h \in Handlers, Guard(h), ~MoneyQuiet(h) PROVE ChargeOK'
  <2>1. /\ calls'[h].at = "send" /\ calls[h].at = "guard" /\ calls'[h].c = calls[h].c
        /\ calls'[h].before = draws[calls[h].c].spent
        /\ \A g \in Handlers \ {h} : calls'[g] = calls[g]
        /\ UNCHANGED <<draws, paid, charged, happened>>
    BY <1>3, GuardBase DEF chain
  <2>2. draws[calls[h].c].spent \in Nat
    BY <2>1, BuyerFacts DEF Buying, Base, Rest, Draw
  <2>3. OwedBy(calls[h], draws) = 0 /\ OwedBy(calls'[h], draws') = 0
    BY <2>1, <2>2 DEF OwedBy
  <2> QED BY <2>1, <2>3, ChargeStays
<1>4. CASE \E h \in Handlers : Moved(h) \/ Send(h) \/ Judge(h) \/ Pay(h)
  BY <1>4, ChargeMovedBuy, ChargeSend, ChargeJudge, ChargePay
<1>5. ASSUME NEW h \in Handlers, Unseen(h) PROVE ChargeOK'
  <2>1. /\ calls[h].at = "send" /\ AfterIt(h, "unknown") /\ UNCHANGED <<draws, paid, charged>>
        /\ happened \subseteq happened'
    BY <1>5, UnseenBase
  <2>2. OwedBy(calls'[h], draws') = OwedBy(calls[h], draws)
    BY <2>1 DEF OwedBy, AfterIt
  <2>3. owed[h] \in Nat /\ owed[h] = OwedBy(calls[h], draws)
    BY MoneyTypes DEF MoneyTyped, owed
  <2> QED BY <2>1, <2>2, <2>3, ChargeStays DEF AfterIt
<1>6. ASSUME NEW h \in Handlers, ChargeBuy(h) PROVE ChargeOK'
  <2>1. /\ calls[h].at = "charge" /\ calls'[h].at \in {"claim", "count"}
        /\ charged' = charged + calls[h].before /\ UNCHANGED <<draws, paid, happened>>
        /\ \A g \in Handlers \ {h} : calls'[g] = calls[g]
    BY <1>6, ChargeBuyBase DEF chain
  <2>2. /\ OwedBy(calls[h], draws) = calls[h].before /\ OwedBy(calls'[h], draws') = 0
        /\ PayingBy(calls[h]) = 0 /\ PayingBy(calls'[h]) = 0
    BY <2>1 DEF OwedBy, PayingBy
  <2>3. charged \in Int /\ calls[h].before \in Int
    BY <2>1, Running DEF Base, Rest
  <2> QED BY <2>1, <2>2, <2>3, ChargeRecords
<1>7. ASSUME NEW h \in Handlers, Reject(h) PROVE ChargeOK'
  <2>1. /\ calls[h].at = "rejected" /\ calls'[h].at \in {"claim", "count"}
        /\ UNCHANGED <<draws, paid, charged, happened>>
        /\ \A g \in Handlers \ {h} : calls'[g] = calls[g]
    BY <1>7, RejectBase DEF chain
  <2>2. OwedBy(calls[h], draws) = 0 /\ OwedBy(calls'[h], draws') = 0
    BY <2>1 DEF OwedBy
  <2> QED BY <2>1, <2>2, ChargeStays
<1>8. ASSUME NEW h \in Handlers, RecordWithdrawal(h) PROVE ChargeOK'
  <2>1. /\ calls[h].at = "record" /\ MovedTo(h, "pay") /\ charged' = charged + PAYOUT
        /\ UNCHANGED <<draws, paid, happened>>
    BY <1>8, RecordBase DEF chain
  <2>2. /\ OwedBy(calls[h], draws) = 0 /\ OwedBy(calls'[h], draws') = 0
        /\ PayingBy(calls[h]) = 0 /\ PayingBy(calls'[h]) = PAYOUT
    BY <2>1 DEF OwedBy, PayingBy, MovedTo
  <2>3. charged \in Int /\ PAYOUT \in Nat
    BY CampaignNumbers DEF Base, Rest
  <2> QED BY <2>1, <2>2, <2>3, ChargeRecords DEF MovedTo
<1>9. ASSUME NEW h \in Handlers, ChargeSeed(h) PROVE ChargeOK'
  <2>1. /\ calls[h].at = "chargeSeed" /\ MovedTo(h, "sweep") /\ charged' = charged + SEED
        /\ UNCHANGED <<draws, paid, happened>>
    BY <1>9, ChargeSeedBase DEF chain
  <2>2. /\ OwedBy(calls[h], draws) = SEED /\ OwedBy(calls'[h], draws') = 0
        /\ PayingBy(calls[h]) = 0 /\ PayingBy(calls'[h]) = 0
    BY <2>1 DEF OwedBy, PayingBy, MovedTo
  <2>3. charged \in Int /\ SEED \in Nat
    BY CampaignNumbers DEF Base, Rest
  <2> QED BY <2>1, <2>2, <2>3, ChargeRecords DEF MovedTo
<1>10. ASSUME NEW h \in Handlers, OpenDraw(h) \/ TopUp(h) \/ CloseDraw(h), ~MoneyQuiet(h) PROVE ChargeOK'
  <2>1. /\ MovedTo(h, "put") /\ UNCHANGED <<paid, charged, happened>>
        /\ calls[h].at \in {"draw", "topUp", "closeDraw"} /\ calls[h].c \in Campaigns
        /\ \/ UNCHANGED draws
           \/ /\ \/ draws[calls[h].c].state = "None" /\ draws'[calls[h].c] = Opens
                 \/ draws'[calls[h].c] = Raised(draws[calls[h].c])
                 \/ draws'[calls[h].c] = Shuts(draws[calls[h].c])
              /\ \A e \in Campaigns \ {calls[h].c} : draws'[e] = draws[e]
    BY <1>10, OpenDrawBase, TopUpBase, CloseDrawBase
  <2>2. draws[calls[h].c] \in Draw /\ DrawOK(calls[h].c, draws[calls[h].c])
    BY <2>1 DEF Base, Rest
  <2>3. /\ Raised(draws[calls[h].c]).spent = draws[calls[h].c].spent
        /\ Shuts(draws[calls[h].c]).spent = draws[calls[h].c].spent
        /\ draws[calls[h].c].state = "None" => Opens.spent = draws[calls[h].c].spent
    BY <2>2 DEF Raised, Shuts, Opens, Draw, DrawOK
  <2>4. \A c \in Campaigns : draws'[c].spent = draws[c].spent
    BY <2>1, <2>3
  <2>5. OwedBy(calls[h], draws) = 0 /\ OwedBy(calls'[h], draws') = 0
    BY <2>1 DEF OwedBy, MovedTo
  <2> QED BY <2>1, <2>4, <2>5, ChargeStays DEF MovedTo
<1>11. CASE \E h \in Handlers, c \in Campaigns : Fund(h, c)
  BY <1>2, <1>11, ChargeFund
<1>12. CASE \E tx \in late : MinedLate(tx)
  BY <1>12, ChargeMined
<1>13. CASE \E i \in Instances : Crash(i)
  BY <1>13, ChargeCrash
<1> QED BY <1>1, <1>2, <1>3, <1>4, <1>5, <1>6, <1>7, <1>8, <1>9, <1>10, <1>11, <1>12, <1>13 DEF MoneyStep

\* The total of a function that is n on a set and nothing elsewhere.
LEMMA TotalOfSome ==
  ASSUME NEW D, NEW S, S \subseteq D, IsFiniteSet(S), NEW n \in Nat, NEW f,
         f = [d \in D |-> IF d \in S THEN n ELSE 0]
  PROVE  Total(f) = Cardinality(S) * n
<1>1. f \in [D -> Nat]
  OBVIOUS
<1>2. \A t : t \in Units(f) <=> \E d \in D : \E k \in 1..f[d] : t = <<d, k>>
  BY <1>1, UnitsMember
<1>3. Units(f) = S \X (1..n)
  <2>1. ASSUME NEW t \in Units(f) PROVE t \in S \X (1..n)
    <3>1. PICK d \in D : \E k \in 1..f[d] : t = <<d, k>>
      BY <1>2, <2>1
    <3>2. PICK k \in 1..f[d] : t = <<d, k>>
      BY <3>1
    <3>3. d \in S
      BY <3>2
    <3> QED BY <3>2, <3>3
  <2>2. ASSUME NEW d \in S, NEW k \in 1..n PROVE <<d, k>> \in Units(f)
    BY <1>2, <2>2
  <2> QED BY <2>1, <2>2
<1>4. IsFiniteSet(1..n) /\ Cardinality(1..n) = n
  BY FS_Interval
<1> QED BY <1>3, <1>4, FS_Product DEF Total

LEMMA InitMoney ==
  ASSUME Init
  PROVE  /\ Total(owed) = 0 /\ Total(paying) = 0 /\ Total(paid) = 0
         /\ Total(spents) = Cardinality(Opened) * SEED
<1>1. IsFiniteSet(Handlers) /\ IsFiniteSet(Keys) /\ IsFiniteSet(Opened) /\ SEED \in Nat
  BY CampaignNumbers, FS_Subset
<1>2. /\ owed \in [Handlers -> Nat] /\ paying \in [Handlers -> Nat] /\ paid \in [Keys -> Nat]
      /\ \A h \in Handlers : owed[h] = 0 /\ paying[h] = 0
      /\ \A k \in Keys : paid[k] = 0
  BY DEF Init, owed, paying, OwedBy, PayingBy, Idle
<1>3. spents = [c \in Campaigns |-> IF c \in Opened THEN SEED ELSE 0]
  BY DEF Init, spents, NoDraw
<1>4. Total(spents) = Cardinality(Opened) * SEED
  BY <1>1, <1>3, TotalOfSome, CampaignNumbers
<1> QED BY <1>1, <1>2, <1>4, TotalZero

LEMMA ChargeInit == ASSUME Init PROVE ChargeOK
<1>1. Base /\ BeforeOK
  BY InitBase, BeforeInit
<1>2. /\ charged = Total(spents) /\ Total(owed) = 0 /\ Total(paying) = 0 /\ Total(paid) = 0
  BY InitMoney DEF Init
<1>3. Outflow = Total(paid) + Total(spents) /\ Outflow \in Nat /\ Total(spents) \in Nat
  BY <1>1, MoneyTypes DEF MoneyTyped
<1> QED BY <1>2, <1>3 DEF ChargeOK

LEMMA ChargeSaysMatch ==
  ASSUME Base, BeforeOK, ChargeOK PROVE ChargesMatchSpend
<1>1. SUFFICES ASSUME \A h \in Handlers : ~Moving(h)
               PROVE charged = Outflow \/ (happened \cap {"crash", "unseen"} # {} /\ charged < Outflow)
  BY DEF ChargesMatchSpend
<1>2. /\ owed \in [Handlers -> Nat] /\ paying \in [Handlers -> Nat]
      /\ Total(owed) \in Nat /\ Outflow \in Nat /\ charged \in Int
      /\ IsFiniteSet(Handlers)
  BY MoneyTypes, CampaignNumbers DEF MoneyTyped
<1>3. ASSUME NEW h \in Handlers
      PROVE  paying[h] = 0 /\ ("unseen" \notin happened => owed[h] = 0)
  <2>1. calls[h].at \notin {"after", "charge", "pay", "chargeSeed"}
    BY <1>1, Running DEF Moving
  <2>2. calls[h].at = "send" /\ "unseen" \notin happened =>
          draws[calls[h].c].spent \in Nat /\ calls[h].before = draws[calls[h].c].spent
    BY BuyerFacts DEF Buying, Base, Rest, Draw, BeforeOK, BeforeAt
  <2> QED BY <2>1, <2>2 DEF owed, paying, OwedBy, PayingBy
<1>4. Total(paying) = 0
  BY <1>2, <1>3, TotalZero
<1>5. charged <= Outflow
  BY <1>2, <1>4 DEF ChargeOK
<1>6. CASE happened \cap {"crash", "unseen"} = {}
  <2>1. Total(owed) = 0
    BY <1>2, <1>3, <1>6, TotalZero
  <2>2. charged + Total(owed) = Outflow + Total(paying)
    BY <1>6 DEF ChargeOK
  <2> QED BY <1>2, <1>4, <2>1, <2>2
<1>7. CASE happened \cap {"crash", "unseen"} # {}
  BY <1>2, <1>5, <1>7
<1> QED BY <1>6, <1>7

\* The charges.  Once nothing is half way, what the wallet is charged is what
\* left the pool and the operator for it, and never more; less only after a
\* death or a buy nobody saw.  Where requests may die there are no withdrawals:
\* one that died between its charge and its payment is charged for nothing.
THEOREM ChargesAreSpend ==
  ASSUME "crash" \notin Faults \/ "withdraw" \notin Kinds
  PROVE  Spec => []ChargesMatchSpend
<1>1. Init => Base /\ BeforeOK /\ ChargeOK
  BY InitBase, BeforeInit, ChargeInit
<1>2. Base /\ BeforeOK /\ ChargeOK /\ [Next]_vars => (Base /\ BeforeOK /\ ChargeOK)'
  <2>1. ASSUME Base, BeforeOK, ChargeOK, Next PROVE (Base /\ BeforeOK /\ ChargeOK)'
    BY <2>1, NextSteps, BeforeKept, ChargeKept
  <2>2. ASSUME Base, BeforeOK, ChargeOK, UNCHANGED vars PROVE (Base /\ BeforeOK /\ ChargeOK)'
    BY <2>2, BaseUnchanged, BeforeKept, ChargeKept DEF MoneyStep
  <2> QED BY <2>1, <2>2
<1>3. Base /\ BeforeOK /\ ChargeOK => ChargesMatchSpend
  BY ChargeSaysMatch
<1> QED BY <1>1, <1>2, <1>3, PTL DEF Spec

----------------------------------------------------------------------------
(* Nothing is committed twice.                                             *)

lives == [c \in Campaigns |-> IF Live(c) THEN draws[c].amount ELSE 0]

GrantTyped ==
  /\ commits \in [Campaigns -> Nat] /\ lives \in [Campaigns -> Nat]
  /\ Total(commits) \in Nat /\ Total(lives) \in Nat /\ Granted \in Nat
  /\ Granted = Total(paid) + Total(commits)

LEMMA GrantTypes == Base => GrantTyped
<1> SUFFICES ASSUME Base PROVE GrantTyped
  OBVIOUS
<1>1. commits \in [Campaigns -> Nat] /\ lives \in [Campaigns -> Nat] /\ paid \in [Keys -> Nat]
  BY DEF Base, Rest, Draw, commits, lives
<1>2. Total(commits) \in Nat /\ Total(lives) \in Nat /\ Total(paid) \in Nat
  BY <1>1, TotalType, CampaignNumbers
<1> QED BY <1>1, <1>2 DEF GrantTyped, Granted

LEMMA GrantTypesNext == (Base => GrantTyped)'
BY GrantTypes, PTL

LEMMA PaidMoves ==
  ASSUME Base, BeforeOK, PaidOK, Base', BeforeOK', NEW h \in Handlers,
         \A g \in Handlers \ {h} : calls'[g] = calls[g],
         Total(paid') + PayingBy(calls'[h]) - charged' <= Total(paid) + PayingBy(calls[h]) - charged
  PROVE  PaidOK'
<1>1. /\ paying \in [Handlers -> Nat] /\ paying' \in [Handlers -> Nat] /\ Total(paying) \in Nat
      /\ Total(paid) \in Nat /\ Total(paid') \in Nat /\ charged \in Int /\ charged' \in Int
  BY MoneyTypes, MoneyTypesNext DEF MoneyTyped
<1>2. /\ paying[h] = PayingBy(calls[h]) /\ paying'[h] = PayingBy(calls'[h])
      /\ \A g \in Handlers : g # h => paying'[g] = paying[g]
  BY DEF paying
<1>3. Total(paying') = Total(paying) - paying[h] + paying'[h]
  BY <1>1, <1>2, TotalUpdate, CampaignNumbers
<1>4. paying[h] \in Nat /\ paying'[h] \in Nat
  BY <1>1
<1> QED BY <1>1, <1>2, <1>3, <1>4 DEF PaidOK

LEMMA PaidSame ==
  ASSUME Base, BeforeOK, PaidOK, Base', BeforeOK', NEW h \in Handlers,
         \A g \in Handlers \ {h} : calls'[g] = calls[g],
         UNCHANGED <<paid, charged>>, calls'[h].at # "pay"
  PROVE  PaidOK'
<1>1. PayingBy(calls'[h]) = 0 /\ PayingBy(calls[h]) \in Nat
  BY CampaignNumbers DEF PayingBy
<1>2. Total(paid) \in Nat /\ charged \in Int
  BY MoneyTypes DEF MoneyTyped
<1>3. Total(paid') + PayingBy(calls'[h]) - charged' <= Total(paid) + PayingBy(calls[h]) - charged
  BY <1>1, <1>2
<1> QED BY <1>3, PaidMoves

LEMMA PaidKept ==
  ASSUME Base, BeforeOK, PaidOK, MoneyStep, Base', BeforeOK' PROVE PaidOK'
<1>1. CASE Still \/ \E tx \in late : MinedLate(tx)
  <2>1. UNCHANGED <<calls, paid, charged>>
    BY <1>1, MinedLateBase DEF Still
  <2> QED BY <2>1 DEF PaidOK, paying
<1>2. CASE \E h \in Handlers : MoneyQuiet(h)
  BY <1>2, PaidSame DEF MoneyQuiet, Owing
<1>3. CASE \E h \in Handlers : Guard(h) \/ Moved(h) \/ Unseen(h) \/ Judge(h) \/ Reject(h)
  <2>1. PICK h \in Handlers : Guard(h) \/ Moved(h) \/ Unseen(h) \/ Judge(h) \/ Reject(h)
    BY <1>3
  <2>2. /\ \A g \in Handlers \ {h} : calls'[g] = calls[g]
        /\ UNCHANGED <<paid, charged>> /\ calls'[h].at # "pay"
    BY <2>1, GuardBase, MovedBase, UnseenBase, JudgeBase, RejectBase
       DEF MoneyQuiet, Owing, AfterIt, chain, store
  <2> QED BY <2>2, PaidSame
<1>4. CASE \E h \in Handlers : Send(h)
  BY <1>4, SendBase, PaidSame DEF AfterIt
<1>5. ASSUME NEW h \in Handlers, ChargeBuy(h) PROVE PaidOK'
  <2>1. /\ calls[h].at = "charge" /\ calls'[h].at \in {"claim", "count"}
        /\ charged' = charged + calls[h].before /\ UNCHANGED paid
        /\ \A g \in Handlers \ {h} : calls'[g] = calls[g]
    BY <1>5, ChargeBuyBase DEF chain
  <2>2. PayingBy(calls'[h]) = 0 /\ PayingBy(calls[h]) = 0
    BY <2>1 DEF PayingBy
  <2>3. charged \in Int /\ calls[h].before \in Int /\ calls[h].before >= 0 /\ Total(paid) \in Nat
    BY <2>1, Running, MoneyTypes DEF BeforeOK, BeforeAt, MoneyTyped
  <2>4. Total(paid') + PayingBy(calls'[h]) - charged' <= Total(paid) + PayingBy(calls[h]) - charged
    BY <2>1, <2>2, <2>3
  <2> QED BY <2>1, <2>4, PaidMoves
<1>6. ASSUME NEW h \in Handlers, ChargeSeed(h) PROVE PaidOK'
  <2>1. /\ calls[h].at = "chargeSeed" /\ MovedTo(h, "sweep") /\ charged' = charged + SEED /\ UNCHANGED paid
    BY <1>6, ChargeSeedBase DEF chain
  <2>2. PayingBy(calls'[h]) = 0 /\ PayingBy(calls[h]) = 0
    BY <2>1 DEF PayingBy, MovedTo
  <2>3. charged \in Int /\ SEED \in Nat /\ Total(paid) \in Nat
    BY MoneyTypes, CampaignNumbers DEF MoneyTyped
  <2>4. Total(paid') + PayingBy(calls'[h]) - charged' <= Total(paid) + PayingBy(calls[h]) - charged
    BY <2>1, <2>2, <2>3
  <2> QED BY <2>1, <2>4, PaidMoves DEF MovedTo
<1>7. ASSUME NEW h \in Handlers, RecordWithdrawal(h) PROVE PaidOK'
  <2>1. /\ calls[h].at = "record" /\ MovedTo(h, "pay") /\ charged' = charged + PAYOUT /\ UNCHANGED paid
    BY <1>7, RecordBase DEF chain
  <2>2. PayingBy(calls'[h]) = PAYOUT /\ PayingBy(calls[h]) = 0
    BY <2>1 DEF PayingBy, MovedTo
  <2>3. charged \in Int /\ PAYOUT \in Nat /\ Total(paid) \in Nat
    BY MoneyTypes, CampaignNumbers DEF MoneyTyped
  <2>4. Total(paid') + PayingBy(calls'[h]) - charged' <= Total(paid) + PayingBy(calls[h]) - charged
    BY <2>1, <2>2, <2>3
  <2> QED BY <2>1, <2>4, PaidMoves DEF MovedTo
<1>8. ASSUME NEW h \in Handlers, Pay(h) PROVE PaidOK'
  <2>1. /\ calls[h].at = "pay" /\ calls'[h].at \in {"idle", "reread"} /\ UNCHANGED draws
        /\ \A g \in Handlers \ {h} : calls'[g] = calls[g]
        /\ calls[h].key \in Keys
        /\ \/ charged' = charged /\ paid' = [paid EXCEPT ![calls[h].key] = @ + PAYOUT]
           \/ charged' = charged - PAYOUT /\ paid' = paid
    BY <1>8, PayBase
  <2>2. PayingBy(calls'[h]) = 0 /\ PayingBy(calls[h]) = PAYOUT
    BY <2>1 DEF PayingBy
  <2>3. charged \in Int /\ PAYOUT \in Nat /\ Total(paid) \in Nat
    BY MoneyTypes, CampaignNumbers DEF MoneyTyped
  <2>4. ASSUME paid' = [paid EXCEPT ![calls[h].key] = @ + PAYOUT] PROVE Total(paid') = Total(paid) + PAYOUT
    <3>1. /\ paid'[calls[h].key] = paid[calls[h].key] + PAYOUT
          /\ \A k \in Keys : k # calls[h].key => paid'[k] = paid[k]
      BY <2>1, <2>4 DEF Base, Rest
    <3> QED BY <2>1, <3>1, PaidMore
  <2>5. Total(paid') + PayingBy(calls'[h]) - charged' <= Total(paid) + PayingBy(calls[h]) - charged
    BY <2>1, <2>2, <2>3, <2>4
  <2> QED BY <2>1, <2>5, PaidMoves
<1>9. ASSUME NEW h \in Handlers, OpenDraw(h) \/ TopUp(h) \/ CloseDraw(h) PROVE PaidOK'
  <2>1. MoneyQuiet(h) \/ (MovedTo(h, "put") /\ UNCHANGED <<paid, charged>>)
    BY <1>9, OpenDrawBase, TopUpBase, CloseDrawBase
  <2> QED BY <2>1, PaidSame DEF MovedTo, MoneyQuiet, Owing
<1>10. ASSUME NEW h \in Handlers, NEW c \in Campaigns, Fund(h, c) PROVE PaidOK'
  <2>1. MoneyQuiet(h) \/ (MovedTo(h, "chargeSeed") /\ UNCHANGED <<paid, charged>>)
    BY <1>10, FundBase
  <2> QED BY <2>1, PaidSame DEF MovedTo, MoneyQuiet, Owing
<1>11. CASE \E i \in Instances : Crash(i)
  <2>1. UNCHANGED <<paid, charged>> /\ \A h \in Handlers : calls'[h] = calls[h] \/ calls'[h] = Idle
    BY <1>11, CrashBase DEF chain
  <2>2. /\ paying \in [Handlers -> Nat] /\ paying' \in [Handlers -> Nat]
        /\ Total(paying) \in Nat /\ Total(paying') \in Nat /\ Total(paid) \in Nat /\ charged \in Int
    BY MoneyTypes, MoneyTypesNext DEF MoneyTyped
  <2>3. ASSUME NEW h \in Handlers PROVE paying'[h] <= paying[h]
    <3>1. paying'[h] = paying[h] \/ paying'[h] = 0
      BY <2>1 DEF paying, PayingBy, Idle
    <3> QED BY <2>2, <3>1
  <2>4. Total(paying') <= Total(paying)
    BY <2>2, <2>3, TotalMonotone, CampaignNumbers
  <2> QED BY <2>1, <2>2, <2>4 DEF PaidOK
<1> QED BY <1>1, <1>2, <1>3, <1>4, <1>5, <1>6, <1>7, <1>8, <1>9, <1>10, <1>11 DEF MoneyStep

\* Where a balance is read that covers what the wallet has committed: no draw
\* is closed, or every charge is recorded before the next is asked for.
Closable == "close" \notin Kinds \/ ("sweep" \notin Kinds /\ {"crash", "unseen"} \cap Faults = {})

MatchOK == "close" \in Kinds => ChargeOK

\* What the balance allows, the deposit holds.
LEMMA AvailableSafe ==
  ASSUME Base, BeforeOK, PaidOK, MatchOK, GrantOK, Closable, NEW n \in Nat, n <= Available,
         "close" \in Kinds => \A g \in Handlers : owed[g] = 0 /\ paying[g] = 0
  PROVE  Granted + n <= DEPOSIT
<1> DEFINE held == charged + Total(lives)
<1>1. Available = IF held < DEPOSIT THEN DEPOSIT - held ELSE 0
  BY DEF Available, lives
<1>2. /\ commits \in [Campaigns -> Nat] /\ lives \in [Campaigns -> Nat] /\ spents \in [Campaigns -> Nat]
      /\ owed \in [Handlers -> Nat] /\ paying \in [Handlers -> Nat]
      /\ Total(paying) \in Nat /\ Total(paid) \in Nat /\ Total(spents) \in Nat /\ charged \in Int
      /\ Total(commits) \in Nat /\ Total(lives) \in Nat /\ Granted \in Nat /\ DEPOSIT \in Nat
      /\ Granted = Total(paid) + Total(commits) /\ Outflow = Total(paid) + Total(spents)
      /\ IsFiniteSet(Campaigns)
  BY MoneyTypes, GrantTypes, CampaignNumbers DEF MoneyTyped, GrantTyped
<1>3. ASSUME "close" \notin Kinds PROVE Granted <= held
  <2>1. ASSUME NEW c \in Campaigns PROVE commits[c] = lives[c]
    <3>1. DrawOK(c, draws[c]) /\ draws[c] \in Draw
      BY DEF Base, Rest
    <3>2. ~Live(c) => draws[c].spent = 0
      BY <1>3, <3>1 DEF Live, Draw, DrawOK
    <3> QED BY <3>2 DEF commits, lives
  <2>2. commits = lives
    BY <1>2, <2>1
  <2> QED BY <1>2, <2>2 DEF PaidOK
<1>4. ASSUME "close" \in Kinds PROVE Granted <= held
  <2>1. Total(owed) = 0 /\ Total(paying) = 0
    BY <1>2, <1>4, TotalZero
  <2>2. happened \cap {"crash", "unseen"} = {}
    BY <1>4 DEF Closable, Base, Rest
  <2>3. charged + Total(owed) = Outflow + Total(paying)
    BY <1>4, <2>2 DEF MatchOK, ChargeOK
  <2>4. charged = Total(paid) + Total(spents)
    BY <1>2, <2>1, <2>3
  <2> DEFINE both == [c \in Campaigns |-> spents[c] + lives[c]]
  <2>5. both \in [Campaigns -> Nat] /\ \A c \in Campaigns : both[c] = spents[c] + lives[c]
    BY <1>2
  <2> HIDE DEF both
  <2>6. Total(both) = Total(spents) + Total(lives)
    BY <1>2, <2>5, TotalSum
  <2>7. ASSUME NEW c \in Campaigns PROVE commits[c] <= both[c]
    <3>1. commits[c] = lives[c] \/ commits[c] = spents[c]
      BY DEF commits, lives, spents
    <3> QED BY <1>2, <2>5, <3>1
  <2>8. Total(commits) <= Total(both)
    BY <1>2, <2>5, <2>7, TotalMonotone
  <2> QED BY <1>2, <2>4, <2>6, <2>8
<1>5. Granted <= held
  BY <1>3, <1>4
<1> HIDE DEF held
<1>6. held \in Int
  BY <1>2 DEF held
<1>7. Granted <= DEPOSIT
  BY DEF GrantOK
<1> QED BY <1>1, <1>2, <1>5, <1>6, <1>7

Granting == {"draw", "topUp", "record", "pay"}

LEMMA GrantFalls ==
  ASSUME Base, Base', UNCHANGED paid, \A c \in Campaigns : commits'[c] <= commits[c]
  PROVE  Granted' <= Granted /\ Granted' \in Nat /\ Granted \in Nat
<1>1. /\ commits \in [Campaigns -> Nat] /\ commits' \in [Campaigns -> Nat]
      /\ Total(commits) \in Nat /\ Total(commits') \in Nat /\ Granted \in Nat /\ Granted' \in Nat
      /\ Granted = Total(paid) + Total(commits) /\ Granted' = Total(paid') + Total(commits')
  BY GrantTypes, GrantTypesNext DEF GrantTyped
<1>2. Total(commits') <= Total(commits)
  BY <1>1, TotalMonotone, CampaignNumbers
<1>3. Total(paid) \in Nat
  BY TotalType, CampaignNumbers DEF Base, Rest
<1> QED BY <1>1, <1>2, <1>3

LEMMA GrantFrame ==
  ASSUME Base, GrantOK, Base', NEW h \in Handlers, \A g \in Handlers \ {h} : calls'[g] = calls[g],
         UNCHANGED paid, \A c \in Campaigns : commits'[c] <= commits[c],
         calls'[h].at \in {"draw", "topUp"} => Granted + DRAW <= DEPOSIT,
         calls'[h].at \in {"record", "pay"} => Granted + PAYOUT <= DEPOSIT
  PROVE  GrantOK'
<1>1. Granted' <= Granted /\ Granted' \in Nat /\ Granted \in Nat /\ DRAW \in Nat /\ PAYOUT \in Nat /\ DEPOSIT \in Nat
  BY GrantFalls, CampaignNumbers
<1>2. ASSUME NEW g \in Handlers
      PROVE  /\ calls'[g].at \in {"draw", "topUp"} => Granted' + DRAW <= DEPOSIT
             /\ calls'[g].at \in {"record", "pay"} => Granted' + PAYOUT <= DEPOSIT
  <2>1. ASSUME NEW n \in Nat, Granted + n <= DEPOSIT PROVE Granted' + n <= DEPOSIT
    <3>1. \A a, b, d \in Nat : a <= b /\ b + n <= d => a + n <= d
      OBVIOUS
    <3> QED BY <1>1, <2>1, <3>1
  <2>2. /\ calls'[g].at \in {"draw", "topUp"} => Granted + DRAW <= DEPOSIT
        /\ calls'[g].at \in {"record", "pay"} => Granted + PAYOUT <= DEPOSIT
    <3>1. CASE g = h
      BY <3>1
    <3>2. CASE g # h
      BY <3>2 DEF GrantOK
    <3> QED BY <3>1, <3>2
  <2> QED BY <1>1, <2>1, <2>2
<1>3. Granted <= DEPOSIT
  BY DEF GrantOK
<1>4. Granted' <= DEPOSIT
  BY <1>1, <1>3
<1> QED BY <1>2, <1>4 DEF GrantOK

\* What was asked of the balance is committed, by the one that holds the lock.
LEMMA GrantRises ==
  ASSUME Base, NEW h \in Handlers, lock = h, \A g \in Handlers \ {h} : calls'[g] = calls[g],
         calls'[h].at \notin Granting, Granted' <= DEPOSIT
  PROVE  GrantOK'
<1>1. \A g \in Handlers : calls'[g].at \notin Granting
  BY Alone DEF Granting, Locked, Buying
<1> QED BY <1>1 DEF GrantOK, Granting

LEMMA GrantDraw ==
  ASSUME Base, Base', UNCHANGED paid, NEW c \in Campaigns, NEW n \in Nat,
         commits'[c] = commits[c] + n, \A e \in Campaigns \ {c} : draws'[e] = draws[e]
  PROVE  Granted' = Granted + n
<1>1. /\ commits \in [Campaigns -> Nat] /\ commits' \in [Campaigns -> Nat]
      /\ Total(commits) \in Nat
      /\ Granted = Total(paid) + Total(commits) /\ Granted' = Total(paid') + Total(commits')
  BY GrantTypes, GrantTypesNext DEF GrantTyped
<1>2. \A e \in Campaigns : e # c => commits'[e] = commits[e]
  BY DEF commits, Live
<1>3. Total(commits') = Total(commits) - commits[c] + commits'[c]
  BY <1>1, <1>2, TotalUpdate, CampaignNumbers
<1>4. Total(paid) \in Nat
  BY TotalType, CampaignNumbers DEF Base, Rest
<1> QED BY <1>1, <1>3, <1>4

\* Whoever reads the balance under the lock reads it while nothing is owed.
LEMMA NothingOwed ==
  ASSUME Base, Base', NEW h \in Handlers, \A g \in Handlers \ {h} : calls'[g] = calls[g],
         calls[h].at \notin Owing, calls'[h].at \in Granting, "sweep" \notin Kinds
  PROVE  \A g \in Handlers : owed[g] = 0 /\ paying[g] = 0
<1> TAKE g \in Handlers
<1>1. calls[g].at \notin {"send", "after", "charge", "pay"}
  <2>1. CASE g = h
    BY <2>1 DEF Owing
  <2>2. CASE g # h
    <3>1. "idle" \notin Granting /\ Idle.at = "idle"
      BY DEF Granting, Idle
    <3>2. calls'[h] # Idle /\ CallOK(h, calls'[h], draws', lock')
      BY <3>1 DEF Base, CallsOK
    <3>3. lock' = h
      BY <3>2 DEF CallOK, Granting, Locked, Buying
    <3>4. CallOK(g, calls'[g], draws', lock') /\ calls'[g] = calls[g]
      BY <2>2 DEF Base, CallsOK
    <3>5. calls[g] = Idle \/ calls[g].at \notin Locked
      BY <2>2, <3>3, <3>4 DEF CallOK
    <3> QED BY <3>1, <3>5 DEF Locked, Buying
  <2> QED BY <2>1, <2>2
<1>2. calls[g].at # "chargeSeed"
  <2>1. SUFFICES ASSUME calls[g].at = "chargeSeed" PROVE FALSE
    OBVIOUS
  <2>2. calls[g].kind \in KindsAt("chargeSeed") /\ calls[g].kind \in Kinds
    BY <2>1, Running DEF CallOK, Request
  <2> QED BY <2>2 DEF KindsAt
<1> QED BY <1>1, <1>2 DEF owed, paying, OwedBy, PayingBy

LEMMA GrantQuiet ==
  ASSUME Base, BeforeOK, PaidOK, MatchOK, GrantOK, Closable, Base', NEW h \in Handlers, MoneyQuiet(h)
  PROVE  GrantOK'
<1>1. /\ UNCHANGED <<draws, paid>> /\ \A g \in Handlers \ {h} : calls'[g] = calls[g]
      /\ calls[h].at \notin Owing /\ calls'[h].at # "pay"
      /\ calls'[h].at \in {"draw", "topUp"} => DRAW <= Available
      /\ calls'[h].at = "record" => PAYOUT <= Available
  BY DEF MoneyQuiet, Owing
<1>2. DRAW \in Nat /\ PAYOUT \in Nat
  BY CampaignNumbers
<1>3. \A c \in Campaigns : commits'[c] <= commits[c]
  <2>1. commits' = commits
    BY <1>1 DEF commits, Live
  <2> QED BY <2>1, GrantTypes DEF GrantTyped
<1>4. ASSUME calls'[h].at \in Granting
      PROVE  "close" \in Kinds => \A g \in Handlers : owed[g] = 0 /\ paying[g] = 0
  BY <1>1, <1>4, NothingOwed DEF Closable
<1>5. calls'[h].at \in {"draw", "topUp"} => Granted + DRAW <= DEPOSIT
  BY <1>1, <1>2, <1>4, AvailableSafe DEF Granting
<1>6. calls'[h].at \in {"record", "pay"} => Granted + PAYOUT <= DEPOSIT
  BY <1>1, <1>2, <1>4, AvailableSafe DEF Granting
<1> QED BY <1>1, <1>3, <1>5, <1>6, GrantFrame

LEMMA CommitsSame ==
  ASSUME Base, Base', \A c \in Campaigns : draws'[c].amount = draws[c].amount
                                        /\ draws'[c].spent = draws[c].spent
                                        /\ (Live(c)' <=> Live(c))
  PROVE  \A c \in Campaigns : commits'[c] <= commits[c]
<1> TAKE c \in Campaigns
<1>1. commits[c] \in Nat
  BY GrantTypes DEF GrantTyped
<1>2. commits'[c] = commits[c]
  BY DEF commits
<1> QED BY <1>1, <1>2

LEMMA GrantSpends ==
  ASSUME Base, Base', NEW c \in Campaigns, draws[c].state = "Funded", draws'[c] = Spends(draws[c], PRICE),
         \A e \in Campaigns \ {c} : draws'[e] = draws[e]
  PROVE  \A e \in Campaigns : commits'[e] <= commits[e]
<1>1. draws[c] \in Draw
  BY DEF Base, Rest
<1>2. Spends(draws[c], PRICE).amount = draws[c].amount /\ Spends(draws[c], PRICE).state = "Funded"
  BY <1>1 DEF Spends, Draw
<1>3. commits \in [Campaigns -> Nat]
  BY GrantTypes DEF GrantTyped
<1>4. ASSUME NEW e \in Campaigns PROVE commits'[e] = commits[e]
  <2>1. CASE e = c
    BY <1>2, <2>1 DEF commits, Live
  <2>2. CASE e # c
    BY <2>2 DEF commits, Live
  <2> QED BY <2>1, <2>2
<1> QED BY <1>3, <1>4

LEMMA CommitsFunded ==
  ASSUME Base, Base', NEW c \in Campaigns, draws[c].state = "Pending", draws'[c] = Funds(draws[c]),
         \A e \in Campaigns \ {c} : draws'[e] = draws[e]
  PROVE  \A e \in Campaigns : commits'[e] <= commits[e]
<1>1. draws[c] \in Draw
  BY DEF Base, Rest
<1>2. draws'[c].amount = draws[c].amount /\ draws'[c].state = "Funded"
  BY <1>1, FundsFields
<1>3. commits \in [Campaigns -> Nat]
  BY GrantTypes DEF GrantTyped
<1>4. ASSUME NEW e \in Campaigns PROVE commits'[e] = commits[e]
  <2>1. CASE e = c
    BY <1>2, <2>1 DEF commits, Live
  <2>2. CASE e # c
    BY <2>2 DEF commits, Live
  <2> QED BY <2>1, <2>2
<1> QED BY <1>3, <1>4

\* A close gives back what was not spent.
LEMMA CommitsShut ==
  ASSUME Base, Base', NEW c \in Campaigns, draws'[c] = Shuts(draws[c]),
         \A e \in Campaigns \ {c} : draws'[e] = draws[e]
  PROVE  \A e \in Campaigns : commits'[e] <= commits[e]
<1>1. draws[c] \in Draw /\ draws[c].spent <= draws[c].amount
  BY DEF Base, Rest, DrawOK
<1>2. draws'[c].spent = draws[c].spent /\ draws'[c].state = "Closed"
  BY <1>1 DEF Shuts, Draw
<1>3. commits \in [Campaigns -> Nat]
  BY GrantTypes DEF GrantTyped
<1>4. ASSUME NEW e \in Campaigns PROVE commits'[e] <= commits[e]
  <2>1. CASE e = c
    <3>1. commits'[c] = draws[c].spent
      BY <1>2 DEF commits, Live
    <3>2. commits[c] = draws[c].amount \/ commits[c] = draws[c].spent
      BY DEF commits
    <3> QED BY <1>1, <2>1, <3>1, <3>2 DEF Draw
  <2>2. CASE e # c
    <3>1. commits'[e] = commits[e]
      BY <2>2 DEF commits, Live
    <3> QED BY <1>3, <3>1
  <2> QED BY <2>1, <2>2
<1> QED BY <1>4

LEMMA GrantPay ==
  ASSUME Base, GrantOK, NEW h \in Handlers, Pay(h) PROVE GrantOK'
<1>1. /\ Base' /\ calls[h].at = "pay" /\ calls'[h].at \in {"idle", "reread"} /\ UNCHANGED draws /\ lock = h
      /\ \A g \in Handlers \ {h} : calls'[g] = calls[g]
      /\ calls[h].key \in Keys
      /\ paid' = [paid EXCEPT ![calls[h].key] = @ + PAYOUT] \/ paid' = paid
  BY PayBase
<1>2. /\ Granted \in Nat /\ Granted' \in Nat /\ commits' = commits /\ PAYOUT \in Nat /\ DEPOSIT \in Nat
      /\ Granted = Total(paid) + Total(commits) /\ Granted' = Total(paid') + Total(commits')
      /\ Total(paid) \in Nat /\ Total(commits) \in Nat
  <2>1. Total(paid) \in Nat
    BY TotalType, CampaignNumbers DEF Base, Rest
  <2>2. commits' = commits
    BY <1>1 DEF commits, Live
  <2> QED BY <1>1, <2>1, <2>2, GrantTypes, GrantTypesNext, CampaignNumbers DEF GrantTyped
<1>3. Granted + PAYOUT <= DEPOSIT
  BY <1>1 DEF GrantOK
<1>4. Total(paid') = Total(paid) + PAYOUT \/ paid' = paid
  <2>1. ASSUME paid' = [paid EXCEPT ![calls[h].key] = @ + PAYOUT] PROVE Total(paid') = Total(paid) + PAYOUT
    <3>1. /\ paid'[calls[h].key] = paid[calls[h].key] + PAYOUT
          /\ \A k \in Keys : k # calls[h].key => paid'[k] = paid[k]
      BY <1>1, <2>1 DEF Base, Rest
    <3> QED BY <1>1, <3>1, PaidMore
  <2> QED BY <1>1, <2>1
<1>5. Granted' <= DEPOSIT
  BY <1>2, <1>3, <1>4
<1> QED BY <1>1, <1>5, GrantRises DEF Granting

LEMMA GrantOpens ==
  ASSUME Base, GrantOK, NEW h \in Handlers, OpenDraw(h) \/ TopUp(h), ~MoneyQuiet(h) PROVE GrantOK'
<1> DEFINE c == calls[h].c
<1>1. /\ Base' /\ lock = h /\ c \in Campaigns /\ calls[h].at \in {"draw", "topUp"}
      /\ MovedTo(h, "put") /\ UNCHANGED paid
      /\ \/ draws[c].state = "None" /\ draws'[c] = Opens
         \/ Live(c) /\ draws'[c] = Raised(draws[c])
      /\ \A e \in Campaigns \ {c} : draws'[e] = draws[e]
  BY OpenDrawBase, TopUpBase
<1>2. draws[c] \in Draw /\ DrawOK(c, draws[c]) /\ DRAW \in Nat /\ DEPOSIT \in Nat
  BY <1>1, CampaignNumbers DEF Base, Rest
<1>3. commits'[c] = commits[c] + DRAW
  <2>1. CASE draws[c].state = "None" /\ draws'[c] = Opens
    <3>1. draws[c].spent = 0
      BY <1>2, <2>1 DEF DrawOK, Draw
    <3>2. commits[c] = 0
      BY <1>1, <2>1, <3>1 DEF commits, Live
    <3>3. commits'[c] = DRAW
      BY <1>1, <2>1 DEF commits, Live, Opens
    <3> QED BY <1>2, <3>2, <3>3
  <2>2. CASE Live(c) /\ draws'[c] = Raised(draws[c])
    <3>1. commits[c] = draws[c].amount
      BY <1>1, <2>2 DEF commits
    <3>2. Raised(draws[c]).amount = draws[c].amount + DRAW /\ Raised(draws[c]).state = draws[c].state
      BY <1>2 DEF Raised, Draw
    <3>3. commits'[c] = draws[c].amount + DRAW
      BY <1>1, <2>2, <3>2 DEF commits, Live
    <3> QED BY <3>1, <3>3
  <2> QED BY <1>1, <2>1, <2>2
<1>4. Granted' = Granted + DRAW
  BY <1>1, <1>2, <1>3, GrantDraw
<1>5. Granted + DRAW <= DEPOSIT
  BY <1>1 DEF GrantOK
<1>6. Granted' <= DEPOSIT
  BY <1>4, <1>5
<1> QED BY <1>1, <1>6, GrantRises DEF Granting, MovedTo

LEMMA GrantKept ==
  ASSUME Base, BeforeOK, PaidOK, MatchOK, GrantOK, Closable, MoneyStep, Base' PROVE GrantOK'
<1>0. \A c \in Campaigns : commits[c] <= commits[c]
  BY GrantTypes DEF GrantTyped
<1>1. CASE Still
  <2>1. Granted' = Granted /\ calls' = calls
    BY <1>1 DEF Still, Granted, commits, Live
  <2> QED BY <2>1 DEF GrantOK
<1>2. CASE \E h \in Handlers : MoneyQuiet(h)
  BY <1>2, GrantQuiet
<1>3. ASSUME NEW h \in Handlers, Guard(h) \/ Moved(h) \/ Unseen(h) \/ Judge(h), ~MoneyQuiet(h)
      PROVE  GrantOK'
  <2>1. /\ \A g \in Handlers \ {h} : calls'[g] = calls[g]
        /\ UNCHANGED <<draws, paid>> /\ calls'[h].at \notin Granting
    BY <1>3, GuardBase, MovedBase, UnseenBase, JudgeBase DEF AfterIt, Granting, chain
  <2>2. commits' = commits
    BY <2>1 DEF commits, Live
  <2> QED BY <1>0, <2>1, <2>2, GrantFrame DEF Granting
<1>4. ASSUME NEW h \in Handlers, ChargeBuy(h) \/ Reject(h) \/ ChargeSeed(h) PROVE GrantOK'
  <2>1. /\ \A g \in Handlers \ {h} : calls'[g] = calls[g]
        /\ UNCHANGED <<draws, paid>> /\ calls'[h].at \notin Granting
    BY <1>4, ChargeBuyBase, RejectBase, ChargeSeedBase DEF MovedTo, Granting, chain
  <2>2. commits' = commits
    BY <2>1 DEF commits, Live
  <2> QED BY <1>0, <2>1, <2>2, GrantFrame DEF Granting
<1>5. ASSUME NEW h \in Handlers, Send(h) PROVE GrantOK'
  <2>1. /\ \A g \in Handlers \ {h} : calls'[g] = calls[g]
        /\ UNCHANGED paid /\ calls'[h].at \notin Granting
        /\ \/ UNCHANGED draws
           \/ /\ MayBuy(C(h)) /\ draws'[C(h)] = Spends(draws[C(h)], PRICE)
              /\ \A e \in Campaigns \ {C(h)} : draws'[e] = draws[e]
    BY <1>5, SendBase DEF AfterIt, Granting
  <2>2. \A c \in Campaigns : commits'[c] <= commits[c]
    <3>1. CASE UNCHANGED draws
      <4>1. commits' = commits
        BY <3>1 DEF commits, Live
      <4> QED BY <1>0, <4>1
    <3>2. CASE /\ MayBuy(C(h)) /\ draws'[C(h)] = Spends(draws[C(h)], PRICE)
               /\ \A e \in Campaigns \ {C(h)} : draws'[e] = draws[e]
      <4>1. C(h) \in Campaigns
        BY <1>5, SendBase, Running DEF C
      <4> QED BY <3>2, <4>1, GrantSpends DEF MayBuy
    <3> QED BY <2>1, <3>1, <3>2
  <2> QED BY <2>1, <2>2, GrantFrame DEF Granting
<1>6. ASSUME NEW tx \in late, MinedLate(tx) PROVE GrantOK'
  <2>1. /\ UNCHANGED <<calls, paid>> /\ tx[1] \in Campaigns
        /\ \/ UNCHANGED draws
           \/ /\ MayBuy(tx[1]) /\ draws'[tx[1]] = Spends(draws[tx[1]], PRICE)
              /\ \A e \in Campaigns \ {tx[1]} : draws'[e] = draws[e]
    BY <1>6, MinedLateBase
  <2>2. \A c \in Campaigns : commits'[c] <= commits[c]
    <3>1. CASE UNCHANGED draws
      <4>1. commits' = commits
        BY <3>1 DEF commits, Live
      <4> QED BY <1>0, <4>1
    <3>2. CASE /\ MayBuy(tx[1]) /\ draws'[tx[1]] = Spends(draws[tx[1]], PRICE)
               /\ \A e \in Campaigns \ {tx[1]} : draws'[e] = draws[e]
      BY <2>1, <3>2, GrantSpends DEF MayBuy
    <3> QED BY <2>1, <3>1, <3>2
  <2>3. Granted' <= Granted /\ Granted' \in Nat /\ Granted \in Nat
    BY <2>1, <2>2, GrantFalls
  <2>4. DRAW \in Nat /\ PAYOUT \in Nat /\ DEPOSIT \in Nat /\ Granted <= DEPOSIT
    BY CampaignNumbers DEF GrantOK
  <2>5. /\ Granted' <= DEPOSIT
        /\ Granted + DRAW <= DEPOSIT => Granted' + DRAW <= DEPOSIT
        /\ Granted + PAYOUT <= DEPOSIT => Granted' + PAYOUT <= DEPOSIT
    <3>1. Granted' <= DEPOSIT
      BY <2>3, <2>4
    <3>2. ASSUME NEW n \in Nat PROVE Granted + n <= DEPOSIT => Granted' + n <= DEPOSIT
      <4>1. \A a, b \in Nat : a <= b /\ b + n <= DEPOSIT => a + n <= DEPOSIT
        BY <2>4
      <4> QED BY <2>3, <4>1
    <3> QED BY <2>4, <3>1, <3>2
  <2> QED BY <2>1, <2>5 DEF GrantOK
<1>7. ASSUME NEW h \in Handlers, RecordWithdrawal(h) PROVE GrantOK'
  <2>1. /\ calls[h].at = "record" /\ MovedTo(h, "pay") /\ UNCHANGED <<draws, paid>>
    BY <1>7, RecordBase DEF chain
  <2>2. commits' = commits /\ Granted + PAYOUT <= DEPOSIT
    BY <2>1 DEF commits, Live, GrantOK
  <2> QED BY <1>0, <2>1, <2>2, GrantFrame DEF MovedTo
<1>8. CASE \E h \in Handlers : Pay(h)
  BY <1>8, GrantPay
<1>9. CASE \E h \in Handlers : OpenDraw(h) \/ TopUp(h)
  BY <1>2, <1>9, GrantOpens
<1>10. ASSUME NEW h \in Handlers, CloseDraw(h) PROVE GrantOK'
  <2>1. /\ MovedTo(h, "put") /\ UNCHANGED paid /\ calls[h].c \in Campaigns
        /\ \/ UNCHANGED draws
           \/ /\ draws'[calls[h].c] = Shuts(draws[calls[h].c])
              /\ \A e \in Campaigns \ {calls[h].c} : draws'[e] = draws[e]
    BY <1>10, CloseDrawBase
  <2>2. \A c \in Campaigns : commits'[c] <= commits[c]
    <3>1. CASE UNCHANGED draws
      <4>1. commits' = commits
        BY <3>1 DEF commits, Live
      <4> QED BY <1>0, <4>1
    <3>2. CASE /\ draws'[calls[h].c] = Shuts(draws[calls[h].c])
               /\ \A e \in Campaigns \ {calls[h].c} : draws'[e] = draws[e]
      BY <2>1, <3>2, CommitsShut
    <3> QED BY <2>1, <3>1, <3>2
  <2> QED BY <2>1, <2>2, GrantFrame DEF MovedTo, Granting
<1>11. ASSUME NEW h \in Handlers, NEW c \in Campaigns, Fund(h, c), ~MoneyQuiet(h) PROVE GrantOK'
  <2>1. /\ MovedTo(h, "chargeSeed") /\ UNCHANGED paid
        /\ draws[c].state = "Pending" /\ draws'[c] = Funds(draws[c])
        /\ \A e \in Campaigns \ {c} : draws'[e] = draws[e]
    BY <1>11, FundBase
  <2>2. \A e \in Campaigns : commits'[e] <= commits[e]
    BY <2>1, CommitsFunded
  <2> QED BY <2>1, <2>2, GrantFrame DEF MovedTo, Granting
<1>12. CASE \E i \in Instances : Crash(i)
  <2>1. UNCHANGED <<draws, paid>> /\ \A h \in Handlers : calls'[h] = calls[h] \/ calls'[h] = Idle
    BY <1>12, CrashBase DEF chain
  <2>2. Granted' = Granted
    BY <2>1 DEF Granted, commits, Live
  <2> QED BY <2>1, <2>2 DEF GrantOK, Idle
<1> QED BY <1>1, <1>2, <1>3, <1>4, <1>5, <1>6, <1>7, <1>8, <1>9, <1>10, <1>11, <1>12 DEF MoneyStep

LEMMA GrantInit == ASSUME Init PROVE GrantOK /\ PaidOK
<1>1. /\ Total(paid) = 0 /\ Total(paying) = 0 /\ charged = Cardinality(Opened) * SEED
  BY InitMoney DEF Init
<1>2. IsFiniteSet(Opened) /\ Cardinality(Opened) \in Nat /\ SEED \in Nat /\ DRAW \in Nat /\ DEPOSIT \in Nat
  BY CampaignNumbers, FS_Subset, FS_CardinalityType
<1>3. Total(commits) = Cardinality(Opened) * DRAW
  <2>1. commits = [c \in Campaigns |-> IF c \in Opened THEN DRAW ELSE 0]
    BY DEF Init, commits, Live, NoDraw
  <2> QED BY <1>2, <2>1, TotalOfSome, CampaignNumbers
<1>4. Granted = Cardinality(Opened) * DRAW
  BY <1>1, <1>2, <1>3 DEF Granted
<1>5. Granted <= DEPOSIT
  BY <1>4, CampaignNumbers
<1>6. 0 <= charged
  BY <1>1, <1>2
<1>7. \A h \in Handlers : calls[h].at = "idle"
  BY DEF Init, Idle
<1>8. PaidOK
  BY <1>1, <1>6 DEF PaidOK
<1> QED BY <1>5, <1>7, <1>8 DEF GrantOK

LEMMA GrantSays ==
  ASSUME Base, BeforeOK, GrantOK PROVE NeverOvercommitted
<1> DEFINE lefts == [c \in Campaigns |-> IF Live(c) THEN Left(c) ELSE 0]
<1>1. /\ commits \in [Campaigns -> Nat] /\ spents \in [Campaigns -> Nat]
      /\ Total(spents) \in Nat /\ Total(paid) \in Nat /\ IsFiniteSet(Campaigns)
      /\ Granted = Total(paid) + Total(commits) /\ Outflow = Total(paid) + Total(spents)
  BY MoneyTypes, GrantTypes, CampaignNumbers DEF MoneyTyped, GrantTyped
<1>2. ASSUME NEW c \in Campaigns PROVE lefts[c] \in Nat /\ commits[c] = spents[c] + lefts[c]
  <2>1. DrawOK(c, draws[c])
    BY DEF Base, Rest
  <2> QED BY <2>1 DEF DrawOK, Draw, commits, spents, Left
<1>3. lefts \in [Campaigns -> Nat]
  BY <1>2
<1>4. NeverOvercommitted <=> Outflow + Total(lefts) <= DEPOSIT
  BY DEF NeverOvercommitted
<1> HIDE DEF lefts
<1>5. Total(commits) = Total(spents) + Total(lefts)
  BY <1>1, <1>2, <1>3, TotalSum
<1>6. Total(lefts) \in Nat
  BY <1>1, <1>3, TotalType
<1>7. Granted <= DEPOSIT
  BY DEF GrantOK
<1> QED BY <1>1, <1>4, <1>5, <1>6, <1>7

\* The deposit.  What was paid out and spent and what standing draws may still
\* spend never come to more than the wallet put in, whatever it asks for at
\* once; where draws are closed, only if every charge is recorded before the
\* next balance is read.
THEOREM DepositCoversAll ==
  ASSUME Closable
  PROVE  Spec => []NeverOvercommitted
<1> DEFINE Inv == Base /\ BeforeOK /\ PaidOK /\ MatchOK /\ GrantOK
<1>1. Init => Inv
  BY InitBase, BeforeInit, ChargeInit, GrantInit DEF MatchOK
<1>2. ASSUME Base, BeforeOK, MatchOK, MoneyStep, Base', BeforeOK' PROVE MatchOK'
  BY <1>2, ChargeKept DEF MatchOK, Closable
<1>3. Inv /\ [Next]_vars => Inv'
  <2>1. ASSUME Inv, Next PROVE Inv'
    BY <1>2, <2>1, NextSteps, BeforeKept, PaidKept, GrantKept
  <2>2. ASSUME Inv, UNCHANGED vars PROVE Inv'
    BY <1>2, <2>2, BaseUnchanged, BeforeKept, PaidKept, GrantKept DEF MoneyStep
  <2> QED BY <2>1, <2>2
<1>4. Inv => NeverOvercommitted
  BY GrantSays
<1> QED BY <1>1, <1>3, <1>4, PTL DEF Spec
=============================================================================
