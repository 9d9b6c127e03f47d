------------------------------ MODULE PoolSweep ------------------------------
(***************************************************************************)
(* The sweep over the pool's queue: posting what is due, and the brake     *)
(* (src/fleet/pool-buy.ts, sweep and pauseIfTriggered; pool-reads.ts and   *)
(* pool-reads-neon.ts for how a sweep comes to know the queue).            *)
(*                                                                         *)
(* Two schedules call the sweep, a quarter of an hour apart at least, so   *)
(* one sweep runs at a time.  The posting one comes every EVERY and only   *)
(* posts; the queueing one also looks for a charge that was lost and for   *)
(* an exit the pool cannot pay, and pauses the pool.  Requests of traders  *)
(* read the queue too, at any time.  All of them run on instances that     *)
(* come and go, and read past a mark: a number in the database, the        *)
(* charges lost below it, and each instance's own copy of both.            *)
(*                                                                         *)
(* An action is what happens between two awaits; the pool is FleetPool's,  *)
(* and a charge is named by its place in the queue.                        *)
(***************************************************************************)
EXTENDS FleetPool

CONSTANTS
  Sweepers,        \* instances of the two sweep functions
  Readers,         \* instances of the functions that serve traders
  Unreadable,      \* charges whose sealed depositor the ledger key cannot open
  Delays,          \* how long after it is queued a charge falls due
  CHARGE,
  EVERY,           \* time between two posting sweeps
  LIFE,            \* the longest an instance lives (maxDuration)
  MARGIN,          \* FINALITY_MARGIN_SECONDS
  LAG,             \* how far the node that answers may be behind
  Faults,          \* the kinds of fault that occur
  MaxFaults,       \* bound: how many faults in all
  LAST_BATCH       \* bound: when the last charge is queued

Instances == Sweepers \cup Readers

FaultKinds ==
  { "refused",     \* a posting or a pause that should land is not mined
    "dies",        \* an instance dies between two steps
    "behind",      \* the node answers with a posting still missing
    "cache",       \* the mark cannot be loaded, or moved once its rows are in
    "save" }       \* the rows cannot be saved

ASSUME SweepAssumption ==
  /\ Sweepers \cap Readers = {}
  /\ SpendIds = 1..Cardinality(SpendIds)
  /\ Unreadable \subseteq SpendIds
  /\ Delays \subseteq 1..POST_WINDOW   \* MIN_DELAY_SECONDS is 90
  /\ CHARGE \in Nat \ {0}
  /\ EVERY \in Nat \ {0} /\ LIFE \in Nat \ {0}
  /\ MARGIN \in Nat /\ LAG \in 0..MARGIN
  /\ Faults \subseteq FaultKinds /\ MaxFaults \in Nat /\ LAST_BATCH \in Nat

VARIABLES
  calls,           \* what each instance is at, and its locals
  local,           \* the mark an instance remembers; hours pass between two
                   \* sweeps, and theirs do not live that long
  shared,          \* the mark in the database, with its rows
  lastPosting,     \* when the posting schedule last fired
  resumedAt,       \* the time of the last PausedSet(false)
  postedAt,        \* when a charge was posted
  missed,          \* how often a sweep failed to post a charge it could have
  pulls,           \* how often a charge made a sweep pause the pool
  faults           \* faults so far

sweepVars == <<calls, local, shared, lastPosting, resumedAt, postedAt, missed, pulls, faults>>
allVars   == <<vars, sweepVars>>

Fault(kind) == kind \in Faults /\ faults < MaxFaults /\ faults' = faults + 1

----------------------------------------------------------------------------
Expiry(i) == queued[i].queuedAt + POST_WINDOW
filed     == {i \in SpendIds : Known(i)}
NoMark    == [below |-> -1, kept |-> {}]
Start     == [below |-> 0, kept |-> {}]
Asleep    == [pc |-> "asleep", kind |-> "none", seconds |-> 0, count |-> 0,
              mark |-> Start, lost |-> {}, todo |-> {}, expired |-> {}, exits |-> {}]

Remember(s, mark)  == IF s \in Readers THEN [local EXCEPT ![s] = mark] ELSE local
Becomes(s, record) == calls' = [calls EXCEPT ![s] = record]
At(s, pc) == calls[s].pc = pc

\* A pool that a deposit and a funded draw have gone through, the draw having
\* spent what a charge to come will post, and whose depositors ask to leave.
SweepInit ==
  /\ depositors = [d \in Depositors |-> [deposited |-> 2 * CHARGE, spent |-> 0,
                                         exitRequestedAt |-> 1, exitAmount |-> 2 * CHARGE]]
  /\ draws = [c \in Campaigns |->
       [NoDraw EXCEPT !.amount = CHARGE, !.spent = CHARGE, !.dueAt = 1, !.state = "Funded"]]
  /\ queued = [i \in SpendIds |-> NoSpend]
  /\ totalDeposited = 2 * CHARGE * Cardinality(Depositors) /\ everDeposited = totalDeposited
  /\ totalDrawSpent = CHARGE * Cardinality(Campaigns) /\ totalOutflow = totalDrawSpent
  /\ balance = everDeposited - totalOutflow
  /\ totalClaimed = 0 /\ totalPosted = 0 /\ exitsPaid = 0 /\ donated = 0
  /\ paused = FALSE
  /\ executing = [c \in Campaigns |-> Idle]
  /\ now = 1
  /\ calls = [s \in Instances |-> Asleep]
  /\ local = [s \in Readers |-> NoMark]
  /\ shared = Start
  /\ lastPosting = 1
  /\ resumedAt = 0
  /\ postedAt = [i \in SpendIds |-> 0]
  /\ missed = [i \in SpendIds |-> 0]
  /\ pulls = [i \in SpendIds |-> 0]
  /\ faults = 0

----------------------------------------------------------------------------
(* What the sweep reads.                                                   *)

Sweeping == \E s \in Instances : calls[s].kind \in {"posting", "queueing"}

\* A mark past the end of the queue as this call saw it is forgotten.
Fitting(count, mark) == IF mark.below > count THEN Start ELSE mark

\* chainSeconds, then the block and the length of the queue (one reading of the
\* chain here), with the mark this instance remembers; one that was not running
\* remembers nothing and asks the database (markFor).
Begin(s, kind) ==
  LET begun == [Asleep EXCEPT !.kind = kind, !.seconds = now, !.count = Cardinality(filed)] IN
  /\ At(s, "asleep")
  /\ IF s \in Readers THEN kind = "reading" ELSE kind # "reading" /\ ~Sweeping
  /\ kind = "posting" => now >= lastPosting + EVERY
  /\ lastPosting' = IF kind = "posting" THEN now ELSE lastPosting
  /\ \/ /\ s \in Readers
        /\ local[s] # NoMark
        /\ Becomes(s, [begun EXCEPT !.pc = "entries", !.mark = Fitting(begun.count, local[s])])
        /\ UNCHANGED local
     \/ /\ Becomes(s, [begun EXCEPT !.pc = "mark"])
        /\ local' = Remember(s, NoMark)
  /\ UNCHANGED <<vars, shared, resumedAt, postedAt, missed, pulls, faults>>

\* load, the first query: the number.  Without it the queue is read whole.
LoadMark(s) ==
  /\ At(s, "mark")
  /\ \/ /\ Becomes(s, [calls[s] EXCEPT !.pc = "rows", !.mark.below = shared.below])
        /\ UNCHANGED faults
     \/ /\ Fault("cache")
        /\ Becomes(s, [calls[s] EXCEPT !.pc = "entries"])
  /\ UNCHANGED <<vars, local, shared, lastPosting, resumedAt, postedAt, missed, pulls>>

\* load, the second query.
LoadRows(s) ==
  /\ At(s, "rows")
  /\ Becomes(s, [calls[s] EXCEPT !.pc = "entries",
                   !.mark = Fitting(calls[s].count,
                             [below |-> calls[s].mark.below, kept |-> shared.kept])])
  /\ UNCHANGED <<vars, local, shared, lastPosting, resumedAt, postedAt, missed, pulls, faults>>

\* Where a call goes on: what it has left to post, the brake, or its end.
Posted(s, record) ==
  Becomes(s, IF record.todo # {} THEN [record EXCEPT !.pc = "post"]
             ELSE IF record.kind = "queueing" THEN [record EXCEPT !.pc = "since"]
             ELSE Asleep)

\* Mutant: a charge is final as soon as its window has closed.
FinalAtOnce(s, i) == calls[s].seconds > Expiry(i)

Final(s, i) == calls[s].seconds > Expiry(i) + MARGIN

\* Mutant: the charges kept with the mark are not handed out.
ListedPastMark(s, unposted) == unposted

\* What queued() lists that is not posted.
Listed(s, unposted) == calls[s].mark.kept \cup unposted

\* Mutant: a charge the key cannot open ends the loop.
OpenedUpTo(live) == {i \in live : \A j \in live \cap Unreadable : i < j}

\* openDepositor: the charges whose depositor it opens.
Opened(live) == live \ Unreadable

\* The entries past the mark, from a node that may not have the last postings
\* yet: what is final moves the mark, what is due is posted or expired.
ReadEntries(s) ==
  LET r        == calls[s]
      past     == (r.mark.below + 1)..r.count
      recently == {i \in past : queued[i].posted /\ postedAt[i] >= now - LAG}
  IN /\ At(s, "entries")
     /\ \E unseen \in SUBSET recently :
          LET unposted == {i \in past : ~queued[i].posted} \cup unseen
              final    == {i \in past : \A j \in (r.mark.below + 1)..i : Final(s, j)}
              lost     == final \cap unposted
              mark     == [below |-> r.mark.below + Cardinality(final),
                           kept |-> r.mark.kept \cup lost]
              due      == {i \in Listed(s, unposted) : queued[i].dueAt <= r.seconds}
              expired  == {i \in due : r.seconds > Expiry(i)}
              read     == IF r.kind = "reading" THEN r
                          ELSE [r EXCEPT !.todo = Opened(due \ expired),
                                         !.expired = expired]
          IN /\ IF unseen = {} THEN UNCHANGED faults ELSE Fault("behind")
             /\ local' = Remember(s, mark)
             /\ IF final = {} THEN Posted(s, [read EXCEPT !.mark = Start, !.count = 0])
                ELSE Becomes(s, [read EXCEPT !.pc = "saveRows", !.mark = mark, !.lost = lost])
     /\ UNCHANGED <<vars, shared, lastPosting, resumedAt, postedAt, missed, pulls>>

\* cache.advance: the rows this read found lost, then the number.  If either
\* fails the sweep goes on, and the instance keeps its own mark.
Saved(s) == Posted(s, [calls[s] EXCEPT !.mark = Start, !.lost = {}, !.count = 0])

SaveRows(s) ==
  /\ At(s, "saveRows")
  /\ \/ /\ shared' = [shared EXCEPT !.kept = @ \cup calls[s].lost]
        /\ Becomes(s, [calls[s] EXCEPT !.pc = "saveMark", !.lost = {}])
        /\ UNCHANGED faults
     \/ Fault("save") /\ Saved(s) /\ UNCHANGED shared
  /\ UNCHANGED <<vars, local, lastPosting, resumedAt, postedAt, missed, pulls>>

SaveMark(s) ==
  /\ At(s, "saveMark")
  /\ \/ /\ shared' = [shared EXCEPT !.below = IF calls[s].mark.below > @ THEN calls[s].mark.below ELSE @]
        /\ UNCHANGED faults
     \/ Fault("cache") /\ UNCHANGED shared
  /\ Saved(s)
  /\ UNCHANGED <<vars, local, lastPosting, resumedAt, postedAt, missed, pulls>>

----------------------------------------------------------------------------
(* What the sweep sends.                                                   *)

\* The charge the sweep has come to: the queue's order.
Turn(s) == CHOOSE i \in calls[s].todo : \A j \in calls[s].todo : i <= j

PassedOver(s, i) == Posted(s, [calls[s] EXCEPT !.todo = @ \ {i}])

Post(s) ==
  LET i == Turn(s) IN
  /\ At(s, "post")
  /\ \/ /\ \E d \in Depositors : PostQueued(i, d)
        /\ postedAt' = [postedAt EXCEPT ![i] = now]
        /\ Posted(s, [calls[s] EXCEPT !.todo = @ \ {i}])
        /\ UNCHANGED <<missed, faults>>
     \/ /\ ~Postable(i)
        /\ PassedOver(s, i)
        /\ UNCHANGED <<vars, postedAt, missed, faults>>
     \/ /\ Postable(i)
        /\ Fault("refused")
        /\ missed' = [missed EXCEPT ![i] = @ + 1]
        /\ PassedOver(s, i)
        /\ UNCHANGED <<vars, postedAt>>
  /\ UNCHANGED <<local, shared, lastPosting, resumedAt, pulls>>

\* Mutant: a charge that was dealt with pulls the brake again.
FreshAgain(s) == calls[s].expired

\* pauseIfTriggered, from lastResumedAt to the first thing that triggers it.
Fresh(s) == {i \in calls[s].expired : Expiry(i) > resumedAt}

ReadSince(s) ==
  /\ At(s, "since")
  /\ Becomes(s, IF Fresh(s) # {}
       THEN [calls[s] EXCEPT !.pc = "paused", !.expired = Fresh(s)]
       ELSE [calls[s] EXCEPT !.pc = "exits", !.expired = {}, !.exits = Depositors])
  /\ UNCHANGED <<vars, local, shared, lastPosting, resumedAt, postedAt, missed, pulls, faults>>

ExitDue(d, at) ==
  depositors[d].exitRequestedAt # 0 /\ at >= depositors[d].exitRequestedAt + EXIT_DELAY

NextExit(s) == CHOOSE d \in calls[s].exits : TRUE

\* On to the next depositor who ever asked to exit, or the sweep is over.
PastExit(s) ==
  LET left == calls[s].exits \ {NextExit(s)} IN
  Becomes(s, IF left = {} THEN Asleep ELSE [calls[s] EXCEPT !.pc = "exits", !.exits = left])

\* depositorOf: an exit not requested, or not due, is passed over.
ReadExit(s) ==
  /\ At(s, "exits")
  /\ IF ExitDue(NextExit(s), calls[s].seconds)
       THEN Becomes(s, [calls[s] EXCEPT !.pc = "simulate"])
       ELSE PastExit(s)
  /\ UNCHANGED <<vars, local, shared, lastPosting, resumedAt, postedAt, missed, pulls, faults>>

\* exitWouldFail: executeExit as of now, whatever the read before it said.
WouldPay(d) == ExitDue(d, now) /\ Payout(d) <= balance

Simulate(s) ==
  /\ At(s, "simulate")
  /\ IF WouldPay(NextExit(s)) THEN PastExit(s)
     ELSE Becomes(s, [calls[s] EXCEPT !.pc = "paused", !.exits = {}])
  /\ UNCHANGED <<vars, local, shared, lastPosting, resumedAt, postedAt, missed, pulls, faults>>

ReadPaused(s) ==
  /\ At(s, "paused")
  /\ Becomes(s, IF paused THEN Asleep ELSE [calls[s] EXCEPT !.pc = "pull"])
  /\ UNCHANGED <<vars, local, shared, lastPosting, resumedAt, postedAt, missed, pulls, faults>>

\* pool.pause, which sets the flag whatever it was.
Pull(s) ==
  /\ At(s, "pull")
  /\ \/ /\ IF paused THEN UNCHANGED vars ELSE SetPaused
        /\ pulls' = [i \in SpendIds |-> pulls[i] + IF i \in calls[s].expired THEN 1 ELSE 0]
        /\ UNCHANGED faults
     \/ Fault("refused") /\ UNCHANGED <<vars, pulls>>
  /\ Becomes(s, Asleep)
  /\ UNCHANGED <<local, shared, lastPosting, resumedAt, postedAt, missed>>

\* What a sweep that dies now leaves unposted.
Untried(s) ==
  IF At(s, "post") THEN calls[s].todo
  ELSE IF calls[s].kind = "reading" \/ calls[s].pc \in {"since", "exits", "simulate", "paused", "pull"} THEN {}
  ELSE {i \in filed \ Unreadable :
          ~queued[i].posted /\ queued[i].dueAt <= calls[s].seconds /\ calls[s].seconds <= Expiry(i)}

Dies(s) ==
  /\ ~At(s, "asleep")
  /\ Fault("dies")
  /\ missed' = [i \in SpendIds |-> missed[i] + IF i \in Untried(s) THEN 1 ELSE 0]
  /\ Becomes(s, Asleep)
  /\ local' = Remember(s, NoMark)
  /\ UNCHANGED <<vars, shared, lastPosting, resumedAt, postedAt, pulls>>

----------------------------------------------------------------------------
(* What the pool's users and its admin do meanwhile.                       *)

\* The queueing half of a sweep: a batch of charges takes the next places.
Queue ==
  /\ now <= LAST_BATCH
  /\ \E last \in (Cardinality(filed) + 1)..Cardinality(SpendIds) :
     \E delay \in [(Cardinality(filed) + 1)..last -> Delays] :
       QueueSpendBatch([i \in DOMAIN delay |-> [amount |-> CHARGE, dueAt |-> now + delay[i]]])

\* resumeGate, as scripts/fleet-resume-check.ts runs it before the admin
\* unpauses.
Shortfall  == everDeposited - exitsPaid - totalPosted - balance
ResumeGate == BalanceIdentity /\ Shortfall <= 0

Resume ==
  /\ paused
  /\ ResumeGate
  /\ SetPaused
  /\ resumedAt' = now
  /\ UNCHANGED <<calls, local, shared, lastPosting, postedAt, missed, pulls, faults>>

Trader ==
  /\ \/ \E d \in Depositors : ExecuteExit(d)
     \/ Queue
  /\ UNCHANGED sweepVars

\* The schedule fires on time and an instance does not outlive LIFE.
Later ==
  /\ Tick
  /\ now < lastPosting + EVERY
  /\ \A s \in Instances : ~At(s, "asleep") => now < calls[s].seconds + LIFE
  /\ UNCHANGED sweepVars

----------------------------------------------------------------------------
Step(s) ==
  \/ LoadMark(s) \/ LoadRows(s) \/ ReadEntries(s) \/ SaveRows(s) \/ SaveMark(s)
  \/ Post(s)
  \/ ReadSince(s) \/ ReadExit(s) \/ Simulate(s) \/ ReadPaused(s) \/ Pull(s)

SweepNext ==
  \/ \E s \in Instances, kind \in {"reading", "posting", "queueing"} : Begin(s, kind)
  \/ \E s \in Instances : Step(s) \/ Dies(s)
  \/ Trader \/ Resume \/ Later

SweepSpec == SweepInit /\ [][SweepNext]_allVars

\* The queueing schedule keeps firing, and a sweep that runs goes on.
SweepFairSpec ==
  /\ SweepSpec
  /\ WF_allVars(\E s \in Sweepers : Begin(s, "queueing"))
  /\ \A s \in Sweepers : WF_allVars(Step(s))

----------------------------------------------------------------------------
(* Properties.                                                             *)

SweepTypeOK ==
  /\ TypeOK
  /\ \A s \in Instances :
       /\ calls[s].pc \in {"asleep", "mark", "rows", "entries", "saveRows", "saveMark", "post",
                            "since", "exits", "simulate", "paused", "pull"}
       /\ calls[s].todo \cup calls[s].expired \subseteq filed
  /\ \A s \in Readers :
       local[s].below \in -1..Cardinality(filed) /\ local[s].kept \subseteq filed
  /\ shared.below \in 0..Cardinality(filed) /\ shared.kept \subseteq filed

\* A charge whose window closed before it was posted.
Lost(i) == Known(i) /\ ~queued[i].posted /\ Expired(i)

\* A charge the key can open is lost only if sweep after sweep failed on it:
\* with a window W from due to expiry, every sweep that began in it with LIFE
\* to go did (pool-buy.ts: one failure "costs that one draw and nothing
\* else"; vercel.json: the posting sweep comes every EVERY).
PostedInTime == \A i \in SpendIds \ Unreadable :
  Lost(i) => (missed[i] + 1) * EVERY + LIFE - 1 > Expiry(i) - queued[i].dueAt

\* Whatever two instances, dead ones and late nodes do to the marks, none of
\* them hides a lost charge and none calls lost what is not: below a mark
\* everything is over, every charge lost there has its row, and every row is
\* of a charge lost for good (pool-reads-neon.ts: "a reader must never see a
\* mark that is past a charge whose row is not there yet").
Tells(mark) ==
  /\ \A i \in 1..mark.below : queued[i].posted \/ (Lost(i) /\ i \in mark.kept)
  /\ \A i \in mark.kept : Lost(i)
MarkIsTrue == Tells(shared) /\ \A s \in Readers : Tells(local[s])

\* A lost charge pulls the brake once, and once more if the pool is resumed
\* while a sweep is past its reading of when that last happened; then never
\* again (pool-buy.ts: "has been dealt with, by the resume gate, and does not
\* pull it again").
NotPulledAgain == \A i \in SpendIds : pulls[i] <= 2

\* A lost charge that no resume has dealt with, and an exit that is due and
\* that the pool cannot pay, always come to stop the pool.
Unsettled ==
  \/ \E i \in SpendIds : Lost(i) /\ resumedAt < Expiry(i)
  \/ \E d \in Depositors : ExitDue(d, now) /\ Payout(d) > balance
EveryLossPauses == Unsettled ~> (paused \/ ~Unsettled)
=============================================================================
