---------------------------- MODULE VenueCopies ----------------------------
(***************************************************************************)
(* One wallet leader's buys on the venue, and the desk that mirrors them   *)
(* into the followers' accounts: src/fleet/bot-watch.ts, bot-copy.ts and   *)
(* the pass that calls both (bot-watch-runtime.ts), beside the taps of the *)
(* followers themselves (bot-session.ts, bot-updates.ts).                  *)
(*                                                                         *)
(* A buy is a natural number, the block it is in; the chain, the token's   *)
(* gates, the sessions and the holders line are read afresh and may answer *)
(* anything or fail.  All buys are of one token, within one UTC day.  A    *)
(* pass may overlap another, on a second instance, and die at any step.    *)
(***************************************************************************)
EXTENDS Integers, Sequences, FiniteSets, Functions, Totals

CONSTANTS
  Followers,          \* the leader's followers, in the order they followed
  Tappers,            \* the followers who buy with taps as well
  Passes,             \* passes of the watch route that may be under way at once
  BUYS,               \* bound: buys the leader makes
  MIRROR_WEI,         \* the leader's buy, below each follower's cap
  TOKEN_DAY_CAP,      \* ETH mirrored into a token in a day: tokenDayCapWei
  DAILY_EXECUTES,     \* buys into one account in a day: dailyExecutes
  VENUE_BUYS_PER_DAY, \* buys read for one leader in a day
  VENUE_RETRY,        \* how long an unread buy is kept: venueRetryMs
  MAX_LAG,            \* buys behind the head that are still read: maxLagBlocks, maxBlocksPerRun
  MAX_CLOCK,           \* bound: the last instant
  MAX_TAPS,           \* bound: buys each follower taps
  MAX_CRASHES         \* bound: passes and taps that die

Buys    == 1..BUYS
Members == Range(Followers)

ASSUME CopyFollowers ==
  Followers \in Seq(Members) /\ IsInjective(Followers) /\ Tappers \subseteq Members
ASSUME CopyNumbers ==
  {BUYS, MIRROR_WEI, TOKEN_DAY_CAP, DAILY_EXECUTES, VENUE_BUYS_PER_DAY, VENUE_RETRY,
   MAX_CLOCK, MAX_TAPS, MAX_CRASHES} \subseteq Nat /\ MAX_LAG \in Nat \ {0}
ASSUME FinitePasses == IsFiniteSet(Passes)

VARIABLES
  head,               \* the leader's buys on the chain so far
  cursor,             \* bot_watch_cursor
  seen,               \* bot_watch_seen
  claimed,            \* bot_venue_buys
  deferred,           \* bot_venue_deferred: each kept buy, and since when
  tokenDay,           \* bot_copy_days of the token today
  userDay,            \* bot_copy_user_days of each follower today
  mirrored,           \* sends that answered: how often each buy reached a follower
  posted,             \* messages to the group about each buy
  tapping,            \* where each follower's tap is
  tapped,             \* each follower's taps that were sent
  uncounted,          \* of those, the ones that died before they were counted
  passes,             \* each pass: where it is and what it holds
  crashes,            \* passes and taps that died so far
  clock               \* the clock

ledgers  == <<tokenDay, userDay>>
taps     == <<tapping, tapped, uncounted>>
tables   == <<cursor, seen, claimed, deferred>>
copyVars == <<head, cursor, seen, claimed, deferred, tokenDay, userDay, mirrored, posted,
              tapping, tapped, uncounted, passes, crashes, clock>>

Idle  == [pc |-> "idle"]
NoBuy == 0

CopyInit ==
  /\ head = 0 /\ cursor = 0
  /\ seen = {} /\ claimed = {} /\ deferred = <<>>
  /\ tokenDay = 0 /\ userDay = [f \in Members |-> 0]
  /\ mirrored = [b \in Buys |-> [f \in Members |-> 0]]
  /\ posted = [b \in Buys |-> 0]
  /\ tapping = [f \in Members |-> "no"] /\ tapped = [f \in Members |-> 0]
  /\ uncounted = [f \in Members |-> 0]
  /\ passes = [p \in Passes |-> Idle]
  /\ crashes = 0 /\ clock = 0

LeaderBuys ==
  /\ head < BUYS
  /\ head' = head + 1
  /\ UNCHANGED <<tables, ledgers, mirrored, posted, taps, passes, crashes, clock>>

Tick ==
  /\ clock < MAX_CLOCK
  /\ clock' = clock + 1
  /\ UNCHANGED <<head, tables, ledgers, mirrored, posted, taps, passes, crashes>>

----------------------------------------------------------------------------
(* A pass: the kept buys, then the window after the cursor.                *)

Go(p, pass) == passes' = [passes EXCEPT ![p] = pass]
At(p, pc)   == Go(p, [passes[p] EXCEPT !.pc = pc])
rest        == UNCHANGED <<head, taps, crashes, clock>>

\* retryVenueBuys lists what is kept; the pass holds the list.
StartPass(p) ==
  /\ passes[p] = Idle
  /\ Go(p, [pc |-> "kept", todo |-> deferred, next |-> 0, to |-> 0,
            buy |-> NoBuy, since |-> -1, turn |-> 0])
  /\ UNCHANGED <<tables, ledgers, mirrored, posted>> /\ rest

without(kept, b) == [x \in DOMAIN kept \ {b} |-> kept[x]]

\* Mutant: a buy that still cannot be read is kept for good.
tooOldNever(since) == FALSE

tooOld(since) == clock - since > VENUE_RETRY

\* A kept buy, as listed: too old is dropped, else it is read again.
RetryKept(p, b) ==
  LET since == passes[p].todo[b]
      left  == [passes[p] EXCEPT !.todo = without(@, b)]
  IN
  /\ IF tooOld(since)
     THEN /\ deferred' = without(deferred, b)
          /\ Go(p, left)
     ELSE /\ Go(p, [left EXCEPT !.pc = "reads", !.buy = b, !.since = since])
          /\ UNCHANGED deferred
  /\ UNCHANGED <<cursor, seen, claimed, ledgers, mirrored, posted>> /\ rest

\* run(): the window after the cursor; what is too far behind the head is skipped.
ReadWindow(p) ==
  LET from == IF head - (cursor + 1) > MAX_LAG THEN head - MAX_LAG ELSE cursor + 1
      last == from + MAX_LAG - 1
  IN
  /\ passes[p].pc = "kept" /\ DOMAIN passes[p].todo = {}
  /\ Go(p, IF from > head THEN Idle
           ELSE [passes[p] EXCEPT !.pc = "window", !.next = from,
                                    !.to = IF last < head THEN last ELSE head])
  /\ UNCHANGED <<tables, ledgers, mirrored, posted>> /\ rest

\* Each buy of the window is claimed by its hash, then handed on.
HandOn(p) ==
  LET b == passes[p].next IN
  /\ passes[p].pc = "window" /\ b <= passes[p].to
  /\ IF b \in seen
     THEN /\ Go(p, [passes[p] EXCEPT !.next = @ + 1])
          /\ UNCHANGED seen
     ELSE /\ Go(p, [passes[p] EXCEPT !.next = @ + 1, !.pc = "reads", !.buy = b, !.since = -1])
          /\ seen' = seen \union {b}
  /\ UNCHANGED <<cursor, claimed, deferred, ledgers, mirrored, posted>> /\ rest

SetCursor(p) ==
  /\ passes[p].pc = "window" /\ passes[p].next > passes[p].to
  /\ cursor' = passes[p].to
  /\ Go(p, Idle)
  /\ UNCHANGED <<seen, claimed, deferred, ledgers, mirrored, posted>> /\ rest

----------------------------------------------------------------------------
(* #venue: one buy, from the window or kept.                               *)

wasKept(pass) == pass.since >= 0

\* Answered: a kept buy is dropped, and the pass goes on.
Answered(pass) ==
  IF wasKept(pass) THEN [pass EXCEPT !.pc = "drop"]
                   ELSE [pass EXCEPT !.pc = "window", !.buy = NoBuy]

\* A read failed: the buy is kept, with the first keeping's time.
ReadsFail(p) ==
  LET b == passes[p].buy IN
  /\ passes[p].pc = "reads"
  /\ deferred' = IF b \in DOMAIN deferred THEN deferred
                 ELSE [x \in DOMAIN deferred \union {b} |->
                         IF x # b THEN deferred[x]
                         ELSE IF wasKept(passes[p]) THEN passes[p].since ELSE clock]
  /\ Go(p, [passes[p] EXCEPT !.pc = IF wasKept(passes[p]) THEN "kept" ELSE "window",
                             !.buy = NoBuy, !.since = -1])
  /\ UNCHANGED <<cursor, seen, claimed, ledgers, mirrored, posted>> /\ rest

\* Nor could it be kept: a new buy is lost, a kept one ends this pass's retries.
KeepingFails(p) ==
  /\ passes[p].pc = "reads"
  /\ Go(p, [passes[p] EXCEPT !.pc = IF wasKept(passes[p]) THEN "kept" ELSE "window",
                             !.todo = <<>>, !.buy = NoBuy, !.since = -1])
  /\ UNCHANGED <<tables, ledgers, mirrored, posted>> /\ rest

\* The reads answered: nothing for the desk, or a buy to claim.
ReadsAnswer(p, theirs) ==
  /\ passes[p].pc = "reads"
  /\ Go(p, IF theirs /\ Cardinality(claimed) < VENUE_BUYS_PER_DAY
           THEN [passes[p] EXCEPT !.pc = "claim"] ELSE Answered(passes[p]))
  /\ UNCHANGED <<tables, ledgers, mirrored, posted>> /\ rest

\* Mutant: the desk relies on the watcher's claim.
claimableVenueBuyAlways(b) == TRUE

claimableVenueBuy(b) == b \notin claimed

\* claimVenueBuy; then the token's gates let it through, or it is told and done.
ClaimVenueBuy(p, clears) ==
  LET b == passes[p].buy IN
  /\ passes[p].pc = "claim"
  /\ claimed' = claimed \union {b}
  /\ Go(p, IF claimableVenueBuy(b) /\ clears
           THEN [passes[p] EXCEPT !.pc = "mirror", !.turn = 1] ELSE Answered(passes[p]))
  /\ UNCHANGED <<cursor, seen, deferred, ledgers, mirrored, posted>> /\ rest

DropKept(p) ==
  /\ passes[p].pc = "drop"
  /\ deferred' = without(deferred, passes[p].buy)
  /\ Go(p, [passes[p] EXCEPT !.pc = "kept", !.buy = NoBuy, !.since = -1])
  /\ UNCHANGED <<cursor, seen, claimed, ledgers, mirrored, posted>> /\ rest

----------------------------------------------------------------------------
(* mirror(): the followers, one after the other.                           *)

follower(pass) == Followers[pass.turn]
onTurn(pass)   == pass.pc = "mirror" /\ pass.turn <= Len(Followers)
NextTurn(p)    == Go(p, [passes[p] EXCEPT !.pc = "mirror", !.turn = @ + 1])

\* Not linked, below the line, short of ETH, out of time.
Skip(p) ==
  /\ onTurn(passes[p])
  /\ NextTurn(p)
  /\ UNCHANGED <<tables, ledgers, mirrored, posted>> /\ rest

\* Mutant: the cap is compared before the add.
overRoomBefore(soFar) == soFar - MIRROR_WEI > TOKEN_DAY_CAP

overRoom(soFar) == soFar > TOKEN_DAY_CAP

\* addTokenDay: added first, then compared; what is over is given back.
TakeRoom(p) ==
  /\ onTurn(passes[p])
  /\ tokenDay' = tokenDay + MIRROR_WEI
  /\ At(p, IF overRoom(tokenDay') THEN "giveBack" ELSE "room")
  /\ UNCHANGED <<tables, userDay, mirrored, posted>> /\ rest

\* The contract says no, or there is no quote.
Refused(p) ==
  /\ passes[p].pc = "room"
  /\ At(p, "giveBack")
  /\ UNCHANGED <<tables, ledgers, mirrored, posted>> /\ rest

\* Mutant: what a refusal counted is not over the day.
overDayByOne(n) == n > DAILY_EXECUTES

overDay(n) == n >= DAILY_EXECUTES

\* chargeDay: the add comes first.
ChargeDay(p) ==
  LET f == follower(passes[p]) IN
  /\ passes[p].pc = "room"
  /\ userDay' = [userDay EXCEPT ![f] = @ + 1]
  /\ At(p, IF overDay(userDay[f]) THEN "giveBack" ELSE "send")
  /\ UNCHANGED <<tables, tokenDay, mirrored, posted>> /\ rest

SendMirror(p) ==
  /\ passes[p].pc = "send"
  /\ mirrored' = [mirrored EXCEPT ![passes[p].buy][follower(passes[p])] = @ + 1]
  /\ NextTurn(p)
  /\ UNCHANGED <<tables, ledgers, posted>> /\ rest

SendThrows(p) ==
  /\ passes[p].pc = "send"
  /\ At(p, "giveBack")
  /\ UNCHANGED <<tables, ledgers, mirrored, posted>> /\ rest

GiveBack(p) ==
  /\ passes[p].pc = "giveBack"
  /\ tokenDay' = tokenDay - MIRROR_WEI
  /\ NextTurn(p)
  /\ UNCHANGED <<tables, userDay, mirrored, posted>> /\ rest

\* A store that throws ends the mirrors; room that was taken stays taken.
MirrorBreaks(p) ==
  /\ passes[p].pc \in {"mirror", "room", "giveBack"}
  /\ Go(p, [passes[p] EXCEPT !.pc = "mirror", !.turn = Len(Followers) + 1])
  /\ UNCHANGED <<tables, ledgers, mirrored, posted>> /\ rest

\* announce, when the mirrors are through: posted, or no leader, or the feed threw.
Announce(p, goesOut) ==
  /\ passes[p].pc = "mirror" /\ passes[p].turn > Len(Followers)
  /\ posted' = IF goesOut THEN [posted EXCEPT ![passes[p].buy] = @ + 1] ELSE posted
  /\ Go(p, [Answered(passes[p]) EXCEPT !.turn = 0])
  /\ UNCHANGED <<tables, ledgers, mirrored>> /\ rest

Dies(p) ==
  /\ passes[p] # Idle /\ crashes < MAX_CRASHES
  /\ crashes' = crashes + 1
  /\ Go(p, Idle)
  /\ UNCHANGED <<head, tables, ledgers, mirrored, posted, taps, clock>>

----------------------------------------------------------------------------
(* A follower's own buy: one at a time per person (TradeLocks).            *)

Tap(f, pc) == tapping' = [tapping EXCEPT ![f] = pc]
noPass     == UNCHANGED <<head, tables, tokenDay, mirrored, posted, passes, clock>>

\* overDay reads the ledger; the send, its answer and noteDay come later.
AskTap(f) ==
  /\ tapping[f] = "no" /\ tapped[f] < MAX_TAPS
  /\ ~overDay(userDay[f])
  /\ Tap(f, "asked")
  /\ UNCHANGED <<userDay, tapped, uncounted, crashes>> /\ noPass

SendTap(f) ==
  /\ tapping[f] = "asked"
  /\ tapped' = [tapped EXCEPT ![f] = @ + 1]
  /\ Tap(f, "sent")
  /\ UNCHANGED <<userDay, uncounted, crashes>> /\ noPass

NoteDay(f) ==
  /\ tapping[f] = "sent"
  /\ userDay' = [userDay EXCEPT ![f] = @ + 1]
  /\ Tap(f, "no")
  /\ UNCHANGED <<tapped, uncounted, crashes>> /\ noPass

\* The request died, or its send threw after it was relayed.
TapDies(f) ==
  /\ tapping[f] # "no" /\ crashes < MAX_CRASHES
  /\ crashes' = crashes + 1
  /\ uncounted' = [uncounted EXCEPT ![f] = IF tapping[f] = "sent" THEN @ + 1 ELSE @]
  /\ Tap(f, "no")
  /\ UNCHANGED <<userDay, tapped>> /\ noPass

----------------------------------------------------------------------------
PassNext(p) ==
  \/ passes[p].pc = "kept" /\ \E b \in DOMAIN passes[p].todo : RetryKept(p, b)
  \/ ReadWindow(p) \/ HandOn(p) \/ SetCursor(p)
  \/ ReadsFail(p) \/ KeepingFails(p) \/ \E theirs \in BOOLEAN : ReadsAnswer(p, theirs)
  \/ \E clears \in BOOLEAN : ClaimVenueBuy(p, clears)
  \/ DropKept(p)
  \/ Skip(p) \/ TakeRoom(p) \/ Refused(p) \/ ChargeDay(p) \/ SendMirror(p) \/ SendThrows(p)
  \/ GiveBack(p) \/ MirrorBreaks(p) \/ \E goesOut \in BOOLEAN : Announce(p, goesOut)

CopyNext ==
  \/ LeaderBuys \/ Tick
  \/ \E p \in Passes : StartPass(p) \/ PassNext(p) \/ Dies(p)
  \/ \E f \in Tappers : AskTap(f) \/ SendTap(f) \/ NoteDay(f) \/ TapDies(f)

CopySpec == CopyInit /\ [][CopyNext]_copyVars

\* The route is called every five minutes and a pass that is not killed goes on.
CopyFairSpec ==
  /\ CopySpec
  /\ \A p \in Passes : WF_copyVars(StartPass(p)) /\ WF_copyVars(PassNext(p))
  /\ WF_copyVars(Tick)

----------------------------------------------------------------------------
(* Properties.                                                             *)

\* A buy reaches each follower once and the group once, whatever passes overlap,
\* fail to read it, keep it and die: "A buy is never announced twice"
\* (bot-watch.ts:35).
CopiedOnce ==
  \A b \in Buys : posted[b] <= 1 /\ \A f \in Members : mirrored[b][f] <= 1

copiesInto(f) == Total([b \in Buys |-> mirrored[b][f]])
copies        == Total([f \in Members |-> copiesInto(f)])

\* What the sends that answered moved into the token in a day is within its cap,
\* whichever passes took the room at once and gave it back.
TokenDayHolds ==
  MIRROR_WEI * copies <= TOKEN_DAY_CAP

\* Taps and mirrors share one day's allowance across instances: over it is at
\* most the one tap that was under way, and the taps whose count was lost.
UserDayHolds ==
  \A f \in Members : copiesInto(f) + tapped[f] <= DAILY_EXECUTES + 1 + uncounted[f]

\* A kept buy is read or given up: "read again on the next pass, for up to" the
\* retry's minutes, "then dropped; you hear either way" (bot-copy.ts:606).
EveryKeptBuyEnds ==
  \A b \in Buys :
    (b \in DOMAIN deferred /\ deferred[b] + VENUE_RETRY < MAX_CLOCK) ~> b \notin DOMAIN deferred
=============================================================================
