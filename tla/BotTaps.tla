------------------------------ MODULE BotTaps ------------------------------
(***************************************************************************)
(* A person of the Telegram bot who taps Sell, and the requests that serve *)
(* the taps, over the account the sales are made from: the webhook's       *)
(* handler (src/fleet/bot-session.ts), the claims of updates and the lock  *)
(* on a person's trades (bot-updates.ts), and the send and its receipt     *)
(* (bot-session-chain.ts).                                                 *)
(*                                                                         *)
(* Telegram may deliver an update again at any time, to another instance   *)
(* as well; the platform kills a request LIFE after it began.  What the    *)
(* account does between two reads of a request is SessionAccount's: its    *)
(* owner, the standing orders that sell through the same key, and the      *)
(* router go on meanwhile.                                                 *)
(***************************************************************************)
EXTENDS SessionAccount, Sequences

CONSTANTS
  Bot,                \* the bot's key, one of Keys
  Taps,               \* updates: taps of one person on a Sell button
  Percent,            \* [Taps -> 1..100]: the share each button sells
  Requests,           \* requests that may be under way at once
  LIFE,               \* maxDuration of api/bot.js
  LOCK                \* LOCK_MS

ASSUME TapShares == Bot \in Keys /\ Percent \in [Taps -> 1..100]
\* 60 s and 90 s.
ASSUME LockOutlastsRequest == {LIFE, LOCK} \subseteq Nat /\ LIFE < LOCK

VARIABLES
  updates,            \* bot_updates: the taps that were claimed
  lockUntil,          \* bot_trade_locks: the person's row
  requests,           \* each request: where it is and what it holds
  txs,                \* the sales the bot's key signed for taps, in order
  mining              \* the one of them whose call is under way

tapVars  == <<updates, lockUntil, requests, txs, mining>>
deskVars == <<sessionVars, tapVars>>

AtRest    == [pc |-> "idle"]
NoTx      == 0
Unlocked  == -1

TapsInit ==
  /\ SessionInit
  /\ updates = {} /\ lockUntil = Unlocked
  /\ requests = [r \in Requests |-> AtRest]
  /\ txs = <<>> /\ mining = NoTx

----------------------------------------------------------------------------
(* The chain: a tapped sale is mined in its turn.                          *)

Outcome(status) ==
  /\ mining' = NoTx
  /\ txs' = IF mining = NoTx THEN txs ELSE [txs EXCEPT ![mining] = [@ EXCEPT !.status = status]]

offChain == UNCHANGED <<updates, lockUntil, requests>>

\* The key's transactions are mined in the order of their nonces.
Mined(h) ==
  /\ txs[h].status = "sent" /\ \A g \in 1..(h - 1) : txs[g].status # "sent"
  /\ IF CanSell(Bot)
     THEN /\ SellCall(Bot, txs[h].sale.amountIn, txs[h].sale.minOut)
          /\ mining' = h
          /\ UNCHANGED txs
     ELSE /\ txs' = [txs EXCEPT ![h] = [@ EXCEPT !.status = "reverted"]]
          /\ UNCHANGED <<sessionVars, mining>>
  /\ offChain

Ends ==
  \/ SellReturns /\ Outcome("landed")
  \/ Reverts     /\ Outcome("reverted")

\* The rest of the account's life; time waits for no request past its limit.
Account ==
  /\ \/ GoesOn /\ UNCHANGED <<txs, mining>>
     \/ Ends
  /\ now' # now => \A r \in Requests : requests[r].pc # "idle" => now < requests[r].at + LIFE
  /\ offChain

----------------------------------------------------------------------------
(* A request.                                                              *)

Becomes(r, request) == requests' = [requests EXCEPT ![r] = request]
Reaches(r, pc)      == Becomes(r, [requests[r] EXCEPT !.pc = pc])
Done(r)        == Becomes(r, [pc |-> "free", at |-> requests[r].at])
onChain        == UNCHANGED <<sessionVars, mining>>

\* Mutant: a delivery is acted on whatever was claimed.
claimsAgain(u) == TRUE

claims(u) == u \notin updates

\* handle: the update is claimed before anything else; a delivery that finds it
\* claimed does nothing.
Deliver(r, u) ==
  /\ requests[r] = AtRest
  /\ claims(u)
  /\ updates' = updates \union {u}
  /\ Becomes(r, [pc |-> "take", at |-> now, tap |-> u])
  /\ onChain /\ UNCHANGED <<lockUntil, txs>>

\* Mutant: whoever asks has the lock.
takesAlways == TRUE

takes == lockUntil < now

\* #takeTrade; who does not get the lock is told so, and frees nothing.
TakeTrade(r) ==
  /\ requests[r].pc = "take"
  /\ IF takes THEN lockUntil' = now + LOCK /\ Reaches(r, "read")
              ELSE Becomes(r, AtRest) /\ UNCHANGED lockUntil
  /\ onChain /\ UNCHANGED <<updates, txs>>

onlyRequest == onChain /\ UNCHANGED <<updates, lockUntil, txs>>

\* #sell reads what the account holds, what selling the share would return and canSell;
\* all of it may be stale when the sale is sent, and more so when it is mined.
ReadShare(r, minOut) ==
  LET tap == requests[r].tap  amount == (holds * Percent[tap]) \div 100 IN
  /\ requests[r].pc = "read"
  /\ IF amount > 0 /\ CanSell(Bot)
     THEN Becomes(r, [pc |-> "send", at |-> requests[r].at,
                 sale |-> [tap |-> tap, amountIn |-> amount, minOut |-> minOut,
                           past |-> [g \in DOMAIN txs |-> txs[g].status]]])
     ELSE Done(r)
  /\ onlyRequest

\* Not linked, over the day's count, no pool, a sale that would fail, a read that threw.
Stops(r) ==
  /\ requests[r].pc = "read"
  /\ Done(r)
  /\ onlyRequest

Signed(sale, unseen) == [sale |-> sale, status |-> "sent", unseen |-> unseen]

\* session.sell; one that throws may still have been relayed.
SendSale(r, relayed, answers) ==
  LET q == requests[r] IN
  /\ q.pc = "send"
  /\ answers => relayed
  /\ txs' = IF relayed THEN Append(txs, Signed(q.sale, ~answers)) ELSE txs
  /\ IF answers THEN Becomes(r, [pc |-> "wait", at |-> q.at, tx |-> Len(txs')]) ELSE Done(r)
  /\ onChain /\ UNCHANGED <<updates, lockUntil>>

Unseen(h) == txs' = [txs EXCEPT ![h] = [@ EXCEPT !.unseen = TRUE]]

\* The receipt, or the wait for it runs out; what is noted of the sale stops nothing.
Answers(r, seen) ==
  LET h == requests[r].tx IN
  /\ requests[r].pc = "wait"
  /\ seen => txs[h].status # "sent"
  /\ IF seen THEN UNCHANGED txs ELSE Unseen(h)
  /\ Done(r)
  /\ onChain /\ UNCHANGED <<updates, lockUntil>>

\* #oneTrade's finally.
Free(r) ==
  /\ requests[r].pc = "free"
  /\ lockUntil' = Unlocked
  /\ Becomes(r, AtRest)
  /\ onChain /\ UNCHANGED <<updates, txs>>

\* The platform's limit, a process that dies, an answer to the tap that throws before
\* #oneTrade, or a lock that could not be freed: the lock stays until it expires.
RequestDies(r) ==
  /\ requests[r] # AtRest
  /\ IF requests[r].pc = "wait" THEN Unseen(requests[r].tx) ELSE UNCHANGED txs
  /\ Becomes(r, AtRest)
  /\ onChain /\ UNCHANGED <<updates, lockUntil>>

----------------------------------------------------------------------------
RequestNext(r) ==
  \/ \E u \in Taps : Deliver(r, u)
  \/ TakeTrade(r) \/ Stops(r) \/ Free(r) \/ RequestDies(r)
  \/ \E minOut \in Values : ReadShare(r, minOut)
  \/ \E relayed, answers \in BOOLEAN : SendSale(r, relayed, answers)
  \/ \E seen \in BOOLEAN : Answers(r, seen)

\* A transaction is one instant to everyone but those it calls.
TapsNext ==
  \/ Account
  \/ /\ frame = NoFrame
     /\ \/ \E h \in DOMAIN txs : Mined(h)
        \/ \E r \in Requests : RequestNext(r)

TapsSpec == TapsInit /\ [][TapsNext]_deskVars

----------------------------------------------------------------------------
(* Properties.                                                             *)

\* A tap is one sale, however often Telegram delivers it and whatever requests
\* die (bot-updates.ts:9), and a person's taps sell one after the other ("Sell 50%
\* five times while the bot was slow got five sales", bot-updates.ts:56): no sale
\* is sent between another's reading of the position and its send, and the position
\* a share is read from is the one the earlier sales left, those excepted whose
\* request ended without a receipt.
TapsSellOneByOne ==
  \A h \in DOMAIN txs :
    LET sale == txs[h].sale IN
    /\ DOMAIN sale.past = 1..(h - 1)
    /\ \A g \in 1..(h - 1) : /\ sale.past[g] = "sent" => txs[g].unseen
                             /\ sale.tap # txs[g].sale.tap
=============================================================================
