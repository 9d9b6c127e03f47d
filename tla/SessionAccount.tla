--------------------------- MODULE SessionAccount ---------------------------
(***************************************************************************)
(* contracts/fleet/SessionAccount.sol: an account its owner funds, and the *)
(* session keys that may spend from it.                                    *)
(*                                                                         *)
(* execute and sell hand control to a contract of someone else's before    *)
(* they are done, so each is two actions: the call, and its return or its  *)
(* revert.  Between them whoever was called may call the account again;    *)
(* the frame is the call that is under way.  A call that would revert at   *)
(* once is no step.                                                        *)
(*                                                                         *)
(* A rule's target and selector are one thing to call.  One token stands   *)
(* for the tokens the account holds.                                       *)
(***************************************************************************)
EXTENDS Integers

CONSTANTS
  Keys,               \* addresses the owner may give a session
  Targets,            \* what a rule may allow to be called
  Router,             \* the target a sale goes through
  Grants,             \* sessions the owner grants
  Values,             \* amounts calls are made with, in wei or in tokens
  MAX_BALANCE,        \* bound: the ETH the account holds
  MAX_TOKENS,         \* bound: what it holds of the token
  MAX_TIME            \* bound: the last instant of block time

Session == [exists : BOOLEAN, paused : BOOLEAN, revoked : BOOLEAN, rules : SUBSET Targets,
            maxValuePerCall : Nat, totalValueCap : Nat, expiry : Nat, spentValue : Nat]

ASSUME SessionNumbers ==
  Values \subseteq Nat /\ {MAX_BALANCE, MAX_TOKENS, MAX_TIME} \subseteq Nat
ASSUME SessionGrants ==
  Grants \subseteq {s \in Session : s.exists /\ ~s.paused /\ ~s.revoked /\ s.rules # {}
                                    /\ s.maxValuePerCall <= s.totalValueCap /\ s.spentValue = 0}

VARIABLES
  sessions,           \* _sessions
  sellAllowed,        \* _sellAllowed
  balance,            \* address(this).balance
  holds,              \* the account's balance of the token
  approved,           \* what Permit2 lets the router pull of it
  frame,              \* the call that set _executing
  sent,               \* ETH that left in the calls of each key that returned
  now                 \* block.timestamp

money       == <<balance, holds, approved>>
sessionVars == <<sessions, sellAllowed, balance, holds, approved, frame, sent, now>>

NoSession == [exists |-> FALSE, paused |-> FALSE, revoked |-> FALSE, rules |-> {},
              maxValuePerCall |-> 0, totalValueCap |-> 0, expiry |-> 0, spentValue |-> 0]
NoFrame   == [kind |-> "none"]

SessionInit ==
  /\ sessions = [k \in Keys |-> NoSession]
  /\ sellAllowed = [k \in Keys |-> FALSE]
  /\ balance = 0 /\ holds = 0 /\ approved = 0
  /\ frame = NoFrame
  /\ sent = [k \in Keys |-> 0]
  /\ now = 0

----------------------------------------------------------------------------
(* The owner's calls, and money that arrives.  They do not look at         *)
(* _executing: an owner that is a contract may be called back as well.     *)

live(k) == sessions[k].exists /\ ~sessions[k].revoked

SetSession(k, new) ==
  /\ sessions' = [sessions EXCEPT ![k] = new]
  /\ UNCHANGED <<sellAllowed, balance, holds, approved, frame, sent, now>>

\* "One session per key, ever."
Grant(k, session) ==
  /\ ~sessions[k].exists
  /\ session.expiry > now
  /\ SetSession(k, session)

Pause(k)  == live(k) /\ SetSession(k, [sessions[k] EXCEPT !.paused = TRUE])
Resume(k) == live(k) /\ SetSession(k, [sessions[k] EXCEPT !.paused = FALSE])
Revoke(k) == sessions[k].exists /\ SetSession(k, [sessions[k] EXCEPT !.revoked = TRUE])

SetSellAllowed(k, allowed) ==
  /\ live(k)
  /\ sellAllowed' = [sellAllowed EXCEPT ![k] = allowed]
  /\ UNCHANGED <<sessions, balance, holds, approved, frame, sent, now>>

Withdraw(amount) ==
  /\ amount <= balance
  /\ balance' = balance - amount
  /\ UNCHANGED <<sessions, sellAllowed, holds, approved, frame, sent, now>>

WithdrawToken(amount) ==
  /\ amount <= holds
  /\ holds' = holds - amount
  /\ UNCHANGED <<sessions, sellAllowed, balance, approved, frame, sent, now>>

Receive(amount) ==
  /\ balance + amount <= MAX_BALANCE
  /\ balance' = balance + amount
  /\ UNCHANGED <<sessions, sellAllowed, holds, approved, frame, sent, now>>

ReceiveToken(amount) ==
  /\ holds + amount <= MAX_TOKENS
  /\ holds' = holds + amount
  /\ UNCHANGED <<sessions, sellAllowed, balance, approved, frame, sent, now>>

----------------------------------------------------------------------------
(* A key's calls.                                                          *)

\* _authorize, and canExecute.
Authorized(k, target, value) ==
  /\ live(k) /\ ~sessions[k].paused
  /\ now < sessions[k].expiry
  /\ value <= sessions[k].maxValuePerCall
  /\ sessions[k].spentValue + value <= sessions[k].totalValueCap
  /\ target \in sessions[k].rules

CanSell(k) == sellAllowed[k] /\ Authorized(k, Router, 0)

Spend(k, value) ==
  sessions' = [sessions EXCEPT ![k] =
    [sessions[k] EXCEPT !.spentValue = sessions[k].spentValue + value]]

\* The call as it stood before it, for its revert.
Before == [sessions |-> sessions, sellAllowed |-> sellAllowed, balance |-> balance,
           holds |-> holds, approved |-> approved]

\* Mutant: a call that is under way is no reason to refuse another.
CallReentrant(k, target, value) ==
  /\ Authorized(k, target, value)
  /\ value <= balance
  /\ Spend(k, value)
  /\ balance' = balance - value
  /\ frame' = [kind |-> "execute", by |-> k, value |-> value, before |-> Before]
  /\ UNCHANGED <<sellAllowed, holds, approved, sent, now>>

Call(k, target, value) ==
  /\ frame = NoFrame
  /\ Authorized(k, target, value)
  /\ value <= balance
  /\ Spend(k, value)
  /\ balance' = balance - value
  /\ frame' = [kind |-> "execute", by |-> k, value |-> value, before |-> Before]
  /\ UNCHANGED <<sellAllowed, holds, approved, sent, now>>

\* The owner's own call has no rule and no cap.
OwnerCall(value) ==
  /\ frame = NoFrame
  /\ value <= balance
  /\ balance' = balance - value
  /\ frame' = [kind |-> "owner", value |-> value, before |-> Before]
  /\ UNCHANGED <<sessions, sellAllowed, holds, approved, sent, now>>

SellCall(k, amountIn, minOut) ==
  /\ frame = NoFrame
  /\ minOut > 0
  /\ CanSell(k)
  /\ approved' = amountIn
  /\ frame' = [kind |-> "sell", by |-> k, value |-> 0, before |-> Before,
               amountIn |-> amountIn, minOut |-> minOut]
  /\ UNCHANGED <<sessions, sellAllowed, balance, holds, sent, now>>

\* The router takes what it may of the token.
Pull(amount) ==
  /\ amount <= approved /\ amount <= holds
  /\ approved' = approved - amount
  /\ holds' = holds - amount
  /\ UNCHANGED <<sessions, sellAllowed, balance, frame, sent, now>>

Counted(k, value) == sent' = [sent EXCEPT ![k] = sent[k] + value]

CallReturns ==
  /\ frame.kind \in {"execute", "owner"}
  /\ frame' = NoFrame
  /\ IF frame.kind = "execute" THEN Counted(frame.by, frame.value) ELSE UNCHANGED sent
  /\ UNCHANGED <<sessions, sellAllowed, balance, holds, approved, now>>

\* Mutant: what the router left of the approval stays.
SellReturnsApproved ==
  /\ frame.kind = "sell"
  /\ holds + frame.amountIn >= frame.before.holds
  /\ balance >= frame.before.balance + frame.minOut
  /\ frame' = NoFrame
  /\ UNCHANGED <<sessions, sellAllowed, balance, holds, approved, sent, now>>

SellReturns ==
  /\ frame.kind = "sell"
  /\ holds + frame.amountIn >= frame.before.holds
  /\ balance >= frame.before.balance + frame.minOut
  /\ approved' = 0
  /\ frame' = NoFrame
  /\ UNCHANGED <<sessions, sellAllowed, balance, holds, sent, now>>

\* CallFailed, SoldTooMuch, ProceedsShort: the transaction leaves no trace.
Reverts ==
  /\ frame # NoFrame
  /\ sessions' = frame.before.sessions
  /\ sellAllowed' = frame.before.sellAllowed
  /\ balance' = frame.before.balance
  /\ holds' = frame.before.holds
  /\ approved' = frame.before.approved
  /\ frame' = NoFrame
  /\ UNCHANGED <<sent, now>>

\* A transaction is in one block.
Elapses ==
  /\ frame = NoFrame
  /\ now < MAX_TIME
  /\ now' = now + 1
  /\ UNCHANGED <<sessions, sellAllowed, balance, holds, approved, frame, sent>>

----------------------------------------------------------------------------
KeyNext(k) ==
  \/ \E s \in Grants : Grant(k, s)
  \/ Pause(k) \/ Resume(k) \/ Revoke(k)
  \/ \E b \in BOOLEAN : SetSellAllowed(k, b)
  \/ \E t \in Targets, v \in Values : Call(k, t, v)
  \/ \E v, w \in Values : SellCall(k, v, w)

\* Everything but the end of a sale and a revert.
GoesOn ==
  \/ \E k \in Keys : KeyNext(k)
  \/ \E v \in Values : \/ Withdraw(v) \/ WithdrawToken(v) \/ Receive(v) \/ ReceiveToken(v)
                       \/ OwnerCall(v) \/ Pull(v)
  \/ CallReturns \/ Elapses

SessionNext == GoesOn \/ SellReturns \/ Reverts

SessionSpec == SessionInit /\ [][SessionNext]_sessionVars

----------------------------------------------------------------------------
(* Properties.                                                             *)

\* What the calls of a key have sent is what its session says it spent, less
\* the call under way, and never over its cap, whoever is called back.
SentIsSpent ==
  \A k \in Keys :
    /\ sent[k] + (IF frame.kind = "execute" /\ frame.by = k THEN frame.value ELSE 0)
         = sessions[k].spentValue
    /\ sent[k] <= sessions[k].totalValueCap

\* "no approval outlives a sale" (SessionAccount.sol:56): the router may pull
\* only while a sale is under way, and no more than it was made for.
ApprovalEndsWithSale ==
  approved > 0 => frame.kind = "sell" /\ approved <= frame.amountIn

=============================================================================
