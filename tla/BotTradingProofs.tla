-------------------------- MODULE BotTradingProofs --------------------------
(***************************************************************************)
(* What holds of the bot's trades, for any keys, grants, amounts, taps,    *)
(* requests, leaders' buys, followers, passes and lengths of time.         *)
(*                                                                         *)
(* The account first.  A revert puts back the state from before the call,  *)
(* so the invariant says of that state what it says of the present one:    *)
(* BooksOK is what a table of sessions has to satisfy against what was     *)
(* sent.  Then the taps that sell from it: a request that holds the trade  *)
(* lock lives inside it (Exclusive), a tap is in one place (Tapped), and a *)
(* sale nobody has given up is one somebody waits for (Watched).           *)
(*                                                                         *)
(* Then the desk that mirrors a leader's buys, by two arguments.  A buy is *)
(* claimed once, so one pass mirrors it, and that pass goes through the    *)
(* followers in order: nobody at or after its turn has the buy yet         *)
(* (Claims).  And every ledger is added to before it is compared, so what  *)
(* is counted is never less than what was sent and what may still be: of   *)
(* the token's room (RoomKept, RoomGranted), and of each follower's day,   *)
(* where a tap reads before it counts (DayCounted, DayGranted).            *)
(***************************************************************************)
EXTENDS BotTaps, VenueCopies, TotalsProofs, SequenceTheorems, TLAPS

----------------------------------------------------------------------------
(* The account.                                                            *)

Snapshot == [sessions : [Keys -> Session], sellAllowed : [Keys -> BOOLEAN], balance : Nat,
             holds : Nat, approved : Nat]

Frame ==
  {NoFrame}
    \union [kind : {"execute"}, by : Keys, value : Nat, before : Snapshot]
    \union [kind : {"owner"}, value : Nat, before : Snapshot]
    \union [kind : {"sell"}, by : Keys, value : Nat, before : Snapshot,
            amountIn : Nat, minOut : Nat]

SessionTypeOK ==
  /\ sessions \in [Keys -> Session]
  /\ sellAllowed \in [Keys -> BOOLEAN]
  /\ balance \in Nat /\ holds \in Nat /\ approved \in Nat
  /\ frame \in Frame
  /\ sent \in [Keys -> Nat]
  /\ now \in Nat

underWay(k) == IF frame.kind = "execute" /\ frame.by = k THEN frame.value ELSE 0

\* A table of sessions, against what each key has sent and is sending.
BooksOK(table, extra) ==
  \A k \in Keys :
    /\ sent[k] + extra[k] = table[k].spentValue
    /\ table[k].spentValue <= table[k].totalValueCap
    /\ ~table[k].exists => table[k].spentValue = 0

Books == BooksOK(sessions, [k \in Keys |-> underWay(k)])

Restorable ==
  frame # NoFrame =>
    /\ BooksOK(frame.before.sessions, [k \in Keys |-> 0])
    /\ frame.before.approved = 0

AccountInv == SessionTypeOK /\ Books /\ Restorable /\ ApprovalEndsWithSale

----------------------------------------------------------------------------
(* The taps.                                                               *)

Status == {"sent", "landed", "reverted"}
Sale   == [tap : Taps, amountIn : Nat, minOut : Nat, past : Seq(Status)]
Tx     == [sale : Sale, status : Status, unseen : BOOLEAN]

Request ==
  {AtRest}
    \union [pc : {"take", "read"}, at : Nat, tap : Taps]
    \union [pc : {"send"}, at : Nat, sale : Sale]
    \union [pc : {"wait"}, at : Nat, tx : Nat]
    \union [pc : {"free"}, at : Nat]

TapsTypeOK ==
  /\ updates \in SUBSET Taps
  /\ lockUntil \in Nat \union {Unlocked}
  /\ requests \in [Requests -> Request]
  /\ txs \in Seq(Tx)
  /\ mining \in {NoTx} \union DOMAIN txs

holding(request)  == request.pc \in {"read", "send", "wait", "free"}
carrying(request) == request.pc \in {"take", "read", "send"}
tapOf(request)    == IF request.pc = "send" THEN request.sale.tap ELSE request.tap

\* A request lives inside the platform's limit, and one that holds the lock
\* inside the lock: nobody else holds it.
Exclusive ==
  /\ \A r \in Requests : requests[r].pc # "idle" =>
       requests[r].at <= now /\ now <= requests[r].at + LIFE
  /\ \A r \in Requests : holding(requests[r]) => requests[r].at + LOCK <= lockUntil
  /\ \A r, q \in Requests : holding(requests[r]) /\ holding(requests[q]) => r = q

\* A tap that was claimed is with one request or is one sale.
Tapped ==
  /\ \A r \in Requests : carrying(requests[r]) =>
       /\ tapOf(requests[r]) \in updates
       /\ \A h \in DOMAIN txs : txs[h].sale.tap # tapOf(requests[r])
       /\ \A q \in Requests : carrying(requests[q]) /\ tapOf(requests[q]) = tapOf(requests[r])
                                => q = r
  /\ \A h \in DOMAIN txs : txs[h].sale.tap \in updates

\* A sale on its way is waited for, or its request ended without a receipt.
Watched ==
  /\ \A r \in Requests : requests[r].pc = "wait" => requests[r].tx \in DOMAIN txs
  /\ \A h \in DOMAIN txs : txs[h].status = "sent" /\ ~txs[h].unseen =>
       \E r \in Requests : requests[r].pc = "wait" /\ requests[r].tx = h

\* A share that was read is of the position the earlier sales left.
ReadLast ==
  \A r \in Requests : requests[r].pc = "send" =>
    /\ Len(requests[r].sale.past) = Len(txs)
    /\ \A g \in DOMAIN txs : requests[r].sale.past[g] = "sent" => txs[g].unseen

TapsInv ==
  AccountInv /\ TapsTypeOK /\ Exclusive /\ Tapped /\ Watched /\ ReadLast /\ TapsSellOneByOne

----------------------------------------------------------------------------
(* Every call of the account keeps its invariant.                          *)

LEMMA AccountStarts == SessionInit => AccountInv
<1> SUFFICES ASSUME SessionInit PROVE AccountInv
  OBVIOUS
<1>1. NoSession \in Session
  BY DEF NoSession, Session
<1>2. SessionTypeOK
  BY <1>1 DEF SessionInit, SessionTypeOK, Frame
<1>3. Books /\ Restorable /\ ApprovalEndsWithSale
  BY DEF SessionInit, Books, BooksOK, underWay, NoSession, NoFrame, Restorable, ApprovalEndsWithSale
<1> QED BY <1>2, <1>3 DEF AccountInv

\* Calls that change one session and neither what it spent nor its cap.
LEMMA SessionSet ==
  ASSUME AccountInv, NEW k \in Keys, NEW new \in Session, SetSession(k, new),
         /\ new.spentValue = sessions[k].spentValue
         /\ new.spentValue <= new.totalValueCap
         /\ ~new.exists => new.spentValue = 0
  PROVE  AccountInv'
<1>1. SessionTypeOK'
  BY DEF AccountInv, SessionTypeOK, SetSession
<1>2. Books'
  BY DEF AccountInv, SessionTypeOK, Books, BooksOK, underWay, SetSession
<1>3. Restorable' /\ ApprovalEndsWithSale'
  BY DEF AccountInv, Restorable, BooksOK, ApprovalEndsWithSale, SetSession
<1> QED BY <1>1, <1>2, <1>3 DEF AccountInv

LEMMA GrantStep ==
  ASSUME AccountInv, NEW k \in Keys, NEW session \in Grants, Grant(k, session)
  PROVE  AccountInv'
<1>1. /\ session \in Session /\ session.exists /\ session.spentValue = 0
      /\ session.totalValueCap \in Nat
  BY SessionGrants DEF Session
<1>2. sessions[k].spentValue = 0
  BY DEF Grant, AccountInv, Books, BooksOK
<1> QED BY <1>1, <1>2, SessionSet DEF Grant

LEMMA SwitchStep ==
  ASSUME AccountInv, NEW k \in Keys, Pause(k) \/ Resume(k) \/ Revoke(k)
  PROVE  AccountInv'
<1>1. sessions[k] \in Session
  BY DEF AccountInv, SessionTypeOK
<1>2. sessions[k].exists
  BY DEF Pause, Resume, Revoke, live
<1>3. PICK new \in {[sessions[k] EXCEPT !.paused = TRUE], [sessions[k] EXCEPT !.paused = FALSE],
                    [sessions[k] EXCEPT !.revoked = TRUE]} : SetSession(k, new)
  BY DEF Pause, Resume, Revoke
<1>4. /\ new \in Session /\ new.exists /\ new.spentValue = sessions[k].spentValue
      /\ new.totalValueCap = sessions[k].totalValueCap
  BY <1>1, <1>2, <1>3 DEF Session
<1>5. sessions[k].spentValue <= sessions[k].totalValueCap
  BY DEF AccountInv, Books, BooksOK
<1> QED BY <1>3, <1>4, <1>5, SessionSet

\* Calls that move money or flags and leave sessions, counts and the frame alone.
LEMMA MoneyStep ==
  ASSUME AccountInv, UNCHANGED <<sessions, frame, sent>>,
         sellAllowed' \in [Keys -> BOOLEAN], balance' \in Nat, holds' \in Nat, now' \in Nat,
         approved' \in Nat, approved' <= approved
  PROVE  AccountInv'
<1>1. SessionTypeOK'
  BY DEF AccountInv, SessionTypeOK
<1>2. Books' /\ Restorable'
  BY DEF AccountInv, Books, BooksOK, underWay, Restorable
<1>3. ApprovalEndsWithSale'
  <2> SUFFICES ASSUME approved' > 0 PROVE frame.kind = "sell" /\ approved' <= frame.amountIn
    BY DEF ApprovalEndsWithSale
  <2>1. approved > 0 /\ frame.kind = "sell" /\ approved <= frame.amountIn
    BY DEF AccountInv, SessionTypeOK, ApprovalEndsWithSale
  <2>2. frame.amountIn \in Nat
    BY <2>1 DEF AccountInv, SessionTypeOK, Frame, NoFrame
  <2> QED BY <2>1, <2>2 DEF AccountInv, SessionTypeOK
<1> QED BY <1>1, <1>2, <1>3 DEF AccountInv

LEMMA TransferStep ==
  ASSUME AccountInv, NEW v \in Values,
         Withdraw(v) \/ WithdrawToken(v) \/ Receive(v) \/ ReceiveToken(v) \/ Pull(v)
  PROVE  AccountInv'
<1> USE DEF AccountInv, SessionTypeOK
<1>0. v \in Nat
  BY SessionNumbers
<1>1. CASE Withdraw(v)
  BY <1>0, <1>1, MoneyStep DEF Withdraw
<1>2. CASE WithdrawToken(v)
  BY <1>0, <1>2, MoneyStep DEF WithdrawToken
<1>3. CASE Receive(v)
  BY <1>0, <1>3, MoneyStep DEF Receive
<1>4. CASE ReceiveToken(v)
  BY <1>0, <1>4, MoneyStep DEF ReceiveToken
<1>5. CASE Pull(v)
  BY <1>0, <1>5, MoneyStep DEF Pull
<1> QED BY <1>1, <1>2, <1>3, <1>4, <1>5

\* The state a call starts from can be put back.
LEMMA BeforeCall ==
  ASSUME AccountInv, frame = NoFrame
  PROVE  /\ Before \in Snapshot /\ Before.sessions = sessions /\ Before.approved = 0
         /\ BooksOK(sessions, [k \in Keys |-> 0])
         /\ approved = 0
<1>1. approved = 0
  BY DEF AccountInv, SessionTypeOK, ApprovalEndsWithSale, NoFrame
<1>2. Before \in Snapshot /\ Before.sessions = sessions /\ Before.approved = 0
  BY <1>1 DEF Before, Snapshot, AccountInv, SessionTypeOK
<1>3. \A k \in Keys : underWay(k) = 0
  BY DEF underWay, NoFrame
<1>4. BooksOK(sessions, [k \in Keys |-> 0])
  BY <1>3 DEF AccountInv, Books, BooksOK
<1> QED BY <1>1, <1>2, <1>4

LEMMA CallStep ==
  ASSUME AccountInv, NEW k \in Keys, NEW target, NEW value \in Nat, Call(k, target, value)
  PROVE  AccountInv'
<1> DEFINE spent == sessions[k].spentValue + value
           new   == [sessions[k] EXCEPT !.spentValue = spent]
<1>1. /\ Before \in Snapshot /\ Before.sessions = sessions /\ Before.approved = 0
      /\ BooksOK(sessions, [j \in Keys |-> 0]) /\ approved = 0
  BY BeforeCall DEF Call
<1>2. /\ sessions[k] \in Session /\ sessions[k].exists /\ spent <= sessions[k].totalValueCap
      /\ value <= balance
  BY DEF Call, Authorized, live, AccountInv, SessionTypeOK
<1>3. /\ new \in Session /\ new.spentValue = spent /\ new.exists
      /\ new.totalValueCap = sessions[k].totalValueCap
  BY <1>2 DEF Session
<1>4. sessions' = [sessions EXCEPT ![k] = new]
  BY DEF Call, Spend
<1>5. /\ frame' = [kind |-> "execute", by |-> k, value |-> value, before |-> Before]
      /\ UNCHANGED <<sellAllowed, holds, approved, sent, now>> /\ balance' = balance - value
  BY DEF Call
<1>6. frame' \in Frame
  BY <1>1, <1>5 DEF Frame
<1> HIDE DEF new, spent
<1>7. SessionTypeOK'
  BY <1>2, <1>3, <1>4, <1>5, <1>6 DEF AccountInv, SessionTypeOK
<1>8. Books'
  <2>1. \A j \in Keys : underWay(j)' = IF j = k THEN value ELSE 0
    BY <1>5 DEF underWay
  <2>2. \A j \in Keys : j # k => sessions'[j] = sessions[j]
    BY <1>4 DEF AccountInv, SessionTypeOK
  <2>3. sessions'[k] = new
    BY <1>4 DEF AccountInv, SessionTypeOK
  <2>4. sent' = sent /\ sent \in [Keys -> Nat] /\ sessions \in [Keys -> Session]
    BY <1>5 DEF AccountInv, SessionTypeOK
  <2>5. sent[k] = sessions[k].spentValue
    BY <1>1, <2>4 DEF BooksOK
  <2>6. \A j \in Keys : j # k => /\ sent[j] = sessions[j].spentValue
                                 /\ sessions[j].spentValue <= sessions[j].totalValueCap
                                 /\ ~sessions[j].exists => sessions[j].spentValue = 0
    BY <1>1, <2>4 DEF BooksOK
  <2>7. sent[k] + value = new.spentValue /\ new.spentValue <= new.totalValueCap /\ new.exists
    BY <1>2, <1>3, <2>5 DEF spent
  <2>8. \A j \in Keys :
          /\ sent'[j] + underWay(j)' = sessions'[j].spentValue
          /\ sessions'[j].spentValue <= sessions'[j].totalValueCap
          /\ ~sessions'[j].exists => sessions'[j].spentValue = 0
    <3> TAKE j \in Keys
    <3>1. CASE j = k
      BY <3>1, <2>1, <2>3, <2>4, <2>7
    <3>2. CASE j # k
      BY <3>2, <2>1, <2>2, <2>4, <2>6
    <3> QED BY <3>1, <3>2
  <2> QED BY <2>8 DEF Books, BooksOK
<1>9. Restorable' /\ ApprovalEndsWithSale'
  BY <1>1, <1>5 DEF Restorable, BooksOK, ApprovalEndsWithSale
<1> QED BY <1>7, <1>8, <1>9 DEF AccountInv

LEMMA OwnerCallStep ==
  ASSUME AccountInv, NEW value \in Nat, OwnerCall(value)
  PROVE  AccountInv'
<1>1. /\ Before \in Snapshot /\ Before.sessions = sessions /\ Before.approved = 0
      /\ BooksOK(sessions, [j \in Keys |-> 0]) /\ approved = 0
  BY BeforeCall DEF OwnerCall
<1>2. /\ frame' = [kind |-> "owner", value |-> value, before |-> Before]
      /\ UNCHANGED <<sessions, sellAllowed, holds, approved, sent, now>>
      /\ value <= balance /\ balance' = balance - value
  BY DEF OwnerCall
<1>3. frame' \in Frame
  BY <1>1, <1>2 DEF Frame
<1>4. SessionTypeOK'
  BY <1>2, <1>3 DEF AccountInv, SessionTypeOK
<1>5. \A j \in Keys : underWay(j)' = 0
  BY <1>2 DEF underWay
<1>6. Books'
  BY <1>1, <1>2, <1>5 DEF Books, BooksOK
<1>7. Restorable' /\ ApprovalEndsWithSale'
  BY <1>1, <1>2 DEF Restorable, BooksOK, ApprovalEndsWithSale
<1> QED BY <1>4, <1>6, <1>7 DEF AccountInv

LEMMA SellCallStep ==
  ASSUME AccountInv, NEW k \in Keys, NEW amountIn \in Nat, NEW minOut \in Nat,
         SellCall(k, amountIn, minOut)
  PROVE  AccountInv'
<1>1. /\ Before \in Snapshot /\ Before.sessions = sessions /\ Before.approved = 0
      /\ BooksOK(sessions, [j \in Keys |-> 0])
  BY BeforeCall DEF SellCall
<1>2. /\ frame' = [kind |-> "sell", by |-> k, value |-> 0, before |-> Before,
                   amountIn |-> amountIn, minOut |-> minOut]
      /\ approved' = amountIn
      /\ UNCHANGED <<sessions, sellAllowed, balance, holds, sent, now>>
  BY DEF SellCall
<1>3. frame' \in Frame
  BY <1>1, <1>2 DEF Frame
<1>4. SessionTypeOK'
  BY <1>2, <1>3 DEF AccountInv, SessionTypeOK
<1>5. \A j \in Keys : underWay(j)' = 0
  BY <1>2 DEF underWay
<1>6. Books'
  BY <1>1, <1>2, <1>5 DEF Books, BooksOK
<1>7. Restorable' /\ ApprovalEndsWithSale'
  BY <1>1, <1>2 DEF Restorable, BooksOK, ApprovalEndsWithSale
<1> QED BY <1>4, <1>6, <1>7 DEF AccountInv

LEMMA CallReturnsStep ==
  ASSUME AccountInv, CallReturns
  PROVE  AccountInv'
<1>1. frame' = NoFrame /\ UNCHANGED <<sessions, sellAllowed, balance, holds, approved, now>>
  BY DEF CallReturns
<1>2. \A j \in Keys : underWay(j)' = 0
  BY <1>1 DEF underWay, NoFrame
<1>3. sent' \in [Keys -> Nat] /\ \A j \in Keys : sent'[j] = sent[j] + underWay(j)
  <2>1. CASE frame.kind = "execute"
    <3>1. frame.by \in Keys /\ frame.value \in Nat
      BY <2>1 DEF AccountInv, SessionTypeOK, Frame, NoFrame
    <3>2. sent' = [sent EXCEPT ![frame.by] = sent[frame.by] + frame.value]
      BY <2>1 DEF CallReturns, Counted
    <3> QED BY <2>1, <3>1, <3>2 DEF underWay, AccountInv, SessionTypeOK
  <2>2. CASE frame.kind # "execute"
    BY <2>2 DEF CallReturns, underWay, AccountInv, SessionTypeOK
  <2> QED BY <2>1, <2>2
<1>4. SessionTypeOK'
  BY <1>1, <1>3 DEF AccountInv, SessionTypeOK, Frame
<1>5. Books'
  BY <1>1, <1>2, <1>3 DEF AccountInv, SessionTypeOK, Books, BooksOK
<1>6. Restorable' /\ ApprovalEndsWithSale'
  BY <1>1 DEF CallReturns, AccountInv, Restorable, ApprovalEndsWithSale, SessionTypeOK
<1> QED BY <1>4, <1>5, <1>6 DEF AccountInv

LEMMA SellReturnsStep ==
  ASSUME AccountInv, SellReturns
  PROVE  AccountInv'
<1>1. /\ frame.kind = "sell" /\ frame' = NoFrame /\ approved' = 0
      /\ UNCHANGED <<sessions, sellAllowed, balance, holds, sent, now>>
  BY DEF SellReturns
<1>2. \A j \in Keys : underWay(j)' = 0 /\ underWay(j) = 0
  BY <1>1 DEF underWay, NoFrame
<1>3. SessionTypeOK'
  BY <1>1 DEF AccountInv, SessionTypeOK, Frame
<1>4. Books'
  BY <1>1, <1>2 DEF AccountInv, Books, BooksOK
<1>5. Restorable' /\ ApprovalEndsWithSale'
  BY <1>1 DEF Restorable, ApprovalEndsWithSale
<1> QED BY <1>3, <1>4, <1>5 DEF AccountInv

LEMMA RevertsStep ==
  ASSUME AccountInv, Reverts
  PROVE  AccountInv'
<1>1. frame # NoFrame /\ frame.before \in Snapshot
  BY DEF Reverts, AccountInv, SessionTypeOK, Frame
<1>2. frame' = NoFrame /\ UNCHANGED <<sent, now>>
  BY DEF Reverts
<1>3. /\ BooksOK(frame.before.sessions, [k \in Keys |-> 0])
      /\ frame.before.approved = 0
  BY <1>1 DEF AccountInv, Restorable
<1>4. SessionTypeOK'
  BY <1>1, <1>2 DEF Reverts, Snapshot, AccountInv, SessionTypeOK, Frame
<1>5. \A j \in Keys : underWay(j)' = 0
  BY <1>2 DEF underWay, NoFrame
<1>6. Books'
  BY <1>2, <1>3, <1>5 DEF Reverts, Books, BooksOK
<1>7. Restorable' /\ ApprovalEndsWithSale'
  BY <1>2, <1>3 DEF Reverts, Restorable, ApprovalEndsWithSale
<1> QED BY <1>4, <1>6, <1>7 DEF AccountInv

LEMMA GoesOnStep == AccountInv /\ GoesOn => AccountInv'
<1> SUFFICES ASSUME AccountInv, GoesOn PROVE AccountInv'
  OBVIOUS
<1>1. ASSUME NEW k \in Keys, KeyNext(k) PROVE AccountInv'
  <2>1. ASSUME NEW s \in Grants, Grant(k, s) PROVE AccountInv'
    BY <2>1, GrantStep
  <2>2. CASE Pause(k) \/ Resume(k) \/ Revoke(k)
    BY <2>2, SwitchStep
  <2>3. ASSUME NEW b \in BOOLEAN, SetSellAllowed(k, b) PROVE AccountInv'
    BY <2>3, MoneyStep DEF SetSellAllowed, AccountInv, SessionTypeOK
  <2>4. ASSUME NEW t \in Targets, NEW v \in Values, Call(k, t, v) PROVE AccountInv'
    BY <2>4, CallStep, SessionNumbers
  <2>5. ASSUME NEW v \in Values, NEW w \in Values, SellCall(k, v, w) PROVE AccountInv'
    BY <2>5, SellCallStep, SessionNumbers
  <2> QED BY <1>1, <2>1, <2>2, <2>3, <2>4, <2>5 DEF KeyNext
<1>2. ASSUME NEW v \in Values,
             \/ Withdraw(v) \/ WithdrawToken(v) \/ Receive(v) \/ ReceiveToken(v)
             \/ OwnerCall(v) \/ Pull(v)
      PROVE  AccountInv'
  <2>1. CASE OwnerCall(v)
    BY <2>1, OwnerCallStep, SessionNumbers
  <2>2. CASE \/ Withdraw(v) \/ WithdrawToken(v) \/ Receive(v) \/ ReceiveToken(v) \/ Pull(v)
    BY <2>2, TransferStep
  <2> QED BY <1>2, <2>1, <2>2
<1>3. CASE CallReturns
  BY <1>3, CallReturnsStep
<1>4. CASE Elapses
  BY <1>4, MoneyStep DEF Elapses, AccountInv, SessionTypeOK
<1> QED BY <1>1, <1>2, <1>3, <1>4 DEF GoesOn

LEMMA AccountKept == AccountInv /\ UNCHANGED sessionVars => AccountInv'
BY DEF AccountInv, SessionTypeOK, Books, BooksOK, underWay, Restorable, ApprovalEndsWithSale,
       sessionVars

LEMMA AccountStep == AccountInv /\ [SessionNext]_sessionVars => AccountInv'
BY GoesOnStep, SellReturnsStep, RevertsStep, AccountKept DEF SessionNext

LEMMA AccountGivesSent == AccountInv => SentIsSpent
<1> SUFFICES ASSUME AccountInv, NEW k \in Keys
             PROVE  /\ sent[k] + underWay(k) = sessions[k].spentValue
                    /\ sent[k] <= sessions[k].totalValueCap
  BY DEF SentIsSpent, underWay
<1>1. underWay(k) \in Nat
  BY DEF AccountInv, SessionTypeOK, Frame, NoFrame, underWay
<1>2. /\ sent[k] + underWay(k) = sessions[k].spentValue
      /\ sessions[k].spentValue <= sessions[k].totalValueCap
  BY DEF AccountInv, Books, BooksOK
<1>3. sent[k] \in Nat /\ sessions[k].totalValueCap \in Nat
  BY DEF AccountInv, SessionTypeOK, Session
<1> QED BY <1>1, <1>2, <1>3

\* What the calls of a key have sent is what its session says it spent, less the call
\* under way, and never over its cap, for any keys, targets, grants and amounts.
THEOREM AccountSentIsSpent == SessionSpec => []SentIsSpent
<1>1. SessionInit => AccountInv
  BY AccountStarts
<1>2. AccountInv /\ [SessionNext]_sessionVars => AccountInv'
  BY AccountStep
<1>3. AccountInv => SentIsSpent
  BY AccountGivesSent
<1> QED BY <1>1, <1>2, <1>3, PTL DEF SessionSpec

\* The router may pull only while a sale is under way, and no more than that sale is
\* for, whatever the account was before and whoever is called back.
THEOREM AccountApproval == SessionSpec => []ApprovalEndsWithSale
<1>1. SessionInit => AccountInv
  BY AccountStarts
<1>2. AccountInv /\ [SessionNext]_sessionVars => AccountInv'
  BY AccountStep
<1>3. AccountInv => ApprovalEndsWithSale
  BY DEF AccountInv
<1> QED BY <1>1, <1>2, <1>3, PTL DEF SessionSpec

----------------------------------------------------------------------------
(* The desk: what steps do to the account, to the sales and to a request.  *)

TapsRest == TapsTypeOK /\ Exclusive /\ Tapped /\ Watched /\ ReadLast /\ TapsSellOneByOne

LEMMA TapsStart == TapsInit => TapsInv
<1> SUFFICES ASSUME TapsInit PROVE TapsInv
  OBVIOUS
<1>1. AccountInv
  BY AccountStarts DEF TapsInit
<1>2. AtRest \in Request /\ \A r \in Requests : requests[r] = AtRest
  BY DEF TapsInit, Request
<1>3. txs = <<>> /\ DOMAIN txs = {} /\ txs \in Seq(Tx)
  BY EmptySeq, LenProperties DEF TapsInit
<1>4. TapsTypeOK
  BY <1>2, <1>3 DEF TapsInit, TapsTypeOK, Unlocked, NoTx
<1>5. Exclusive /\ Tapped /\ Watched /\ ReadLast /\ TapsSellOneByOne
  BY <1>2, <1>3 DEF AtRest, Exclusive, Tapped, Watched, ReadLast, TapsSellOneByOne, holding, carrying
<1> QED BY <1>1, <1>4, <1>5 DEF TapsInv

\* Sales are marked and never rewritten: a sale that was mined stays mined, one that
\* was given up stays given up.
Marked ==
  /\ txs' \in Seq(Tx) /\ Len(txs') = Len(txs) /\ DOMAIN txs' = DOMAIN txs
  /\ \A h \in DOMAIN txs : /\ txs'[h].sale = txs[h].sale
                           /\ txs'[h].status = "sent" => txs[h].status = "sent"
                           /\ txs[h].unseen => txs'[h].unseen

LEMMA MarkedSame == ASSUME txs \in Seq(Tx), txs' = txs PROVE Marked
BY DEF Marked

LEMMA TxFields ==
  ASSUME TapsTypeOK, NEW h \in DOMAIN txs
  PROVE  txs[h] \in Tx /\ txs[h].sale \in Sale /\ Len(txs) \in Nat /\ h \in 1..Len(txs)
<1>1. txs \in Seq(Tx)
  BY DEF TapsTypeOK
<1>2. h \in 1..Len(txs) /\ Len(txs) \in Nat
  BY <1>1, LenProperties
<1>3. txs[h] \in Tx
  BY <1>1, <1>2, ElementOfSeq
<1> QED BY <1>2, <1>3 DEF Tx

LEMMA MarkOne ==
  ASSUME TapsTypeOK, NEW h \in DOMAIN txs, NEW new \in Tx, txs' = [txs EXCEPT ![h] = new],
         new.sale = txs[h].sale, new.status = "sent" => txs[h].status = "sent",
         txs[h].unseen => new.unseen
  PROVE  Marked
<1>1. txs \in Seq(Tx) /\ h \in 1..Len(txs) /\ DOMAIN txs = 1..Len(txs)
  BY TxFields, LenProperties DEF TapsTypeOK
<1>2. /\ txs' \in Seq(Tx) /\ Len(txs') = Len(txs)
      /\ \A j \in 1..Len(txs) : txs'[j] = IF j = h THEN new ELSE txs[j]
  BY <1>1, ExceptSeq
<1>3. DOMAIN txs' = 1..Len(txs)
  BY <1>2, LenProperties
<1> QED BY <1>1, <1>2, <1>3 DEF Marked

LEMMA MarkUnseen ==
  ASSUME TapsTypeOK, NEW h \in DOMAIN txs, Unseen(h)
  PROVE  Marked /\ txs'[h].unseen
<1> DEFINE new == [txs[h] EXCEPT !.unseen = TRUE]
<1>1. txs[h] \in Tx /\ h \in 1..Len(txs) /\ txs \in Seq(Tx)
  BY TxFields DEF TapsTypeOK
<1>2. /\ new \in Tx /\ new.sale = txs[h].sale /\ new.status = txs[h].status
      /\ new.unseen = TRUE
  BY <1>1 DEF Tx
<1>3. txs' = [txs EXCEPT ![h] = new]
  BY DEF Unseen
<1> HIDE DEF new
<1>4. Marked
  BY <1>2, <1>3, MarkOne
<1>5. txs'[h] = new
  BY <1>1, <1>2, <1>3, ExceptSeq
<1> QED BY <1>2, <1>4, <1>5

LEMMA MarkStatus ==
  ASSUME TapsTypeOK, NEW h \in DOMAIN txs, NEW status \in Status \ {"sent"},
         txs' = [txs EXCEPT ![h] = [@ EXCEPT !.status = status]]
  PROVE  Marked
<1> DEFINE new == [txs[h] EXCEPT !.status = status]
<1>1. txs[h] \in Tx
  BY TxFields
<1>2. /\ new \in Tx /\ new.sale = txs[h].sale /\ new.status = status
      /\ new.unseen = txs[h].unseen
  BY <1>1 DEF Tx, Status
<1>3. txs' = [txs EXCEPT ![h] = new]
  OBVIOUS
<1> HIDE DEF new
<1> QED BY <1>2, <1>3, MarkOne

LEMMA MarkOutcome ==
  ASSUME TapsTypeOK, NEW status \in Status \ {"sent"}, Outcome(status)
  PROVE  Marked /\ mining' = NoTx
<1>1. CASE mining = NoTx
  BY <1>1, MarkedSame DEF Outcome, TapsTypeOK
<1>2. CASE mining # NoTx
  <2>1. mining \in DOMAIN txs
    BY <1>2 DEF TapsTypeOK
  <2>2. txs' = [txs EXCEPT ![mining] = [@ EXCEPT !.status = status]]
    BY <1>2 DEF Outcome
  <2> QED BY <2>1, <2>2, MarkStatus DEF Outcome
<1> QED BY <1>1, <1>2

LEMMA MarkedSales ==
  ASSUME TapsTypeOK, TapsSellOneByOne, Marked
  PROVE  TapsSellOneByOne'
<1>1. DOMAIN txs = 1..Len(txs) /\ Len(txs) \in Nat
  BY LenProperties DEF TapsTypeOK
<1>2. ASSUME NEW h \in DOMAIN txs
      PROVE  /\ DOMAIN txs'[h].sale.past = 1..(h - 1)
             /\ \A g \in 1..(h - 1) : /\ txs'[h].sale.past[g] = "sent" => txs'[g].unseen
                                      /\ txs'[h].sale.tap # txs'[g].sale.tap
  <2>1. txs'[h].sale = txs[h].sale
    BY DEF Marked
  <2>2. /\ DOMAIN txs[h].sale.past = 1..(h - 1)
        /\ \A g \in 1..(h - 1) : /\ txs[h].sale.past[g] = "sent" => txs[g].unseen
                                 /\ txs[h].sale.tap # txs[g].sale.tap
    BY DEF TapsSellOneByOne
  <2>3. \A g \in 1..(h - 1) : g \in DOMAIN txs
    BY <1>1
  <2>4. \A g \in 1..(h - 1) : txs'[g].sale = txs[g].sale /\ (txs[g].unseen => txs'[g].unseen)
    BY <2>3 DEF Marked
  <2> QED BY <2>1, <2>2, <2>4
<1>3. DOMAIN txs' = DOMAIN txs
  BY DEF Marked
<1> QED BY <1>2, <1>3 DEF TapsSellOneByOne

\* A step that leaves every request where it is.
LEMMA ChainStep ==
  ASSUME AccountInv, TapsRest, Marked, UNCHANGED <<updates, lockUntil, requests>>,
         mining' \in {NoTx} \union DOMAIN txs, now' \in Nat, now <= now',
         now' # now => /\ now' = now + 1
                       /\ \A r \in Requests : requests[r].pc # "idle" => now < requests[r].at + LIFE
  PROVE  TapsRest'
<1> USE DEF TapsRest
<1>1. TapsTypeOK'
  BY DEF TapsTypeOK, Marked
<1>2. Exclusive'
  <2>1. ASSUME NEW r \in Requests, requests[r].pc # "idle"
        PROVE  requests[r].at <= now' /\ now' <= requests[r].at + LIFE
    <3>1. requests[r].at \in Nat /\ now \in Nat /\ LIFE \in Nat
      BY <2>1, LockOutlastsRequest DEF TapsTypeOK, Request, AtRest, AccountInv, SessionTypeOK
    <3>2. requests[r].at <= now /\ now <= requests[r].at + LIFE
      BY <2>1 DEF Exclusive
    <3> QED BY <2>1, <3>1, <3>2
  <2> QED BY <2>1 DEF Exclusive
<1>3. Tapped'
  BY DEF Tapped, Marked
<1>4. Watched'
  BY DEF Watched, Marked
<1>5. ReadLast'
  BY DEF ReadLast, Marked
<1>6. TapsSellOneByOne'
  BY MarkedSales
<1> QED BY <1>1, <1>2, <1>3, <1>4, <1>5, <1>6

\* Only the passing of time moves the clock.
LEMMA ClockMoves ==
  ASSUME now \in Nat, GoesOn \/ SellReturns \/ Reverts
  PROVE  now' \in {now, now + 1}
<1>1. CASE GoesOn
  <2>1. CASE \E k \in Keys : KeyNext(k)
    BY <2>1 DEF KeyNext, Grant, Pause, Resume, Revoke, SetSession, SetSellAllowed, Call, SellCall
  <2>2. CASE \E v \in Values : \/ Withdraw(v) \/ WithdrawToken(v) \/ Receive(v)
                               \/ ReceiveToken(v) \/ OwnerCall(v) \/ Pull(v)
    BY <2>2 DEF Withdraw, WithdrawToken, Receive, ReceiveToken, OwnerCall, Pull
  <2>3. CASE CallReturns \/ Elapses
    BY <2>3 DEF CallReturns, Elapses
  <2> QED BY <1>1, <2>1, <2>2, <2>3 DEF GoesOn
<1>2. CASE SellReturns \/ Reverts
  BY <1>2 DEF SellReturns, Reverts
<1> QED BY <1>1, <1>2

LEMMA AccountMoves == TapsInv /\ Account => TapsInv'
<1> SUFFICES ASSUME TapsInv, Account PROVE TapsInv'
  OBVIOUS
<1>1. AccountInv /\ TapsRest /\ TapsTypeOK /\ now \in Nat
  BY DEF TapsInv, TapsRest, AccountInv, SessionTypeOK
<1>2. GoesOn \/ SellReturns \/ Reverts
  BY DEF Account, Ends
<1>3. AccountInv'
  BY <1>1, <1>2, AccountStep DEF SessionNext
<1>4. now' \in {now, now + 1}
  BY <1>1, <1>2, ClockMoves
<1>5. Marked /\ mining' \in {NoTx} \union DOMAIN txs
  <2>1. CASE UNCHANGED <<txs, mining>>
    BY <1>1, <2>1, MarkedSame DEF TapsTypeOK
  <2>2. CASE Outcome("landed") \/ Outcome("reverted")
    BY <1>1, <2>2, MarkOutcome DEF Status
  <2> QED BY <2>1, <2>2 DEF Account, Ends
<1>6. TapsRest'
  BY <1>1, <1>4, <1>5, ChainStep DEF Account, offChain
<1> QED BY <1>3, <1>6 DEF TapsInv, TapsRest

LEMMA MinedStep ==
  ASSUME TapsInv, NEW h \in DOMAIN txs, Mined(h)
  PROVE  TapsInv'
<1>1. AccountInv /\ TapsRest /\ TapsTypeOK /\ now \in Nat
  BY DEF TapsInv, TapsRest, AccountInv, SessionTypeOK
<1>2. txs[h].sale.amountIn \in Nat /\ txs[h].sale.minOut \in Nat
  BY <1>1, TxFields DEF Sale
<1>3. CASE CanSell(Bot)
  <2>1. SellCall(Bot, txs[h].sale.amountIn, txs[h].sale.minOut) /\ mining' = h /\ txs' = txs
        /\ UNCHANGED <<updates, lockUntil, requests>>
    BY <1>3 DEF Mined, offChain
  <2>2. AccountInv'
    BY <1>1, <1>2, <2>1, SellCallStep, TapShares
  <2>3. now' = now
    BY <2>1 DEF SellCall
  <2>4. Marked
    BY <1>1, <2>1, MarkedSame DEF TapsTypeOK
  <2>5. TapsRest'
    BY <1>1, <2>1, <2>3, <2>4, ChainStep
  <2> QED BY <2>2, <2>5 DEF TapsInv, TapsRest
<1>4. CASE ~CanSell(Bot)
  <2>1. /\ txs' = [txs EXCEPT ![h] = [@ EXCEPT !.status = "reverted"]]
        /\ UNCHANGED <<sessionVars, mining, updates, lockUntil, requests>>
    BY <1>4 DEF Mined, offChain
  <2>2. AccountInv'
    BY <1>1, <2>1, AccountKept
  <2>3. now' = now
    BY <2>1 DEF sessionVars
  <2>4. Marked
    BY <1>1, <2>1, MarkStatus DEF Status
  <2>5. TapsRest'
    BY <1>1, <2>1, <2>3, <2>4, ChainStep DEF TapsTypeOK
  <2> QED BY <2>2, <2>5 DEF TapsInv, TapsRest
<1> QED BY <1>3, <1>4

----------------------------------------------------------------------------
(* What a request does.                                                    *)

LEMMA RequestFields ==
  ASSUME TapsTypeOK, NEW r \in Requests
  PROVE  /\ requests[r] \in Request
         /\ requests[r].pc \in {"idle", "take", "read", "send", "wait", "free"}
         /\ requests[r] # AtRest => requests[r].pc # "idle" /\ requests[r].at \in Nat
         /\ requests[r].pc = "idle" => requests[r] = AtRest
         /\ requests[r].pc \in {"take", "read"} => requests[r].tap \in Taps
         /\ requests[r].pc = "take" => [requests[r] EXCEPT !.pc = "read"] =
              [pc |-> "read", at |-> requests[r].at, tap |-> requests[r].tap]
         /\ requests[r].pc = "send" => requests[r].sale \in Sale
         /\ requests[r].pc = "wait" => requests[r].tx \in Nat
<1>1. requests[r] \in Request
  BY DEF TapsTypeOK
<1> QED BY <1>1 DEF Request, AtRest

LEMMA GoFacts ==
  ASSUME TapsTypeOK, NEW r \in Requests, NEW new \in Request, Becomes(r, new)
  PROVE  /\ requests' \in [Requests -> Request]
         /\ requests'[r] = new
         /\ \A q \in Requests : q # r => requests'[q] = requests[q]
BY DEF TapsTypeOK, Becomes

\* A request that ends or is about to: it holds the lock no longer than it did, and
\* if it waited for a receipt the sale is mined or given up.
Ending(r, new) ==
  /\ \/ new = AtRest
     \/ holding(requests[r]) /\ new = [pc |-> "free", at |-> requests[r].at]
  /\ \/ lockUntil' = lockUntil
     \/ holding(requests[r]) /\ new = AtRest /\ lockUntil' = Unlocked
  /\ requests[r].pc = "wait" =>
       txs'[requests[r].tx].unseen \/ txs'[requests[r].tx].status # "sent"
  /\ Becomes(r, new) /\ onChain /\ UNCHANGED updates

LEMMA LetsGo ==
  ASSUME TapsInv, NEW r \in Requests, NEW new, Ending(r, new), Marked
  PROVE  TapsInv'
<1> USE DEF TapsInv, Ending
<1>1. AccountInv'
  BY AccountKept DEF onChain
<1>2. UNCHANGED <<now, mining>> /\ DOMAIN txs' = DOMAIN txs /\ txs' \in Seq(Tx)
      /\ Len(txs') = Len(txs)
  BY DEF onChain, sessionVars, Marked
<1>3. requests[r] \in Request /\ (new # AtRest => requests[r].at \in Nat /\ requests[r].pc # "idle")
  <2>1. ASSUME new # AtRest PROVE requests[r].pc # "idle" /\ requests[r] # AtRest
    BY <2>1 DEF holding, AtRest
  <2> QED BY <2>1, RequestFields
<1>4. new \in Request /\ new.pc \in {"idle", "free"}
  BY <1>3 DEF Request, AtRest
<1>5. /\ requests' \in [Requests -> Request] /\ requests'[r] = new
      /\ \A q \in Requests : q # r => requests'[q] = requests[q]
  BY <1>4, GoFacts
<1>6. TapsTypeOK'
  BY <1>2, <1>5 DEF TapsTypeOK
<1>7. Exclusive'
  <2>1. \A q \in Requests : holding(requests'[q]) => holding(requests[q]) /\ requests'[q].at = requests[q].at
    BY <1>3, <1>5 DEF holding, AtRest
  <2>2. \A q \in Requests : requests'[q].pc # "idle" =>
          requests[q].pc # "idle" /\ requests'[q].at = requests[q].at
    BY <1>3, <1>5 DEF AtRest
  <2>3. \A q \in Requests : holding(requests'[q]) => lockUntil' = lockUntil
    BY <1>5, <2>1 DEF Exclusive, holding, AtRest
  <2> QED BY <1>2, <2>1, <2>2, <2>3 DEF Exclusive
<1>8. Tapped'
  <2>1. \A q \in Requests : carrying(requests'[q]) => q # r /\ requests'[q] = requests[q]
    BY <1>4, <1>5 DEF carrying
  <2>2. \A h \in DOMAIN txs' : txs'[h].sale = txs[h].sale
    BY <1>2 DEF Marked
  <2> QED BY <1>2, <2>1, <2>2 DEF Tapped
<1>9. Watched'
  <2>1. \A q \in Requests : requests'[q].pc = "wait" => q # r /\ requests'[q] = requests[q]
    BY <1>4, <1>5
  <2>2. ASSUME NEW h \in DOMAIN txs, txs'[h].status = "sent", ~txs'[h].unseen
        PROVE  \E q \in Requests : requests'[q].pc = "wait" /\ requests'[q].tx = h
    <3>1. txs[h].status = "sent" /\ ~txs[h].unseen
      BY <2>2 DEF Marked
    <3>2. PICK q \in Requests : requests[q].pc = "wait" /\ requests[q].tx = h
      BY <3>1 DEF Watched
    <3>3. q # r
      BY <2>2, <3>2
    <3> QED BY <1>5, <3>2, <3>3
  <2> QED BY <1>2, <2>1, <2>2 DEF Watched
<1>10. ReadLast'
  <2>1. \A q \in Requests : requests'[q].pc = "send" => q # r /\ requests'[q] = requests[q]
    BY <1>4, <1>5
  <2> QED BY <1>2, <2>1 DEF ReadLast, Marked
<1>11. TapsSellOneByOne'
  BY MarkedSales
<1> QED BY <1>1, <1>6, <1>7, <1>8, <1>9, <1>10, <1>11

\* Steps that sign no sale and free nothing: the request moves on, and what is to show
\* of it is shown of its new state.
Moving(r, new) ==
  /\ Becomes(r, new) /\ onChain /\ UNCHANGED txs
  /\ updates \subseteq updates' /\ updates' \subseteq Taps
  /\ lockUntil' \in Nat \union {Unlocked}
  /\ requests[r].pc # "wait" /\ new.pc \notin {"idle", "wait", "free"}
  /\ new.at = IF requests[r].pc = "idle" THEN now ELSE requests[r].at
  /\ \/ lockUntil' = lockUntil /\ (holding(new) <=> holding(requests[r]))
     \/ lockUntil < now /\ lockUntil' = now + LOCK
  /\ tapOf(new) \in updates'
  /\ \/ carrying(requests[r]) /\ tapOf(new) = tapOf(requests[r])
     \/ tapOf(new) \notin updates
  /\ new.pc = "send" =>
       /\ Len(new.sale.past) = Len(txs)
       /\ \A g \in DOMAIN txs : new.sale.past[g] = "sent" => txs[g].unseen

LEMMA MovesOn ==
  ASSUME TapsInv, NEW r \in Requests, NEW new \in Request, Moving(r, new)
  PROVE  TapsInv'
<1> USE DEF TapsInv, Moving
<1>1. AccountInv'
  BY AccountKept DEF onChain
<1>2. UNCHANGED <<now, mining, txs>> /\ now \in Nat
  BY DEF onChain, sessionVars, AccountInv, SessionTypeOK
<1>3. /\ requests' \in [Requests -> Request] /\ requests'[r] = new
      /\ \A q \in Requests : q # r => requests'[q] = requests[q]
  BY GoFacts
<1>4. TapsTypeOK'
  BY <1>2, <1>3 DEF TapsTypeOK
<1>5. new.at \in Nat /\ new.at <= now /\ now <= new.at + LIFE
  <2>1. CASE requests[r].pc = "idle"
    BY <1>2, <2>1, RequestFields, LockOutlastsRequest DEF AtRest
  <2>2. CASE requests[r].pc # "idle"
    <3>1. requests[r] # AtRest /\ new.at = requests[r].at
      BY <2>2 DEF AtRest
    <3>2. requests[r].at \in Nat
      BY <3>1, RequestFields
    <3> QED BY <2>2, <3>1, <3>2 DEF Exclusive
  <2> QED BY <2>1, <2>2
<1>6. Exclusive'
  <2>1. \A q \in Requests : requests'[q].pc # "idle" =>
          requests'[q].at <= now' /\ now' <= requests'[q].at + LIFE
    BY <1>2, <1>3, <1>5 DEF Exclusive
  <2>2. CASE lockUntil' = lockUntil /\ (holding(new) <=> holding(requests[r]))
    <3>1. holding(requests[r]) => requests[r].pc # "idle"
      BY DEF holding
    <3>2. \A q \in Requests : /\ holding(requests'[q]) <=> holding(requests[q])
                              /\ holding(requests[q]) => requests'[q].at = requests[q].at
      BY <1>3, <2>2, <3>1
    <3>3. \A q \in Requests : holding(requests'[q]) => requests'[q].at + LOCK <= lockUntil'
      BY <2>2, <3>2 DEF Exclusive
    <3>4. \A p, q \in Requests : holding(requests'[p]) /\ holding(requests'[q]) => p = q
      BY <3>2 DEF Exclusive
    <3> QED BY <2>1, <3>3, <3>4 DEF Exclusive
  <2>3. CASE lockUntil < now /\ lockUntil' = now + LOCK
    <3>1. ASSUME NEW q \in Requests, q # r, holding(requests'[q]) PROVE FALSE
      <4>1. requests[q].pc # "idle" /\ requests[q] # AtRest /\ holding(requests[q])
        BY <1>3, <3>1 DEF holding, AtRest
      <4>2. requests[q].at \in Nat
        BY <4>1, RequestFields
      <4>3. requests[q].at + LOCK <= lockUntil /\ now <= requests[q].at + LIFE
        BY <4>1 DEF Exclusive
      <4>4. lockUntil \in Int /\ LIFE \in Nat /\ LOCK \in Nat /\ LIFE < LOCK
        BY LockOutlastsRequest DEF TapsTypeOK, Unlocked
      <4> QED BY <1>2, <2>3, <4>2, <4>3, <4>4
    <3>2. new.at + LOCK <= lockUntil'
      BY <1>2, <1>5, <2>3, LockOutlastsRequest
    <3>3. \A q \in Requests : holding(requests'[q]) => requests'[q].at + LOCK <= lockUntil'
      BY <1>3, <3>1, <3>2
    <3>4. \A p, q \in Requests : holding(requests'[p]) /\ holding(requests'[q]) => p = q
      BY <3>1
    <3> QED BY <2>1, <3>3, <3>4 DEF Exclusive
  <2> QED BY <2>2, <2>3
<1>7. Tapped'
  <2>1. \A h \in DOMAIN txs : txs[h].sale.tap # tapOf(new)
    BY DEF Tapped
  <2>2. \A q \in Requests : carrying(requests[q]) /\ tapOf(requests[q]) = tapOf(new) => q = r
    BY DEF Tapped
  <2>3. ASSUME NEW p \in Requests, carrying(requests'[p])
        PROVE  /\ tapOf(requests'[p]) \in updates'
               /\ \A h \in DOMAIN txs' : txs'[h].sale.tap # tapOf(requests'[p])
               /\ \A q \in Requests : carrying(requests'[q]) /\ tapOf(requests'[q]) = tapOf(requests'[p])
                                        => q = p
    <3>1. CASE p = r
      BY <1>2, <1>3, <2>1, <2>2, <3>1
    <3>2. CASE p # r
      BY <1>2, <1>3, <2>2, <2>3, <3>2 DEF Tapped
    <3> QED BY <3>1, <3>2
  <2>4. \A h \in DOMAIN txs' : txs'[h].sale.tap \in updates'
    BY <1>2 DEF Tapped
  <2> QED BY <2>3, <2>4 DEF Tapped
<1>8. Watched'
  BY <1>2, <1>3 DEF Watched
<1>9. ReadLast'
  BY <1>2, <1>3 DEF ReadLast
<1>10. TapsSellOneByOne'
  BY <1>2 DEF TapsSellOneByOne
<1> QED BY <1>1, <1>4, <1>6, <1>7, <1>8, <1>9, <1>10

LEMMA DeliverStep ==
  ASSUME TapsInv, NEW r \in Requests, NEW u \in Taps, Deliver(r, u)
  PROVE  TapsInv'
<1> DEFINE new == [pc |-> "take", at |-> now, tap |-> u]
<1>1. new \in Request
  BY DEF TapsInv, AccountInv, SessionTypeOK, Request
<1>2. requests[r].pc = "idle" /\ ~holding(requests[r]) /\ ~holding(new) /\ tapOf(new) = u
  BY DEF Deliver, AtRest, holding, tapOf
<1>3. lockUntil \in Nat \union {Unlocked} /\ updates \subseteq Taps
  BY DEF TapsInv, TapsTypeOK
<1>4. /\ u \notin updates /\ updates' = updates \union {u} /\ Becomes(r, new) /\ onChain
      /\ UNCHANGED <<lockUntil, txs>>
  BY DEF Deliver, claims
<1>5. new.pc = "take" /\ new.at = now
  OBVIOUS
<1> HIDE DEF new
<1>6. Moving(r, new)
  BY <1>2, <1>3, <1>4, <1>5 DEF Moving
<1> QED BY <1>1, <1>6, MovesOn

LEMMA TakeTradeStep ==
  ASSUME TapsInv, NEW r \in Requests, TakeTrade(r)
  PROVE  TapsInv'
<1>1. TapsTypeOK /\ now \in Nat /\ txs \in Seq(Tx)
  BY DEF TapsInv, TapsTypeOK, AccountInv, SessionTypeOK
<1>2. CASE takes
  <2> DEFINE new == [pc |-> "read", at |-> requests[r].at, tap |-> requests[r].tap]
  <2>1. /\ requests[r].pc = "take" /\ Becomes(r, new) /\ lockUntil < now /\ lockUntil' = now + LOCK
    BY <1>1, <1>2, RequestFields DEF TakeTrade, takes, Reaches
  <2>2. new \in Request
    BY <1>1, <2>1, RequestFields DEF Request, AtRest
  <2>3. carrying(requests[r]) /\ tapOf(new) = tapOf(requests[r])
    BY <2>1 DEF carrying, tapOf
  <2>4. updates \subseteq Taps /\ tapOf(new) \in updates /\ lockUntil' \in Nat
    BY <1>1, <2>1, <2>3, LockOutlastsRequest DEF TapsInv, TapsTypeOK, Tapped
  <2>5. new.pc = "read" /\ new.at = requests[r].at /\ updates' = updates /\ txs' = txs /\ onChain
    BY DEF TakeTrade
  <2> HIDE DEF new
  <2>6. Moving(r, new)
    BY <2>1, <2>3, <2>4, <2>5 DEF Moving
  <2> QED BY <2>2, <2>6, MovesOn
<1>3. CASE ~takes
  <2>1. Becomes(r, AtRest) /\ UNCHANGED <<lockUntil, updates, txs>> /\ onChain /\ requests[r].pc = "take"
    BY <1>3 DEF TakeTrade
  <2>2. Marked
    BY <1>1, <2>1, MarkedSame
  <2>3. Ending(r, AtRest)
    BY <2>1 DEF Ending
  <2> QED BY <2>2, <2>3, LetsGo
<1> QED BY <1>2, <1>3

LEMMA ReadShareStep ==
  ASSUME TapsInv, NEW r \in Requests, NEW minOut \in Nat, ReadShare(r, minOut)
  PROVE  TapsInv'
<1> DEFINE tap    == requests[r].tap
           amount == (holds * Percent[tap]) \div 100
           past   == [g \in DOMAIN txs |-> txs[g].status]
           sale   == [tap |-> tap, amountIn |-> amount, minOut |-> minOut, past |-> past]
           new    == [pc |-> "send", at |-> requests[r].at, sale |-> sale]
<1>1. /\ TapsTypeOK /\ holds \in Nat /\ txs \in Seq(Tx) /\ DOMAIN txs = 1..Len(txs)
      /\ Len(txs) \in Nat
  BY LenProperties DEF TapsInv, TapsTypeOK, AccountInv, SessionTypeOK
<1>2. /\ requests[r].pc = "read" /\ onChain
      /\ updates' = updates /\ lockUntil' = lockUntil /\ txs' = txs
  BY DEF ReadShare, onlyRequest
<1>3. tap \in Taps /\ requests[r].at \in Nat /\ Percent[tap] \in 1..100
  <2>1. tap \in Taps
    BY <1>1, <1>2, RequestFields
  <2>2. requests[r] # AtRest
    BY <1>2 DEF AtRest
  <2>3. requests[r].at \in Nat
    BY <1>1, <2>2, RequestFields
  <2> QED BY <2>1, <2>3, TapShares
<1>4. CASE amount > 0 /\ CanSell(Bot)
  <2>1. Becomes(r, new)
    BY <1>4 DEF ReadShare
  <2>2. past \in Seq(Status) /\ Len(past) = Len(txs) /\ \A g \in DOMAIN txs : past[g] = txs[g].status
    <3>1. \A g \in 1..Len(txs) : txs[g].status \in Status
      BY <1>1, TxFields DEF Tx
    <3>2. past \in [1..Len(txs) -> Status]
      BY <1>1, <3>1
    <3>3. past \in Seq(Status)
      BY <1>1, <3>2, SeqDef
    <3> QED BY <1>1, <3>2, <3>3, LenProperties
  <2>3. amount \in Nat
    <3>1. \A a \in Nat, b \in 1..100 : (a * b) \div 100 \in Nat
      OBVIOUS
    <3> QED BY <1>1, <1>3, <3>1
  <2> HIDE DEF past, amount
  <2>4. sale \in Sale /\ new \in Request
    BY <1>3, <2>2, <2>3 DEF Sale, Request
  <2>5. carrying(requests[r]) /\ tapOf(new) = tapOf(requests[r])
        /\ (holding(new) <=> holding(requests[r]))
    BY <1>2 DEF carrying, tapOf, holding
  <2>6. \A g \in DOMAIN txs : past[g] = "sent" => txs[g].unseen
    <3> SUFFICES ASSUME NEW g \in DOMAIN txs, txs[g].status = "sent", ~txs[g].unseen PROVE FALSE
      BY <1>1, <2>2, TxFields DEF Tx
    <3>1. PICK q \in Requests : requests[q].pc = "wait"
      BY DEF TapsInv, Watched
    <3>2. q = r
      BY <1>2, <3>1 DEF TapsInv, Exclusive, holding
    <3> QED BY <1>2, <3>1, <3>2
  <2>7. updates \subseteq Taps /\ tapOf(new) \in updates /\ lockUntil \in Nat \union {Unlocked}
    BY <1>1, <2>5 DEF TapsInv, TapsTypeOK, Tapped
  <2>8. new.pc = "send" /\ new.at = requests[r].at /\ new.sale.past = past
    OBVIOUS
  <2>9. new.pc = "send" =>
          /\ Len(new.sale.past) = Len(txs)
          /\ \A g \in DOMAIN txs : new.sale.past[g] = "sent" => txs[g].unseen
    BY <2>2, <2>6, <2>8
  <2> HIDE DEF new
  <2>10. Moving(r, new)
    BY <1>2, <2>1, <2>5, <2>7, <2>8, <2>9 DEF Moving
  <2> QED BY <2>4, <2>10, MovesOn
<1>5. CASE ~(amount > 0 /\ CanSell(Bot))
  <2>1. Done(r)
    BY <1>5 DEF ReadShare
  <2>2. holding(requests[r])
    BY <1>2 DEF holding
  <2>3. Marked
    BY <1>1, <1>2, MarkedSame
  <2>4. Ending(r, [pc |-> "free", at |-> requests[r].at])
    BY <1>2, <2>1, <2>2 DEF Ending, Done
  <2> QED BY <2>3, <2>4, LetsGo
<1> QED BY <1>4, <1>5

LEMMA SendSaleStep ==
  ASSUME TapsInv, NEW r \in Requests, NEW relayed \in BOOLEAN, NEW answers \in BOOLEAN,
         SendSale(r, relayed, answers)
  PROVE  TapsInv'
<1> DEFINE sale == requests[r].sale
<1>1. /\ TapsTypeOK /\ txs \in Seq(Tx) /\ DOMAIN txs = 1..Len(txs) /\ Len(txs) \in Nat
  BY LenProperties DEF TapsInv, TapsTypeOK
<1>2. /\ requests[r].pc = "send" /\ requests[r] # AtRest /\ onChain
      /\ updates' = updates /\ lockUntil' = lockUntil
  BY DEF SendSale, AtRest
<1>3. sale \in Sale /\ requests[r].at \in Nat
  BY <1>1, <1>2, RequestFields
<1>4. holding(requests[r]) /\ carrying(requests[r]) /\ tapOf(requests[r]) = sale.tap
  BY <1>2 DEF holding, carrying, tapOf
<1>5. CASE ~relayed
  <2>1. txs' = txs /\ Becomes(r, [pc |-> "free", at |-> requests[r].at])
    BY <1>5 DEF SendSale, Done
  <2>2. Marked
    BY <1>1, <2>1, MarkedSame
  <2>3. Ending(r, [pc |-> "free", at |-> requests[r].at])
    BY <1>2, <1>4, <2>1 DEF Ending
  <2> QED BY <2>2, <2>3, LetsGo
<1>6. CASE relayed
  <2> DEFINE n   == Len(txs) + 1
             tx  == Signed(sale, ~answers)
             new == IF answers THEN [pc |-> "wait", at |-> requests[r].at, tx |-> n]
                               ELSE [pc |-> "free", at |-> requests[r].at]
  <2>1. tx \in Tx /\ tx.sale = sale /\ tx.unseen = ~answers
    BY <1>3 DEF Signed, Tx, Status
  <2> HIDE DEF tx
  <2>2. txs' = Append(txs, tx)
    BY <1>6 DEF SendSale, tx
  <2>3. /\ txs' \in Seq(Tx) /\ Len(txs') = n /\ DOMAIN txs' = 1..n /\ txs'[n] = tx
        /\ \A h \in 1..Len(txs) : txs'[h] = txs[h]
    BY <1>1, <2>1, <2>2
  <2>4. Becomes(r, new)
    BY <1>6, <2>3 DEF SendSale, Done
  <2>5. new \in Request
    BY <1>1, <1>3 DEF Request
  <2>6. /\ new.pc = IF answers THEN "wait" ELSE "free"
        /\ new.at = requests[r].at /\ holding(new) /\ ~carrying(new)
        /\ answers => new.tx = n
    BY DEF holding, carrying
  <2> HIDE DEF new
  <2>7. /\ requests' \in [Requests -> Request] /\ requests'[r] = new
        /\ \A q \in Requests : q # r => requests'[q] = requests[q]
    BY <1>1, <2>4, <2>5, GoFacts
  <2>8. UNCHANGED <<now, mining>>
    BY <1>2 DEF onChain, sessionVars
  <2>9. AccountInv'
    BY <1>2, AccountKept DEF TapsInv, onChain
  <2>10. TapsTypeOK'
    BY <1>1, <1>2, <2>3, <2>7, <2>8 DEF TapsTypeOK
  <2>11. Exclusive'
    <3>1. \A q \in Requests : /\ holding(requests'[q]) <=> holding(requests[q])
                              /\ requests'[q].at = requests[q].at
                              /\ requests'[q].pc # "idle" => requests[q].pc # "idle"
      BY <1>2, <1>4, <2>6, <2>7
    <3>2. Exclusive
      BY DEF TapsInv
    <3> QED BY <1>2, <2>8, <3>1, <3>2 DEF Exclusive
  <2>12. Tapped'
    <3>1. \A q \in Requests : carrying(requests'[q]) => q # r /\ requests'[q] = requests[q]
      BY <2>6, <2>7
    <3>2. /\ sale.tap \in updates
          /\ \A q \in Requests : q # r /\ carrying(requests[q]) => tapOf(requests[q]) # sale.tap
      BY <1>4 DEF TapsInv, Tapped
    <3>3. \A h \in 1..n : txs'[h].sale.tap = sale.tap \/ (h \in DOMAIN txs /\ txs'[h] = txs[h])
      BY <1>1, <2>1, <2>3
    <3>4. Tapped
      BY DEF TapsInv
    <3>5. \A q \in Requests : carrying(requests'[q]) =>
            /\ tapOf(requests'[q]) \in updates'
            /\ \A h \in 1..n : txs'[h].sale.tap # tapOf(requests'[q])
      BY <1>2, <3>1, <3>2, <3>3, <3>4 DEF Tapped
    <3>6. \A q, p \in Requests : carrying(requests'[q]) /\ carrying(requests'[p])
            /\ tapOf(requests'[p]) = tapOf(requests'[q]) => p = q
      BY <3>1, <3>4 DEF Tapped
    <3>7. \A h \in 1..n : txs'[h].sale.tap \in updates'
      BY <1>2, <3>2, <3>3, <3>4 DEF Tapped
    <3> QED BY <2>3, <3>5, <3>6, <3>7 DEF Tapped
  <2>13. Watched'
    <3>1. \A q \in Requests : requests'[q].pc = "wait" => requests'[q].tx \in 1..n
      BY <1>1, <2>6, <2>7 DEF TapsInv, Watched
    <3>2. ASSUME NEW h \in 1..n, txs'[h].status = "sent", ~txs'[h].unseen
          PROVE  \E q \in Requests : requests'[q].pc = "wait" /\ requests'[q].tx = h
      <4>1. CASE h = n
        BY <2>1, <2>3, <2>6, <2>7, <3>2, <4>1
      <4>2. CASE h # n
        <5>1. h \in DOMAIN txs /\ txs[h].status = "sent" /\ ~txs[h].unseen
          BY <1>1, <2>3, <3>2, <4>2
        <5>2. PICK q \in Requests : requests[q].pc = "wait" /\ requests[q].tx = h
          BY <5>1 DEF TapsInv, Watched
        <5> QED BY <1>2, <2>7, <5>2
      <4> QED BY <4>1, <4>2
    <3> QED BY <2>3, <3>1, <3>2 DEF Watched
  <2>14. ReadLast'
    <3>1. ASSUME NEW q \in Requests, requests'[q].pc = "send" PROVE FALSE
      <4>1. q # r /\ requests[q].pc = "send"
        BY <2>6, <2>7, <3>1
      <4>2. holding(requests[q])
        BY <4>1 DEF holding
      <4> QED BY <1>4, <4>1, <4>2 DEF TapsInv, Exclusive
    <3> QED BY <3>1 DEF ReadLast
  <2>15. TapsSellOneByOne'
    <3>1. DOMAIN sale.past = 1..Len(txs) /\ \A g \in DOMAIN txs : sale.past[g] = "sent" => txs[g].unseen
      <4>1. Len(sale.past) = Len(txs) /\ \A g \in DOMAIN txs : sale.past[g] = "sent" => txs[g].unseen
        BY <1>2 DEF TapsInv, ReadLast
      <4>2. sale.past \in Seq(Status)
        BY <1>3 DEF Sale
      <4> QED BY <4>1, <4>2, LenProperties
    <3>2. \A g \in DOMAIN txs : txs[g].sale.tap # sale.tap
      BY <1>4 DEF TapsInv, Tapped
    <3>3. ASSUME NEW h \in 1..n
          PROVE  /\ DOMAIN txs'[h].sale.past = 1..(h - 1)
                 /\ \A g \in 1..(h - 1) : /\ txs'[h].sale.past[g] = "sent" => txs'[g].unseen
                                          /\ txs'[h].sale.tap # txs'[g].sale.tap
      <4>1. CASE h = n
        <5>1. txs'[h].sale = sale /\ h - 1 = Len(txs)
          BY <1>1, <2>1, <2>3, <4>1
        <5>2. \A g \in 1..(h - 1) : g \in DOMAIN txs /\ txs'[g] = txs[g]
          BY <1>1, <2>3, <5>1
        <5> QED BY <3>1, <3>2, <5>1, <5>2
      <4>2. CASE h # n
        <5>1. h \in DOMAIN txs /\ txs'[h] = txs[h]
          BY <1>1, <2>3, <4>2
        <5>2. \A g \in 1..(h - 1) : txs'[g] = txs[g]
          BY <1>1, <2>3, <5>1
        <5>3. /\ DOMAIN txs[h].sale.past = 1..(h - 1)
              /\ \A g \in 1..(h - 1) : /\ txs[h].sale.past[g] = "sent" => txs[g].unseen
                                       /\ txs[h].sale.tap # txs[g].sale.tap
          BY <5>1 DEF TapsInv, TapsSellOneByOne
        <5> QED BY <5>1, <5>2, <5>3
      <4> QED BY <4>1, <4>2
    <3> QED BY <2>3, <3>3 DEF TapsSellOneByOne
  <2> QED BY <2>9, <2>10, <2>11, <2>12, <2>13, <2>14, <2>15 DEF TapsInv
<1> QED BY <1>5, <1>6

LEMMA EndsStep ==
  ASSUME TapsInv, NEW r \in Requests,
         \/ Stops(r) \/ Free(r) \/ RequestDies(r)
         \/ \E saw \in BOOLEAN : Answers(r, saw)
  PROVE  TapsInv'
<1>1. TapsTypeOK /\ txs \in Seq(Tx)
  BY DEF TapsInv, TapsTypeOK
<1>2. requests[r].pc = "wait" => requests[r].tx \in DOMAIN txs
  BY DEF TapsInv, Watched
<1> DEFINE free == [pc |-> "free", at |-> requests[r].at]
<1>3. CASE Stops(r)
  <2>1. requests[r].pc = "read" /\ Becomes(r, free) /\ onChain
        /\ UNCHANGED <<updates, lockUntil, txs>>
    BY <1>3 DEF Stops, Done, onlyRequest
  <2>2. Marked
    BY <1>1, <2>1, MarkedSame
  <2>3. Ending(r, free)
    BY <2>1 DEF Ending, holding
  <2> QED BY <2>2, <2>3, LetsGo
<1>4. CASE Free(r)
  <2>1. requests[r].pc = "free" /\ Becomes(r, AtRest) /\ onChain /\ lockUntil' = Unlocked
        /\ UNCHANGED <<updates, txs>>
    BY <1>4 DEF Free
  <2>2. Marked
    BY <1>1, <2>1, MarkedSame
  <2>3. Ending(r, AtRest)
    BY <2>1 DEF Ending, holding
  <2> QED BY <2>2, <2>3, LetsGo
<1>5. CASE RequestDies(r)
  <2>1. Becomes(r, AtRest) /\ onChain /\ UNCHANGED <<updates, lockUntil>>
    BY <1>5 DEF RequestDies
  <2>2. CASE requests[r].pc = "wait"
    <3>1. Unseen(requests[r].tx)
      BY <1>5, <2>2 DEF RequestDies
    <3>2. Marked /\ txs'[requests[r].tx].unseen
      BY <1>1, <1>2, <2>2, <3>1, MarkUnseen
    <3>3. Ending(r, AtRest)
      BY <2>1, <3>2 DEF Ending
    <3> QED BY <3>2, <3>3, LetsGo
  <2>3. CASE requests[r].pc # "wait"
    <3>1. Marked
      BY <1>1, <1>5, <2>3, MarkedSame DEF RequestDies
    <3>2. Ending(r, AtRest)
      BY <2>1, <2>3 DEF Ending
    <3> QED BY <3>1, <3>2, LetsGo
  <2> QED BY <2>2, <2>3
<1>6. ASSUME NEW saw \in BOOLEAN, Answers(r, saw) PROVE TapsInv'
  <2>1. requests[r].pc = "wait" /\ Becomes(r, free) /\ onChain /\ UNCHANGED <<updates, lockUntil>>
    BY <1>6 DEF Answers, Done
  <2>2. Marked /\ (txs'[requests[r].tx].unseen \/ txs'[requests[r].tx].status # "sent")
    <3>1. CASE saw
      <4>1. txs' = txs /\ txs[requests[r].tx].status # "sent"
        BY <1>6, <3>1 DEF Answers
      <4> QED BY <1>1, <4>1, MarkedSame
    <3>2. CASE ~saw
      <4>1. Unseen(requests[r].tx)
        BY <1>6, <3>2 DEF Answers
      <4> QED BY <1>1, <1>2, <2>1, <4>1, MarkUnseen
    <3> QED BY <3>1, <3>2
  <2>3. Ending(r, free)
    BY <2>1, <2>2 DEF Ending, holding
  <2> QED BY <2>2, <2>3, LetsGo
<1> QED BY <1>3, <1>4, <1>5, <1>6

----------------------------------------------------------------------------
(* The invariant holds, and the properties are its conjuncts.              *)

LEMMA TapsStep == TapsInv /\ [TapsNext]_deskVars => TapsInv'
<1> SUFFICES ASSUME TapsInv, [TapsNext]_deskVars PROVE TapsInv'
  OBVIOUS
<1>1. CASE Account
  BY <1>1, AccountMoves
<1>2. ASSUME NEW h \in DOMAIN txs, Mined(h) PROVE TapsInv'
  BY <1>2, MinedStep
<1>3. ASSUME NEW r \in Requests, RequestNext(r) PROVE TapsInv'
  <2>1. ASSUME NEW u \in Taps, Deliver(r, u) PROVE TapsInv'
    BY <2>1, DeliverStep
  <2>2. CASE TakeTrade(r)
    BY <2>2, TakeTradeStep
  <2>3. ASSUME NEW minOut \in Values, ReadShare(r, minOut) PROVE TapsInv'
    BY <2>3, ReadShareStep, SessionNumbers
  <2>4. ASSUME NEW relayed \in BOOLEAN, NEW answers \in BOOLEAN, SendSale(r, relayed, answers)
        PROVE  TapsInv'
    BY <2>4, SendSaleStep
  <2>5. CASE Stops(r) \/ Free(r) \/ RequestDies(r) \/ \E saw \in BOOLEAN : Answers(r, saw)
    BY <2>5, EndsStep
  <2> QED BY <1>3, <2>1, <2>2, <2>3, <2>4, <2>5 DEF RequestNext
<1>4. CASE UNCHANGED deskVars
  <2>1. AccountInv'
    BY <1>4, AccountKept DEF TapsInv, deskVars
  <2> QED BY <1>4, <2>1 DEF TapsInv, TapsTypeOK, Exclusive, Tapped, Watched, ReadLast,
                            TapsSellOneByOne, deskVars, tapVars, sessionVars
<1> QED BY <1>1, <1>2, <1>3, <1>4 DEF TapsNext

\* The invariant the three theorems about taps are read off: the account's, the request's
\* and the lock's parts hold together in every reachable state.
THEOREM TapsInvHolds == TapsSpec => []TapsInv
<1> QED BY TapsStart, TapsStep, PTL DEF TapsSpec

\* A tap is one sale, and the taps of a person sell one after the other from what the
\* earlier ones left, for any number of taps, requests and deliveries and whatever
\* dies: the lock outlasts the request that took it, and that is all it rests on.
THEOREM TapsSell == TapsSpec => []TapsSellOneByOne
<1>1. TapsInv => TapsSellOneByOne
  BY DEF TapsInv
<1> QED BY <1>1, TapsInvHolds, PTL

\* The account under the desk: what the key sent is what its session spent.
THEOREM TapsSentIsSpent == TapsSpec => []SentIsSpent
<1>1. TapsInv => SentIsSpent
  BY AccountGivesSent DEF TapsInv
<1> QED BY <1>1, TapsInvHolds, PTL

\* The account under the desk: the router pulls within the sale under way.
THEOREM TapsApproval == TapsSpec => []ApprovalEndsWithSale
<1>1. TapsInv => ApprovalEndsWithSale
  BY DEF TapsInv, AccountInv
<1> QED BY <1>1, TapsInvHolds, PTL

----------------------------------------------------------------------------
(* The desk's mirrors.                                                     *)

PCs  == {"kept", "window", "reads", "claim", "drop", "mirror", "room", "giveBack", "send"}
Kept == UNION {[S -> Nat] : S \in SUBSET Buys}
Pass == {Idle} \union
        [pc : PCs, todo : Kept, next : Nat, to : Nat, buy : Nat, since : Int, turn : Nat]

CopyTypeOK ==
  /\ head \in 0..BUYS /\ cursor \in Nat
  /\ seen \subseteq Buys /\ claimed \subseteq Buys /\ deferred \in Kept
  /\ tokenDay \in Int /\ userDay \in [Members -> Nat]
  /\ mirrored \in [Buys -> [Members -> Nat]] /\ posted \in [Buys -> Nat]
  /\ tapping \in [Members -> {"no", "asked", "sent"}]
  /\ tapped \in [Members -> Nat] /\ uncounted \in [Members -> Nat]
  /\ passes \in [Passes -> Pass]
  /\ crashes \in Nat /\ clock \in Nat

\* A pass that has a buy in hand, and one that is mirroring it.
working(pass) == pass.pc \in PCs \ {"kept", "window"}
busy(pass)    == pass.pc \in {"mirror", "room", "giveBack", "send"}

passOK(pass) ==
  /\ pass.pc # "idle" => pass.to <= head
  /\ pass.pc = "window" \/ (working(pass) /\ ~wasKept(pass)) => pass.next >= 1
  /\ working(pass) => pass.buy \in Buys
  /\ busy(pass) => pass.turn >= 1 /\ pass.turn <= Len(Followers) + 1
  /\ pass.pc \in {"room", "giveBack", "send"} => pass.turn <= Len(Followers)

PassesOK == \A p \in Passes : passOK(passes[p])

Claims ==
  /\ \A p \in Passes : busy(passes[p]) =>
       /\ passes[p].buy \in claimed /\ posted[passes[p].buy] = 0
       /\ \A i \in 1..Len(Followers) :
            i >= passes[p].turn => mirrored[passes[p].buy][Followers[i]] = 0
       /\ \A q \in Passes : busy(passes[q]) /\ passes[q].buy = passes[p].buy => q = p
  /\ \A b \in Buys : b \notin claimed =>
       posted[b] = 0 /\ \A f \in Members : mirrored[b][f] = 0

\* Passes that took room in the token's day, those the room was granted to, and those
\* about to send to a follower.
one(is) == IF is THEN 1 ELSE 0
room       == [p \in Passes |-> one(passes[p].pc \in {"room", "send", "giveBack"})]
granted    == [p \in Passes |-> one(passes[p].pc \in {"room", "send"})]
sending(f) == [p \in Passes |-> one(passes[p].pc = "send" /\ follower(passes[p]) = f)]

RoomKept    == MIRROR_WEI * (copies + Total(room)) <= tokenDay
RoomGranted == MIRROR_WEI * (copies + Total(granted)) <= TOKEN_DAY_CAP

DayCounted ==
  \A f \in Members : copiesInto(f) + Total(sending(f)) + tapped[f]
                       <= userDay[f] + uncounted[f] + one(tapping[f] = "sent")
DayGranted ==
  \A f \in Members : copiesInto(f) + Total(sending(f)) + tapped[f] + one(tapping[f] = "asked")
                       <= DAILY_EXECUTES + 1 + uncounted[f]

Ledgers == RoomKept /\ RoomGranted /\ DayCounted /\ DayGranted

CopyInv == CopyTypeOK /\ PassesOK /\ Claims /\ CopiedOnce /\ Ledgers

----------------------------------------------------------------------------
(* Followers, and sums over them, over buys and over passes.               *)

LEMMA FollowersFacts ==
  /\ Len(Followers) \in Nat /\ DOMAIN Followers = 1..Len(Followers)
  /\ \A i \in 1..Len(Followers) : Followers[i] \in Members
  /\ \A i, j \in 1..Len(Followers) : Followers[i] = Followers[j] => i = j
  /\ IsFiniteSet(Members) /\ IsFiniteSet(Buys) /\ BUYS \in Nat
<1>1. /\ Len(Followers) \in Nat /\ DOMAIN Followers = 1..Len(Followers)
      /\ \A i \in 1..Len(Followers) : Followers[i] \in Members
  BY CopyFollowers, LenProperties
<1>2. \A i, j \in 1..Len(Followers) : Followers[i] = Followers[j] => i = j
  BY <1>1, CopyFollowers DEF IsInjective
<1>3. IsFiniteSet(Members)
  <2>1. Followers \in Surjection(1..Len(Followers), Members)
    <3>1. Followers \in [1..Len(Followers) -> Members]
      BY CopyFollowers, LenProperties
    <3>2. \A f \in Members : \E i \in 1..Len(Followers) : Followers[i] = f
      BY <1>1 DEF Members, Range
    <3> QED BY <3>1, <3>2 DEF Surjection
  <2>2. IsFiniteSet(1..Len(Followers))
    BY <1>1, FS_Interval
  <2> QED BY <2>1, <2>2, FS_Surjection
<1>4. BUYS \in Nat /\ IsFiniteSet(Buys)
  BY CopyNumbers, FS_Interval DEF Buys
<1> QED BY <1>1, <1>2, <1>3, <1>4

\* Sums of natural numbers are natural numbers.
SumsOK ==
  /\ \A f \in Members : /\ [b \in Buys |-> mirrored[b][f]] \in [Buys -> Nat]
                        /\ copiesInto(f) \in Nat
                        /\ sending(f) \in [Passes -> Nat] /\ Total(sending(f)) \in Nat
  /\ [f \in Members |-> copiesInto(f)] \in [Members -> Nat] /\ copies \in Nat
  /\ room \in [Passes -> Nat] /\ Total(room) \in Nat
  /\ granted \in [Passes -> Nat] /\ Total(granted) \in Nat

LEMMA SumsType == CopyTypeOK => SumsOK
<1> SUFFICES ASSUME CopyTypeOK PROVE SumsOK
  OBVIOUS
<1>1. \A f \in Members : [b \in Buys |-> mirrored[b][f]] \in [Buys -> Nat]
  BY DEF CopyTypeOK
<1>2. \A f \in Members : copiesInto(f) \in Nat
  BY <1>1, FollowersFacts, TotalType DEF copiesInto
<1>3. [f \in Members |-> copiesInto(f)] \in [Members -> Nat]
  BY <1>2
<1>4. copies \in Nat
  BY <1>3, FollowersFacts, TotalType DEF copies
<1>5. \A f \in Members : sending(f) \in [Passes -> Nat]
  BY DEF sending, one
<1>6. room \in [Passes -> Nat] /\ granted \in [Passes -> Nat]
  BY DEF room, granted, one
<1>7. \A f \in Members : Total(sending(f)) \in Nat
  BY <1>5, FinitePasses, TotalType
<1>8. Total(room) \in Nat /\ Total(granted) \in Nat
  BY <1>6, FinitePasses, TotalType
<1> QED BY <1>1, <1>2, <1>3, <1>4, <1>5, <1>6, <1>7, <1>8 DEF SumsOK

LEMMA SumsNext == CopyTypeOK' => SumsOK'
BY SumsType, PTL

\* Wei of one more.
LEMMA OneMore ==
  ASSUME NEW n \in Nat
  PROVE  /\ MIRROR_WEI \in Nat /\ MIRROR_WEI * n \in Nat
         /\ MIRROR_WEI * (n + 1) = MIRROR_WEI * n + MIRROR_WEI
<1>1. MIRROR_WEI \in Nat
  BY CopyNumbers
<1> QED BY <1>1

LEMMA NoMore ==
  ASSUME NEW m \in Nat, NEW n \in Nat, m <= n
  PROVE  MIRROR_WEI * m <= MIRROR_WEI * n
<1>1. MIRROR_WEI \in Nat
  BY CopyNumbers
<1>2. PICK d \in Nat : n = m + d
  <2>1. n - m \in Nat /\ n = m + (n - m)
    OBVIOUS
  <2> QED BY <2>1
<1>3. MIRROR_WEI * (m + d) = MIRROR_WEI * m + MIRROR_WEI * d /\ MIRROR_WEI * d \in Nat
      /\ MIRROR_WEI * m \in Nat
  BY <1>1
<1> QED BY <1>2, <1>3

----------------------------------------------------------------------------
(* A pass that moves on.                                                   *)

LEMMA PassFields ==
  ASSUME CopyTypeOK, PassesOK, NEW p \in Passes, passes[p].pc # "idle"
  PROVE  /\ passes[p] \in [pc : PCs, todo : Kept, next : Nat, to : Nat, buy : Nat, since : Int,
                           turn : Nat]
         /\ passOK(passes[p])
BY DEF CopyTypeOK, PassesOK, Pass, Idle

LEMMA BusyFields ==
  ASSUME CopyTypeOK, PassesOK, NEW p \in Passes, busy(passes[p])
  PROVE  /\ passes[p].pc # "idle" /\ passes[p].buy \in Buys
         /\ passes[p].turn \in Nat /\ passes[p].turn >= 1
<1>1. passes[p].pc # "idle" /\ working(passes[p])
  BY DEF busy, working, PCs
<1> QED BY <1>1, PassFields DEF passOK

LEMMA BusyTurn ==
  ASSUME NEW pass \in Pass, busy(pass)
  PROVE  pass.turn \in Nat /\ pass.buy \in Nat
<1>1. Idle.pc = "idle" /\ pass.pc # "idle"
  BY DEF busy, Idle
<1>2. pass # Idle
  BY <1>1
<1> QED BY <1>2 DEF Pass

\* The pass is at its next step, and well formed there.
Steps(p, new) == Go(p, new) /\ new \in Pass /\ passOK(new) /\ UNCHANGED head

LEMMA StepsFacts ==
  ASSUME CopyTypeOK, PassesOK, NEW p \in Passes, NEW new, Steps(p, new)
  PROVE  /\ passes' \in [Passes -> Pass] /\ passes'[p] = new
         /\ \A q \in Passes : q # p => passes'[q] = passes[q]
         /\ PassesOK'
<1>1. /\ passes' \in [Passes -> Pass] /\ passes'[p] = new
      /\ \A q \in Passes : q # p => passes'[q] = passes[q]
  BY DEF CopyTypeOK, Steps, Go
<1>2. \A q \in Passes : passOK(passes'[q])
  BY <1>1 DEF PassesOK, Steps
<1>3. PassesOK'
  BY <1>2 DEF PassesOK, passOK, Steps
<1> QED BY <1>1, <1>3

\* A pass that copies nothing: of what it is mirroring it may only be further on.
Onward(p, new) ==
  /\ Steps(p, new)
  /\ UNCHANGED <<claimed, mirrored, posted>>
  /\ busy(new) => busy(passes[p]) /\ new.buy = passes[p].buy /\ new.turn >= passes[p].turn

LEMMA ClaimsKept ==
  ASSUME CopyInv, NEW p \in Passes, NEW new, Onward(p, new)
  PROVE  Claims' /\ CopiedOnce'
<1> USE DEF CopyInv
<1>1. /\ passes' \in [Passes -> Pass] /\ passes'[p] = new
      /\ \A q \in Passes : q # p => passes'[q] = passes[q]
  BY StepsFacts DEF Onward
<1>2. UNCHANGED <<claimed, mirrored, posted>>
  BY DEF Onward
<1>3. ASSUME NEW q \in Passes, busy(passes'[q])
      PROVE  /\ busy(passes[q]) /\ passes'[q].buy = passes[q].buy
             /\ passes'[q].turn \in Nat /\ passes[q].turn \in Nat
             /\ passes'[q].turn >= passes[q].turn
  <2>1. busy(passes[q]) /\ passes'[q].buy = passes[q].buy
    BY <1>1, <1>3 DEF Onward
  <2>2. passes[q].turn \in Nat
    BY <2>1, BusyFields
  <2>3. passes'[q].turn \in Nat
    <3>1. passes'[q] \in Pass
      BY <1>1
    <3> QED BY <1>3, <3>1, BusyTurn
  <2>4. CASE q = p
    BY <1>1, <1>3, <2>1, <2>2, <2>3, <2>4 DEF Onward
  <2>5. CASE q # p
    BY <1>1, <2>1, <2>2, <2>5
  <2> QED BY <2>4, <2>5
<1>4. ASSUME NEW q \in Passes, busy(passes'[q])
      PROVE  /\ passes'[q].buy \in claimed /\ posted[passes'[q].buy] = 0
             /\ \A i \in 1..Len(Followers) :
                  i >= passes'[q].turn => mirrored[passes'[q].buy][Followers[i]] = 0
             /\ \A r \in Passes : busy(passes'[r]) /\ passes'[r].buy = passes'[q].buy => r = q
  <2>1. \A i \in 1..Len(Followers) : i >= passes'[q].turn => i >= passes[q].turn
    BY <1>3, <1>4
  <2> QED BY <1>3, <1>4, <2>1 DEF Claims
<1>5. Claims'
  BY <1>2, <1>4 DEF Claims
<1> QED BY <1>2, <1>5 DEF CopiedOnce

\* A pass that writes no ledger, and takes no room and no day of a follower's.
Taking(p, new) ==
  /\ Steps(p, new)
  /\ UNCHANGED <<ledgers, mirrored, taps>>
  /\ new.pc \notin {"room", "send"}
  /\ new.pc = "giveBack" => passes[p].pc \in {"room", "send"}

LEMMA LedgersKept ==
  ASSUME CopyInv, CopyTypeOK', NEW p \in Passes, NEW new, Taking(p, new)
  PROVE  Ledgers'
<1> USE DEF CopyInv
<1>1. /\ passes' \in [Passes -> Pass] /\ passes'[p] = new
      /\ \A q \in Passes : q # p => passes'[q] = passes[q]
  BY StepsFacts DEF Taking
<1>2. UNCHANGED <<tokenDay, userDay, mirrored, tapping, tapped, uncounted>>
  BY DEF Taking, ledgers, taps
<1>3. copies' = copies /\ \A f \in Members : copiesInto(f)' = copiesInto(f)
  BY <1>2 DEF copies, copiesInto
<1>4. \A q \in Passes : /\ room'[q] <= room[q] /\ granted'[q] <= granted[q]
                        /\ \A f \in Members : sending(f)'[q] <= sending(f)[q]
  <2>1. ASSUME NEW q \in Passes
        PROVE  /\ passes'[q].pc \in {"room", "send"} => passes'[q] = passes[q]
               /\ passes'[q].pc = "giveBack" => passes[q].pc \in {"room", "send", "giveBack"}
    BY <1>1 DEF Taking
  <2>2. \A q \in Passes : /\ room[q] = one(passes[q].pc \in {"room", "send", "giveBack"})
                          /\ room'[q] = one(passes'[q].pc \in {"room", "send", "giveBack"})
                          /\ granted[q] = one(passes[q].pc \in {"room", "send"})
                          /\ granted'[q] = one(passes'[q].pc \in {"room", "send"})
    BY DEF room, granted
  <2>3. \A f \in Members, q \in Passes :
          /\ sending(f)[q] = one(passes[q].pc = "send" /\ follower(passes[q]) = f)
          /\ sending(f)'[q] = one(passes'[q].pc = "send" /\ follower(passes'[q]) = f)
    BY DEF sending, follower
  <2>4. \A q \in Passes : room'[q] <= room[q] /\ granted'[q] <= granted[q]
    BY <2>1, <2>2 DEF one
  <2>5. \A f \in Members, q \in Passes : sending(f)'[q] <= sending(f)[q]
    BY <2>1, <2>3 DEF one
  <2> QED BY <2>4, <2>5
<1> USE SumsType, SumsNext DEF SumsOK
<1>5. Total(room)' <= Total(room) /\ Total(granted)' <= Total(granted)
  BY <1>4, FinitePasses, TotalMonotone
<1>6. \A f \in Members : Total(sending(f))' <= Total(sending(f))
  BY <1>4, FinitePasses, TotalMonotone
<1>7. RoomKept'
  <2>1. MIRROR_WEI * (copies' + Total(room)') <= MIRROR_WEI * (copies + Total(room))
    BY <1>3, <1>5, NoMore
  <2>2. MIRROR_WEI * (copies + Total(room)) <= tokenDay
    BY DEF Ledgers, RoomKept
  <2>3. /\ MIRROR_WEI * (copies' + Total(room)') \in Nat /\ MIRROR_WEI * (copies + Total(room)) \in Nat
        /\ tokenDay \in Int
    <3>1. copies + Total(room) \in Nat /\ copies' + Total(room)' \in Nat
      OBVIOUS
    <3> QED BY <3>1, OneMore DEF CopyTypeOK
  <2> QED BY <1>2, <2>1, <2>2, <2>3 DEF RoomKept
<1>8. RoomGranted'
  <2>1. copies + Total(granted) \in Nat /\ copies' + Total(granted)' \in Nat
    OBVIOUS
  <2>2. MIRROR_WEI * (copies' + Total(granted)') <= MIRROR_WEI * (copies + Total(granted))
    BY <1>3, <1>5, <2>1, NoMore
  <2>3. MIRROR_WEI * (copies + Total(granted)) <= TOKEN_DAY_CAP
    BY DEF Ledgers, RoomGranted
  <2>4. /\ MIRROR_WEI * (copies' + Total(granted)') \in Nat /\ TOKEN_DAY_CAP \in Nat
        /\ MIRROR_WEI * (copies + Total(granted)) \in Nat
    BY <2>1, OneMore, CopyNumbers
  <2> QED BY <2>2, <2>3, <2>4 DEF RoomGranted
<1>9. DayCounted'
  BY <1>2, <1>3, <1>6 DEF Ledgers, DayCounted, CopyTypeOK, one
<1>10. DayGranted'
  <2>1. \A f \in Members : /\ copiesInto(f)' = copiesInto(f) /\ tapped'[f] = tapped[f]
                           /\ uncounted'[f] = uncounted[f] /\ tapping'[f] = tapping[f]
                           /\ tapped[f] \in Nat /\ uncounted[f] \in Nat
    BY <1>2, <1>3 DEF CopyTypeOK
  <2> QED BY <1>6, <2>1, CopyNumbers DEF Ledgers, DayGranted, one
<1> QED BY <1>7, <1>8, <1>9, <1>10 DEF Ledgers

\* A pass that writes neither a ledger nor a copy.
Quiet(p, new) ==
  /\ Onward(p, new) /\ Taking(p, new)
  /\ cursor' \in Nat /\ seen' \subseteq Buys /\ deferred' \in Kept
  /\ crashes' \in Nat /\ clock' = clock

LEMMA QuietStep ==
  ASSUME CopyInv, NEW p \in Passes, NEW new, Quiet(p, new)
  PROVE  CopyInv'
<1>1. passes' \in [Passes -> Pass] /\ PassesOK'
  BY StepsFacts DEF CopyInv, Quiet, Onward
<1>2. CopyTypeOK'
  BY <1>1 DEF CopyInv, CopyTypeOK, Quiet, Onward, Taking, Steps, ledgers, taps
<1>3. Claims' /\ CopiedOnce'
  BY ClaimsKept DEF Quiet
<1>4. Ledgers'
  BY <1>2, LedgersKept DEF Quiet
<1> QED BY <1>1, <1>2, <1>3, <1>4 DEF CopyInv

----------------------------------------------------------------------------
(* What is kept.                                                           *)

LEMMA KeptFacts ==
  ASSUME NEW kept \in Kept
  PROVE  /\ DOMAIN kept \subseteq Buys /\ \A b \in DOMAIN kept : kept[b] \in Nat
         /\ \A b : without(kept, b) \in Kept
         /\ \A b \in Buys, t \in Nat :
              [x \in DOMAIN kept \union {b} |-> IF x # b THEN kept[x] ELSE t] \in Kept
<1>1. PICK S \in SUBSET Buys : kept \in [S -> Nat]
  BY DEF Kept
<1>2. DOMAIN kept = S /\ \A b \in S : kept[b] \in Nat
  BY <1>1
<1>3. ASSUME NEW b PROVE without(kept, b) \in Kept
  <2>1. without(kept, b) \in [S \ {b} -> Nat]
    BY <1>2 DEF without
  <2> QED BY <2>1 DEF Kept
<1>4. ASSUME NEW b \in Buys, NEW t \in Nat
      PROVE  [x \in DOMAIN kept \union {b} |-> IF x # b THEN kept[x] ELSE t] \in Kept
  <2> DEFINE more == [x \in DOMAIN kept \union {b} |-> IF x # b THEN kept[x] ELSE t]
  <2>1. more \in [S \union {b} -> Nat]
    BY <1>2
  <2>2. S \union {b} \in SUBSET Buys
    OBVIOUS
  <2> HIDE DEF more
  <2>3. more \in Kept
    BY <2>1, <2>2 DEF Kept
  <2> QED BY <2>3 DEF more
<1> QED BY <1>2, <1>3, <1>4

LEMMA KeptNone == <<>> \in Kept
<1>1. <<>> \in [{} -> Nat]
  OBVIOUS
<1> QED BY <1>1 DEF Kept

----------------------------------------------------------------------------
(* The steps of a pass that write neither a ledger nor a copy.             *)

LEMMA StartPassQuiet ==
  ASSUME CopyInv, NEW p \in Passes, StartPass(p)
  PROVE  CopyInv'
<1> DEFINE new == [pc |-> "kept", todo |-> deferred, next |-> 0, to |-> 0,
                   buy |-> NoBuy, since |-> -1, turn |-> 0]
<1>1. new \in Pass
  BY DEF CopyInv, CopyTypeOK, Pass, PCs, NoBuy
<1>2. passOK(new) /\ ~busy(new)
  BY DEF CopyInv, CopyTypeOK, passOK, working, busy, PCs
<1>3. Quiet(p, new)
  BY <1>1, <1>2
     DEF StartPass, rest, tables, ledgers, taps, CopyInv, CopyTypeOK, Quiet, Onward, Taking,
         Steps
<1> QED BY <1>3, QuietStep

LEMMA DiesQuiet ==
  ASSUME CopyInv, NEW p \in Passes, Dies(p)
  PROVE  CopyInv'
<1>1. Idle \in Pass /\ passOK(Idle) /\ ~busy(Idle)
  BY DEF Pass, passOK, working, busy, Idle, PCs
<1>2. Quiet(p, Idle)
  BY <1>1
     DEF Dies, tables, ledgers, taps, CopyInv, CopyTypeOK, Quiet, Onward, Taking, Steps, Idle
<1> QED BY <1>2, QuietStep

LEMMA RetryKeptQuiet ==
  ASSUME CopyInv, NEW p \in Passes, passes[p].pc = "kept", NEW b \in DOMAIN passes[p].todo,
         RetryKept(p, b)
  PROVE  CopyInv'
<1> DEFINE since == passes[p].todo[b]
           left  == [passes[p] EXCEPT !.todo = without(@, b)]
           reads == [left EXCEPT !.pc = "reads", !.buy = b, !.since = since]
<1>1. /\ passes[p] \in [pc : PCs, todo : Kept, next : Nat, to : Nat, buy : Nat, since : Int,
                        turn : Nat]
      /\ passOK(passes[p])
  BY PassFields DEF CopyInv
<1>2. /\ b \in Buys /\ since \in Nat /\ without(passes[p].todo, b) \in Kept
      /\ without(deferred, b) \in Kept
  BY <1>1, KeptFacts DEF CopyInv, CopyTypeOK
<1>3. /\ left \in [pc : PCs, todo : Kept, next : Nat, to : Nat, buy : Nat, since : Int,
                    turn : Nat]
      /\ left.pc = "kept" /\ left.to = passes[p].to
  BY <1>1, <1>2
<1> HIDE DEF left
<1>3a. left \in Pass
  BY <1>3 DEF Pass
<1>4. /\ reads \in Pass /\ reads.pc = "reads" /\ reads.buy = b /\ reads.to = passes[p].to
      /\ reads.since \in Nat
  <2>1. b \in Nat /\ since \in Int
    BY <1>2, FollowersFacts DEF Buys
  <2> HIDE DEF since
  <2> QED BY <1>2, <1>3, <2>1 DEF Pass, PCs, since
<1> HIDE DEF reads
<1>5. passOK(left) /\ ~busy(left) /\ passOK(reads) /\ ~busy(reads)
  BY <1>1, <1>2, <1>3, <1>4 DEF passOK, working, busy, wasKept, PCs
<1>6. CASE tooOld(since)
  <2>1. Quiet(p, left)
    BY <1>2, <1>3, <1>3a, <1>5, <1>6
       DEF RetryKept, left, rest, tables, ledgers, taps, CopyInv, CopyTypeOK, Quiet, Onward,
           Taking, Steps
  <2> QED BY <2>1, QuietStep
<1>7. CASE ~tooOld(since)
  <2>1. Quiet(p, reads)
    BY <1>2, <1>4, <1>5, <1>7
       DEF RetryKept, left, reads, rest, tables, ledgers, taps, CopyInv, CopyTypeOK, Quiet,
           Onward, Taking, Steps
  <2> QED BY <2>1, QuietStep
<1> QED BY <1>6, <1>7

LEMMA ReadWindowQuiet ==
  ASSUME CopyInv, NEW p \in Passes, ReadWindow(p)
  PROVE  CopyInv'
<1> DEFINE from == IF head - (cursor + 1) > MAX_LAG THEN head - MAX_LAG ELSE cursor + 1
           last == from + MAX_LAG - 1
           to   == IF last < head THEN last ELSE head
           new  == [passes[p] EXCEPT !.pc = "window", !.next = from, !.to = to]
<1>1. passes[p] \in [pc : PCs, todo : Kept, next : Nat, to : Nat, buy : Nat, since : Int,
                     turn : Nat]
  BY PassFields DEF CopyInv, ReadWindow
<1>2. from \in Nat /\ from >= 1 /\ to \in Nat /\ to <= head
  BY FollowersFacts, CopyNumbers DEF CopyInv, CopyTypeOK
<1> HIDE DEF from, to
<1>3. new \in Pass /\ new.pc = "window" /\ new.next >= 1 /\ new.to <= head
  BY <1>1, <1>2 DEF Pass, PCs
<1>4. Go(p, IF from > head THEN Idle ELSE new)
  BY DEF ReadWindow, from, to
<1> HIDE DEF new
<1>5. CASE from > head
  <2>1. Idle \in Pass /\ passOK(Idle) /\ ~busy(Idle)
    BY DEF Pass, passOK, working, busy, Idle, PCs
  <2>2. Quiet(p, Idle)
    BY <1>4, <1>5, <2>1
       DEF ReadWindow, rest, tables, ledgers, taps, CopyInv, CopyTypeOK, Quiet, Onward, Taking,
           Steps, Idle
  <2> QED BY <2>2, QuietStep
<1>6. CASE ~(from > head)
  <2>1. passOK(new) /\ ~busy(new)
    BY <1>3 DEF passOK, working, busy, PCs
  <2>2. Quiet(p, new)
    BY <1>3, <1>4, <1>6, <2>1
       DEF ReadWindow, rest, tables, ledgers, taps, CopyInv, CopyTypeOK, Quiet, Onward, Taking,
           Steps
  <2> QED BY <2>2, QuietStep
<1> QED BY <1>5, <1>6

LEMMA HandOnQuiet ==
  ASSUME CopyInv, NEW p \in Passes, HandOn(p)
  PROVE  CopyInv'
<1> DEFINE b     == passes[p].next
           fresh == -1
           on    == [passes[p] EXCEPT !.next = @ + 1]
           reads == [passes[p] EXCEPT !.next = @ + 1, !.pc = "reads", !.buy = b, !.since = fresh]
<1>1. /\ passes[p] \in [pc : PCs, todo : Kept, next : Nat, to : Nat, buy : Nat, since : Int,
                        turn : Nat]
      /\ passOK(passes[p]) /\ passes[p].pc = "window" /\ b <= passes[p].to
  BY PassFields DEF CopyInv, HandOn
<1>2. b \in Buys /\ b \in Nat
  BY <1>1, FollowersFacts DEF CopyInv, CopyTypeOK, passOK, Buys
<1>3. on \in Pass /\ on.pc = "window" /\ on.next >= 1 /\ on.to = passes[p].to
  BY <1>1, <1>2 DEF Pass
<1>4. /\ reads \in Pass /\ reads.pc = "reads" /\ reads.buy = b /\ reads.to = passes[p].to
      /\ reads.next >= 1
  <2>1. "reads" \in PCs /\ b + 1 \in Nat /\ b + 1 >= 1 /\ fresh \in Int
    BY <1>2 DEF PCs
  <2> HIDE DEF fresh
  <2> QED BY <1>1, <1>2, <2>1 DEF Pass
<1> HIDE DEF on, reads
<1>5. passOK(on) /\ ~busy(on) /\ passOK(reads) /\ ~busy(reads)
  BY <1>1, <1>2, <1>3, <1>4 DEF passOK, working, busy, PCs
<1>6. CASE b \in seen
  <2>1. Quiet(p, on)
    BY <1>3, <1>5, <1>6
       DEF HandOn, on, rest, ledgers, taps, CopyInv, CopyTypeOK, Quiet, Onward, Taking, Steps
  <2> QED BY <2>1, QuietStep
<1>7. CASE b \notin seen
  <2>1. Quiet(p, reads)
    BY <1>2, <1>4, <1>5, <1>7
       DEF HandOn, reads, fresh, rest, ledgers, taps, CopyInv, CopyTypeOK, Quiet, Onward,
           Taking, Steps
  <2> QED BY <2>1, QuietStep
<1> QED BY <1>6, <1>7

LEMMA SetCursorQuiet ==
  ASSUME CopyInv, NEW p \in Passes, SetCursor(p)
  PROVE  CopyInv'
<1>1. passes[p].to \in Nat
  BY PassFields DEF CopyInv, SetCursor
<1>2. Idle \in Pass /\ passOK(Idle) /\ ~busy(Idle)
  BY DEF Pass, passOK, working, busy, Idle, PCs
<1>3. Quiet(p, Idle)
  BY <1>1, <1>2
     DEF SetCursor, rest, ledgers, taps, CopyInv, CopyTypeOK, Quiet, Onward, Taking, Steps,
         Idle
<1> QED BY <1>3, QuietStep

\* Where a pass is after its reads failed.
LEMMA ReadsFailQuiet ==
  ASSUME CopyInv, NEW p \in Passes, ReadsFail(p) \/ KeepingFails(p)
  PROVE  CopyInv'
<1> DEFINE pc    == IF wasKept(passes[p]) THEN "kept" ELSE "window"
           fresh == -1
           new   == [passes[p] EXCEPT !.pc = pc, !.buy = NoBuy, !.since = fresh]
           none  == [passes[p] EXCEPT !.pc = pc, !.todo = <<>>, !.buy = NoBuy, !.since = fresh]
<1>1. /\ passes[p] \in [pc : PCs, todo : Kept, next : Nat, to : Nat, buy : Nat, since : Int,
                        turn : Nat]
      /\ passOK(passes[p]) /\ passes[p].pc = "reads"
  BY PassFields DEF CopyInv, ReadsFail, KeepingFails
<1>2. /\ pc \in PCs /\ pc \in {"kept", "window"} /\ (pc = "window" => passes[p].next >= 1)
      /\ passes[p].buy \in Buys
  BY <1>1 DEF passOK, working, PCs
<1> HIDE DEF pc
<1>3. /\ new \in Pass /\ new.pc = pc /\ new.next = passes[p].next /\ new.to = passes[p].to
      /\ none \in Pass /\ none.pc = pc /\ none.next = passes[p].next /\ none.to = passes[p].to
  <2>1. NoBuy \in Nat /\ fresh \in Int
    BY DEF NoBuy
  <2> HIDE DEF fresh
  <2> QED BY <1>1, <1>2, <2>1, KeptNone DEF Pass
<1> HIDE DEF new, none
<1>4. passOK(new) /\ ~busy(new) /\ passOK(none) /\ ~busy(none)
  BY <1>1, <1>2, <1>3 DEF passOK, working, busy, PCs
<1>5. CASE ReadsFail(p)
  <2> DEFINE b    == passes[p].buy
             time == IF wasKept(passes[p]) THEN passes[p].since ELSE clock
  <2>1. time \in Nat
    BY <1>1 DEF wasKept, CopyInv, CopyTypeOK
  <2>2. [x \in DOMAIN deferred \union {b} |-> IF x # b THEN deferred[x] ELSE time] \in Kept
    <3>1. deferred \in Kept /\ b \in Buys
      BY <1>2 DEF CopyInv, CopyTypeOK
    <3> HIDE DEF b, time
    <3> QED BY <2>1, <3>1, KeptFacts
  <2>3. deferred' \in Kept
    BY <1>5, <2>2 DEF ReadsFail, CopyInv, CopyTypeOK
  <2>4. Go(p, new)
    BY <1>5 DEF ReadsFail, new, pc, fresh
  <2>5. Quiet(p, new)
    BY <1>2, <1>3, <1>4, <1>5, <2>3, <2>4
       DEF ReadsFail, rest, ledgers, taps, CopyInv, CopyTypeOK, Quiet, Onward, Taking, Steps
  <2> QED BY <2>5, QuietStep
<1>6. CASE KeepingFails(p)
  <2>1. Go(p, none)
    BY <1>6 DEF KeepingFails, none, pc, fresh
  <2>2. Quiet(p, none)
    BY <1>2, <1>3, <1>4, <1>6, <2>1
       DEF KeepingFails, rest, tables, ledgers, taps, CopyInv, CopyTypeOK, Quiet, Onward,
           Taking, Steps
  <2> QED BY <2>2, QuietStep
<1> QED BY <1>5, <1>6

\* A buy that was answered leaves its pass well formed.
LEMMA AnsweredOK ==
  ASSUME NEW pass \in [pc : PCs, todo : Kept, next : Nat, to : Nat, buy : Nat, since : Int,
                       turn : Nat],
         passOK(pass), working(pass)
  PROVE  /\ Answered(pass) \in Pass /\ passOK(Answered(pass)) /\ ~busy(Answered(pass))
         /\ Answered(pass).pc \in {"drop", "window"}
<1> DEFINE drop == [pass EXCEPT !.pc = "drop"]
           on   == [pass EXCEPT !.pc = "window", !.buy = NoBuy]
<1>1. /\ drop \in Pass /\ drop.pc = "drop" /\ drop.buy = pass.buy /\ drop.to = pass.to
      /\ drop.since = pass.since
      /\ on \in Pass /\ on.pc = "window" /\ on.next = pass.next /\ on.to = pass.to
  BY DEF Pass, PCs, NoBuy
<1>2. Answered(pass) = IF wasKept(pass) THEN drop ELSE on
  BY DEF Answered
<1> HIDE DEF drop, on
<1>3. CASE wasKept(pass)
  <2>1. passOK(drop) /\ ~busy(drop)
    BY <1>1, <1>3 DEF passOK, working, busy, wasKept, PCs
  <2> QED BY <1>1, <1>2, <1>3, <2>1
<1>4. CASE ~wasKept(pass)
  <2>1. passOK(on) /\ ~busy(on)
    BY <1>1, <1>4 DEF passOK, working, busy, PCs
  <2> QED BY <1>1, <1>2, <1>4, <2>1
<1> QED BY <1>3, <1>4

LEMMA ReadsAnswerQuiet ==
  ASSUME CopyInv, NEW p \in Passes, NEW theirs \in BOOLEAN, ReadsAnswer(p, theirs)
  PROVE  CopyInv'
<1> DEFINE claim == [passes[p] EXCEPT !.pc = "claim"]
           done  == Answered(passes[p])
<1>1. /\ passes[p] \in [pc : PCs, todo : Kept, next : Nat, to : Nat, buy : Nat, since : Int,
                        turn : Nat]
      /\ passOK(passes[p]) /\ passes[p].pc = "reads"
  BY PassFields DEF CopyInv, ReadsAnswer
<1>2. working(passes[p])
  BY <1>1 DEF working, PCs
<1>3. done \in Pass /\ passOK(done) /\ ~busy(done) /\ done.pc \in {"drop", "window"}
  BY <1>1, <1>2, AnsweredOK
<1>4. /\ claim \in Pass /\ claim.pc = "claim" /\ claim.buy = passes[p].buy
      /\ claim.to = passes[p].to /\ claim.since = passes[p].since /\ claim.next = passes[p].next
  BY <1>1 DEF Pass, PCs
<1>5. Go(p, claim) \/ Go(p, done)
  BY DEF ReadsAnswer
<1> HIDE DEF claim, done
<1>6. passOK(claim) /\ ~busy(claim)
  BY <1>1, <1>2, <1>4 DEF passOK, working, busy, wasKept, PCs
<1>7. CASE Go(p, claim)
  <2>1. Quiet(p, claim)
    BY <1>4, <1>6, <1>7
       DEF ReadsAnswer, rest, tables, ledgers, taps, CopyInv, CopyTypeOK, Quiet, Onward,
           Taking, Steps
  <2> QED BY <2>1, QuietStep
<1>8. CASE Go(p, done)
  <2>1. Quiet(p, done)
    BY <1>3, <1>8
       DEF ReadsAnswer, rest, tables, ledgers, taps, CopyInv, CopyTypeOK, Quiet, Onward,
           Taking, Steps
  <2> QED BY <2>1, QuietStep
<1> QED BY <1>5, <1>7, <1>8

LEMMA DropKeptQuiet ==
  ASSUME CopyInv, NEW p \in Passes, DropKept(p)
  PROVE  CopyInv'
<1> DEFINE fresh == -1
           new   == [passes[p] EXCEPT !.pc = "kept", !.buy = NoBuy, !.since = fresh]
<1>1. /\ passes[p] \in [pc : PCs, todo : Kept, next : Nat, to : Nat, buy : Nat, since : Int,
                        turn : Nat]
      /\ passOK(passes[p]) /\ passes[p].pc = "drop"
  BY PassFields DEF CopyInv, DropKept
<1>2. new \in Pass /\ new.pc = "kept" /\ new.to = passes[p].to
  <2>1. fresh \in Int /\ NoBuy \in Nat /\ "kept" \in PCs
    BY DEF NoBuy, PCs
  <2> HIDE DEF fresh
  <2> QED BY <1>1, <2>1 DEF Pass
<1>3. Go(p, new)
  BY DEF DropKept
<1> HIDE DEF new
<1>4. passOK(new) /\ ~busy(new)
  BY <1>1, <1>2 DEF passOK, working, busy, PCs
<1>5. deferred' \in Kept
  BY KeptFacts DEF DropKept, CopyInv, CopyTypeOK
<1>6. Quiet(p, new)
  BY <1>2, <1>3, <1>4, <1>5
     DEF DropKept, rest, ledgers, taps, CopyInv, CopyTypeOK, Quiet, Onward, Taking, Steps
<1> QED BY <1>6, QuietStep

\* A pass that mirrors goes on to another step, or to another follower.
LEMMA MirrorMoves ==
  ASSUME CopyInv, NEW p \in Passes, busy(passes[p]), NEW pc, NEW turn \in Nat,
         busy([passes[p] EXCEPT !.pc = pc, !.turn = turn]), turn >= passes[p].turn,
         turn <= Len(Followers) + 1, pc # "mirror" => turn <= Len(Followers)
  PROVE  LET new == [passes[p] EXCEPT !.pc = pc, !.turn = turn]
         IN  /\ new \in Pass /\ passOK(new) /\ new.pc = pc /\ new.turn = turn
             /\ new.buy = passes[p].buy
<1> DEFINE new == [passes[p] EXCEPT !.pc = pc, !.turn = turn]
<1>1. passes[p].pc # "idle" /\ passes[p].turn >= 1 /\ passes[p].buy \in Buys
  BY BusyFields DEF CopyInv
<1>2. /\ passes[p] \in [pc : PCs, todo : Kept, next : Nat, to : Nat, buy : Nat, since : Int,
                        turn : Nat]
      /\ passOK(passes[p])
  BY <1>1, PassFields DEF CopyInv
<1>3. new.pc = pc /\ pc \in {"mirror", "room", "giveBack", "send"} /\ pc \in PCs
  BY <1>2 DEF busy, PCs
<1>4. /\ new \in Pass /\ new.turn = turn /\ new.buy = passes[p].buy /\ new.to = passes[p].to
      /\ new.since = passes[p].since /\ new.next = passes[p].next
  BY <1>2, <1>3 DEF Pass
<1>5. working(passes[p])
  BY DEF busy, working, PCs
<1> HIDE DEF new
<1>6. passOK(new)
  BY <1>1, <1>2, <1>3, <1>4, <1>5 DEF passOK, working, busy, wasKept, PCs
<1> QED BY <1>3, <1>4, <1>6 DEF new

LEMMA SkipQuiet ==
  ASSUME CopyInv, NEW p \in Passes, Skip(p)
  PROVE  CopyInv'
<1> DEFINE turn == passes[p].turn + 1
           new  == [passes[p] EXCEPT !.pc = "mirror", !.turn = turn]
<1>1. busy(passes[p]) /\ passes[p].pc = "mirror"
  BY DEF Skip, onTurn, busy
<1>2. turn \in Nat /\ turn >= passes[p].turn /\ turn <= Len(Followers) + 1
  BY <1>1, BusyFields, FollowersFacts DEF CopyInv, Skip, onTurn
<1>3. busy(new) /\ Go(p, new)
  <2>1. passes[p] \in [pc : PCs, todo : Kept, next : Nat, to : Nat, buy : Nat, since : Int,
                       turn : Nat]
    BY <1>1, PassFields DEF CopyInv
  <2>2. new.pc = "mirror"
    BY <2>1
  <2> QED BY <2>2 DEF Skip, NextTurn, busy
<1> HIDE DEF turn
<1>4. new \in Pass /\ passOK(new) /\ new.pc = "mirror" /\ new.turn = turn
      /\ new.buy = passes[p].buy
  BY <1>1, <1>2, <1>3, MirrorMoves
<1> HIDE DEF new
<1>5. Quiet(p, new)
  BY <1>1, <1>2, <1>3, <1>4
     DEF Skip, rest, tables, ledgers, taps, CopyInv, CopyTypeOK, Quiet, Onward, Taking, Steps
<1> QED BY <1>5, QuietStep

LEMMA MirrorBreaksQuiet ==
  ASSUME CopyInv, NEW p \in Passes, MirrorBreaks(p)
  PROVE  CopyInv'
<1> DEFINE turn == Len(Followers) + 1
           new  == [passes[p] EXCEPT !.pc = "mirror", !.turn = turn]
<1>1. busy(passes[p]) /\ passes[p].pc \in {"mirror", "room", "giveBack"}
  BY DEF MirrorBreaks, busy
<1>2. /\ passes[p] \in [pc : PCs, todo : Kept, next : Nat, to : Nat, buy : Nat, since : Int,
                        turn : Nat]
      /\ passOK(passes[p])
  BY <1>1, PassFields DEF CopyInv
<1>3. busy(new) /\ Go(p, new)
  <2>1. new.pc = "mirror"
    BY <1>2
  <2> QED BY <2>1 DEF MirrorBreaks, busy
<1>4. turn \in Nat /\ turn >= passes[p].turn
  BY <1>1, <1>2, FollowersFacts DEF passOK
<1> HIDE DEF turn
<1>5. turn <= Len(Followers) + 1
  BY FollowersFacts DEF turn
<1>6. new \in Pass /\ passOK(new) /\ new.pc = "mirror" /\ new.turn = turn
      /\ new.buy = passes[p].buy
  BY <1>1, <1>3, <1>4, <1>5, MirrorMoves
<1> HIDE DEF new
<1>7. Quiet(p, new)
  BY <1>1, <1>3, <1>4, <1>6
     DEF MirrorBreaks, rest, tables, ledgers, taps, CopyInv, CopyTypeOK, Quiet, Onward, Taking,
         Steps
<1> QED BY <1>7, QuietStep

LEMMA EndsQuiet ==
  ASSUME CopyInv, NEW p \in Passes, Refused(p) \/ SendThrows(p)
  PROVE  CopyInv'
<1> DEFINE turn == passes[p].turn
           new  == [passes[p] EXCEPT !.pc = "giveBack"]
<1>1. busy(passes[p]) /\ passes[p].pc \in {"room", "send"}
  BY DEF Refused, SendThrows, busy
<1>2. /\ passes[p] \in [pc : PCs, todo : Kept, next : Nat, to : Nat, buy : Nat, since : Int,
                        turn : Nat]
      /\ passOK(passes[p])
  BY <1>1, PassFields DEF CopyInv
<1>3. Go(p, new)
  BY DEF Refused, SendThrows, At
<1>4. /\ new \in Pass /\ new.pc = "giveBack" /\ new.turn = passes[p].turn
      /\ new.buy = passes[p].buy /\ new.to = passes[p].to /\ new.since = passes[p].since
      /\ new.next = passes[p].next
  BY <1>2 DEF Pass, PCs
<1> HIDE DEF new
<1>5. passOK(new)
  BY <1>1, <1>2, <1>4 DEF passOK, working, busy, wasKept, PCs
<1>6. Quiet(p, new)
  BY <1>1, <1>2, <1>3, <1>4, <1>5
     DEF Refused, SendThrows, rest, tables, ledgers, taps, CopyInv, CopyTypeOK, Quiet, Onward,
         Taking, Steps
<1> QED BY <1>6, QuietStep

----------------------------------------------------------------------------
(* A buy is claimed, and told of.                                          *)

LEMMA ClaimStep ==
  ASSUME CopyInv, NEW p \in Passes, NEW clears \in BOOLEAN, ClaimVenueBuy(p, clears)
  PROVE  CopyInv'
<1> DEFINE b      == passes[p].buy
           mirror == [passes[p] EXCEPT !.pc = "mirror", !.turn = 1]
           new    == IF claimableVenueBuy(b) /\ clears THEN mirror ELSE Answered(passes[p])
<1>1. /\ passes[p] \in [pc : PCs, todo : Kept, next : Nat, to : Nat, buy : Nat, since : Int,
                        turn : Nat]
      /\ passOK(passes[p]) /\ passes[p].pc = "claim"
  BY PassFields DEF CopyInv, ClaimVenueBuy
<1>2. working(passes[p]) /\ b \in Buys
  BY <1>1 DEF working, passOK, PCs
<1>3. /\ mirror \in Pass /\ mirror.pc = "mirror" /\ mirror.buy = b /\ mirror.turn = 1
      /\ mirror.to = passes[p].to /\ mirror.since = passes[p].since
      /\ mirror.next = passes[p].next
  BY <1>1 DEF Pass, PCs
<1> HIDE DEF mirror
<1>4. passOK(mirror)
  BY <1>1, <1>2, <1>3, FollowersFacts DEF passOK, working, busy, wasKept, PCs
<1>5. LET done == Answered(passes[p])
      IN  done \in Pass /\ passOK(done) /\ ~busy(done) /\ done.pc \in {"drop", "window"}
  BY <1>1, <1>2, AnsweredOK
<1>6. /\ new \in Pass /\ passOK(new) /\ new.pc \in {"mirror", "drop", "window"}
      /\ busy(new) => new = mirror /\ b \notin claimed
  BY <1>3, <1>4, <1>5 DEF claimableVenueBuy
<1>7. Go(p, new) /\ claimed' = claimed \union {b}
  BY DEF ClaimVenueBuy, mirror
<1> HIDE DEF new
<1>8. Taking(p, new)
  BY <1>6, <1>7 DEF ClaimVenueBuy, Taking, Steps, rest, ledgers, taps
<1>9. /\ passes' \in [Passes -> Pass] /\ passes'[p] = new
      /\ \A q \in Passes : q # p => passes'[q] = passes[q]
      /\ PassesOK'
  BY <1>8, StepsFacts DEF Taking, CopyInv
<1>10. CopyTypeOK'
  BY <1>2, <1>7, <1>9 DEF ClaimVenueBuy, CopyInv, CopyTypeOK, rest, ledgers, taps
<1>11. UNCHANGED <<mirrored, posted>>
  BY DEF ClaimVenueBuy
<1>12. Ledgers'
  BY <1>8, <1>10, LedgersKept
<1>13. CopiedOnce'
  BY <1>11 DEF CopyInv, CopiedOnce
<1>14. Claims'
  <2>1. ASSUME NEW q \in Passes, busy(passes'[q])
        PROVE  /\ passes'[q].buy \in claimed' /\ posted'[passes'[q].buy] = 0
               /\ \A i \in 1..Len(Followers) :
                    i >= passes'[q].turn => mirrored'[passes'[q].buy][Followers[i]] = 0
               /\ \A r \in Passes : busy(passes'[r]) /\ passes'[r].buy = passes'[q].buy => r = q
    <3>1. CASE q = p
      <4>1. passes'[q].buy = b /\ b \notin claimed
        BY <1>3, <1>6, <1>9, <2>1, <3>1
      <4>2. posted[b] = 0 /\ \A i \in 1..Len(Followers) : mirrored[b][Followers[i]] = 0
        BY <1>2, <4>1, FollowersFacts DEF CopyInv, Claims
      <4>3. \A r \in Passes : busy(passes'[r]) /\ passes'[r].buy = b => r = q
        BY <1>9, <3>1, <4>1 DEF CopyInv, Claims
      <4> QED BY <1>7, <1>11, <4>1, <4>2, <4>3
    <3>2. CASE q # p
      <4>1. passes'[q] = passes[q] /\ busy(passes[q])
        BY <1>9, <2>1, <3>2
      <4>2. passes[q].buy \in claimed
        BY <4>1 DEF CopyInv, Claims
      <4>3. \A r \in Passes : busy(passes'[r]) /\ passes'[r].buy = passes'[q].buy => r = q
        <5>1. ASSUME NEW r \in Passes, busy(passes'[r]), passes'[r].buy = passes'[q].buy
              PROVE  r = q
          <6>1. r # p
            BY <1>3, <1>6, <1>9, <4>1, <4>2, <5>1
          <6> QED BY <1>9, <4>1, <5>1, <6>1 DEF CopyInv, Claims
        <5> QED BY <5>1
      <4> QED BY <1>7, <1>11, <4>1, <4>2, <4>3 DEF CopyInv, Claims
    <3> QED BY <3>1, <3>2
  <2>2. \A c \in Buys : c \notin claimed' =>
          posted'[c] = 0 /\ \A f \in Members : mirrored'[c][f] = 0
    BY <1>7, <1>11 DEF CopyInv, Claims
  <2> QED BY <2>1, <2>2 DEF Claims
<1> QED BY <1>9, <1>10, <1>12, <1>13, <1>14 DEF CopyInv

LEMMA AnnounceStep ==
  ASSUME CopyInv, NEW p \in Passes, NEW goesOut \in BOOLEAN, Announce(p, goesOut)
  PROVE  CopyInv'
<1> DEFINE b    == passes[p].buy
           done == Answered(passes[p])
           new  == [done EXCEPT !.turn = 0]
<1>1. busy(passes[p]) /\ working(passes[p]) /\ passes[p].pc = "mirror"
  BY DEF Announce, busy, working, PCs
<1>2. /\ passes[p] \in [pc : PCs, todo : Kept, next : Nat, to : Nat, buy : Nat, since : Int,
                        turn : Nat]
      /\ passOK(passes[p]) /\ b \in Buys
  BY <1>1, PassFields, BusyFields DEF CopyInv
<1>3. /\ done \in [pc : PCs, todo : Kept, next : Nat, to : Nat, buy : Nat, since : Int,
                   turn : Nat]
      /\ passOK(done) /\ ~busy(done) /\ done.pc \in {"drop", "window"}
  BY <1>1, <1>2, AnsweredOK DEF Answered, PCs, NoBuy
<1> HIDE DEF done
<1>4. /\ new \in Pass /\ new.pc = done.pc /\ new.buy = done.buy /\ new.to = done.to
      /\ new.since = done.since /\ new.next = done.next
  BY <1>3 DEF Pass
<1>5. Go(p, new) /\ posted' = IF goesOut THEN [posted EXCEPT ![b] = @ + 1] ELSE posted
  BY DEF Announce, done
<1> HIDE DEF new
<1>6. passOK(new) /\ ~busy(new)
  BY <1>3, <1>4 DEF passOK, working, busy, wasKept, PCs
<1>7. Taking(p, new)
  BY <1>3, <1>4, <1>5, <1>6 DEF Announce, Taking, Steps, rest, ledgers, taps
<1>8. /\ passes' \in [Passes -> Pass] /\ passes'[p] = new
      /\ \A q \in Passes : q # p => passes'[q] = passes[q]
      /\ PassesOK'
  BY <1>7, StepsFacts DEF Taking, CopyInv
<1>9. posted' \in [Buys -> Nat] /\ \A c \in Buys : c # b => posted'[c] = posted[c]
  BY <1>2, <1>5 DEF CopyInv, CopyTypeOK
<1>10. UNCHANGED <<claimed, mirrored>>
  BY DEF Announce, tables
<1>11. CopyTypeOK'
  BY <1>8, <1>9 DEF Announce, CopyInv, CopyTypeOK, rest, ledgers, taps, tables
<1>12. Ledgers'
  BY <1>7, <1>11, LedgersKept
<1>13. b \in claimed /\ posted[b] = 0
  BY <1>1 DEF CopyInv, Claims
<1>14. CopiedOnce'
  <2>1. posted'[b] <= 1
    BY <1>2, <1>5, <1>13 DEF CopyInv, CopyTypeOK
  <2> QED BY <1>9, <1>10, <2>1 DEF CopyInv, CopiedOnce
<1>15. Claims'
  <2>1. ASSUME NEW q \in Passes, busy(passes'[q])
        PROVE  q # p /\ passes'[q] = passes[q] /\ busy(passes[q]) /\ passes[q].buy # b
               /\ passes[q].buy \in Buys
    <3>1. q # p /\ passes'[q] = passes[q] /\ busy(passes[q])
      BY <1>6, <1>8, <2>1
    <3>2. passes[q].buy # b
      BY <1>1, <3>1 DEF CopyInv, Claims
    <3> QED BY <3>1, <3>2, BusyFields DEF CopyInv
  <2>2. ASSUME NEW q \in Passes, busy(passes'[q])
        PROVE  /\ passes'[q].buy \in claimed' /\ posted'[passes'[q].buy] = 0
               /\ \A i \in 1..Len(Followers) :
                    i >= passes'[q].turn => mirrored'[passes'[q].buy][Followers[i]] = 0
               /\ \A r \in Passes : busy(passes'[r]) /\ passes'[r].buy = passes'[q].buy => r = q
    BY <1>9, <1>10, <2>1, <2>2 DEF CopyInv, Claims
  <2>3. \A c \in Buys : c \notin claimed' =>
          posted'[c] = 0 /\ \A f \in Members : mirrored'[c][f] = 0
    BY <1>9, <1>10, <1>13 DEF CopyInv, Claims
  <2> QED BY <2>2, <2>3 DEF Claims
<1> QED BY <1>8, <1>11, <1>12, <1>14, <1>15 DEF CopyInv

----------------------------------------------------------------------------
(* The steps that write a ledger.                                          *)

\* A pass that moves on changes each sum by what it held and what it holds.
SumsMove(p, new) ==
  /\ Total(room)' = Total(room) - one(passes[p].pc \in {"room", "send", "giveBack"})
                    + one(new.pc \in {"room", "send", "giveBack"})
  /\ Total(granted)' = Total(granted) - one(passes[p].pc \in {"room", "send"})
                       + one(new.pc \in {"room", "send"})
  /\ \A f \in Members :
       Total(sending(f))' = Total(sending(f))
                            - one(passes[p].pc = "send" /\ follower(passes[p]) = f)
                            + one(new.pc = "send" /\ follower(new) = f)

LEMMA StepSums ==
  ASSUME CopyTypeOK, CopyTypeOK', PassesOK, NEW p \in Passes, NEW new, Steps(p, new)
  PROVE  SumsMove(p, new)
<1>1. /\ passes' \in [Passes -> Pass] /\ passes'[p] = new
      /\ \A q \in Passes : q # p => passes'[q] = passes[q]
  BY StepsFacts
<1>2. SumsOK /\ SumsOK'
  BY SumsType, SumsNext
<1>3. Total(room)' = Total(room) - room[p] + room'[p]
  <2>1. \A q \in Passes : q # p => room'[q] = room[q]
    BY <1>1 DEF room
  <2> QED BY <1>2, <2>1, FinitePasses, TotalUpdate DEF SumsOK
<1>4. Total(granted)' = Total(granted) - granted[p] + granted'[p]
  <2>1. \A q \in Passes : q # p => granted'[q] = granted[q]
    BY <1>1 DEF granted
  <2> QED BY <1>2, <2>1, FinitePasses, TotalUpdate DEF SumsOK
<1>5. ASSUME NEW f \in Members
      PROVE  Total(sending(f))' = Total(sending(f)) - sending(f)[p] + sending(f)'[p]
  <2>1. \A q \in Passes : q # p => sending(f)'[q] = sending(f)[q]
    BY <1>1 DEF sending, follower
  <2> QED BY <1>2, <2>1, FinitePasses, TotalUpdate DEF SumsOK
<1>6. /\ room[p] = one(passes[p].pc \in {"room", "send", "giveBack"})
      /\ room'[p] = one(new.pc \in {"room", "send", "giveBack"})
      /\ granted[p] = one(passes[p].pc \in {"room", "send"})
      /\ granted'[p] = one(new.pc \in {"room", "send"})
  BY <1>1 DEF room, granted
<1>7. \A f \in Members :
        /\ sending(f)[p] = one(passes[p].pc = "send" /\ follower(passes[p]) = f)
        /\ sending(f)'[p] = one(new.pc = "send" /\ follower(new) = f)
  BY <1>1 DEF sending, follower
<1> QED BY <1>3, <1>4, <1>5, <1>6, <1>7 DEF SumsMove

\* Who was granted room holds it.
GrantedIsRoom == Total(granted) <= Total(room)

LEMMA GrantedHolds == CopyTypeOK => GrantedIsRoom
<1> SUFFICES ASSUME CopyTypeOK PROVE GrantedIsRoom
  OBVIOUS
<1>1. \A q \in Passes : granted[q] <= room[q]
  BY DEF granted, room, one
<1> QED BY <1>1, SumsType, FinitePasses, TotalMonotone DEF SumsOK, GrantedIsRoom

LEMMA GrantedHoldsNext == CopyTypeOK' => GrantedIsRoom'
BY GrantedHolds, PTL

LEMMA CopiesKept ==
  ASSUME UNCHANGED mirrored
  PROVE  copies' = copies /\ \A f \in Members : copiesInto(f)' = copiesInto(f)
BY DEF copies, copiesInto

\* A pass at a follower goes to another step of it.
LEMMA MirrorAt ==
  ASSUME CopyInv, NEW p \in Passes, busy(passes[p]), passes[p].turn <= Len(Followers),
         NEW pc \in {"room", "giveBack", "send"}
  PROVE  LET new == [passes[p] EXCEPT !.pc = pc]
         IN  /\ new \in Pass /\ passOK(new) /\ busy(new) /\ new.pc = pc
             /\ new.turn = passes[p].turn /\ new.buy = passes[p].buy
             /\ follower(new) = follower(passes[p])
<1> DEFINE new == [passes[p] EXCEPT !.pc = pc]
<1>1. passes[p].pc # "idle" /\ passes[p].turn >= 1 /\ passes[p].buy \in Buys
  BY BusyFields DEF CopyInv
<1>2. /\ passes[p] \in [pc : PCs, todo : Kept, next : Nat, to : Nat, buy : Nat, since : Int,
                        turn : Nat]
      /\ passOK(passes[p])
  BY <1>1, PassFields DEF CopyInv
<1>3. /\ new \in Pass /\ new.pc = pc /\ new.turn = passes[p].turn /\ new.buy = passes[p].buy
      /\ new.to = passes[p].to /\ new.since = passes[p].since /\ new.next = passes[p].next
  BY <1>2 DEF Pass, PCs
<1>4. working(passes[p])
  BY DEF busy, working, PCs
<1> HIDE DEF new
<1>5. passOK(new)
  BY <1>1, <1>2, <1>3, <1>4, FollowersFacts DEF passOK, working, busy, wasKept, PCs
<1>6. busy(new)
  BY <1>3 DEF busy
<1> QED BY <1>3, <1>5, <1>6 DEF new, follower

LEMMA TakeRoomStep ==
  ASSUME CopyInv, NEW p \in Passes, TakeRoom(p)
  PROVE  CopyInv'
<1> DEFINE pc  == IF overRoom(tokenDay') THEN "giveBack" ELSE "room"
           new == [passes[p] EXCEPT !.pc = pc]
<1> USE DEF CopyInv
<1>1. busy(passes[p]) /\ passes[p].pc = "mirror" /\ passes[p].turn <= Len(Followers)
  BY DEF TakeRoom, onTurn, busy
<1>2. pc \in {"room", "giveBack", "send"} /\ pc # "send"
  OBVIOUS
<1>3. Go(p, new) /\ (pc = "room" => ~overRoom(tokenDay'))
  BY DEF TakeRoom, At
<1> HIDE DEF pc
<1>4. /\ new \in Pass /\ passOK(new) /\ busy(new) /\ new.pc = pc
      /\ new.turn = passes[p].turn /\ new.buy = passes[p].buy
  BY <1>1, <1>2, MirrorAt
<1> HIDE DEF new
<1>5. passes[p].turn \in Nat
  BY <1>1, BusyFields
<1>6. Onward(p, new)
  BY <1>1, <1>3, <1>4, <1>5 DEF TakeRoom, Onward, Steps, rest, tables
<1>7. passes' \in [Passes -> Pass] /\ PassesOK'
  BY <1>6, StepsFacts DEF Onward
<1>8. tokenDay \in Int /\ tokenDay' = tokenDay + MIRROR_WEI /\ MIRROR_WEI \in Nat
  BY CopyNumbers DEF TakeRoom, CopyTypeOK
<1>9. CopyTypeOK'
  BY <1>7, <1>8 DEF TakeRoom, CopyTypeOK, rest, tables, taps
<1>10. Claims' /\ CopiedOnce'
  BY <1>6, ClaimsKept
<1>11. SumsOK /\ SumsOK'
  BY <1>9, SumsType, SumsNext
<1>12. copies' = copies /\ \A f \in Members : copiesInto(f)' = copiesInto(f)
  BY CopiesKept DEF TakeRoom
<1>13. /\ Total(room)' = Total(room) + 1
       /\ Total(granted)' = Total(granted) + one(pc = "room")
       /\ \A f \in Members : Total(sending(f))' = Total(sending(f))
  <2>1. Steps(p, new)
    BY <1>6 DEF Onward
  <2>2. SumsMove(p, new)
    BY <1>9, <2>1, StepSums
  <2> QED BY <1>1, <1>2, <1>4, <1>11, <2>2 DEF one, SumsOK, SumsMove
<1>14. RoomKept' /\ MIRROR_WEI * (copies' + Total(room)') <= tokenDay'
  <2>1. copies + Total(room) \in Nat /\ copies' + Total(room)' = (copies + Total(room)) + 1
    BY <1>11, <1>12, <1>13 DEF SumsOK
  <2>2. MIRROR_WEI * (copies' + Total(room)') = MIRROR_WEI * (copies + Total(room)) + MIRROR_WEI
    BY <2>1, OneMore
  <2>3. MIRROR_WEI * (copies + Total(room)) <= tokenDay
        /\ MIRROR_WEI * (copies + Total(room)) \in Nat
    BY <2>1, OneMore DEF Ledgers, RoomKept
  <2>4. MIRROR_WEI * (copies' + Total(room)') <= tokenDay'
    BY <1>8, <2>2, <2>3
  <2> QED BY <2>4 DEF RoomKept
<1>15. RoomGranted'
  <2>1. CASE pc = "room"
    <3>1. tokenDay' <= TOKEN_DAY_CAP /\ TOKEN_DAY_CAP \in Nat
      BY <1>3, <1>8, <2>1, CopyNumbers DEF overRoom
    <3>2. /\ copies' + Total(granted)' \in Nat /\ copies' + Total(room)' \in Nat
          /\ copies' + Total(granted)' <= copies' + Total(room)'
      BY <1>9, <1>11, GrantedHoldsNext DEF SumsOK, GrantedIsRoom
    <3>3. /\ MIRROR_WEI * (copies' + Total(granted)') <= MIRROR_WEI * (copies' + Total(room)')
          /\ MIRROR_WEI * (copies' + Total(granted)') \in Nat
          /\ MIRROR_WEI * (copies' + Total(room)') \in Nat
      BY <3>2, NoMore, OneMore
    <3>4. MIRROR_WEI * (copies' + Total(granted)') <= TOKEN_DAY_CAP
      BY <1>8, <1>14, <3>1, <3>3
    <3> QED BY <3>4 DEF RoomGranted
  <2>2. CASE pc # "room"
    <3>1. copies' + Total(granted)' = copies + Total(granted)
      BY <1>11, <1>12, <1>13, <2>2 DEF SumsOK, one
    <3> QED BY <3>1 DEF Ledgers, RoomGranted
  <2> QED BY <2>1, <2>2
<1>16. UNCHANGED <<userDay, tapping, tapped, uncounted>>
  BY DEF TakeRoom, rest, taps
<1>17. DayCounted'
  BY <1>12, <1>13, <1>16 DEF Ledgers, DayCounted
<1>18. DayGranted'
  BY <1>12, <1>13, <1>16 DEF Ledgers, DayGranted
<1> QED BY <1>7, <1>9, <1>10, <1>14, <1>15, <1>17, <1>18 DEF Ledgers

LEMMA ChargeDayStep ==
  ASSUME CopyInv, NEW p \in Passes, ChargeDay(p),
         NEW f \in Members, f = follower(passes[p])
  PROVE  CopyInv'
<1> DEFINE pc  == IF overDay(userDay[f]) THEN "giveBack" ELSE "send"
           new == [passes[p] EXCEPT !.pc = pc]
<1> USE DEF CopyInv
<1>1. busy(passes[p]) /\ passes[p].pc = "room"
  BY DEF ChargeDay, busy
<1>2. passes[p].turn \in Nat /\ passes[p].turn >= 1 /\ passes[p].turn <= Len(Followers)
  BY <1>1, BusyFields, PassFields DEF passOK
<1>3. pc \in {"room", "giveBack", "send"} /\ pc # "room"
  OBVIOUS
<1>4. /\ Go(p, new) /\ (pc = "send" => ~overDay(userDay[f]))
      /\ userDay' = [userDay EXCEPT ![f] = @ + 1]
  BY DEF ChargeDay, At
<1> HIDE DEF pc
<1>5. /\ new \in Pass /\ passOK(new) /\ busy(new) /\ new.pc = pc
      /\ new.turn = passes[p].turn /\ new.buy = passes[p].buy /\ follower(new) = f
  BY <1>1, <1>2, <1>3, MirrorAt
<1> HIDE DEF new
<1>6. Onward(p, new)
  BY <1>1, <1>2, <1>4, <1>5 DEF ChargeDay, Onward, Steps, rest, tables
<1>7. passes' \in [Passes -> Pass] /\ PassesOK'
  BY <1>6, StepsFacts DEF Onward
<1>8. /\ userDay \in [Members -> Nat] /\ userDay' \in [Members -> Nat]
      /\ userDay'[f] = userDay[f] + 1 /\ \A g \in Members : g # f => userDay'[g] = userDay[g]
  BY <1>2, <1>4 DEF CopyTypeOK
<1>9. CopyTypeOK'
  BY <1>7, <1>8 DEF ChargeDay, CopyTypeOK, rest, tables, taps
<1>10. Claims' /\ CopiedOnce'
  BY <1>6, ClaimsKept
<1>11. SumsOK /\ SumsOK'
  BY <1>9, SumsType, SumsNext
<1>12. copies' = copies /\ \A g \in Members : copiesInto(g)' = copiesInto(g)
  BY CopiesKept DEF ChargeDay
<1>13. /\ Total(room)' = Total(room) /\ Total(granted)' <= Total(granted)
       /\ Total(sending(f))' = Total(sending(f)) + one(pc = "send")
       /\ \A g \in Members : g # f => Total(sending(g))' = Total(sending(g))
  <2>1. Steps(p, new)
    BY <1>6 DEF Onward
  <2>2. SumsMove(p, new)
    BY <1>9, <2>1, StepSums
  <2>3. /\ one(passes[p].pc \in {"room", "send", "giveBack"}) = 1
        /\ one(new.pc \in {"room", "send", "giveBack"}) = 1
        /\ one(passes[p].pc \in {"room", "send"}) = 1
        /\ one(new.pc \in {"room", "send"}) \in {0, 1}
    BY <1>1, <1>3, <1>5 DEF one
  <2>4. \A g \in Members : one(passes[p].pc = "send" /\ follower(passes[p]) = g) = 0
    BY <1>1 DEF one
  <2>5. /\ one(new.pc = "send" /\ follower(new) = f) = one(pc = "send")
        /\ one(pc = "send") \in {0, 1}
        /\ \A g \in Members : g # f => one(new.pc = "send" /\ follower(new) = g) = 0
    BY <1>5 DEF one
  <2>6. /\ Total(room)' = Total(room) /\ Total(granted)' <= Total(granted)
    BY <1>11, <2>2, <2>3 DEF SumsOK, SumsMove
  <2>7. \A g \in Members : Total(sending(g))' = Total(sending(g)) - 0
                                           + one(new.pc = "send" /\ follower(new) = g)
    BY <2>2, <2>4 DEF SumsMove
  <2>8. Total(sending(f)) \in Nat /\ \A g \in Members : Total(sending(g)) \in Nat
    BY <1>2, <1>11 DEF SumsOK
  <2> QED BY <1>2, <2>5, <2>6, <2>7, <2>8
<1>14. UNCHANGED <<tokenDay, tapping, tapped, uncounted>>
  BY DEF ChargeDay, rest, taps
<1>15. RoomKept'
  BY <1>12, <1>13, <1>14 DEF Ledgers, RoomKept
<1>16. RoomGranted'
  <2>1. /\ copies + Total(granted) \in Nat /\ copies' + Total(granted)' \in Nat
        /\ copies' + Total(granted)' <= copies + Total(granted)
    BY <1>11, <1>12, <1>13 DEF SumsOK
  <2>2. /\ MIRROR_WEI * (copies' + Total(granted)') <= MIRROR_WEI * (copies + Total(granted))
        /\ MIRROR_WEI * (copies' + Total(granted)') \in Nat
        /\ MIRROR_WEI * (copies + Total(granted)) \in Nat
    BY <2>1, NoMore, OneMore
  <2>3. MIRROR_WEI * (copies' + Total(granted)') <= TOKEN_DAY_CAP
    BY <2>2, CopyNumbers DEF Ledgers, RoomGranted
  <2> QED BY <2>3 DEF RoomGranted
<1>17. \A g \in Members : /\ tapping'[g] = tapping[g] /\ tapped'[g] = tapped[g]
                          /\ uncounted'[g] = uncounted[g] /\ tapped[g] \in Nat
                          /\ uncounted[g] \in Nat /\ userDay[g] \in Nat
                          /\ copiesInto(g) \in Nat /\ Total(sending(g)) \in Nat
                          /\ one(tapping'[g] = "sent") = one(tapping[g] = "sent")
                          /\ one(tapping'[g] = "asked") = one(tapping[g] = "asked")
                          /\ one(tapping[g] = "sent") \in {0, 1}
                          /\ one(tapping[g] = "asked") \in {0, 1}
  BY <1>11, <1>14 DEF CopyTypeOK, SumsOK, one
<1>18. DayCounted'
  <2>1. ASSUME NEW g \in Members
        PROVE  copiesInto(g)' + Total(sending(g))' + tapped'[g]
                 <= userDay'[g] + uncounted'[g] + one(tapping'[g] = "sent")
    <3>1. copiesInto(g) + Total(sending(g)) + tapped[g]
            <= userDay[g] + uncounted[g] + one(tapping[g] = "sent")
      BY DEF Ledgers, DayCounted
    <3>2. CASE g = f
      <4>1. one(pc = "send") <= 1 /\ one(pc = "send") \in Nat
        BY DEF one
      <4>2. Total(sending(g))' = Total(sending(g)) + one(pc = "send")
            /\ userDay'[g] = userDay[g] + 1
        BY <1>8, <1>13, <3>2
      <4> QED BY <1>12, <1>17, <3>1, <4>1, <4>2
    <3>3. CASE g # f
      BY <1>8, <1>12, <1>13, <1>17, <3>1, <3>3
    <3> QED BY <3>2, <3>3
  <2> QED BY <2>1 DEF DayCounted, one
<1>19. DayGranted'
  <2>1. ASSUME NEW g \in Members
        PROVE  copiesInto(g)' + Total(sending(g))' + tapped'[g] + one(tapping'[g] = "asked")
                 <= DAILY_EXECUTES + 1 + uncounted'[g]
    <3>1. /\ copiesInto(g) + Total(sending(g)) + tapped[g] + one(tapping[g] = "asked")
               <= DAILY_EXECUTES + 1 + uncounted[g]
          /\ copiesInto(g) + Total(sending(g)) + tapped[g]
               <= userDay[g] + uncounted[g] + one(tapping[g] = "sent")
      BY DEF Ledgers, DayGranted, DayCounted
    <3>2. DAILY_EXECUTES \in Nat
      BY CopyNumbers
    <3>3. CASE g = f /\ pc = "send"
      <4>1. userDay[g] < DAILY_EXECUTES
        BY <1>4, <1>17, <3>2, <3>3 DEF overDay
      <4>2. one(tapping[g] = "asked") + one(tapping[g] = "sent") <= 1
        BY DEF one
      <4>3. one(tapping[g] = "asked") \in Nat /\ one(tapping[g] = "sent") \in Nat
        BY DEF one
      <4>4. one(pc = "send") = 1
        BY <3>3 DEF one
      <4>5. Total(sending(g))' = Total(sending(g)) + 1
        BY <1>13, <3>3, <4>4
      <4> QED BY <1>12, <1>17, <3>1, <3>2, <4>1, <4>2, <4>5
    <3>4. CASE ~(g = f /\ pc = "send")
      <4>1. Total(sending(g))' = Total(sending(g))
        BY <1>13, <1>17, <3>4 DEF one
      <4> QED BY <1>12, <1>17, <3>1, <4>1
    <3> QED BY <3>3, <3>4
  <2> QED BY <2>1 DEF DayGranted, one
<1> QED BY <1>7, <1>9, <1>10, <1>15, <1>16, <1>18, <1>19 DEF Ledgers

LEMMA GiveBackStep ==
  ASSUME CopyInv, NEW p \in Passes, GiveBack(p)
  PROVE  CopyInv'
<1> DEFINE turn == passes[p].turn + 1
           new  == [passes[p] EXCEPT !.pc = "mirror", !.turn = turn]
<1> USE DEF CopyInv
<1>1. busy(passes[p]) /\ passes[p].pc = "giveBack"
  BY DEF GiveBack, busy
<1>2. /\ passes[p] \in [pc : PCs, todo : Kept, next : Nat, to : Nat, buy : Nat, since : Int,
                        turn : Nat]
      /\ passes[p].turn >= 1 /\ passes[p].turn <= Len(Followers)
  BY <1>1, BusyFields, PassFields DEF passOK
<1>3. turn \in Nat /\ turn >= passes[p].turn /\ turn <= Len(Followers) + 1
  BY <1>2, FollowersFacts
<1>4. busy(new) /\ Go(p, new)
  <2>1. new.pc = "mirror"
    BY <1>2
  <2> QED BY <2>1 DEF GiveBack, NextTurn, busy
<1> HIDE DEF turn
<1>5. new \in Pass /\ passOK(new) /\ new.pc = "mirror" /\ new.turn = turn
      /\ new.buy = passes[p].buy
  BY <1>1, <1>3, <1>4, MirrorMoves
<1> HIDE DEF new
<1>6. Onward(p, new)
  BY <1>1, <1>3, <1>4, <1>5 DEF GiveBack, Onward, Steps, rest, tables
<1>7. passes' \in [Passes -> Pass] /\ PassesOK'
  BY <1>6, StepsFacts DEF Onward
<1>8. /\ tokenDay \in Int /\ tokenDay' = tokenDay - MIRROR_WEI /\ MIRROR_WEI \in Nat
      /\ tokenDay' \in Int
  BY CopyNumbers DEF GiveBack, CopyTypeOK
<1>9. CopyTypeOK'
  BY <1>7, <1>8 DEF GiveBack, CopyTypeOK, rest, tables, taps
<1>10. Claims' /\ CopiedOnce'
  BY <1>6, ClaimsKept
<1>11. SumsOK /\ SumsOK'
  BY <1>9, SumsType, SumsNext
<1>12. copies' = copies /\ \A g \in Members : copiesInto(g)' = copiesInto(g)
  BY CopiesKept DEF GiveBack
<1>13. /\ Total(room) = Total(room)' + 1 /\ Total(granted)' = Total(granted)
       /\ \A g \in Members : Total(sending(g))' = Total(sending(g))
  <2>1. Steps(p, new)
    BY <1>6 DEF Onward
  <2>2. SumsMove(p, new)
    BY <1>9, <2>1, StepSums
  <2> QED BY <1>1, <1>5, <1>11, <2>2 DEF one, SumsOK, SumsMove
<1>14. RoomKept'
  <2>1. copies' + Total(room)' \in Nat /\ copies + Total(room) = (copies' + Total(room)') + 1
    BY <1>11, <1>12, <1>13 DEF SumsOK
  <2>2. /\ MIRROR_WEI * (copies + Total(room)) = MIRROR_WEI * (copies' + Total(room)') + MIRROR_WEI
        /\ MIRROR_WEI * (copies' + Total(room)') \in Nat
    BY <2>1, OneMore
  <2>3. MIRROR_WEI * (copies' + Total(room)') <= tokenDay'
    BY <1>8, <2>2 DEF Ledgers, RoomKept
  <2> QED BY <2>3 DEF RoomKept
<1>15. UNCHANGED <<userDay, tapping, tapped, uncounted>>
  BY DEF GiveBack, rest, taps
<1>16. RoomGranted' /\ DayCounted' /\ DayGranted'
  BY <1>12, <1>13, <1>15 DEF Ledgers, RoomGranted, DayCounted, DayGranted
<1> QED BY <1>7, <1>9, <1>10, <1>14, <1>16 DEF Ledgers

\* What a send adds: one copy, of this buy into this account.
LEMMA SendSums ==
  ASSUME CopyTypeOK, CopyTypeOK', NEW b \in Buys, NEW f \in Members,
         mirrored' = [mirrored EXCEPT ![b][f] = @ + 1]
  PROVE  /\ copies' = copies + 1 /\ copiesInto(f)' = copiesInto(f) + 1
         /\ \A g \in Members : g # f => copiesInto(g)' = copiesInto(g)
<1>1. SumsOK /\ SumsOK'
  BY SumsType, SumsNext
<1>2. \A c \in Buys, g \in Members :
        mirrored'[c][g] = IF c = b /\ g = f THEN mirrored[c][g] + 1 ELSE mirrored[c][g]
  BY DEF CopyTypeOK
<1>3. copiesInto(f)' = copiesInto(f) + 1
  <2> DEFINE was == [c \in Buys |-> mirrored[c][f]]
             is  == [c \in Buys |-> mirrored'[c][f]]
  <2>1. was \in [Buys -> Nat] /\ is \in [Buys -> Nat]
    BY DEF CopyTypeOK
  <2>2. \A c \in Buys : c # b => is[c] = was[c]
    BY <1>2
  <2>3. is[b] = was[b] + 1 /\ was[b] \in Nat
    BY <1>2, <2>1
  <2>4. copiesInto(f) = Total(was) /\ copiesInto(f)' = Total(is)
    BY DEF copiesInto
  <2> HIDE DEF was, is
  <2>5. Total(is) = Total(was) - was[b] + is[b]
    BY <2>1, <2>2, FollowersFacts, TotalUpdate
  <2>6. copiesInto(f) \in Nat
    BY <1>1 DEF SumsOK
  <2> QED BY <2>3, <2>4, <2>5, <2>6
<1>4. ASSUME NEW g \in Members, g # f PROVE copiesInto(g)' = copiesInto(g)
  <2>1. [c \in Buys |-> mirrored'[c][g]] = [c \in Buys |-> mirrored[c][g]]
    BY <1>2, <1>4
  <2> QED BY <2>1 DEF copiesInto
<1>5. copies' = copies + 1
  <2> DEFINE was == [g \in Members |-> copiesInto(g)]
             is  == [g \in Members |-> copiesInto(g)']
  <2>1. was \in [Members -> Nat] /\ is \in [Members -> Nat]
    BY <1>1, <1>3, <1>4 DEF SumsOK
  <2>2. copies = Total(was) /\ copies' = Total(is)
    BY DEF copies
  <2>3. \A g \in Members : g # f => is[g] = was[g]
    BY <1>4
  <2>4. is[f] = was[f] + 1 /\ was[f] \in Nat
    BY <1>3, <2>1
  <2> HIDE DEF was, is
  <2>5. Total(is) = Total(was) - was[f] + is[f]
    BY <2>1, <2>3, FollowersFacts, TotalUpdate
  <2>6. copies \in Nat
    BY <1>1 DEF SumsOK
  <2> QED BY <2>2, <2>4, <2>5, <2>6
<1> QED BY <1>3, <1>4, <1>5

LEMMA SendMirrorStep ==
  ASSUME CopyInv, NEW p \in Passes, SendMirror(p), NEW b \in Buys, b = passes[p].buy,
         NEW f \in Members, f = follower(passes[p])
  PROVE  CopyInv'
<1> DEFINE turn == passes[p].turn + 1
           new  == [passes[p] EXCEPT !.pc = "mirror", !.turn = turn]
<1> USE DEF CopyInv
<1>1. busy(passes[p]) /\ passes[p].pc = "send"
  BY DEF SendMirror, busy
<1>2. /\ passes[p] \in [pc : PCs, todo : Kept, next : Nat, to : Nat, buy : Nat, since : Int,
                        turn : Nat]
      /\ passes[p].turn >= 1 /\ passes[p].turn <= Len(Followers)
  BY <1>1, BusyFields, PassFields DEF passOK
<1>3. turn \in Nat /\ turn >= passes[p].turn /\ turn <= Len(Followers) + 1
  BY <1>2, FollowersFacts
<1>4. busy(new) /\ Go(p, new)
  <2>1. new.pc = "mirror"
    BY <1>2
  <2> QED BY <2>1 DEF SendMirror, NextTurn, busy
<1>5. turn > passes[p].turn
  BY <1>2
<1> HIDE DEF turn
<1>6. new \in Pass /\ passOK(new) /\ new.pc = "mirror" /\ new.turn = turn
      /\ new.buy = passes[p].buy
  BY <1>1, <1>3, <1>4, MirrorMoves
<1> HIDE DEF new
<1>7. Steps(p, new)
  BY <1>4, <1>6 DEF SendMirror, Steps, rest
<1>8. /\ passes' \in [Passes -> Pass] /\ passes'[p] = new
      /\ \A q \in Passes : q # p => passes'[q] = passes[q]
      /\ PassesOK'
  BY <1>7, StepsFacts
<1>9. mirrored' = [mirrored EXCEPT ![b][f] = @ + 1]
  BY DEF SendMirror
<1>10. /\ mirrored' \in [Buys -> [Members -> Nat]]
       /\ \A c \in Buys, g \in Members :
            mirrored'[c][g] = IF c = b /\ g = f THEN mirrored[c][g] + 1 ELSE mirrored[c][g]
  BY <1>9 DEF CopyTypeOK
<1>11. CopyTypeOK'
  BY <1>8, <1>10 DEF SendMirror, CopyTypeOK, rest, tables, ledgers, taps
<1>12. UNCHANGED <<claimed, posted, tokenDay, userDay, tapping, tapped, uncounted>>
  BY DEF SendMirror, rest, tables, ledgers, taps
<1>13. /\ b \in claimed /\ posted[b] = 0 /\ mirrored[b][f] = 0
       /\ \A i \in 1..Len(Followers) : i >= passes[p].turn => mirrored[b][Followers[i]] = 0
       /\ \A q \in Passes : busy(passes[q]) /\ passes[q].buy = b => q = p
  <2>1. passes[p].turn \in 1..Len(Followers)
    BY <1>2, FollowersFacts
  <2> QED BY <1>1, <2>1 DEF Claims, follower
<1>14. CopiedOnce'
  BY <1>10, <1>12, <1>13 DEF CopiedOnce
<1>15. Claims'
  <2>1. ASSUME NEW q \in Passes, busy(passes'[q])
        PROVE  /\ passes'[q].buy \in claimed' /\ posted'[passes'[q].buy] = 0
               /\ \A i \in 1..Len(Followers) :
                    i >= passes'[q].turn => mirrored'[passes'[q].buy][Followers[i]] = 0
               /\ \A r \in Passes : busy(passes'[r]) /\ passes'[r].buy = passes'[q].buy => r = q
    <3>1. \A r \in Passes : busy(passes'[r]) => busy(passes[r]) /\ passes'[r].buy = passes[r].buy
      BY <1>1, <1>6, <1>8
    <3>2. \A r \in Passes : busy(passes'[r]) /\ passes'[r].buy = passes'[q].buy => r = q
      BY <2>1, <3>1 DEF Claims
    <3>3. passes'[q].buy \in claimed' /\ posted'[passes'[q].buy] = 0
      BY <1>12, <2>1, <3>1 DEF Claims
    <3>4. ASSUME NEW i \in 1..Len(Followers), i >= passes'[q].turn
          PROVE  mirrored'[passes'[q].buy][Followers[i]] = 0
      <4>1. CASE q = p
        <5>1. i >= turn /\ i \in Nat /\ passes[p].turn \in 1..Len(Followers)
          BY <1>2, <1>6, <1>8, <3>4, <4>1, FollowersFacts
        <5>2. i # passes[p].turn /\ i >= passes[p].turn
          BY <1>2, <1>3, <1>5, <5>1
        <5>3. Followers[i] # f /\ Followers[i] \in Members
          BY <5>1, <5>2, FollowersFacts DEF follower
        <5>4. mirrored[b][Followers[i]] = 0
          BY <1>13, <5>2
        <5>5. passes'[q].buy = b
          BY <1>6, <1>8, <4>1
        <5> QED BY <1>10, <5>3, <5>4, <5>5
      <4>2. CASE q # p
        <5>1. passes'[q] = passes[q] /\ busy(passes[q]) /\ passes[q].buy # b
          BY <1>8, <1>13, <2>1, <4>2
        <5>2. mirrored[passes[q].buy][Followers[i]] = 0 /\ passes[q].buy \in Buys
          BY <3>4, <5>1, BusyFields DEF Claims
        <5> QED BY <1>10, <5>1, <5>2, FollowersFacts
      <4> QED BY <4>1, <4>2
    <3> QED BY <3>2, <3>3, <3>4
  <2>2. \A c \in Buys : c \notin claimed' =>
          posted'[c] = 0 /\ \A g \in Members : mirrored'[c][g] = 0
    <3>1. ASSUME NEW c \in Buys, c \notin claimed'
          PROVE  posted'[c] = 0 /\ \A g \in Members : mirrored'[c][g] = 0
      <4>1. c \notin claimed /\ c # b
        BY <1>12, <1>13, <3>1
      <4>2. posted[c] = 0 /\ \A g \in Members : mirrored[c][g] = 0
        BY <4>1 DEF Claims
      <4> QED BY <1>10, <1>12, <4>1, <4>2
    <3> QED BY <3>1
  <2> QED BY <2>1, <2>2 DEF Claims
<1>16. SumsOK /\ SumsOK'
  BY <1>11, SumsType, SumsNext
<1>17. /\ copies' = copies + 1 /\ copiesInto(f)' = copiesInto(f) + 1
       /\ \A g \in Members : g # f => copiesInto(g)' = copiesInto(g)
  BY <1>9, <1>11, SendSums
<1>18. /\ Total(room)' = Total(room) - 1 /\ Total(granted)' = Total(granted) - 1
       /\ Total(sending(f))' = Total(sending(f)) - 1
       /\ \A g \in Members : g # f => Total(sending(g))' = Total(sending(g))
  <2>1. SumsMove(p, new)
    BY <1>7, <1>11, StepSums
  <2>2. /\ one(passes[p].pc \in {"room", "send", "giveBack"}) = 1
        /\ one(new.pc \in {"room", "send", "giveBack"}) = 0
        /\ one(passes[p].pc \in {"room", "send"}) = 1
        /\ one(new.pc \in {"room", "send"}) = 0
        /\ one(passes[p].pc = "send" /\ follower(passes[p]) = f) = 1
    BY <1>1, <1>6 DEF one
  <2>3. \A g \in Members : /\ g # f => one(passes[p].pc = "send" /\ follower(passes[p]) = g) = 0
                           /\ one(new.pc = "send" /\ follower(new) = g) = 0
                           /\ Total(sending(g)) \in Nat
    BY <1>6, <1>16 DEF one, SumsOK
  <2> QED BY <1>16, <2>1, <2>2, <2>3 DEF SumsMove, SumsOK
<1>19. RoomKept' /\ RoomGranted'
  <2>1. copies' + Total(room)' = copies + Total(room)
        /\ copies' + Total(granted)' = copies + Total(granted)
    BY <1>16, <1>17, <1>18 DEF SumsOK
  <2> QED BY <1>12, <2>1 DEF Ledgers, RoomKept, RoomGranted
<1>20. \A g \in Members : copiesInto(g)' + Total(sending(g))' = copiesInto(g) + Total(sending(g))
  <2>1. \A g \in Members : copiesInto(g) \in Nat /\ Total(sending(g)) \in Nat
    BY <1>16 DEF SumsOK
  <2> QED BY <1>17, <1>18, <2>1
<1>21. DayCounted' /\ DayGranted'
  BY <1>12, <1>20 DEF Ledgers, DayCounted, DayGranted
<1> QED BY <1>8, <1>11, <1>14, <1>15, <1>19, <1>21 DEF Ledgers

----------------------------------------------------------------------------
(* The leader, the clock and the followers' own taps.                      *)

\* What only the passes, the claims and the copies are about.
Elsewhere == UNCHANGED <<tables, tokenDay, mirrored, posted, passes>>

LEMMA ElsewhereStep ==
  ASSUME CopyInv, CopyTypeOK', Elsewhere, head' >= head
  PROVE  /\ PassesOK' /\ Claims' /\ CopiedOnce' /\ RoomKept' /\ RoomGranted'
         /\ \A f \in Members : copiesInto(f)' = copiesInto(f)
                               /\ Total(sending(f))' = Total(sending(f))
<1> USE DEF CopyInv
<1>1. UNCHANGED <<claimed, tokenDay, mirrored, posted, passes>>
  BY DEF Elsewhere, tables
<1>2. PassesOK'
  <2>1. ASSUME NEW p \in Passes PROVE passOK(passes[p])'
    <3>1. CASE passes[p].pc = "idle"
      <4>1. ~working(passes[p]) /\ ~busy(passes[p])
        BY <3>1 DEF working, busy, PCs
      <4> QED BY <1>1, <3>1, <4>1 DEF passOK, working, busy, wasKept
    <3>2. CASE passes[p].pc # "idle"
      <4>1. passOK(passes[p]) /\ passes[p].to \in Nat
        BY <3>2, PassFields
      <4>2. head \in Nat /\ head' \in Nat
        BY FollowersFacts DEF CopyTypeOK
      <4> QED BY <1>1, <4>1, <4>2 DEF passOK, working, busy, wasKept
    <3> QED BY <3>1, <3>2
  <2> QED BY <1>1, <2>1 DEF PassesOK
<1>3. Claims' /\ CopiedOnce'
  BY <1>1 DEF Claims, CopiedOnce, busy
<1>4. room' = room /\ granted' = granted /\ \A f \in Members : sending(f)' = sending(f)
  BY <1>1 DEF room, granted, sending, follower
<1>5. copies' = copies /\ \A f \in Members : copiesInto(f)' = copiesInto(f)
  BY <1>1, CopiesKept
<1>6. Total(room)' = Total(room) /\ Total(granted)' = Total(granted)
      /\ \A f \in Members : Total(sending(f))' = Total(sending(f))
  BY <1>4
<1>7. RoomKept' /\ RoomGranted'
  BY <1>1, <1>5, <1>6 DEF Ledgers, RoomKept, RoomGranted
<1> QED BY <1>2, <1>3, <1>5, <1>6, <1>7

LEMMA LeaderOrClock ==
  ASSUME CopyInv, LeaderBuys \/ Tick
  PROVE  CopyInv'
<1> USE DEF CopyInv
<1>1. head' \in 0..BUYS /\ head' >= head
  BY FollowersFacts DEF LeaderBuys, Tick, CopyTypeOK
<1>2. CopyTypeOK'
  BY <1>1 DEF LeaderBuys, Tick, CopyTypeOK, tables, ledgers, taps
<1>3. Elsewhere /\ UNCHANGED <<userDay, tapping, tapped, uncounted>>
  BY DEF LeaderBuys, Tick, Elsewhere, ledgers, taps
<1>4. /\ PassesOK' /\ Claims' /\ CopiedOnce' /\ RoomKept' /\ RoomGranted'
      /\ \A f \in Members : copiesInto(f)' = copiesInto(f)
                            /\ Total(sending(f))' = Total(sending(f))
  BY <1>1, <1>2, <1>3, ElsewhereStep
<1>5. DayCounted' /\ DayGranted'
  BY <1>3, <1>4 DEF Ledgers, DayCounted, DayGranted
<1> QED BY <1>2, <1>4, <1>5 DEF Ledgers

LEMMA TapSteps ==
  ASSUME CopyInv, NEW f \in Members, AskTap(f) \/ SendTap(f) \/ NoteDay(f) \/ TapDies(f)
  PROVE  CopyInv'
<1> USE DEF CopyInv
<1>1. /\ userDay' \in [Members -> Nat] /\ tapped' \in [Members -> Nat]
      /\ uncounted' \in [Members -> Nat] /\ crashes' \in Nat
      /\ tapping' \in [Members -> {"no", "asked", "sent"}]
      /\ \A g \in Members : g # f => /\ userDay'[g] = userDay[g] /\ tapped'[g] = tapped[g]
                                     /\ uncounted'[g] = uncounted[g]
                                     /\ tapping'[g] = tapping[g]
  <2> USE DEF Tap, CopyTypeOK
  <2>1. CASE AskTap(f)
    BY <2>1 DEF AskTap
  <2>2. CASE SendTap(f)
    BY <2>2 DEF SendTap
  <2>3. CASE NoteDay(f)
    BY <2>3 DEF NoteDay
  <2>4. CASE TapDies(f)
    BY <2>4 DEF TapDies
  <2> QED BY <2>1, <2>2, <2>3, <2>4
<1>2. Elsewhere /\ UNCHANGED <<head, clock>>
  BY DEF AskTap, SendTap, NoteDay, TapDies, noPass, Elsewhere
<1>3. CopyTypeOK'
  BY <1>1, <1>2 DEF CopyTypeOK, Elsewhere, tables
<1>4. head' >= head
  BY <1>2 DEF CopyTypeOK
<1>5. /\ PassesOK' /\ Claims' /\ CopiedOnce' /\ RoomKept' /\ RoomGranted'
      /\ \A g \in Members : copiesInto(g)' = copiesInto(g)
                            /\ Total(sending(g))' = Total(sending(g))
  BY <1>2, <1>3, <1>4, ElsewhereStep
<1>6. /\ userDay[f] \in Nat /\ tapped[f] \in Nat /\ uncounted[f] \in Nat
      /\ copiesInto(f) \in Nat /\ Total(sending(f)) \in Nat /\ DAILY_EXECUTES \in Nat
  BY SumsType, CopyNumbers DEF CopyTypeOK, SumsOK
<1>7. /\ copiesInto(f) + Total(sending(f)) + tapped[f]
           <= userDay[f] + uncounted[f] + one(tapping[f] = "sent")
      /\ copiesInto(f) + Total(sending(f)) + tapped[f] + one(tapping[f] = "asked")
           <= DAILY_EXECUTES + 1 + uncounted[f]
  BY DEF Ledgers, DayCounted, DayGranted
<1>8. /\ copiesInto(f) + Total(sending(f)) + tapped'[f]
           <= userDay'[f] + uncounted'[f] + one(tapping'[f] = "sent")
      /\ copiesInto(f) + Total(sending(f)) + tapped'[f] + one(tapping'[f] = "asked")
           <= DAILY_EXECUTES + 1 + uncounted'[f]
  <2>1. CASE AskTap(f)
    <3>1. /\ tapping[f] = "no" /\ tapping'[f] = "asked" /\ userDay'[f] = userDay[f]
          /\ tapped'[f] = tapped[f] /\ uncounted'[f] = uncounted[f]
          /\ userDay[f] < DAILY_EXECUTES
      BY <1>6, <2>1 DEF AskTap, Tap, overDay, CopyTypeOK
    <3> QED BY <1>6, <1>7, <3>1 DEF one
  <2>2. CASE SendTap(f)
    <3>1. /\ tapping[f] = "asked" /\ tapping'[f] = "sent" /\ userDay'[f] = userDay[f]
          /\ tapped'[f] = tapped[f] + 1 /\ uncounted'[f] = uncounted[f]
      BY <2>2 DEF SendTap, Tap, CopyTypeOK
    <3> QED BY <1>6, <1>7, <3>1 DEF one
  <2>3. CASE NoteDay(f)
    <3>1. /\ tapping[f] = "sent" /\ tapping'[f] = "no" /\ userDay'[f] = userDay[f] + 1
          /\ tapped'[f] = tapped[f] /\ uncounted'[f] = uncounted[f]
      BY <2>3 DEF NoteDay, Tap, CopyTypeOK
    <3> QED BY <1>6, <1>7, <3>1 DEF one
  <2>4. CASE TapDies(f)
    <3>1. /\ tapping[f] \in {"asked", "sent"} /\ tapping'[f] = "no" /\ userDay'[f] = userDay[f]
          /\ tapped'[f] = tapped[f]
          /\ uncounted'[f] = uncounted[f] + one(tapping[f] = "sent")
      BY <1>6, <2>4 DEF TapDies, Tap, CopyTypeOK, one
    <3> QED BY <1>6, <1>7, <3>1 DEF one
  <2> QED BY <2>1, <2>2, <2>3, <2>4
<1>9. DayCounted'
  <2>1. ASSUME NEW g \in Members
        PROVE  copiesInto(g)' + Total(sending(g))' + tapped'[g]
                 <= userDay'[g] + uncounted'[g] + one(tapping'[g] = "sent")
    BY <1>1, <1>5, <1>8 DEF Ledgers, DayCounted
  <2> QED BY <2>1 DEF DayCounted, one
<1>10. DayGranted'
  <2>1. ASSUME NEW g \in Members
        PROVE  copiesInto(g)' + Total(sending(g))' + tapped'[g] + one(tapping'[g] = "asked")
                 <= DAILY_EXECUTES + 1 + uncounted'[g]
    BY <1>1, <1>5, <1>8 DEF Ledgers, DayGranted
  <2> QED BY <2>1 DEF DayGranted, one
<1> QED BY <1>3, <1>5, <1>9, <1>10 DEF Ledgers

----------------------------------------------------------------------------
(* The invariant.                                                          *)

LEMMA CopyInitInv == CopyInit => CopyInv
<1> SUFFICES ASSUME CopyInit PROVE CopyInv
  OBVIOUS
<1> USE DEF CopyInit
<1>1. CopyTypeOK
  <2>1. head \in 0..BUYS
    BY FollowersFacts
  <2>2. deferred \in Kept
    BY KeptNone
  <2>3. mirrored \in [Buys -> [Members -> Nat]] /\ posted \in [Buys -> Nat]
    OBVIOUS
  <2>4. passes \in [Passes -> Pass]
    BY DEF Pass
  <2> QED BY <2>1, <2>2, <2>3, <2>4 DEF CopyTypeOK
<1>2. \A p \in Passes : passes[p] = Idle /\ passes[p].pc = "idle"
  BY DEF Idle
<1>3. PassesOK
  BY <1>2 DEF PassesOK, passOK, working, busy, PCs
<1>4. Claims /\ CopiedOnce
  BY <1>2 DEF Claims, CopiedOnce, busy
<1>5. SumsOK
  BY <1>1, SumsType
<1>6. \A f \in Members : copiesInto(f) = 0 /\ Total(sending(f)) = 0
  <2>1. \A f \in Members : \A p \in Passes : sending(f)[p] = 0
    BY <1>2 DEF sending, one
  <2>2. \A f \in Members : Total(sending(f)) = 0
    BY <1>5, <2>1, TotalZero DEF SumsOK
  <2>3. \A f \in Members : \A b \in Buys : [c \in Buys |-> mirrored[c][f]][b] = 0
    OBVIOUS
  <2>4. \A f \in Members : copiesInto(f) = 0
    BY <1>5, <2>3, TotalZero DEF SumsOK, copiesInto
  <2> QED BY <2>2, <2>4
<1>7. copies = 0
  <2>1. \A f \in Members : [g \in Members |-> copiesInto(g)][f] = 0
    BY <1>6
  <2> QED BY <1>5, <2>1, TotalZero DEF SumsOK, copies
<1>8. Total(room) = 0 /\ Total(granted) = 0
  <2>1. \A p \in Passes : room[p] = 0 /\ granted[p] = 0
    BY <1>2 DEF room, granted, one
  <2> QED BY <1>5, <2>1, TotalZero DEF SumsOK
<1>9. RoomKept /\ RoomGranted
  BY <1>7, <1>8, CopyNumbers DEF RoomKept, RoomGranted
<1>10. DayCounted /\ DayGranted
  BY <1>6, CopyNumbers DEF DayCounted, DayGranted, one
<1> QED BY <1>1, <1>3, <1>4, <1>9, <1>10 DEF CopyInv, Ledgers

\* Each step of a pass.
LEMMA PassStep ==
  ASSUME CopyInv, NEW p \in Passes, StartPass(p) \/ PassNext(p) \/ Dies(p)
  PROVE  CopyInv'
<1>1. CASE StartPass(p)
  BY <1>1, StartPassQuiet
<1>2. CASE Dies(p)
  BY <1>2, DiesQuiet
<1>3. CASE PassNext(p)
  <2>1. CASE passes[p].pc = "kept" /\ \E b \in DOMAIN passes[p].todo : RetryKept(p, b)
    BY <2>1, RetryKeptQuiet
  <2>2. CASE ReadWindow(p)
    BY <2>2, ReadWindowQuiet
  <2>3. CASE HandOn(p)
    BY <2>3, HandOnQuiet
  <2>4. CASE SetCursor(p)
    BY <2>4, SetCursorQuiet
  <2>5. CASE ReadsFail(p) \/ KeepingFails(p)
    BY <2>5, ReadsFailQuiet
  <2>6. CASE \E theirs \in BOOLEAN : ReadsAnswer(p, theirs)
    BY <2>6, ReadsAnswerQuiet
  <2>7. CASE \E clears \in BOOLEAN : ClaimVenueBuy(p, clears)
    BY <2>7, ClaimStep
  <2>8. CASE DropKept(p)
    BY <2>8, DropKeptQuiet
  <2>9. CASE Skip(p)
    BY <2>9, SkipQuiet
  <2>10. CASE TakeRoom(p)
    BY <2>10, TakeRoomStep
  <2>11. CASE Refused(p) \/ SendThrows(p)
    BY <2>11, EndsQuiet
  <2>12. CASE ChargeDay(p) \/ SendMirror(p)
    <3>1. busy(passes[p]) /\ passes[p].pc \in {"room", "send"}
      BY <2>12 DEF ChargeDay, SendMirror, busy
    <3>2. /\ passes[p].turn \in Nat /\ passes[p].turn >= 1 /\ passes[p].turn <= Len(Followers)
          /\ passes[p].buy \in Buys
      BY <3>1, BusyFields, PassFields DEF CopyInv, passOK
    <3>3. follower(passes[p]) \in Members
      BY <3>2, FollowersFacts DEF follower
    <3>4. PICK f \in Members, b \in Buys : f = follower(passes[p]) /\ b = passes[p].buy
      BY <3>2, <3>3
    <3> QED BY <2>12, <3>4, ChargeDayStep, SendMirrorStep
  <2>13. CASE GiveBack(p)
    BY <2>13, GiveBackStep
  <2>14. CASE MirrorBreaks(p)
    BY <2>14, MirrorBreaksQuiet
  <2>15. CASE \E goesOut \in BOOLEAN : Announce(p, goesOut)
    BY <2>15, AnnounceStep
  <2> QED
    BY <1>3, <2>1, <2>2, <2>3, <2>4, <2>5, <2>6, <2>7, <2>8, <2>9, <2>10, <2>11, <2>12,
       <2>13, <2>14, <2>15 DEF PassNext
<1> QED BY <1>1, <1>2, <1>3

LEMMA CopyStep == CopyInv /\ [CopyNext]_copyVars => CopyInv'
<1> SUFFICES ASSUME CopyInv, [CopyNext]_copyVars PROVE CopyInv'
  OBVIOUS
<1>1. CASE LeaderBuys \/ Tick
  BY <1>1, LeaderOrClock
<1>2. ASSUME NEW p \in Passes, StartPass(p) \/ PassNext(p) \/ Dies(p)
      PROVE  CopyInv'
  BY <1>2, PassStep
<1>3. ASSUME NEW f \in Tappers, AskTap(f) \/ SendTap(f) \/ NoteDay(f) \/ TapDies(f)
      PROVE  CopyInv'
  <2>1. f \in Members
    BY CopyFollowers
  <2> QED BY <1>3, <2>1, TapSteps
<1>4. CASE UNCHANGED copyVars
  <2>1. UNCHANGED <<head, cursor, seen, claimed, deferred, tokenDay, userDay, mirrored, posted,
                    tapping, tapped, uncounted, passes, crashes, clock>>
    BY <1>4 DEF copyVars
  <2>2. CopyTypeOK'
    BY <2>1 DEF CopyInv, CopyTypeOK
  <2>3. Elsewhere /\ head' >= head
    BY <2>1 DEF Elsewhere, tables, CopyInv, CopyTypeOK
  <2>4. /\ PassesOK' /\ Claims' /\ CopiedOnce' /\ RoomKept' /\ RoomGranted'
        /\ \A f \in Members : copiesInto(f)' = copiesInto(f)
                              /\ Total(sending(f))' = Total(sending(f))
    BY <2>2, <2>3, ElsewhereStep
  <2>5. DayCounted' /\ DayGranted'
    BY <2>1, <2>4 DEF CopyInv, Ledgers, DayCounted, DayGranted
  <2> QED BY <2>2, <2>4, <2>5 DEF CopyInv, Ledgers
<1> QED BY <1>1, <1>2, <1>3, <1>4 DEF CopyNext

\* What the mirrors hold onto, at every step.
LEMMA CopyInvHolds == CopySpec => []CopyInv
BY CopyInitInv, CopyStep, PTL DEF CopySpec

\* Whatever passes overlap, fail to read a buy, keep it and die, the buy is mirrored into
\* each follower's account at most once and told of in the group at most once.
THEOREM BuyCopiedOnce == CopySpec => []CopiedOnce
<1>1. CopyInv => CopiedOnce
  BY DEF CopyInv
<1> QED BY <1>1, CopyInvHolds, PTL

\* What was mirrored into the token in a day is within its cap, whichever passes took room
\* at once, gave it back, or died with it: addTokenDay adds before it compares.
THEOREM TokenDayCapped == CopySpec => []TokenDayHolds
<1>1. CopyInv => TokenDayHolds
  <2> SUFFICES ASSUME CopyInv PROVE TokenDayHolds
    OBVIOUS
  <2>1. copies \in Nat /\ copies + Total(granted) \in Nat /\ copies <= copies + Total(granted)
    BY SumsType DEF CopyInv, SumsOK
  <2>2. /\ MIRROR_WEI * copies <= MIRROR_WEI * (copies + Total(granted))
        /\ MIRROR_WEI * copies \in Nat /\ MIRROR_WEI * (copies + Total(granted)) \in Nat
    BY <2>1, NoMore, OneMore
  <2> QED BY <2>2, CopyNumbers DEF CopyInv, Ledgers, RoomGranted, TokenDayHolds
<1> QED BY <1>1, CopyInvHolds, PTL

\* The mirrors into an account and its owner's taps together pass the day's allowance by the
\* one tap that read it before a mirror counted, and by the taps whose count was lost.
THEOREM UserDayCapped == CopySpec => []UserDayHolds
<1>1. CopyInv => UserDayHolds
  <2> SUFFICES ASSUME CopyInv, NEW f \in Members
               PROVE  copiesInto(f) + tapped[f] <= DAILY_EXECUTES + 1 + uncounted[f]
    BY DEF UserDayHolds
  <2>1. copiesInto(f) \in Nat /\ Total(sending(f)) \in Nat /\ tapped[f] \in Nat
        /\ uncounted[f] \in Nat
    BY SumsType DEF CopyInv, SumsOK, CopyTypeOK
  <2>2. copiesInto(f) + Total(sending(f)) + tapped[f] + one(tapping[f] = "asked")
          <= DAILY_EXECUTES + 1 + uncounted[f]
    BY DEF CopyInv, Ledgers, DayGranted
  <2> QED BY <2>1, <2>2, CopyNumbers DEF one
<1> QED BY <1>1, CopyInvHolds, PTL
=============================================================================
