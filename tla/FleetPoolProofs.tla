--------------------------- MODULE FleetPoolProofs ---------------------------
(***************************************************************************)
(* FleetPool for every set of depositors, campaigns and charges, every     *)
(* size, cap and delay the constructor admits.                             *)
(*                                                                         *)
(* The invariant IInv is inductive.  Besides what the runs check it needs  *)
(* five facts no single call makes true: no depositor is charged beyond    *)
(* its deposit, an exit was promised at least what is still unspent, the   *)
(* outflow counts at least the principal in flight (or a rollback would    *)
(* take the counter below zero), and a buy that ended holds no principal,  *)
(* as a draw that was never opened holds no charge.                        *)
(*                                                                         *)
(* Then the sweep over the pool's queue, PoolSweep, for any charges,       *)
(* instances, delays, schedules and faults.  What is over stays over, a    *)
(* charge that is posted or whose window closed, so a mark that was sound  *)
(* stays sound whoever has a copy of it (SweepBase).  On that stand the    *)
(* marks (MarkInv), the brake (PullInv) and the schedule (TryInv).         *)
(***************************************************************************)
EXTENDS PoolSweep, TotalsProofs, WellFoundedInduction

\* _post counts no more than the deposit backs.
SpentBacked == \A d \in Depositors : depositors[d].spent <= depositors[d].deposited

\* Nothing joins a deposit once its exit is requested, and charges only
\* shrink it, so the amount written down at the request still covers it.  Who
\* has no deposit has no exit requested either.
ExitCovered == \A d \in Depositors : depositors[d].exitRequestedAt # 0 =>
  /\ unspent[d] <= depositors[d].exitAmount
  /\ depositors[d].deposited # 0

OutflowCovers == Total(inFlight) <= totalOutflow

CleanSlate == \A c \in Campaigns :
  /\ ~executing[c].active => executing[c] = Idle
  /\ draws[c].state = "None" => draws[c] = NoDraw

IInv ==
  /\ TypeOK
  /\ SpentBacked
  /\ ExitCovered
  /\ BalanceIdentity
  /\ CapsHold
  /\ DrawWithinAmount
  /\ OutflowCharged
  /\ OutflowCovers
  /\ CleanSlate

----------------------------------------------------------------------------
(* The sums are over functions into the naturals.                          *)

LEMMA SumsTyped ==
  ASSUME TypeOK
  PROVE  /\ unspent \in [Depositors -> Nat]
         /\ deposits \in [Depositors -> Nat]
         /\ drawSpent \in [Campaigns -> Nat]
         /\ inFlight \in [Campaigns -> Nat]
<1> USE DEF TypeOK, Depositor, Draw, QueuedSpend
<1>1. \A d \in Depositors : depositors[d].deposited \in Nat /\ depositors[d].spent \in Nat
  OBVIOUS
<1>2. unspent \in [Depositors -> Nat]
  BY <1>1 DEF unspent, Unspent
<1>3. \A c \in Campaigns :
         /\ draws[c].spent \in Nat
         /\ draws[c].principalOut \in Nat
         /\ executing[c].principal \in Nat
  OBVIOUS
<1> QED BY <1>1, <1>2, <1>3 DEF deposits, drawSpent, inFlight

LEMMA TotalsTyped ==
  ASSUME TypeOK
  PROVE  /\ Total(unspent) \in Nat
         /\ Total(deposits) \in Nat
         /\ Total(drawSpent) \in Nat
         /\ Total(inFlight) \in Nat
         /\ \A d \in Depositors : deposits[d] <= Total(deposits)
         /\ \A c \in Campaigns : inFlight[c] <= Total(inFlight)
BY SumsTyped, FiniteAssumption, TotalType, TotalBounds

\* A posting counts, for each depositor, no more than its deposit backs.
LEMMA CountedBacked ==
  ASSUME TypeOK, NEW ids \in SUBSET SpendIds, NEW who \in [ids -> Depositors],
         NEW posts \in SUBSET ids
  PROVE  /\ Counted(posts, who) \in [Depositors -> Nat]
         /\ \A d \in Depositors : Counted(posts, who)[d] <= unspent[d]
<1>1. ASSUME NEW d \in Depositors PROVE Charged(d, posts, who) \in Nat
  <2> DEFINE f == [id \in SpendIds |->
                     IF id \in posts /\ who[id] = d THEN queued[id].amount ELSE 0]
  <2>1. \A id \in SpendIds : queued[id].amount \in Nat
    BY DEF TypeOK, Depositor, Draw, QueuedSpend
  <2>2. f \in [SpendIds -> Nat]
    BY <2>1
  <2>3. Total(f) \in Nat
    <3> HIDE DEF f
    <3> QED BY <2>2, FiniteAssumption, TotalType
  <2> QED BY <2>3 DEF Charged
<1> QED BY <1>1, SumsTyped DEF Counted, Least

----------------------------------------------------------------------------
(* A single posting is a batch of one, so a step is one of seventeen kinds. *)

LEMMA PostQueuedIsBatch ==
  ASSUME NEW id \in SpendIds, NEW d \in Depositors, PostQueued(id, d)
  PROVE  \E who \in Batches(Depositors) : PostQueuedBatch(who)
<1>1. [i \in {id} |-> d] \in Batches(Depositors)
  <2>1. {id} \in SUBSET SpendIds /\ {id} # {}
    OBVIOUS
  <2>2. [i \in {id} |-> d] \in [{id} -> Depositors]
    OBVIOUS
  <2>3. {id} \in (SUBSET SpendIds) \ {{}}
    BY <2>1
  <2> QED BY <2>2, <2>3 DEF Batches
<1> QED BY <1>1 DEF PostQueued

LEMMA BatchDomain ==
  ASSUME NEW T, NEW b \in Batches(T)
  PROVE  DOMAIN b \in SUBSET SpendIds /\ b \in [DOMAIN b -> T]
BY DEF Batches

----------------------------------------------------------------------------
(* Type correctness.                                                       *)

\* The updates a buy makes to a draw keep it a draw.
LEMMA DrawUpdates ==
  ASSUME NEW r \in Draw, NEW m \in Nat, NEW n \in Nat
  PROVE  /\ [r EXCEPT !.amount = m, !.dueAt = n, !.state = "Pending"] \in Draw
         /\ [r EXCEPT !.spent = m, !.state = "Funded"] \in Draw
         /\ [r EXCEPT !.reserved = m, !.principalOut = n] \in Draw
         /\ [r EXCEPT !.spent = m, !.reserved = 0, !.principalOut = 0] \in Draw
BY DEF Draw, DrawStates

LEMMA TypeStep == IInv /\ [Next]_vars => TypeOK'
<1> SUFFICES ASSUME IInv, [Next]_vars PROVE TypeOK'
  OBVIOUS
<1> USE AmountsAssumption, CapsAssumption, TimeAssumption
    DEF depositorVars, drawVars, queueVars, adminVars
<1>0. TypeOK
  BY DEF IInv
<1>1. ASSUME NEW d \in Depositors, NEW size \in Sizes, Deposit(d, size) PROVE TypeOK'
  BY <1>0, <1>1 DEF Deposit, TypeOK, Depositor, Draw, QueuedSpend
<1>2. ASSUME NEW amount \in Amounts, Donate(amount) PROVE TypeOK'
  BY <1>0, <1>2 DEF Donate, TypeOK, Depositor, Draw, QueuedSpend
<1>3. ASSUME NEW d \in Depositors, RequestExit(d) PROVE TypeOK'
  <2>1. depositors[d] \in Depositor /\ unspent[d] \in Nat /\ now \in Nat
    BY <1>0, SumsTyped DEF TypeOK
  <2>2. [depositors[d] EXCEPT !.exitRequestedAt = now, !.exitAmount = unspent[d]] \in Depositor
    BY <2>1 DEF Depositor
  <2>3. depositors' \in [Depositors -> Depositor]
    BY <1>0, <1>3, <2>2, Zenon DEF RequestExit, TypeOK
  <2> QED BY <1>0, <1>3, <2>3 DEF RequestExit, TypeOK
<1>4. ASSUME NEW d \in Depositors, ExecuteExit(d) PROVE TypeOK'
  <2>1. /\ unspent[d] \in Nat /\ Payout(d) \in Nat
        /\ depositors[d].deposited \in Nat
        /\ depositors[d].deposited <= totalDeposited
    BY <1>0, TotalsTyped, SumsTyped DEF IInv, CapsHold, deposits, Payout, Least, TypeOK, Depositor, Draw, QueuedSpend
  <2>2. totalDeposited' \in Nat /\ balance' \in Nat /\ exitsPaid' \in Nat
    BY <1>0, <1>4, <2>1 DEF ExecuteExit, TypeOK, Depositor, Draw, QueuedSpend
  <2>3. depositors' \in [Depositors -> Depositor]
    BY <1>0, <1>4 DEF ExecuteExit, NoDepositor, TypeOK, Depositor, Draw, QueuedSpend
  <2> QED BY <1>0, <1>4, <2>2, <2>3 DEF ExecuteExit, TypeOK, Depositor, Draw, QueuedSpend
<1>5. CASE SetPaused
  BY <1>0, <1>5 DEF SetPaused, TypeOK, Depositor, Draw, QueuedSpend
<1>6. ASSUME NEW amount \in Amounts, ClaimOperator(amount) PROVE TypeOK'
  BY <1>0, <1>6 DEF ClaimOperator, TypeOK, Depositor, Draw, QueuedSpend
<1>7. ASSUME NEW entries \in Batches([amount : Amounts, dueAt : DueTimes]), QueueSpendBatch(entries) PROVE TypeOK'
  <2>1. \A id \in DOMAIN entries : entries[id] \in [amount : Amounts, dueAt : DueTimes]
    BY BatchDomain
  <2>2. \A id \in SpendIds : queued'[id] \in QueuedSpend
    BY <1>0, <1>7, <2>1 DEF QueueSpendBatch, TypeOK, Depositor, Draw, QueuedSpend
  <2> QED BY <1>0, <1>7, <2>2 DEF QueueSpendBatch, TypeOK, Depositor, Draw, QueuedSpend
<1>8. ASSUME NEW who \in Batches(Depositors), PostQueuedBatch(who) PROVE TypeOK'
  <2> DEFINE posts == {id \in DOMAIN who : Postable(id)}
  <2>1. /\ Counted(posts, who) \in [Depositors -> Nat]
        /\ Total(Counted(posts, who)) \in Nat
    BY <1>0, BatchDomain, CountedBacked, FiniteAssumption, TotalType
  <2>2. /\ queued' = [id \in SpendIds |->
             IF id \in posts THEN [queued[id] EXCEPT !.posted = TRUE] ELSE queued[id]]
        /\ depositors' = [d \in Depositors |->
             [depositors[d] EXCEPT !.spent = @ + Counted(posts, who)[d]]]
        /\ totalPosted' = totalPosted + Total(Counted(posts, who))
    BY <1>8 DEF PostQueuedBatch
  <2> HIDE DEF posts
  <2>3. depositors' \in [Depositors -> Depositor]
    BY <1>0, <2>1, <2>2 DEF TypeOK, Depositor, Draw, QueuedSpend
  <2>4. queued' \in [SpendIds -> QueuedSpend]
    BY <1>0, <2>2 DEF TypeOK, Depositor, Draw, QueuedSpend
  <2> QED BY <1>0, <1>8, <2>1, <2>2, <2>3, <2>4 DEF PostQueuedBatch, TypeOK, Depositor, Draw, QueuedSpend
<1>9. ASSUME NEW c \in Campaigns, NEW amount \in Amounts, NEW dueAt \in DueTimes, OpenDraw(c, amount, dueAt) PROVE TypeOK'
  <2>1. draws[c] \in Draw
    BY <1>0 DEF TypeOK
  <2>2. [draws[c] EXCEPT !.amount = amount, !.dueAt = dueAt, !.state = "Pending"] \in Draw
    BY <1>0, <1>9, <2>1 DEF OpenDraw, TypeOK, Draw, DrawStates
  <2>3. draws' \in [Campaigns -> Draw]
    BY <1>0, <1>9, <2>2, Zenon DEF OpenDraw, TypeOK
  <2> QED BY <1>0, <1>9, <2>3 DEF OpenDraw, TypeOK
<1>10. ASSUME NEW c \in Campaigns, NEW accounts \in 1..MAX_ACCOUNTS, Fund(c, accounts) PROVE TypeOK'
  <2>1. draws[c] \in Draw
    BY <1>0 DEF TypeOK
  <2> DEFINE seeded == GAS_HEADROOM * accounts
  <2>2. seeded \in Nat
    OBVIOUS
  <2> HIDE DEF seeded
  <2>3. [draws[c] EXCEPT !.spent = draws[c].spent + seeded, !.state = "Funded"] \in Draw
    <3>1. draws[c].spent + seeded \in Nat
      BY <2>1, <2>2 DEF Draw
    <3> QED BY <2>1, <3>1, DrawUpdates
  <2>4. draws' \in [Campaigns -> Draw]
    BY <1>0, <1>10, <2>3, Zenon DEF Fund, TypeOK, seeded
  <2>5. totalDrawSpent' \in Nat /\ totalOutflow' \in Nat /\ balance' \in Nat
    BY <1>0, <1>10, <2>2 DEF Fund, TypeOK, seeded
  <2> QED BY <1>0, <1>10, <2>4, <2>5 DEF Fund, TypeOK
<1>11. ASSUME NEW c \in Campaigns, NEW amount \in Amounts, TopUpDraw(c, amount) PROVE TypeOK'
  BY <1>0, <1>11 DEF TopUpDraw, TypeOK, Depositor, Draw, QueuedSpend
<1>12. ASSUME NEW c \in Campaigns, NEW principal \in Amounts, NEW gasCeiling \in Amounts, FundPrincipal(c, principal, gasCeiling) PROVE TypeOK'
  <2>1. draws[c] \in Draw
    BY <1>0 DEF TypeOK
  <2>2. [draws[c] EXCEPT !.reserved = principal + gasCeiling, !.principalOut = principal] \in Draw
    <3>1. principal \in Nat /\ principal + gasCeiling \in Nat
      OBVIOUS
    <3> QED BY <2>1, <3>1, DrawUpdates
  <2>3. draws' \in [Campaigns -> Draw]
    BY <1>0, <1>12, <2>2, Zenon DEF FundPrincipal, MayBuy, TypeOK
  <2> QED BY <1>0, <1>12, <2>3 DEF FundPrincipal, MayBuy, TypeOK
<1>13. ASSUME NEW c \in Campaigns, NEW principal \in Amounts, NEW gasCeiling \in Amounts, FundAndExecute(c, principal, gasCeiling) PROVE TypeOK'
  BY <1>0, <1>13 DEF FundAndExecute, MayBuy, TypeOK, Depositor, Draw, QueuedSpend
<1>14. ASSUME NEW c \in Campaigns, NEW actual \in 0..draws[c].reserved, Commit(c, actual) PROVE TypeOK'
  <2>1. draws[c] \in Draw
    BY <1>0 DEF TypeOK
  <2>2. [draws[c] EXCEPT !.spent = draws[c].spent + actual, !.reserved = 0, !.principalOut = 0] \in Draw
    <3>1. draws[c].principalOut \in Nat /\ draws[c].reserved \in Nat
      BY <2>1 DEF Draw
    <3>2. draws[c].spent + actual \in Nat
      BY <2>1, <3>1 DEF Draw
    <3> QED BY <2>1, <3>2, DrawUpdates
  <2>3. draws' \in [Campaigns -> Draw]
    BY <1>0, <1>14, <2>2, Zenon DEF Commit, TypeOK
  <2>4. totalDrawSpent' \in Nat
    <3>1. draws[c].principalOut \in Nat /\ draws[c].reserved \in Nat
      BY <2>1 DEF Draw
    <3> QED BY <1>0, <1>14, <3>1 DEF Commit, TypeOK
  <2> QED BY <1>0, <1>14, <2>3, <2>4 DEF Commit, TypeOK
<1>15. ASSUME NEW c \in Campaigns, Rollback(c) PROVE TypeOK'
  <2>1. draws[c].principalOut \in Nat /\ draws[c].principalOut <= totalOutflow
    <3>1. inFlight[c] <= totalOutflow /\ executing[c].principal \in Nat
      BY <1>0, TotalsTyped, SumsTyped DEF IInv, OutflowCovers, TypeOK, Depositor, Draw, QueuedSpend
    <3> QED BY <1>0, <3>1 DEF inFlight, TypeOK, Depositor, Draw, QueuedSpend
  <2>2. totalOutflow' \in Nat /\ balance' \in Nat
    BY <1>0, <1>15, <2>1 DEF Rollback, TypeOK, Depositor, Draw, QueuedSpend
  <2>3. draws' \in [Campaigns -> Draw]
    <3>1. draws[c] \in Draw
      BY <1>0 DEF TypeOK
    <3>2. [draws[c] EXCEPT !.reserved = 0, !.principalOut = 0] \in Draw
      BY <3>1 DEF Draw, DrawStates
    <3> QED BY <1>0, <1>15, <3>2, Zenon DEF Rollback, TypeOK
  <2> QED BY <1>0, <1>15, <2>2, <2>3 DEF Rollback, TypeOK
<1>16. ASSUME NEW c \in Campaigns, CloseDraw(c) PROVE TypeOK'
  BY <1>0, <1>16 DEF CloseDraw, DrawStates, TypeOK, Depositor, Draw, QueuedSpend
<1>17. ASSUME NEW c \in Campaigns, NEW gas \in 0..executing[c].gasCeiling, Executed(c, gas) PROVE TypeOK'
  BY <1>0, <1>17 DEF Executed, Idle, TypeOK, Depositor, Draw, QueuedSpend
<1>18. CASE Tick
  BY <1>0, <1>18 DEF Tick, TypeOK, Depositor, Draw, QueuedSpend
<1>19. CASE UNCHANGED vars
  BY <1>0, <1>19 DEF vars, depositorVars, drawVars, queueVars, adminVars, TypeOK, Depositor, Draw, QueuedSpend
<1> QED BY PostQueuedIsBatch, <1>1, <1>2, <1>3, <1>4, <1>5, <1>6, <1>7, <1>8, <1>9, <1>10, <1>11, <1>12, <1>13, <1>14, <1>15, <1>16, <1>17, <1>18, <1>19
       DEF Next, TraderNext, AdminNext, QueueNext, DrawNext

----------------------------------------------------------------------------
(* Deposits, exits and postings: the ledger keyed by depositor.            *)

\* Four kinds of step touch a depositor's record or the sum of deposits.
LEMMA DepositorSteps == [Next]_vars =>
  \/ \E d \in Depositors, size \in Sizes : Deposit(d, size)
  \/ \E d \in Depositors : RequestExit(d)
  \/ \E d \in Depositors : ExecuteExit(d)
  \/ \E who \in Batches(Depositors) : PostQueuedBatch(who)
  \/ UNCHANGED depositorVars
<1> SUFFICES ASSUME [Next]_vars, ~UNCHANGED depositorVars
             PROVE  \/ \E d \in Depositors, size \in Sizes : Deposit(d, size)
                    \/ \E d \in Depositors : RequestExit(d)
                    \/ \E d \in Depositors : ExecuteExit(d)
                    \/ \E who \in Batches(Depositors) : PostQueuedBatch(who)
  OBVIOUS
<1>1. ~UNCHANGED vars /\ ~Tick /\ ~AdminNext
  BY DEF vars, Tick, AdminNext, SetPaused, ClaimOperator
<1>2. ~DrawNext
  BY DEF DrawNext, OpenDraw, Fund, TopUpDraw, FundPrincipal, FundAndExecute, Commit,
         Rollback, CloseDraw, Executed
<1>3. CASE TraderNext
  BY <1>3 DEF TraderNext, Donate
<1>4. CASE QueueNext
  BY <1>4, PostQueuedIsBatch DEF QueueNext, QueueSpendBatch
<1> QED BY <1>1, <1>2, <1>3, <1>4 DEF Next

LEMMA DepositorStep == IInv /\ [Next]_vars => SpentBacked' /\ ExitCovered' /\ CapsHold'
<1> SUFFICES ASSUME IInv, [Next]_vars PROVE SpentBacked' /\ ExitCovered' /\ CapsHold'
  OBVIOUS
<1>0. TypeOK /\ TypeOK' /\ SpentBacked /\ ExitCovered /\ CapsHold
  BY TypeStep DEF IInv
<1>1. /\ \A d \in Depositors :
           /\ depositors[d] \in Depositor
           /\ depositors[d].deposited \in Nat /\ depositors[d].spent \in Nat
           /\ depositors[d].exitAmount \in Nat
           /\ unspent[d] = depositors[d].deposited - depositors[d].spent
      /\ deposits \in [Depositors -> Nat] /\ deposits' \in [Depositors -> Nat]
  BY <1>0 DEF TypeOK, Depositor, SpentBacked, unspent, Unspent, deposits
<1>2. ASSUME NEW d \in Depositors, NEW size \in Sizes, Deposit(d, size)
      PROVE  SpentBacked' /\ ExitCovered' /\ CapsHold'
  <2>1. /\ size \in Nat
        /\ depositors' = [depositors EXCEPT ![d].deposited = @ + size]
        /\ totalDeposited' = totalDeposited + size
        /\ depositors[d].exitRequestedAt = 0
        /\ depositors[d].deposited + size <= DEPOSITOR_CAP
        /\ totalDeposited + size <= POOL_CAP
    BY <1>2, AmountsAssumption DEF Deposit
  <2>2. SpentBacked'
    BY <1>0, <1>1, <2>1 DEF SpentBacked, TypeOK, Depositor
  <2>3. ExitCovered'
    BY <1>0, <1>1, <2>1 DEF ExitCovered, TypeOK, Depositor, unspent, Unspent
  <2>4. /\ deposits'[d] = deposits[d] + size
        /\ \A e \in Depositors : e # d => deposits'[e] = deposits[e]
    BY <1>0, <1>1, <2>1 DEF deposits, TypeOK, Depositor
  <2>5. Total(deposits') = Total(deposits) - deposits[d] + deposits'[d]
    BY <1>1, <2>4, TotalUpdate, FiniteAssumption
  <2>6. Total(deposits) \in Nat /\ deposits[d] \in Nat
    BY <1>0, <1>1, TotalsTyped
  <2>7. \A e \in Depositors : depositors'[e].deposited <= DEPOSITOR_CAP
    BY <1>0, <1>1, <2>1 DEF CapsHold, TypeOK, Depositor
  <2> QED BY <1>0, <2>1, <2>2, <2>3, <2>4, <2>5, <2>6, <2>7 DEF CapsHold
<1>3. ASSUME NEW d \in Depositors, RequestExit(d)
      PROVE  SpentBacked' /\ ExitCovered' /\ CapsHold'
  <2>1. /\ depositors' = [depositors EXCEPT ![d] =
             [depositors[d] EXCEPT !.exitRequestedAt = now, !.exitAmount = unspent[d]]]
        /\ totalDeposited' = totalDeposited
    BY <1>3 DEF RequestExit
  <2>2. \A e \in Depositors :
          /\ depositors'[e].deposited = depositors[e].deposited
          /\ depositors'[e].spent = depositors[e].spent
    BY <1>0, <2>1 DEF TypeOK, Depositor
  <2>3. deposits' = deposits /\ unspent' = unspent
    BY <2>2 DEF deposits, unspent, Unspent
  <2>4. ExitCovered'
    <3>1. \A e \in Depositors : e # d => depositors'[e] = depositors[e]
      BY <1>0, <2>1 DEF TypeOK
    <3>2. depositors'[d].deposited # 0 /\ depositors'[d].exitAmount = unspent[d]
      BY <1>0, <1>3, <2>1, <2>2 DEF TypeOK, Depositor, RequestExit
    <3>3. unspent[d] <= unspent[d]
      BY <1>1
    <3> QED BY <1>0, <2>3, <3>1, <3>2, <3>3 DEF ExitCovered
  <2> QED BY <1>0, <2>1, <2>2, <2>3, <2>4 DEF SpentBacked, CapsHold
<1>4. ASSUME NEW d \in Depositors, ExecuteExit(d)
      PROVE  SpentBacked' /\ ExitCovered' /\ CapsHold'
  <2>1. /\ depositors' = [depositors EXCEPT ![d] = NoDepositor]
        /\ totalDeposited' = totalDeposited - depositors[d].deposited
    BY <1>4 DEF ExecuteExit
  <2>2. /\ depositors'[d] = NoDepositor
        /\ \A e \in Depositors : e # d => depositors'[e] = depositors[e]
    BY <1>0, <2>1 DEF TypeOK
  <2>3. /\ deposits'[d] = 0
        /\ \A e \in Depositors : e # d => deposits'[e] = deposits[e]
    BY <2>2 DEF deposits, NoDepositor
  <2>4. Total(deposits') = Total(deposits) - deposits[d] + deposits'[d]
    BY <1>1, <2>3, TotalUpdate, FiniteAssumption
  <2>5. Total(deposits) \in Nat /\ deposits[d] \in Nat
    BY <1>0, <1>1, TotalsTyped
  <2>6. SpentBacked' /\ ExitCovered'
    <3>1. SpentBacked'
      BY <1>0, <2>2 DEF SpentBacked, NoDepositor
    <3>2. \A e \in Depositors : e # d => unspent'[e] = unspent[e]
      BY <2>2 DEF unspent
    <3>3. depositors'[d].exitRequestedAt = 0
      BY <2>2 DEF NoDepositor
    <3>4. ExitCovered'
      BY <1>0, <2>2, <3>2, <3>3 DEF ExitCovered
    <3> QED BY <3>1, <3>4
  <2>7. CapsHold'
    BY <1>0, <2>1, <2>2, <2>3, <2>4, <2>5, CapsAssumption DEF CapsHold, NoDepositor, deposits
  <2> QED BY <2>6, <2>7
<1>5. ASSUME NEW who \in Batches(Depositors), PostQueuedBatch(who)
      PROVE  SpentBacked' /\ ExitCovered' /\ CapsHold'
  <2> DEFINE counted == Counted({id \in DOMAIN who : Postable(id)}, who)
  <2>1. counted \in [Depositors -> Nat] /\ \A d \in Depositors : counted[d] <= unspent[d]
    BY <1>0, BatchDomain, CountedBacked
  <2>2. /\ depositors' = [d \in Depositors |-> [depositors[d] EXCEPT !.spent = @ + counted[d]]]
        /\ totalDeposited' = totalDeposited
    BY <1>5 DEF PostQueuedBatch
  <2> HIDE DEF counted
  <2>3. \A d \in Depositors :
          /\ depositors'[d].deposited = depositors[d].deposited
          /\ depositors'[d].spent = depositors[d].spent + counted[d]
          /\ depositors'[d].exitRequestedAt = depositors[d].exitRequestedAt
          /\ depositors'[d].exitAmount = depositors[d].exitAmount
    BY <1>1, <2>2 DEF Depositor
  <2>4. deposits' = deposits
    BY <2>3 DEF deposits
  <2>5. SpentBacked'
    BY <1>0, <1>1, <2>1, <2>3 DEF SpentBacked
  <2>6. \A d \in Depositors : unspent'[d] = unspent[d] - counted[d]
    <3> SUFFICES ASSUME NEW d \in Depositors PROVE unspent'[d] = unspent[d] - counted[d]
      OBVIOUS
    <3>1. /\ unspent'[d] = Unspent(depositors'[d])
          /\ depositors'[d].spent <= depositors'[d].deposited
      BY <2>5 DEF unspent, SpentBacked
    <3>2. counted[d] \in Nat /\ depositors[d].deposited \in Nat /\ depositors[d].spent \in Nat
      BY <1>1, <2>1
    <3> QED BY <1>1, <2>3, <3>1, <3>2 DEF Unspent
  <2>7. ExitCovered'
    BY <1>0, <1>1, <2>1, <2>3, <2>6 DEF ExitCovered
  <2> QED BY <1>0, <2>2, <2>3, <2>4, <2>5, <2>7 DEF CapsHold
<1>6. CASE UNCHANGED depositorVars
  BY <1>0, <1>6 DEF depositorVars, SpentBacked, ExitCovered, CapsHold, deposits, unspent
<1> QED BY DepositorSteps, <1>2, <1>3, <1>4, <1>5, <1>6

----------------------------------------------------------------------------
(* Draws, funding and buys: the ledger keyed by campaign.                  *)

\* Nine kinds of step touch a draw or the counters of what left for a fleet.
LEMMA DrawSteps == [Next]_vars => DrawNext \/ UNCHANGED drawVars
<1> SUFFICES ASSUME [Next]_vars, ~UNCHANGED drawVars PROVE DrawNext
  OBVIOUS
<1>1. ~UNCHANGED vars /\ ~Tick /\ ~AdminNext
  BY DEF vars, Tick, AdminNext, SetPaused, ClaimOperator
<1>2. ~TraderNext
  BY DEF TraderNext, Deposit, Donate, RequestExit, ExecuteExit
<1>3. ~QueueNext
  BY PostQueuedIsBatch DEF QueueNext, QueueSpendBatch, PostQueuedBatch
<1> QED BY <1>1, <1>2, <1>3 DEF Next

DrawParts == DrawWithinAmount /\ OutflowCharged /\ OutflowCovers /\ CleanSlate

\* What a step on the one draw c has to show.  The two counters follow the
\* draw's charge and its principal in flight; the sums follow by TotalUpdate.
LEMMA DrawFrame ==
  ASSUME IInv, TypeOK', NEW c \in Campaigns,
         \A e \in Campaigns : e # c => draws'[e] = draws[e] /\ executing'[e] = executing[e],
         draws'[c].spent + draws'[c].reserved
           + executing'[c].principal + executing'[c].gasCeiling <= draws'[c].amount,
         draws'[c].amount <= DRAW_CAP,
         draws'[c].principalOut <= draws'[c].reserved,
         draws'[c].state # "Funded" => draws'[c].reserved = 0 /\ ~executing'[c].active,
         ~executing'[c].active => executing'[c] = Idle,
         draws'[c].state # "None",
         totalDrawSpent' = totalDrawSpent + draws'[c].spent - draws[c].spent,
         totalOutflow' + draws[c].principalOut + executing[c].principal + draws[c].spent
           <= totalOutflow + draws'[c].principalOut + executing'[c].principal + draws'[c].spent,
         totalOutflow + draws'[c].principalOut + executing'[c].principal
           <= totalOutflow' + draws[c].principalOut + executing[c].principal
  PROVE  DrawParts'
<1>0. TypeOK /\ DrawWithinAmount /\ OutflowCharged /\ OutflowCovers /\ CleanSlate
  BY DEF IInv
<1>1. /\ drawSpent \in [Campaigns -> Nat] /\ inFlight \in [Campaigns -> Nat]
      /\ Total(drawSpent) \in Nat /\ Total(inFlight) \in Nat
  BY <1>0, SumsTyped, TotalsTyped
<1>2. /\ \A e \in Campaigns : draws'[e].spent \in Nat /\ draws'[e].principalOut \in Nat
                                 /\ executing'[e].principal \in Nat
      /\ \A e \in Campaigns : draws[e].spent \in Nat /\ draws[e].principalOut \in Nat
                                 /\ executing[e].principal \in Nat
      /\ totalOutflow \in Nat /\ totalOutflow' \in Nat
      /\ totalDrawSpent \in Nat /\ totalDrawSpent' \in Nat
  BY <1>0 DEF TypeOK, Draw
<1>3. /\ drawSpent' \in [Campaigns -> Nat] /\ inFlight' \in [Campaigns -> Nat]
      /\ \A e \in Campaigns : e # c => drawSpent'[e] = drawSpent[e] /\ inFlight'[e] = inFlight[e]
  BY <1>2 DEF drawSpent, inFlight
<1>4. /\ drawSpent[c] = draws[c].spent /\ drawSpent'[c] = draws'[c].spent
      /\ inFlight[c] = draws[c].principalOut + executing[c].principal
      /\ inFlight'[c] = draws'[c].principalOut + executing'[c].principal
  BY DEF drawSpent, inFlight
<1>5. /\ Total(drawSpent') = Total(drawSpent) - drawSpent[c] + drawSpent'[c]
      /\ Total(inFlight') = Total(inFlight) - inFlight[c] + inFlight'[c]
  BY <1>1, <1>3, TotalUpdate, FiniteAssumption
<1>6. OutflowCharged' /\ OutflowCovers'
  BY <1>0, <1>1, <1>2, <1>4, <1>5 DEF OutflowCharged, OutflowCovers
<1>7. DrawWithinAmount' /\ CleanSlate'
  BY <1>0 DEF DrawWithinAmount, CleanSlate
<1> QED BY <1>6, <1>7 DEF DrawParts

\* The facts of one draw that every step on it starts from.
LEMMA DrawFacts ==
  ASSUME IInv, NEW c \in Campaigns
  PROVE  /\ draws[c].amount \in Nat /\ draws[c].spent \in Nat /\ draws[c].reserved \in Nat
         /\ draws[c].principalOut \in Nat
         /\ executing[c].principal \in Nat /\ executing[c].gasCeiling \in Nat
         /\ draws[c].spent + draws[c].reserved
              + executing[c].principal + executing[c].gasCeiling <= draws[c].amount
         /\ draws[c].amount <= DRAW_CAP
         /\ draws[c].principalOut <= draws[c].reserved
         /\ draws[c].state # "Funded" => draws[c].reserved = 0 /\ ~executing[c].active
         /\ ~executing[c].active => executing[c] = Idle
         /\ draws[c].state = "None" => draws[c] = NoDraw
         /\ totalOutflow \in Nat /\ totalDrawSpent \in Nat
<1>1. draws[c] \in Draw /\ TypeOK
  BY DEF IInv, TypeOK
<1>2. /\ draws[c].amount \in Nat /\ draws[c].spent \in Nat /\ draws[c].reserved \in Nat
      /\ draws[c].principalOut \in Nat
      /\ executing[c].principal \in Nat /\ executing[c].gasCeiling \in Nat
      /\ totalOutflow \in Nat /\ totalDrawSpent \in Nat
  BY <1>1 DEF TypeOK, Draw
<1> QED BY <1>2 DEF IInv, DrawWithinAmount, CleanSlate

\* A step of the operator that moves the draw c to r, no buy being open.
DrawBecomes(c, r) ==
  /\ Settled
  /\ draws' = [draws EXCEPT ![c] = r]
  /\ executing' = executing
  /\ r.spent + r.reserved <= r.amount
  /\ r.amount <= DRAW_CAP
  /\ r.principalOut <= r.reserved
  /\ r.state # "Funded" => r.reserved = 0
  /\ r.state # "None"
  /\ totalDrawSpent' = totalDrawSpent + r.spent - draws[c].spent
  /\ totalOutflow' + draws[c].principalOut + draws[c].spent
       <= totalOutflow + r.principalOut + r.spent
  /\ totalOutflow + r.principalOut <= totalOutflow' + draws[c].principalOut

LEMMA DrawStep == IInv /\ [Next]_vars => DrawParts'
<1> SUFFICES ASSUME IInv, [Next]_vars PROVE DrawParts'
  OBVIOUS
<1>0. TypeOK /\ TypeOK'
  BY TypeStep DEF IInv
<1>1. /\ draws \in [Campaigns -> Draw]
      /\ executing \in [Campaigns -> [active : BOOLEAN, principal : Nat, gasCeiling : Nat]]
  BY <1>0 DEF TypeOK
<1>2. ASSUME NEW c \in Campaigns, NEW r \in Draw, DrawBecomes(c, r) PROVE DrawParts'
  <2>1. draws'[c] = r /\ \A e \in Campaigns : e # c => draws'[e] = draws[e]
    BY <1>1, <1>2 DEF DrawBecomes
  <2>2. /\ executing'[c] = executing[c] /\ ~executing[c].active /\ executing[c] = Idle
        /\ \A e \in Campaigns : executing'[e] = executing[e]
    BY <1>2, DrawFacts DEF Settled, DrawBecomes
  <2>3. /\ r.spent \in Nat /\ r.reserved \in Nat /\ r.amount \in Nat /\ r.principalOut \in Nat
        /\ executing[c].principal = 0 /\ executing[c].gasCeiling = 0
    BY <2>2 DEF Draw, Idle
  <2>4. /\ draws[c].spent \in Nat /\ draws[c].principalOut \in Nat
        /\ totalOutflow \in Nat /\ totalDrawSpent \in Nat
        /\ totalOutflow' \in Nat /\ totalDrawSpent' \in Nat
    BY <1>0, DrawFacts DEF TypeOK
  <2> QED BY <1>0, <1>2, <2>1, <2>2, <2>3, <2>4, DrawFrame DEF DrawBecomes
<1>3. ASSUME NEW c \in Campaigns, NEW amount \in Amounts, NEW dueAt \in DueTimes,
             OpenDraw(c, amount, dueAt)
      PROVE  DrawParts'
  <2> DEFINE r == [draws[c] EXCEPT !.amount = amount, !.dueAt = dueAt, !.state = "Pending"]
  <2>1. /\ draws' = [draws EXCEPT ![c] = r]
        /\ executing' = executing /\ totalDrawSpent' = totalDrawSpent
        /\ totalOutflow' = totalOutflow
        /\ Settled /\ draws[c] = NoDraw /\ amount <= DRAW_CAP /\ amount \in Nat
    BY <1>3, DrawFacts, AmountsAssumption DEF OpenDraw
  <2>2a. draws[c] \in Draw /\ dueAt \in Nat
    BY <1>1, AmountsAssumption
  <2>3. draws[c].spent = 0 /\ draws[c].reserved = 0 /\ draws[c].principalOut = 0
    BY <2>1 DEF NoDraw
  <2>2. /\ r \in Draw /\ r.amount = amount /\ r.state = "Pending"
        /\ r.spent = 0 /\ r.reserved = 0 /\ r.principalOut = 0
    BY <2>1, <2>2a, <2>3, DrawUpdates DEF Draw
  <2> HIDE DEF r
  <2>8. DrawBecomes(c, r)
    BY <2>1, <2>2, <2>3, DrawFacts DEF DrawBecomes
  <2> QED BY <1>2, <2>2, <2>8
<1>4. ASSUME NEW c \in Campaigns, NEW accounts \in 1..MAX_ACCOUNTS, Fund(c, accounts)
      PROVE  DrawParts'
  <2> DEFINE seeded == GAS_HEADROOM * accounts
             r == [draws[c] EXCEPT !.spent = draws[c].spent + seeded, !.state = "Funded"]
  <2>1. seeded \in Nat
    BY AmountsAssumption
  <2>2. /\ draws' = [draws EXCEPT ![c] = r]
        /\ executing' = executing
        /\ Settled /\ draws[c].state = "Pending"
        /\ draws[c].spent + seeded <= draws[c].amount
        /\ totalDrawSpent' = totalDrawSpent + seeded
        /\ totalOutflow' = totalOutflow + seeded
    BY <1>4 DEF Fund
  <2> HIDE DEF seeded
  <2>3. draws[c] \in Draw /\ draws[c].spent + seeded \in Nat
    BY <1>1, <2>1, DrawFacts
  <2>4. /\ r \in Draw /\ r.amount = draws[c].amount /\ r.state = "Funded"
        /\ r.spent = draws[c].spent + seeded
        /\ r.reserved = draws[c].reserved /\ r.principalOut = draws[c].principalOut
    BY <2>3, DrawUpdates DEF Draw
  <2> HIDE DEF r
  <2>5. draws[c].reserved = 0
    BY <2>2, DrawFacts
  <2>8. DrawBecomes(c, r)
    BY <2>1, <2>2, <2>4, <2>5, DrawFacts DEF DrawBecomes
  <2> QED BY <1>2, <2>4, <2>8
<1>5. ASSUME NEW c \in Campaigns, NEW amount \in Amounts, TopUpDraw(c, amount)
      PROVE  DrawParts'
  <2> DEFINE r == [draws[c] EXCEPT !.amount = draws[c].amount + amount]
  <2>1. /\ draws' = [draws EXCEPT ![c] = r]
        /\ executing' = executing /\ totalDrawSpent' = totalDrawSpent
        /\ totalOutflow' = totalOutflow
        /\ Settled /\ draws[c].state \in {"Pending", "Funded"}
        /\ draws[c].amount + amount <= DRAW_CAP
        /\ amount \in Nat
    BY <1>1, <1>5, AmountsAssumption DEF TopUpDraw
  <2>2. draws[c] \in Draw
    BY <1>1
  <2>3. /\ r \in Draw /\ r.amount = draws[c].amount + amount /\ r.state = draws[c].state
        /\ r.spent = draws[c].spent
        /\ r.reserved = draws[c].reserved /\ r.principalOut = draws[c].principalOut
    BY <2>1, <2>2 DEF Draw
  <2> HIDE DEF r
  <2>4. executing[c].principal = 0 /\ executing[c].gasCeiling = 0
    BY <2>1, DrawFacts DEF Settled, Idle
  <2>8. DrawBecomes(c, r)
    BY <2>1, <2>3, <2>4, DrawFacts DEF DrawBecomes
  <2> QED BY <1>2, <2>3, <2>8
<1>6. ASSUME NEW c \in Campaigns, NEW principal \in Amounts, NEW gasCeiling \in Amounts,
             FundPrincipal(c, principal, gasCeiling)
      PROVE  DrawParts'
  <2> DEFINE r == [draws[c] EXCEPT !.reserved = principal + gasCeiling, !.principalOut = principal]
  <2>1. /\ draws' = [draws EXCEPT ![c] = r]
        /\ executing' = executing /\ totalDrawSpent' = totalDrawSpent
        /\ totalOutflow' = totalOutflow + principal
        /\ Settled /\ draws[c].state = "Funded" /\ draws[c].reserved = 0
        /\ draws[c].spent + principal + gasCeiling <= draws[c].amount
        /\ principal \in Nat /\ gasCeiling \in Nat /\ principal + gasCeiling \in Nat
    BY <1>6, AmountsAssumption DEF FundPrincipal, MayBuy
  <2>2. draws[c] \in Draw
    BY <1>1
  <2>3. /\ r \in Draw /\ r.amount = draws[c].amount /\ r.state = "Funded"
        /\ r.spent = draws[c].spent
        /\ r.reserved = principal + gasCeiling /\ r.principalOut = principal
    BY <2>1, <2>2, DrawUpdates DEF Draw
  <2> HIDE DEF r
  <2>4. draws[c].principalOut = 0
    BY <2>1, DrawFacts
  <2>8. DrawBecomes(c, r)
    BY <2>1, <2>3, <2>4, DrawFacts DEF DrawBecomes
  <2> QED BY <1>2, <2>3, <2>8
<1>7. ASSUME NEW c \in Campaigns, NEW actual \in 0..draws[c].reserved,
             Commit(c, actual)
      PROVE  DrawParts'
  <2> DEFINE r == [draws[c] EXCEPT !.spent = draws[c].spent + actual,
                                   !.reserved = 0, !.principalOut = 0]
  <2>1. /\ draws' = [draws EXCEPT ![c] = r]
        /\ executing' = executing /\ totalOutflow' = totalOutflow
        /\ totalDrawSpent' = totalDrawSpent + actual
        /\ Settled /\ draws[c].reserved # 0
        /\ actual <= draws[c].reserved /\ actual >= draws[c].principalOut
    BY <1>7 DEF Commit
  <2>2. draws[c] \in Draw /\ actual \in Nat /\ draws[c].spent + actual \in Nat
    BY <1>1, DrawFacts
  <2>3. /\ r \in Draw /\ r.amount = draws[c].amount /\ r.state = draws[c].state
        /\ r.spent = draws[c].spent + actual
        /\ r.reserved = 0 /\ r.principalOut = 0
    BY <2>2, DrawUpdates DEF Draw
  <2> HIDE DEF r
  <2>4. executing[c].principal = 0 /\ executing[c].gasCeiling = 0
    BY <2>1, DrawFacts DEF Settled, Idle
  <2>5. draws[c].state = "Funded"
    BY <2>1, DrawFacts
  <2>8. DrawBecomes(c, r)
    BY <2>1, <2>2, <2>3, <2>4, <2>5, DrawFacts DEF DrawBecomes
  <2> QED BY <1>2, <2>3, <2>8
<1>8. ASSUME NEW c \in Campaigns, Rollback(c) PROVE DrawParts'
  <2> DEFINE r == [draws[c] EXCEPT !.reserved = 0, !.principalOut = 0]
  <2>1. /\ draws' = [draws EXCEPT ![c] = r]
        /\ executing' = executing /\ totalDrawSpent' = totalDrawSpent
        /\ totalOutflow' = totalOutflow - draws[c].principalOut
        /\ Settled /\ draws[c].reserved # 0
    BY <1>8 DEF Rollback
  <2>2. draws[c] \in Draw
    BY <1>1
  <2>3. /\ r \in Draw /\ r.amount = draws[c].amount /\ r.state = draws[c].state
        /\ r.spent = draws[c].spent
        /\ r.reserved = 0 /\ r.principalOut = 0
    BY <2>2, DrawUpdates DEF Draw
  <2> HIDE DEF r
  <2>4. draws[c].state = "Funded"
    BY <2>1, DrawFacts
  <2>8. DrawBecomes(c, r)
    BY <2>1, <2>3, <2>4, DrawFacts DEF DrawBecomes
  <2> QED BY <1>2, <2>3, <2>8
<1>9. ASSUME NEW c \in Campaigns, CloseDraw(c) PROVE DrawParts'
  <2> DEFINE r == [draws[c] EXCEPT !.state = "Closed"]
  <2>1. /\ draws' = [draws EXCEPT ![c] = r]
        /\ executing' = executing /\ totalDrawSpent' = totalDrawSpent
        /\ totalOutflow' = totalOutflow
        /\ Settled /\ draws[c].reserved = 0
    BY <1>9 DEF CloseDraw
  <2>2. draws[c] \in Draw
    BY <1>1
  <2>3. /\ r \in Draw /\ r.amount = draws[c].amount /\ r.state = "Closed"
        /\ r.spent = draws[c].spent
        /\ r.reserved = draws[c].reserved /\ r.principalOut = draws[c].principalOut
    BY <2>2 DEF Draw, DrawStates
  <2> HIDE DEF r
  <2>8. DrawBecomes(c, r)
    BY <2>1, <2>3, DrawFacts DEF DrawBecomes
  <2> QED BY <1>2, <2>3, <2>8
<1>10. ASSUME NEW c \in Campaigns, NEW principal \in Amounts, NEW gasCeiling \in Amounts,
              FundAndExecute(c, principal, gasCeiling)
       PROVE  DrawParts'
  <2>1. /\ executing' = [executing EXCEPT ![c] =
             [active |-> TRUE, principal |-> principal, gasCeiling |-> gasCeiling]]
        /\ draws' = draws /\ totalDrawSpent' = totalDrawSpent
        /\ totalOutflow' = totalOutflow + principal
        /\ Settled /\ draws[c].state = "Funded" /\ draws[c].reserved = 0
        /\ draws[c].spent + principal + gasCeiling <= draws[c].amount
        /\ principal \in Nat /\ gasCeiling \in Nat
    BY <1>10, AmountsAssumption DEF FundAndExecute, MayBuy
  <2>2. /\ executing'[c].active = TRUE
        /\ executing'[c].principal = principal /\ executing'[c].gasCeiling = gasCeiling
        /\ \A e \in Campaigns : e # c => executing'[e] = executing[e]
        /\ \A e \in Campaigns : draws'[e] = draws[e]
    BY <1>1, <2>1
  <2>3. executing[c].principal = 0 /\ draws[c].principalOut = 0
    BY <2>1, DrawFacts DEF Settled, Idle
  <2> QED BY <1>0, <2>1, <2>2, <2>3, DrawFrame, DrawFacts
<1>11. ASSUME NEW c \in Campaigns, NEW gas \in 0..executing[c].gasCeiling, Executed(c, gas)
       PROVE  DrawParts'
  <2> DEFINE actual == executing[c].principal + gas
             r == [draws[c] EXCEPT !.spent = draws[c].spent + actual]
  <2>1. /\ draws' = [draws EXCEPT ![c] = r]
        /\ executing' = [executing EXCEPT ![c] = Idle]
        /\ totalOutflow' = totalOutflow
        /\ totalDrawSpent' = totalDrawSpent + actual
        /\ executing[c].active /\ gas <= executing[c].gasCeiling
        /\ gas \in Nat /\ actual = executing[c].principal + gas
    BY <1>1, <1>11, DrawFacts DEF Executed
  <2> HIDE DEF actual
  <2>2. draws[c] \in Draw /\ actual \in Nat /\ draws[c].spent + actual \in Nat
    BY <1>1, <2>1, DrawFacts
  <2>3. /\ r.amount = draws[c].amount /\ r.state = draws[c].state
        /\ r.spent = draws[c].spent + actual
        /\ r.reserved = draws[c].reserved /\ r.principalOut = draws[c].principalOut
    BY <2>2 DEF Draw
  <2> HIDE DEF r
  <2>4. /\ draws'[c] = r /\ executing'[c] = Idle
        /\ \A e \in Campaigns : e # c => draws'[e] = draws[e] /\ executing'[e] = executing[e]
    BY <1>1, <2>1
  <2>5. /\ executing'[c].principal = 0 /\ executing'[c].gasCeiling = 0
        /\ executing'[c].active = FALSE
    BY <2>4 DEF Idle
  <2>6. draws[c].state = "Funded"
    BY <2>1, DrawFacts
  <2>7. /\ draws[c].reserved \in Nat /\ draws[c].principalOut \in Nat
        /\ draws[c].spent \in Nat /\ draws[c].amount \in Nat
        /\ executing[c].principal \in Nat /\ executing[c].gasCeiling \in Nat
        /\ draws[c].spent + draws[c].reserved
             + executing[c].principal + executing[c].gasCeiling <= draws[c].amount
        /\ draws[c].amount <= DRAW_CAP /\ draws[c].principalOut <= draws[c].reserved
    BY DrawFacts
  <2>8. /\ draws'[c].spent + draws'[c].reserved
              + executing'[c].principal + executing'[c].gasCeiling <= draws'[c].amount
        /\ draws'[c].amount <= DRAW_CAP
        /\ draws'[c].principalOut <= draws'[c].reserved
    BY <2>1, <2>3, <2>4, <2>5, <2>7
  <2>9. /\ draws'[c].state = "Funded"
        /\ ~executing'[c].active /\ executing'[c] = Idle
    BY <2>3, <2>4, <2>5, <2>6
  <2>10. /\ totalDrawSpent' = totalDrawSpent + draws'[c].spent - draws[c].spent
         /\ totalOutflow' + draws[c].principalOut + executing[c].principal + draws[c].spent
              <= totalOutflow + draws'[c].principalOut + executing'[c].principal + draws'[c].spent
         /\ totalOutflow + draws'[c].principalOut + executing'[c].principal
              <= totalOutflow' + draws[c].principalOut + executing[c].principal
    <3>1. totalOutflow \in Nat /\ totalDrawSpent \in Nat
      BY DrawFacts
    <3>2. /\ draws'[c].spent = draws[c].spent + executing[c].principal + gas
          /\ draws'[c].principalOut = draws[c].principalOut
      BY <2>1, <2>3, <2>4, <2>7
    <3>3. /\ totalDrawSpent' = totalDrawSpent + (executing[c].principal + gas)
          /\ totalOutflow' = totalOutflow /\ gas \in Nat
      BY <2>1
    <3> QED BY <2>5, <2>7, <3>1, <3>2, <3>3
  <2> QED BY <1>0, <2>4, <2>8, <2>9, <2>10, DrawFrame
<1>12. CASE UNCHANGED drawVars
  BY <1>12 DEF IInv, drawVars, DrawParts, DrawWithinAmount, OutflowCharged, OutflowCovers,
              CleanSlate, drawSpent, inFlight
<1> QED BY DrawSteps, <1>3, <1>4, <1>5, <1>6, <1>7, <1>8, <1>9, <1>10, <1>11, <1>12
        DEF DrawNext

----------------------------------------------------------------------------
(* The invariant holds at the start and survives every step.               *)

LEMMA InitInv == Init => IInv
<1> SUFFICES ASSUME Init PROVE IInv
  OBVIOUS
<1>1. TypeOK
  <2>1. NoDepositor \in Depositor /\ NoDraw \in Draw /\ NoSpend \in QueuedSpend
    BY DEF NoDepositor, NoDraw, NoSpend, Depositor, Draw, DrawStates, QueuedSpend
  <2>2. Idle \in [active : BOOLEAN, principal : Nat, gasCeiling : Nat]
    BY DEF Idle
  <2>3. /\ depositors \in [Depositors -> Depositor]
        /\ draws \in [Campaigns -> Draw]
        /\ queued \in [SpendIds -> QueuedSpend]
        /\ executing \in [Campaigns -> [active : BOOLEAN, principal : Nat, gasCeiling : Nat]]
    BY <2>1, <2>2, Zenon DEF Init
  <2>4. paused \in BOOLEAN
    BY Zenon DEF Init
  <2>5. /\ balance = 0 /\ now = 1
        /\ totalDeposited = 0 /\ totalDrawSpent = 0 /\ totalOutflow = 0
        /\ totalClaimed = 0 /\ totalPosted = 0
        /\ everDeposited = 0 /\ exitsPaid = 0 /\ donated = 0
    BY DEF Init
  <2> QED BY <2>3, <2>4, <2>5 DEF TypeOK
<1>2. /\ \A d \in Depositors : depositors[d] = NoDepositor
      /\ \A c \in Campaigns : draws[c] = NoDraw /\ executing[c] = Idle
  BY DEF Init
<1>3. SpentBacked /\ ExitCovered /\ CleanSlate
  BY <1>2 DEF SpentBacked, ExitCovered, CleanSlate, NoDepositor
<1>4. /\ \A d \in Depositors : deposits[d] = 0
      /\ \A c \in Campaigns : drawSpent[c] = 0 /\ inFlight[c] = 0
  BY <1>2 DEF deposits, drawSpent, inFlight, NoDepositor, NoDraw, Idle
<1>5. Total(deposits) = 0 /\ Total(drawSpent) = 0 /\ Total(inFlight) = 0
  BY <1>1, <1>4, SumsTyped, TotalZero
<1>6. BalanceIdentity /\ OutflowCharged /\ OutflowCovers
  BY <1>5 DEF Init, BalanceIdentity, OutflowCharged, OutflowCovers
<1>7. CapsHold
  BY <1>2, <1>5, CapsAssumption DEF Init, CapsHold, NoDepositor
<1>8. DrawWithinAmount
  BY <1>2, CapsAssumption DEF DrawWithinAmount, NoDraw, Idle
<1> QED BY <1>1, <1>3, <1>6, <1>7, <1>8 DEF IInv

\* Every step that moves the balance moves one counter of the identity by as
\* much.
LEMMA BalanceStep == IInv /\ [Next]_vars => BalanceIdentity'
<1> SUFFICES ASSUME IInv, [Next]_vars PROVE BalanceIdentity'
  OBVIOUS
<1> USE AmountsAssumption DEF BalanceIdentity, depositorVars, drawVars, queueVars, adminVars
<1>0. /\ BalanceIdentity
      /\ balance \in Nat /\ everDeposited \in Nat /\ donated \in Nat
      /\ totalOutflow \in Nat /\ exitsPaid \in Nat /\ totalClaimed \in Nat
  BY DEF IInv, TypeOK
<1>1. CASE TraderNext
  <2>1. ASSUME NEW d \in Depositors, NEW size \in Sizes, Deposit(d, size) PROVE BalanceIdentity'
    BY <1>0, <2>1 DEF Deposit
  <2>2. ASSUME NEW d \in Depositors, RequestExit(d) PROVE BalanceIdentity'
    BY <1>0, <2>2 DEF RequestExit
  <2>3. ASSUME NEW d \in Depositors, ExecuteExit(d) PROVE BalanceIdentity'
    <3>1. Payout(d) \in Nat
      BY SumsTyped DEF IInv, TypeOK, Depositor, Payout, Least
    <3> QED BY <1>0, <2>3, <3>1 DEF ExecuteExit
  <2>4. ASSUME NEW amount \in Amounts, Donate(amount) PROVE BalanceIdentity'
    BY <1>0, <2>4 DEF Donate
  <2> QED BY <1>1, <2>1, <2>2, <2>3, <2>4 DEF TraderNext
<1>2. CASE AdminNext
  BY <1>0, <1>2 DEF AdminNext, SetPaused, ClaimOperator
<1>3. CASE QueueNext
  <2>1. UNCHANGED <<balance, everDeposited, donated, totalOutflow, exitsPaid, totalClaimed>>
    BY <1>3, PostQueuedIsBatch DEF QueueNext, QueueSpendBatch, PostQueuedBatch
  <2> QED BY <1>0, <2>1
<1>4. CASE DrawNext
  <2>1. PICK c \in Campaigns :
          \/ \E amount \in Amounts, dueAt \in DueTimes : OpenDraw(c, amount, dueAt)
          \/ \E accounts \in 1..MAX_ACCOUNTS : Fund(c, accounts)
          \/ \E amount \in Amounts : TopUpDraw(c, amount)
          \/ \E principal, gasCeiling \in Amounts :
               \/ FundPrincipal(c, principal, gasCeiling)
               \/ FundAndExecute(c, principal, gasCeiling)
          \/ \E actual \in 0..draws[c].reserved : Commit(c, actual)
          \/ Rollback(c)
          \/ CloseDraw(c)
          \/ \E gas \in 0..executing[c].gasCeiling : Executed(c, gas)
    BY <1>4 DEF DrawNext
  <2>2. /\ everDeposited' = everDeposited /\ donated' = donated
        /\ exitsPaid' = exitsPaid /\ totalClaimed' = totalClaimed
    BY <2>1 DEF OpenDraw, Fund, TopUpDraw, FundPrincipal, FundAndExecute, Commit, Rollback,
                CloseDraw, Executed
  <2> DEFINE Left(out) == balance' = balance - out /\ totalOutflow' = totalOutflow + out
  <2>3. ASSUME NEW accounts \in 1..MAX_ACCOUNTS, Fund(c, accounts)
        PROVE  \E out \in Int : Left(out)
    <3>1. GAS_HEADROOM * accounts \in Int /\ Left(GAS_HEADROOM * accounts)
      BY <2>3 DEF Fund
    <3> QED BY <3>1
  <2>4. ASSUME NEW principal \in Amounts, NEW gasCeiling \in Amounts,
               FundPrincipal(c, principal, gasCeiling) \/ FundAndExecute(c, principal, gasCeiling)
        PROVE  \E out \in Int : Left(out)
    <3>1. principal \in Int /\ Left(principal)
      BY <2>4 DEF FundPrincipal, FundAndExecute
    <3> QED BY <3>1
  <2>5. ASSUME Rollback(c) PROVE \E out \in Int : Left(out)
    <3>1. 0 - draws[c].principalOut \in Int /\ Left(0 - draws[c].principalOut)
      BY <1>0, <2>5, DrawFacts DEF Rollback
    <3> QED BY <3>1
  <2>6. ASSUME \/ \E amount \in Amounts, dueAt \in DueTimes : OpenDraw(c, amount, dueAt)
               \/ \E amount \in Amounts : TopUpDraw(c, amount)
               \/ \E actual \in 0..draws[c].reserved : Commit(c, actual)
               \/ CloseDraw(c)
               \/ \E gas \in 0..executing[c].gasCeiling : Executed(c, gas)
        PROVE  \E out \in Int : Left(out)
    <3>1. balance' = balance /\ totalOutflow' = totalOutflow
      BY <2>6 DEF OpenDraw, TopUpDraw, Commit, CloseDraw, Executed
    <3>2. 0 \in Int /\ Left(0)
      BY <1>0, <3>1
    <3> QED BY <3>2
  <2>7. PICK out \in Int : Left(out)
    <3> HIDE DEF Left
    <3> QED BY <2>1, <2>3, <2>4, <2>5, <2>6
  <2> QED BY <1>0, <2>2, <2>7
<1>5. CASE Tick \/ UNCHANGED vars
  BY <1>0, <1>5 DEF Tick, vars
<1> QED BY <1>1, <1>2, <1>3, <1>4, <1>5 DEF Next

LEMMA StepInv == IInv /\ [Next]_vars => IInv'
BY TypeStep, DepositorStep, DrawStep, BalanceStep DEF IInv, DrawParts

LEMMA AlwaysInv == Spec => []IInv
BY InitInv, StepInv, PTL DEF Spec

----------------------------------------------------------------------------
(* What the pool guarantees in every state.                                *)

\* The contract's checked subtractions never revert and its counters never
\* wrap: every amount the pool keeps is a natural number in every state.
THEOREM PoolTyped == Spec => []TypeOK
<1>1. IInv => TypeOK
  BY DEF IInv
<1> QED BY AlwaysInv, <1>1, PTL

\* The balance is the counters' difference in every state, so anyone can
\* audit the pool from six public numbers.
THEOREM PoolBalances == Spec => []BalanceIdentity
<1>1. IInv => BalanceIdentity
  BY DEF IInv
<1> QED BY AlwaysInv, <1>1, PTL

\* The sum of deposits is what the contract believes it is, and under the
\* cap, whatever deposits, exits and postings cross.
THEOREM PoolCapped == Spec => []CapsHold
<1>1. IInv => CapsHold
  BY DEF IInv
<1> QED BY AlwaysInv, <1>1, PTL

\* A draw is never committed beyond its amount, and every wei that left for
\* a fleet is charged to a draw or in flight, on both buy paths.
THEOREM PoolDrawsBounded == Spec => [](DrawWithinAmount /\ OutflowCharged)
<1>1. IInv => DrawWithinAmount /\ OutflowCharged
  BY DEF IInv
<1> QED BY AlwaysInv, <1>1, PTL

----------------------------------------------------------------------------
(* The pool implements the ledger it promises its depositors.              *)

LEMMA LedgerInit == Init => Ledger!LedgerInit
<1> SUFFICES ASSUME Init PROVE Ledger!LedgerInit
  OBVIOUS
<1>1. unspent = [d \in Depositors |-> 0]
  BY DEF Init, unspent, Unspent, NoDepositor
<1> QED BY <1>1 DEF Init, Ledger!LedgerInit

\* A deposit credits, an exit leaves with the whole credit, a posting charges
\* what the credit backs, and every other step leaves the ledger alone.
LEMMA LedgerStep == IInv /\ [Next]_vars => [Ledger!LedgerNext]_(Ledger!ledgerVars)
<1> SUFFICES ASSUME IInv, [Next]_vars PROVE [Ledger!LedgerNext]_(Ledger!ledgerVars)
  OBVIOUS
<1>0. TypeOK /\ SpentBacked /\ ExitCovered /\ unspent \in [Depositors -> Nat]
  BY SumsTyped DEF IInv
<1>1. /\ \A d \in Depositors :
           /\ depositors[d] \in Depositor
           /\ depositors[d].deposited \in Nat /\ depositors[d].spent \in Nat
           /\ depositors[d].exitAmount \in Nat
           /\ depositors[d].spent <= depositors[d].deposited
           /\ unspent[d] = depositors[d].deposited - depositors[d].spent
      /\ everDeposited \in Nat /\ exitsPaid \in Nat /\ totalPosted \in Nat
  BY <1>0 DEF TypeOK, Depositor, SpentBacked, unspent, Unspent
<1>2. ASSUME NEW d \in Depositors, NEW size \in Sizes, Deposit(d, size) PROVE Ledger!Credit(d)
  <2>1. /\ size \in Nat /\ size # 0
        /\ depositors' = [depositors EXCEPT ![d].deposited = @ + size]
        /\ everDeposited' = everDeposited + size
        /\ exitsPaid' = exitsPaid /\ totalPosted' = totalPosted
    BY <1>2, AmountsAssumption DEF Deposit, queueVars
  <2>2. /\ depositors'[d].deposited = depositors[d].deposited + size
        /\ depositors'[d].spent = depositors[d].spent
        /\ \A e \in Depositors : e # d => depositors'[e] = depositors[e]
    BY <1>0, <1>1, <2>1 DEF TypeOK, Depositor
  <2>3. unspent'[d] = unspent[d] + size
    BY <1>1, <2>1, <2>2 DEF unspent, Unspent
  <2>4. \A e \in Depositors : e # d => unspent'[e] = unspent[e]
    BY <2>2 DEF unspent
  <2>5. unspent' = [unspent EXCEPT ![d] = unspent'[d]]
    BY <2>4 DEF unspent
  <2>6. unspent[d] \in Nat
    BY <1>0
  <2>7. unspent'[d] \in Nat /\ unspent'[d] > unspent[d] /\ size = unspent'[d] - unspent[d]
    BY <2>1, <2>3, <2>6
  <2> QED BY <2>1, <2>5, <2>7 DEF Ledger!Credit
<1>3. ASSUME NEW d \in Depositors, ExecuteExit(d) PROVE Ledger!Leave(d)
  <2>1. /\ depositors[d].exitRequestedAt # 0
        /\ depositors' = [depositors EXCEPT ![d] = NoDepositor]
        /\ exitsPaid' = exitsPaid + Payout(d)
        /\ everDeposited' = everDeposited /\ totalPosted' = totalPosted
    BY <1>3 DEF ExecuteExit, queueVars
  <2>2. Payout(d) = unspent[d]
    BY <1>0, <1>1, <2>1 DEF Payout, Least, ExitCovered
  <2>3. /\ depositors'[d] = NoDepositor
        /\ \A e \in Depositors : e # d => depositors'[e] = depositors[e]
    BY <1>0, <2>1 DEF TypeOK
  <2>4. unspent' = [unspent EXCEPT ![d] = 0]
    <3>1. unspent'[d] = 0 /\ \A e \in Depositors : e # d => unspent'[e] = unspent[e]
      BY <2>3 DEF unspent, Unspent, NoDepositor
    <3>2. unspent' = [e \in Depositors |-> unspent'[e]]
      BY DEF unspent
    <3> QED BY <1>0, <3>1, <3>2
  <2> QED BY <2>1, <2>2, <2>4 DEF Ledger!Leave
<1>4. ASSUME NEW who \in Batches(Depositors), PostQueuedBatch(who) PROVE Ledger!Charge
  <2> DEFINE counted == Counted({id \in DOMAIN who : Postable(id)}, who)
  <2>1. counted \in [Depositors -> Nat] /\ \A d \in Depositors : counted[d] <= unspent[d]
    BY <1>0, BatchDomain, CountedBacked
  <2>2. /\ depositors' = [d \in Depositors |-> [depositors[d] EXCEPT !.spent = @ + counted[d]]]
        /\ totalPosted' = totalPosted + Total(counted)
        /\ everDeposited' = everDeposited /\ exitsPaid' = exitsPaid
    BY <1>4 DEF PostQueuedBatch
  <2> HIDE DEF counted
  <2>3. ASSUME NEW d \in Depositors
        PROVE  unspent'[d] = unspent[d] - counted[d]
    <3>1. /\ depositors'[d].deposited = depositors[d].deposited
          /\ depositors'[d].spent = depositors[d].spent + counted[d]
      BY <1>1, <2>2 DEF Depositor
    <3>2. unspent'[d] = Unspent(depositors'[d])
      BY DEF unspent
    <3>3. counted[d] \in Nat /\ counted[d] <= unspent[d]
      BY <2>1
    <3> QED BY <1>1, <3>1, <3>2, <3>3 DEF Unspent
  <2>4. \A d \in Depositors :
          /\ unspent'[d] \in Nat /\ unspent'[d] <= unspent[d]
          /\ counted[d] = unspent[d] - unspent'[d]
    <3> SUFFICES ASSUME NEW d \in Depositors
                 PROVE  /\ unspent'[d] \in Nat /\ unspent'[d] <= unspent[d]
                        /\ counted[d] = unspent[d] - unspent'[d]
      OBVIOUS
    <3>1. counted[d] \in Nat /\ unspent[d] \in Nat /\ counted[d] <= unspent[d]
      BY <1>0, <2>1
    <3> QED BY <2>3, <3>1
  <2>5. counted = [d \in Depositors |-> unspent[d] - unspent'[d]]
    BY <2>1, <2>4
  <2>6. unspent' \in [Depositors -> Nat]
    BY <2>4 DEF unspent
  <2> QED BY <2>2, <2>4, <2>5, <2>6 DEF Ledger!Charge
<1>5. ASSUME NEW d \in Depositors, RequestExit(d) PROVE UNCHANGED Ledger!ledgerVars
  <2>1. /\ depositors' = [depositors EXCEPT ![d] =
             [depositors[d] EXCEPT !.exitRequestedAt = now, !.exitAmount = unspent[d]]]
        /\ everDeposited' = everDeposited /\ exitsPaid' = exitsPaid
        /\ totalPosted' = totalPosted
    BY <1>5 DEF RequestExit, queueVars
  <2>2. \A e \in Depositors :
          /\ depositors'[e].deposited = depositors[e].deposited
          /\ depositors'[e].spent = depositors[e].spent
    BY <1>0, <2>1 DEF TypeOK, Depositor
  <2>3. unspent' = unspent
    BY <2>2 DEF unspent, Unspent
  <2> QED BY <2>1, <2>3 DEF Ledger!ledgerVars
<1>6. CASE UNCHANGED depositorVars /\ totalPosted' = totalPosted
  BY <1>6 DEF depositorVars, unspent, Ledger!ledgerVars
<1>7. ASSUME UNCHANGED depositorVars, totalPosted' # totalPosted
      PROVE  \E who \in Batches(Depositors) : PostQueuedBatch(who)
  <2>1. ~UNCHANGED vars /\ ~Tick /\ ~AdminNext
    BY <1>7 DEF vars, queueVars, Tick, AdminNext, SetPaused, ClaimOperator
  <2>2. ~TraderNext
    BY <1>7 DEF TraderNext, Deposit, Donate, RequestExit, ExecuteExit, queueVars
  <2>3. ~DrawNext
    BY <1>7 DEF DrawNext, OpenDraw, Fund, TopUpDraw, FundPrincipal, FundAndExecute, Commit,
                Rollback, CloseDraw, Executed, queueVars
  <2>4. QueueNext
    BY <2>1, <2>2, <2>3 DEF Next
  <2> QED BY <1>7, <2>4, PostQueuedIsBatch DEF QueueNext, QueueSpendBatch
<1> QED BY <1>2, <1>3, <1>4, <1>5, <1>6, <1>7, DepositorSteps DEF Ledger!LedgerNext

\* Whatever draws, claims, pauses and donations do, a depositor loses credit
\* only to a charge the deposit backs, and leaves only with all that is left.
THEOREM PoolImplementsLedger == Spec => LedgerSpec
<1>1. Spec => [][Ledger!LedgerNext]_(Ledger!ledgerVars)
  BY AlwaysInv, LedgerStep, PTL DEF Spec
<1> QED BY LedgerInit, <1>1, PTL DEF Spec, LedgerSpec, Ledger!LedgerSpec

\* A step of the ledger moves one counter by what it moves the sum of the
\* credits.
LEMMA OwedStep ==
  IInv /\ OwedToDepositors /\ [Next]_vars => OwedToDepositors'
<1> SUFFICES ASSUME IInv, OwedToDepositors, [Next]_vars PROVE OwedToDepositors'
  OBVIOUS
<1>0. /\ unspent \in [Depositors -> Nat] /\ Total(unspent) \in Nat
      /\ everDeposited \in Nat /\ exitsPaid \in Nat /\ totalPosted \in Nat
      /\ Total(unspent) = everDeposited - exitsPaid - totalPosted
  BY SumsTyped, TotalsTyped DEF IInv, TypeOK, OwedToDepositors
<1>1. [Ledger!LedgerNext]_(Ledger!ledgerVars)
  BY LedgerStep
<1>2. unspent' \in [Depositors -> Nat] /\ Total(unspent') \in Nat
  <2>1. unspent' \in [Depositors -> Nat]
    BY TypeStep DEF TypeOK, Depositor, unspent, Unspent
  <2> QED BY <2>1, TotalType, FiniteAssumption
<1>3. ASSUME NEW d \in Depositors, Ledger!Credit(d) PROVE OwedToDepositors'
  <2>1. /\ \A e \in Depositors : e # d => unspent'[e] = unspent[e]
        /\ everDeposited' = everDeposited + (unspent'[d] - unspent[d])
        /\ exitsPaid' = exitsPaid /\ totalPosted' = totalPosted
    BY <1>0, <1>3 DEF Ledger!Credit
  <2>2. Total(unspent') = Total(unspent) - unspent[d] + unspent'[d]
    BY <1>0, <1>2, <2>1, TotalUpdate, FiniteAssumption
  <2>3. unspent[d] \in Nat /\ unspent'[d] \in Nat
    BY <1>0, <1>2
  <2> QED BY <1>0, <2>1, <2>2, <2>3 DEF OwedToDepositors
<1>4. ASSUME NEW d \in Depositors, Ledger!Leave(d) PROVE OwedToDepositors'
  <2>1. /\ unspent'[d] = 0
        /\ \A e \in Depositors : e # d => unspent'[e] = unspent[e]
        /\ exitsPaid' = exitsPaid + unspent[d]
        /\ everDeposited' = everDeposited /\ totalPosted' = totalPosted
    BY <1>0, <1>4 DEF Ledger!Leave
  <2>2. Total(unspent') = Total(unspent) - unspent[d] + 0
    BY <1>0, <1>2, <2>1, TotalUpdate, FiniteAssumption
  <2>3. unspent[d] \in Nat
    BY <1>0
  <2> QED BY <1>0, <2>1, <2>2, <2>3 DEF OwedToDepositors
<1>5. CASE Ledger!Charge
  <2> DEFINE charged == [d \in Depositors |-> unspent[d] - unspent'[d]]
  <2>1. /\ totalPosted' = totalPosted + Total(charged)
        /\ everDeposited' = everDeposited /\ exitsPaid' = exitsPaid
        /\ \A d \in Depositors : unspent'[d] <= unspent[d]
    BY <1>5 DEF Ledger!Charge
  <2>2. /\ charged \in [Depositors -> Nat]
        /\ \A d \in Depositors : unspent[d] = unspent'[d] + charged[d]
    <3>1. \A d \in Depositors : unspent[d] \in Nat /\ unspent'[d] \in Nat
      BY <1>0, <1>2
    <3> QED BY <2>1, <3>1
  <2> HIDE DEF charged
  <2>3. Total(unspent) = Total(unspent') + Total(charged) /\ Total(charged) \in Nat
    <3>1. IsFiniteSet(Depositors)
      BY FiniteAssumption
    <3>2. unspent \in [Depositors -> Nat] /\ unspent' \in [Depositors -> Nat]
      BY <1>0, <1>2
    <3>3. Total(charged) \in Nat
      BY <2>2, <3>1, TotalType
    <3>4. Total(unspent) = Total(unspent') + Total(charged)
      BY <2>2, <3>1, <3>2, TotalSum
    <3> QED BY <3>3, <3>4
  <2>4. Total(unspent') = Total(unspent) - Total(charged)
    BY <1>0, <1>2, <2>3
  <2> QED BY <1>0, <2>1, <2>3, <2>4 DEF OwedToDepositors
<1>6. CASE UNCHANGED Ledger!ledgerVars
  BY <1>0, <1>6 DEF Ledger!ledgerVars, OwedToDepositors
<1> QED BY <1>1, <1>3, <1>4, <1>5, <1>6 DEF Ledger!LedgerNext

LEMMA InitOwed == Init => OwedToDepositors
<1> SUFFICES ASSUME Init PROVE OwedToDepositors
  OBVIOUS
<1>1. \A d \in Depositors : unspent[d] = 0
  BY DEF Init, unspent, Unspent, NoDepositor
<1>2. Total(unspent) = 0
  BY <1>1, InitInv, SumsTyped, TotalZero DEF IInv
<1> QED BY <1>2 DEF Init, OwedToDepositors

\* What the depositors are owed follows from the counters everyone sees.
THEOREM PoolOwes == Spec => []OwedToDepositors
BY InitOwed, OwedStep, AlwaysInv, PTL DEF Spec

----------------------------------------------------------------------------
(* What no step may do.                                                    *)

LEMMA ClaimStepSafe ==
  IInv /\ OwedToDepositors /\ [Next]_vars => (ClaimStep => balance' >= Total(unspent))
<1> SUFFICES ASSUME IInv, OwedToDepositors, [Next]_vars, ClaimStep
             PROVE  balance' >= Total(unspent)
  OBVIOUS
<1>1. PICK amount \in Amounts : ClaimOperator(amount)
  <2>1. ~UNCHANGED vars /\ ~Tick /\ ~SetPaused
    BY DEF ClaimStep, vars, adminVars, Tick, SetPaused
  <2>2. ~TraderNext
    BY DEF ClaimStep, adminVars, TraderNext, Deposit, Donate, RequestExit, ExecuteExit
  <2>3. ~QueueNext
    BY PostQueuedIsBatch DEF ClaimStep, adminVars, QueueNext, QueueSpendBatch, PostQueuedBatch
  <2>4. ~DrawNext
    BY DEF ClaimStep, adminVars, DrawNext, OpenDraw, Fund, TopUpDraw, FundPrincipal,
           FundAndExecute, Commit, Rollback, CloseDraw, Executed
  <2> QED BY <2>1, <2>2, <2>3, <2>4 DEF Next, AdminNext
<1>2. /\ balance \in Nat /\ everDeposited \in Nat /\ donated \in Nat /\ totalOutflow \in Nat
      /\ exitsPaid \in Nat /\ totalClaimed \in Nat /\ totalPosted \in Nat
      /\ amount \in Nat /\ Total(unspent) \in Nat
  BY AmountsAssumption, TotalsTyped DEF IInv, TypeOK
<1>3. /\ balance = everDeposited + donated - totalOutflow - exitsPaid - totalClaimed
      /\ Total(unspent) = everDeposited - exitsPaid - totalPosted
  BY DEF IInv, BalanceIdentity, OwedToDepositors
<1>4. amount # 0 /\ amount <= claimable /\ balance' = balance - amount
  BY <1>1, <1>2 DEF ClaimStep, ClaimOperator
<1>5. amount <= totalPosted - (totalOutflow + totalClaimed)
  BY <1>2, <1>4 DEF claimable, owed
<1> QED BY <1>2, <1>3, <1>4, <1>5

\* A claim by the operator's claimant never reaches into unspent deposits.
THEOREM PoolClaimsSafely == Spec => ClaimLeavesDepositsWhole
<1>1. IInv /\ OwedToDepositors /\ [Next]_vars => [ClaimStep => balance' >= Total(unspent)]_vars
  BY ClaimStepSafe
<1> QED BY AlwaysInv, PoolOwes, <1>1, PTL DEF Spec, ClaimLeavesDepositsWhole

\* By the time a trader's exit can execute no charge filed before it can
\* still be posted: the delay is longer than the window.
LEMMA ExitStepSafe ==
  IInv /\ [Next]_vars =>
    \A d \in Depositors : ExitStep(d) =>
      \A id \in SpendIds :
        Known(id) /\ queued[id].queuedAt <= depositors[d].exitRequestedAt =>
          queued[id].posted \/ Expired(id)
<1> SUFFICES ASSUME IInv, [Next]_vars, NEW d \in Depositors, ExitStep(d), NEW id \in SpendIds,
                    queued[id].queuedAt <= depositors[d].exitRequestedAt
             PROVE  Expired(id)
  OBVIOUS
<1>0. /\ depositors \in [Depositors -> Depositor] /\ now \in Nat
      /\ depositors[d].exitRequestedAt \in Nat /\ queued[id].queuedAt \in Nat
      /\ depositors[d].deposited \in Nat /\ depositors[d].deposited # 0
      /\ \A e \in Depositors : depositors[e] \in Depositor
  BY DEF IInv, TypeOK, Depositor, QueuedSpend, ExitCovered, ExitStep
<1>1. ExecuteExit(d)
  <2>1. depositors'[d].deposited # depositors[d].deposited
    BY <1>0 DEF ExitStep
  <2>2. ASSUME NEW e \in Depositors, NEW size \in Sizes, Deposit(e, size) PROVE FALSE
    <3>1. /\ depositors' = [depositors EXCEPT ![e].deposited = @ + size]
          /\ depositors[e].exitRequestedAt = 0
      BY <2>2 DEF Deposit
    <3>2. e # d
      BY <3>1 DEF ExitStep
    <3>3. depositors'[d] = depositors[d]
      BY <1>0, <3>1, <3>2
    <3> QED BY <2>1, <3>3
  <2>3. ASSUME NEW e \in Depositors, RequestExit(e) PROVE FALSE
    <3>1. depositors' = [depositors EXCEPT ![e] =
            [depositors[e] EXCEPT !.exitRequestedAt = now, !.exitAmount = unspent[e]]]
      BY <2>3 DEF RequestExit
    <3>2. depositors'[d].deposited = depositors[d].deposited
      BY <1>0, <3>1 DEF Depositor
    <3> QED BY <2>1, <3>2
  <2>4. ASSUME NEW e \in Depositors, ExecuteExit(e), e # d PROVE FALSE
    <3>1. depositors'[d] = depositors[d]
      BY <1>0, <2>4 DEF ExecuteExit
    <3> QED BY <2>1, <3>1
  <2>5. ASSUME NEW who \in Batches(Depositors), PostQueuedBatch(who) PROVE FALSE
    <3> DEFINE counted == Counted({i \in DOMAIN who : Postable(i)}, who)
    <3>1. depositors' = [e \in Depositors |-> [depositors[e] EXCEPT !.spent = @ + counted[e]]]
      BY <2>5 DEF PostQueuedBatch
    <3> HIDE DEF counted
    <3>2. depositors'[d].deposited = depositors[d].deposited
      BY <1>0, <3>1 DEF Depositor
    <3> QED BY <2>1, <3>2
  <2>6. CASE UNCHANGED depositorVars
    BY <2>1, <2>6 DEF depositorVars
  <2> QED BY DepositorSteps, <2>2, <2>3, <2>4, <2>5, <2>6
<1>2. now >= depositors[d].exitRequestedAt + EXIT_DELAY
  BY <1>1 DEF ExecuteExit
<1> QED BY <1>0, <1>2, TimeAssumption DEF Expired

THEOREM PoolExitOutlasts == Spec => ExitOutlastsOldCharges
<1>1. IInv /\ [Next]_vars =>
        [\A d \in Depositors : ExitStep(d) =>
           \A id \in SpendIds :
             Known(id) /\ queued[id].queuedAt <= depositors[d].exitRequestedAt =>
               queued[id].posted \/ Expired(id)]_vars
  BY ExitStepSafe
<1> QED BY AlwaysInv, <1>1, PTL DEF Spec, ExitOutlastsOldCharges

----------------------------------------------------------------------------
(* The sweep.  Its invariants, of a queue Q at the time t.                 *)

Early  == {"mark", "rows", "entries"}
Saving == {"saveRows", "saveMark"}
Late   == {"since", "exits", "simulate", "paused", "pull"}
Kinds  == {"none", "reading", "posting", "queueing"}
Mark   == [below : Nat, kept : SUBSET SpendIds]
Call   == [pc : {"asleep", "post"} \cup Early \cup Saving \cup Late, kind : Kinds,
           seconds : Nat, count : Nat, mark : Mark, lost : SUBSET SpendIds,
           todo : SUBSET SpendIds, expired : SUBSET SpendIds, exits : SUBSET Depositors]

SweepTyped ==
  /\ queued \in [SpendIds -> QueuedSpend]
  /\ now \in Nat \ {0}
  /\ paused \in BOOLEAN
  /\ calls \in [Instances -> Call]
  /\ local \in [Readers -> Mark \cup {NoMark}]
  /\ shared \in Mark
  /\ lastPosting \in Nat /\ resumedAt \in Nat
  /\ postedAt \in [SpendIds -> Nat]
  /\ missed \in [SpendIds -> Nat]
  /\ pulls \in [SpendIds -> Nat]

Files(Q)      == {i \in SpendIds : Q[i].queuedAt # 0}
Ends(Q, i)    == Q[i].queuedAt + POST_WINDOW
Gone(Q, t, i) == i \in Files(Q) /\ ~Q[i].posted /\ t > Ends(Q, i)

\* The charges have the first places of the queue, and what is posted was
\* posted inside its window.
InOrder(Q) == Files(Q) = 1..Cardinality(Files(Q))
PostedOK(Q, P) == \A i \in SpendIds : Q[i].posted => i \in Files(Q) /\ P[i] <= Ends(Q, i)

\* Below a mark everything is over, and the rows with it are of lost charges.
Sound(Q, t, mark) ==
  /\ \A i \in 1..mark.below : i \in SpendIds /\ (Q[i].posted \/ Gone(Q, t, i))
  /\ \A i \in mark.kept : Gone(Q, t, i)

\* What a call goes by is so.
Believes(Q, t, r) ==
  /\ Sound(Q, t, r.mark)
  /\ 1..r.count \subseteq Files(Q)
  /\ \A i \in r.lost : Gone(Q, t, i)
  /\ \A i \in r.todo : i \in Files(Q) /\ Q[i].dueAt <= r.seconds /\ r.seconds <= Ends(Q, i)
  /\ \A i \in r.expired : i \in Files(Q) /\ r.seconds > Ends(Q, i)

Awake(t, r) == r.kind # "none" /\ r.seconds <= t /\ t <= r.seconds + LIFE

CallOK(Q, t, r) ==
  /\ Believes(Q, t, r)
  /\ IF r.pc = "asleep" THEN r = Asleep ELSE Awake(t, r)
  /\ r.pc \in Early => r.todo = {} /\ r.expired = {}
  /\ r.pc = "post" => r.todo # {}
  /\ r.pc \in Late => r.kind = "queueing"

\* One sweep at a time, on the clock.
Scheduled(t, L, C) ==
  /\ L <= t /\ t <= L + EVERY
  /\ \A s \in Instances : C[s].kind = "posting" => C[s].seconds = L
  /\ \A s, r \in Instances :
       {C[s].kind, C[r].kind} \subseteq {"posting", "queueing"} => s = r

SweepBase ==
  /\ SweepTyped
  /\ InOrder(queued) /\ PostedOK(queued, postedAt) /\ Scheduled(now, lastPosting, calls)
  /\ Sound(queued, now, shared)
  /\ \A s \in Readers : Sound(queued, now, local[s])
  /\ \A s \in Instances : CallOK(queued, now, calls[s])

----------------------------------------------------------------------------
(* The queue.                                                              *)

\* What a step does to the queue: what is filed stays so, what is posted
\* stays so, and what is posted now is posted inside its window.
QueueMoves(Q, t, R, u) ==
  /\ R \in [SpendIds -> QueuedSpend]
  /\ u \in Nat /\ t <= u
  /\ \A i \in Files(Q) :
       /\ R[i].queuedAt = Q[i].queuedAt /\ R[i].dueAt = Q[i].dueAt
       /\ Q[i].posted => R[i].posted
       /\ R[i].posted => Q[i].posted \/ t <= Ends(Q, i)

LEMMA QueueStays ==
  ASSUME NEW Q \in [SpendIds -> QueuedSpend], NEW t \in Nat
  PROVE  QueueMoves(Q, t, Q, t)
  BY DEF QueueMoves

LEMMA FiledStays ==
  ASSUME NEW Q \in [SpendIds -> QueuedSpend], NEW t \in Nat, NEW R, NEW u, QueueMoves(Q, t, R, u)
  PROVE  /\ Files(Q) \subseteq Files(R)
         /\ \A i \in Files(Q) : Ends(R, i) = Ends(Q, i)
         /\ \A i : Gone(Q, t, i) => Gone(R, u, i)
<1>1. POST_WINDOW \in Nat
  BY TimeAssumption
<1>2. Files(Q) \subseteq Files(R) /\ \A i \in Files(Q) : Ends(R, i) = Ends(Q, i)
  BY DEF QueueMoves, Files, Ends
<1>3. ASSUME NEW i, Gone(Q, t, i) PROVE Gone(R, u, i)
  <2>1. i \in Files(Q) /\ i \in SpendIds /\ Ends(Q, i) \in Nat
    BY <1>1, <1>3 DEF Gone, Ends, Files, QueuedSpend
  <2> QED BY <1>2, <1>3, <2>1 DEF Gone, QueueMoves
<1> QED BY <1>2, <1>3

\* A mark that was sound stays sound.
LEMMA SoundStays ==
  ASSUME NEW Q \in [SpendIds -> QueuedSpend], NEW t \in Nat, NEW R, NEW u, QueueMoves(Q, t, R, u),
         PostedOK(Q, postedAt), NEW mark, Sound(Q, t, mark)
  PROVE  Sound(R, u, mark)
<1>1. \A i : Gone(Q, t, i) => Gone(R, u, i)
  BY FiledStays
<1>2. \A i \in SpendIds : Q[i].posted => R[i].posted
  BY DEF PostedOK, QueueMoves
<1> QED BY <1>1, <1>2 DEF Sound

LEMMA BelievesStays ==
  ASSUME NEW Q \in [SpendIds -> QueuedSpend], NEW t \in Nat, NEW R, NEW u, QueueMoves(Q, t, R, u),
         PostedOK(Q, postedAt), NEW r, Believes(Q, t, r)
  PROVE  Believes(R, u, r)
<1>1. /\ Files(Q) \subseteq Files(R)
      /\ \A i \in Files(Q) : Ends(R, i) = Ends(Q, i)
      /\ \A i : Gone(Q, t, i) => Gone(R, u, i)
  BY FiledStays
<1>2. Sound(R, u, r.mark)
  BY SoundStays DEF Believes
<1>3. \A i \in Files(Q) : R[i].dueAt = Q[i].dueAt
  BY DEF QueueMoves
<1> QED BY <1>1, <1>2, <1>3 DEF Believes

LEMMA StartSound ==
  ASSUME NEW Q, NEW t
  PROVE  Sound(Q, t, Start) /\ Start \in Mark /\ 1..Start.below = {} /\ Start.kept = {}
  BY DEF Sound, Start, Mark

LEMMA NoMarkSound ==
  ASSUME NEW Q, NEW t
  PROVE  Sound(Q, t, NoMark) /\ 1..NoMark.below = {} /\ NoMark.kept = {}
  BY DEF Sound, NoMark

LEMMA AsleepOK ==
  ASSUME NEW Q, NEW t
  PROVE  Asleep \in Call /\ CallOK(Q, t, Asleep) /\ Asleep.kind = "none" /\ Asleep.pc = "asleep"
<1>1. Asleep \in Call /\ Asleep.kind = "none" /\ Asleep.pc = "asleep"
  BY StartSound DEF Asleep, Call, Kinds
<1>2. /\ Asleep.mark = Start /\ Asleep.count = 0 /\ Asleep.lost = {} /\ Asleep.todo = {}
      /\ Asleep.expired = {}
  BY DEF Asleep
<1>3. Believes(Q, t, Asleep)
  BY <1>2, StartSound DEF Believes
<1> QED BY <1>1, <1>2, <1>3 DEF CallOK, Early, Late

\* Of a nonempty set of naturals one is the least.
LEMMA LeastNat ==
  ASSUME NEW S \in SUBSET Nat, S # {}
  PROVE  \E n \in S : \A m \in S : n <= m
<1>1. \E n \in S : \A m \in S : <<m, n>> \notin OpToRel(<, Nat)
  BY NatLessThanWellFounded, WFMin, Zenon
<1>2. ASSUME NEW m \in Nat, NEW n \in Nat, m < n PROVE <<m, n>> \in OpToRel(<, Nat)
  BY <1>2 DEF OpToRel
<1>3. \A m, n \in Nat : n <= m \/ m < n
  OBVIOUS
<1> QED BY <1>1, <1>2, <1>3

LEMMA IntervalSize ==
  ASSUME NEW m \in Nat, NEW n \in Nat
  PROVE  /\ IsFiniteSet((m + 1)..(m + n)) /\ Cardinality((m + 1)..(m + n)) = n
         /\ IsFiniteSet(1..n) /\ Cardinality(1..n) = n
<1> DEFINE a == m + 1
           b == m + n
<1>1. a \in Int /\ b \in Int /\ 1 \in Int /\ n \in Int
  OBVIOUS
<1>2. IsFiniteSet(1..n) /\ Cardinality(1..n) = IF 1 > n THEN 0 ELSE n - 1 + 1
  BY <1>1, FS_Interval, Zenon
<1> HIDE DEF a, b
<1>3. IsFiniteSet(a..b) /\ Cardinality(a..b) = IF a > b THEN 0 ELSE b - a + 1
  BY <1>1, FS_Interval, Zenon
<1> QED BY <1>2, <1>3 DEF a, b

LEMMA Places ==
  /\ SpendIds \subseteq Nat \ {0}
  /\ \A S \in SUBSET SpendIds : IsFiniteSet(S) /\ Cardinality(S) \in Nat
<1>1. IsFiniteSet(SpendIds)
  BY FiniteAssumption
<1>2. \A S \in SUBSET SpendIds : IsFiniteSet(S) /\ Cardinality(S) \in Nat
  BY <1>1, FS_Subset, FS_CardinalityType
<1>3. SpendIds = 1..Cardinality(SpendIds) /\ Cardinality(SpendIds) \in Nat
  BY <1>2, SweepAssumption
<1> QED BY <1>2, <1>3

\* What postQueued does to the queue.
LEMMA PostedQueue ==
  ASSUME SweepTyped, PostedOK(queued, postedAt), NEW i \in SpendIds, NEW d, PostQueued(i, d)
  PROVE  /\ Postable(i) /\ queued'[i].posted
         /\ \A j \in SpendIds : j # i => queued'[j] = queued[j]
         /\ Files(queued') = Files(queued)
         /\ QueueMoves(queued, now, queued', now)
         /\ UNCHANGED <<now, paused>>
<1> DEFINE who == [k \in {i} |-> d]
           posted == [queued[i] EXCEPT !.posted = TRUE]
<1>1. Postable(i) /\ PostQueuedBatch(who)
  BY DEF PostQueued
<1>2. {id \in DOMAIN who : Postable(id)} = {i}
  BY <1>1
<1>3. queued' = [id \in SpendIds |->
        IF id \in {k \in DOMAIN who : Postable(k)} THEN [queued[id] EXCEPT !.posted = TRUE]
        ELSE queued[id]]
  BY <1>1 DEF PostQueuedBatch
<1>4. UNCHANGED <<now, paused>>
  BY <1>1 DEF PostQueuedBatch, adminVars
<1>5. queued[i] \in QueuedSpend
  BY DEF SweepTyped
<1>6. /\ posted \in QueuedSpend /\ posted.posted /\ posted.queuedAt = queued[i].queuedAt
      /\ posted.dueAt = queued[i].dueAt
  BY <1>5 DEF QueuedSpend
<1>7. \A j \in SpendIds : queued'[j] = IF j = i THEN posted ELSE queued[j]
  BY <1>2, <1>3
<1>8. queued' \in [SpendIds -> QueuedSpend]
  BY <1>2, <1>3, <1>6 DEF SweepTyped
<1> HIDE DEF posted, who
<1>9. Files(queued') = Files(queued)
  BY <1>6, <1>7 DEF Files
<1>10. now <= Ends(queued, i)
  <2>1. ~Expired(i) /\ now \in Nat /\ queued[i].queuedAt \in Nat /\ POST_WINDOW \in Nat
    BY <1>1, <1>5, TimeAssumption DEF Postable, SweepTyped, QueuedSpend
  <2> QED BY <2>1 DEF Expired, Ends
<1>11. QueueMoves(queued, now, queued', now)
  <2>1. now \in Nat /\ now <= now
    BY DEF SweepTyped
  <2> QED BY <1>6, <1>7, <1>8, <1>10, <2>1 DEF QueueMoves, Files
<1> QED BY <1>1, <1>4, <1>6, <1>7, <1>9, <1>11

\* What a batch does to the queue: it takes the next places, now, and falls
\* due later.
LEMMA QueuedBatch ==
  ASSUME SweepTyped, InOrder(queued), PostedOK(queued, postedAt), Queue
  PROVE  /\ QueueMoves(queued, now, queued', now) /\ InOrder(queued')
         /\ \A i \in SpendIds : queued'[i] = queued[i]
              \/ /\ i \notin Files(queued) /\ i \in Files(queued') /\ ~queued'[i].posted
                 /\ queued'[i].queuedAt = now /\ queued'[i].dueAt > now
         /\ UNCHANGED <<now, paused>>
<1> DEFINE n == Cardinality(filed)
<1>1. PICK last \in (n + 1)..Cardinality(SpendIds) :
        \E delay \in [(n + 1)..last -> Delays] :
          QueueSpendBatch([i \in DOMAIN delay |-> [amount |-> CHARGE, dueAt |-> now + delay[i]]])
  BY DEF Queue
<1>2. PICK delay \in [(n + 1)..last -> Delays] :
        QueueSpendBatch([i \in DOMAIN delay |-> [amount |-> CHARGE, dueAt |-> now + delay[i]]])
  BY <1>1
<1> DEFINE entries == [i \in (n + 1)..last |-> [amount |-> CHARGE, dueAt |-> now + delay[i]]]
           fresh == [i \in (n + 1)..last |->
                      [amount |-> CHARGE, dueAt |-> now + delay[i], queuedAt |-> now, posted |-> FALSE]]
<1>3. filed = Files(queued) /\ filed = 1..n /\ n \in Nat /\ last \in Nat /\ n < last
      /\ (n + 1)..last \subseteq SpendIds /\ 1..last \subseteq SpendIds
  <2>1. filed = Files(queued)
    BY DEF filed, Files, Known
  <2>2. n \in Nat /\ Cardinality(SpendIds) \in Nat
    BY <2>1, Places DEF Files
  <2>3. filed = 1..n
    BY <2>1 DEF InOrder
  <2> HIDE DEF n
  <2>4. SpendIds = 1..Cardinality(SpendIds)
    BY SweepAssumption
  <2> QED BY <2>1, <2>2, <2>3, <2>4
<1> HIDE DEF n
<1>4. DOMAIN delay = (n + 1)..last /\ \A i \in (n + 1)..last : delay[i] \in Nat \ {0}
  <2>1. \A i \in (n + 1)..last : delay[i] \in 1..POST_WINDOW
    BY SweepAssumption
  <2> QED BY <2>1, TimeAssumption
<1>5. QueueSpendBatch(entries)
  BY <1>2, <1>4
<1>6. queued' = [id \in SpendIds |->
        IF id \in DOMAIN entries
          THEN [amount |-> entries[id].amount, dueAt |-> entries[id].dueAt,
                queuedAt |-> now, posted |-> FALSE]
          ELSE queued[id]]
  BY <1>5 DEF QueueSpendBatch
<1>7. UNCHANGED <<now, paused>>
  BY <1>5 DEF QueueSpendBatch, adminVars
<1>8. \A i \in SpendIds : queued'[i] = IF i \in (n + 1)..last THEN fresh[i] ELSE queued[i]
  BY <1>6
<1>9. ASSUME NEW i \in (n + 1)..last
      PROVE  /\ fresh[i] \in QueuedSpend /\ fresh[i].queuedAt = now /\ fresh[i].dueAt > now
             /\ ~fresh[i].posted
  <2>1. now \in Nat /\ CHARGE \in Nat /\ now + delay[i] \in Nat /\ now + delay[i] > now
    BY <1>4, SweepAssumption DEF SweepTyped
  <2> QED BY <2>1 DEF QueuedSpend
<1>10. queued' \in [SpendIds -> QueuedSpend]
  <2>1. DOMAIN queued' = SpendIds /\ \A i \in SpendIds : queued'[i] \in QueuedSpend
    BY <1>6, <1>8, <1>9 DEF SweepTyped
  <2>2. queued' = [i \in SpendIds |-> queued'[i]]
    BY <1>6
  <2> QED BY <2>1, <2>2
<1> HIDE DEF fresh, entries
<1>11. now \in Nat /\ now # 0
  BY DEF SweepTyped
<1>12. Files(queued') = 1..last
  <2>1. \A i \in SpendIds : i \in Files(queued') <=> i \in (n + 1)..last \/ i \in Files(queued)
    BY <1>8, <1>9, <1>11 DEF Files
  <2>2. \A i \in SpendIds : i \in Files(queued') <=> i \in 1..last
    BY <1>3, <2>1, Places
  <2> QED BY <1>3, <2>2 DEF Files
<1>13. InOrder(queued')
  BY <1>3, <1>12, IntervalSize DEF InOrder
<1>14. QueueMoves(queued, now, queued', now)
  BY <1>3, <1>8, <1>10, <1>11 DEF QueueMoves
<1> QED BY <1>3, <1>7, <1>8, <1>9, <1>12, <1>13, <1>14

----------------------------------------------------------------------------
(* The calls.                                                              *)

\* One call moves, and the others stand still.
LEMMA CallStep ==
  ASSUME SweepBase, NEW s \in Instances, NEW new \in Call, calls' = [calls EXCEPT ![s] = new],
         CallOK(queued', now, new),
         new.kind # "none" => new.kind = calls[s].kind /\ new.seconds = calls[s].seconds,
         QueueMoves(queued, now, queued', now), Files(queued') = Files(queued),
         PostedOK(queued', postedAt'),
         UNCHANGED <<now, lastPosting, resumedAt>>, paused' \in BOOLEAN,
         postedAt' \in [SpendIds -> Nat], missed' \in [SpendIds -> Nat], pulls' \in [SpendIds -> Nat],
         shared' \in Mark, Sound(queued', now, shared'),
         local' \in [Readers -> Mark \cup {NoMark}],
         \A r \in Readers : Sound(queued', now, local'[r])
  PROVE  SweepBase'
<1>1. calls \in [Instances -> Call] /\ queued \in [SpendIds -> QueuedSpend] /\ now \in Nat
  BY DEF SweepBase, SweepTyped
<1>2. calls'[s] = new /\ \A r \in Instances : r # s => calls'[r] = calls[r]
  BY <1>1
<1>3. SweepTyped'
  BY <1>1 DEF SweepBase, SweepTyped, QueueMoves
<1>4. InOrder(queued')
  BY DEF SweepBase, InOrder
<1>5. Scheduled(now, lastPosting, calls')
  <2>1. \A r \in Instances : calls'[r].kind # "none" =>
          calls'[r].kind = calls[r].kind /\ calls'[r].seconds = calls[r].seconds
    BY <1>2
  <2>2. /\ lastPosting <= now /\ now <= lastPosting + EVERY
        /\ \A r \in Instances : calls[r].kind = "posting" => calls[r].seconds = lastPosting
        /\ \A q, r \in Instances :
             {calls[q].kind, calls[r].kind} \subseteq {"posting", "queueing"} => q = r
    BY DEF SweepBase, Scheduled
  <2>3. \A r \in Instances : calls'[r].kind = "posting" => calls'[r].seconds = lastPosting
    BY <2>1, <2>2
  <2>4. ASSUME NEW q \in Instances, NEW r \in Instances,
               {calls'[q].kind, calls'[r].kind} \subseteq {"posting", "queueing"}
        PROVE  q = r
    BY <2>1, <2>2, <2>4
  <2> QED BY <2>2, <2>3, <2>4 DEF Scheduled
<1>6. ASSUME NEW r \in Instances PROVE CallOK(queued', now, calls'[r])
  <2>1. CASE r = s
    BY <1>2, <2>1
  <2>2. CASE r # s
    <3>1. CallOK(queued, now, calls[r]) /\ calls'[r] = calls[r] /\ PostedOK(queued, postedAt)
      BY <1>2, <2>2 DEF SweepBase
    <3>2. Believes(queued', now, calls[r])
      BY <1>1, <3>1, BelievesStays DEF CallOK
    <3> QED BY <3>1, <3>2 DEF CallOK
  <2> QED BY <2>1, <2>2
<1> QED BY <1>3, <1>4, <1>5, <1>6 DEF SweepBase

\* One call moves and nothing else that the queue is about.
LEMMA QuietCall ==
  ASSUME SweepBase, NEW s \in Instances, NEW new \in Call, calls' = [calls EXCEPT ![s] = new],
         CallOK(queued, now, new),
         new.kind # "none" => new.kind = calls[s].kind /\ new.seconds = calls[s].seconds,
         UNCHANGED <<queued, now, lastPosting, resumedAt, postedAt>>, paused' \in BOOLEAN,
         missed' \in [SpendIds -> Nat], pulls' \in [SpendIds -> Nat],
         shared' \in Mark, Sound(queued, now, shared'),
         local' \in [Readers -> Mark \cup {NoMark}],
         \A r \in Readers : Sound(queued, now, local'[r])
  PROVE  SweepBase'
<1>1. QueueMoves(queued, now, queued', now)
  BY QueueStays DEF SweepBase, SweepTyped
<1>2. PostedOK(queued', postedAt') /\ postedAt' \in [SpendIds -> Nat]
  BY DEF SweepBase, SweepTyped
<1> QED BY <1>1, <1>2, CallStep

\* What a call has where it stands.
LEMMA CallFacts ==
  ASSUME SweepBase, NEW s \in Instances
  PROVE  /\ calls[s] \in Call /\ CallOK(queued, now, calls[s])
         /\ calls[s].pc # "asleep" => Awake(now, calls[s])
         /\ Believes(queued, now, calls[s])
         /\ queued \in [SpendIds -> QueuedSpend] /\ now \in Nat /\ now # 0
         /\ shared \in Mark /\ Sound(queued, now, shared)
         /\ local \in [Readers -> Mark \cup {NoMark}]
         /\ \A r \in Readers : Sound(queued, now, local[r])
         /\ missed \in [SpendIds -> Nat] /\ pulls \in [SpendIds -> Nat] /\ paused \in BOOLEAN
         /\ postedAt \in [SpendIds -> Nat] /\ PostedOK(queued, postedAt)
  BY DEF SweepBase, SweepTyped, CallOK

\* Where a call goes on: to what it has left to post, to the brake, to its end.
GoOn(record) ==
  IF record.todo # {} THEN [record EXCEPT !.pc = "post"]
  ELSE IF record.kind = "queueing" THEN [record EXCEPT !.pc = "since"]
  ELSE Asleep

LEMMA GoOnOK ==
  ASSUME NEW Q, NEW t, NEW record \in Call, Believes(Q, t, record), Awake(t, record)
  PROVE  LET new == GoOn(record) IN
         /\ new \in Call /\ CallOK(Q, t, new)
         /\ new.kind # "none" => new.kind = record.kind /\ new.seconds = record.seconds
         /\ new.pc \in {"post", "since", "asleep"}
         /\ new.todo = record.todo /\ (record.todo # {} => new.pc = "post" /\ new.kind = record.kind)
         /\ record.lost = {} => new.lost = {}
<1> DEFINE at(p) == [record EXCEPT !.pc = p]
<1>1. ASSUME NEW p \in {"post", "since"}
      PROVE  /\ at(p) \in Call /\ at(p).pc = p /\ at(p).kind = record.kind
             /\ at(p).seconds = record.seconds /\ at(p).count = record.count
             /\ at(p).mark = record.mark /\ at(p).lost = record.lost /\ at(p).todo = record.todo
             /\ at(p).expired = record.expired
  BY DEF Call, Early, Saving, Late
<1>2. \A p \in {"post", "since"} : Believes(Q, t, at(p)) /\ Awake(t, at(p))
  BY <1>1 DEF Believes, Awake
<1>3. record.todo = {} /\ record.kind = "queueing" => CallOK(Q, t, at("since"))
  BY <1>1, <1>2 DEF CallOK, Early, Late
<1>4. record.todo # {} => CallOK(Q, t, at("post"))
  BY <1>1, <1>2 DEF CallOK, Early, Late
<1> HIDE DEF at
<1>5. GoOn(record) = IF record.todo # {} THEN at("post")
                     ELSE IF record.kind = "queueing" THEN at("since") ELSE Asleep
  BY DEF GoOn, at
<1>6. Asleep.todo = {} /\ Asleep.lost = {}
  BY DEF Asleep
<1> QED BY <1>1, <1>3, <1>4, <1>5, <1>6, AsleepOK

\* A call at another place, with less, or as much, to do.
Moved(r, p, mark, lost, expired, exits) ==
  [r EXCEPT !.pc = p, !.mark = mark, !.lost = lost, !.expired = expired, !.exits = exits]

LEMMA Elsewhere ==
  ASSUME NEW Q, NEW t, NEW r \in Call, CallOK(Q, t, r), r.pc # "asleep",
         NEW p \in Late \cup Early \cup Saving, NEW mark \in Mark, Sound(Q, t, mark),
         NEW expired \in SUBSET r.expired, NEW exits \in SUBSET Depositors,
         p \in Early => r.pc \in Early, p \in Late => r.pc \in Late, NEW lost \in SUBSET r.lost,
         NEW new, new = Moved(r, p, mark, lost, expired, exits)
  PROVE  /\ new \in Call /\ CallOK(Q, t, new)
         /\ new.kind = r.kind /\ new.seconds = r.seconds /\ new.count = r.count
         /\ new.pc = p /\ new.mark = mark /\ new.todo = r.todo /\ new.lost = lost
         /\ new.expired = expired
<1>1. /\ new \in Call /\ new.kind = r.kind /\ new.seconds = r.seconds /\ new.count = r.count
      /\ new.pc = p /\ new.mark = mark /\ new.lost = lost /\ new.todo = r.todo /\ new.expired = expired
  BY DEF Call, Moved
<1>2. Believes(Q, t, r) /\ Awake(t, r)
  BY DEF CallOK
<1>3. Believes(Q, t, new) /\ Awake(t, new)
  BY <1>1, <1>2 DEF Believes, Awake
<1>4. p \notin {"asleep", "post"}
  BY DEF Late, Early, Saving
<1>5. p \in Early => new.todo = {} /\ new.expired = {}
  BY <1>1 DEF CallOK
<1> QED BY <1>1, <1>3, <1>4, <1>5 DEF CallOK

\* load: the number of the mark, and then its rows.
LEMMA LoadMarkIs ==
  ASSUME SweepBase, NEW s \in Instances, LoadMark(s)
  PROVE  \E new \in Call :
    /\ calls' = [calls EXCEPT ![s] = new] /\ CallOK(queued, now, new)
    /\ new.kind = calls[s].kind /\ new.seconds = calls[s].seconds
    /\ new.count = calls[s].count /\ new.lost = calls[s].lost
    /\ \/ new.pc = "rows" /\ new.mark.below = shared.below
       \/ new.pc = "entries" /\ new.mark = calls[s].mark
<1> DEFINE r == calls[s]
<1>1. /\ r \in Call /\ CallOK(queued, now, r) /\ r.pc = "mark"
      /\ Sound(queued, now, r.mark) /\ Sound(queued, now, shared)
      /\ r.mark \in Mark /\ shared \in Mark /\ r.lost \in SUBSET r.lost
      /\ r.expired \in SUBSET r.expired /\ r.exits \in SUBSET Depositors
  BY CallFacts DEF LoadMark, At, Believes, Call
<1>2. CASE Becomes(s, [calls[s] EXCEPT !.pc = "rows", !.mark.below = shared.below])
  <2> DEFINE mark == [r.mark EXCEPT !.below = shared.below]
  <2>1. mark \in Mark /\ mark.below = shared.below /\ mark.kept = r.mark.kept
    BY <1>1 DEF Mark
  <2>2. Sound(queued, now, mark)
    BY <1>1, <2>1 DEF Sound
  <2> DEFINE new == Moved(r, "rows", mark, r.lost, r.expired, r.exits)
  <2>3. [calls[s] EXCEPT !.pc = "rows", !.mark.below = shared.below] = new
    BY <1>1 DEF Call, Moved
  <2> HIDE DEF mark
  <2>4. /\ new \in Call /\ CallOK(queued, now, new) /\ new.kind = r.kind /\ new.seconds = r.seconds
        /\ new.count = r.count /\ new.pc = "rows" /\ new.mark = mark /\ new.lost = r.lost
    <3>1. r.pc # "asleep" /\ r.pc \in Early /\ "rows" \in (Early \cup Saving) \ Late
      BY <1>1 DEF Early, Late, Saving
    <3> QED BY ONLY <1>1, <2>1, <2>2, <3>1, Elsewhere
  <2> QED BY <1>2, <2>1, <2>3, <2>4 DEF Becomes
<1>3. CASE Becomes(s, [calls[s] EXCEPT !.pc = "entries"])
  <2> DEFINE new == Moved(r, "entries", r.mark, r.lost, r.expired, r.exits)
  <2>1. [calls[s] EXCEPT !.pc = "entries"] = new
    BY <1>1 DEF Call, Moved
  <2>2. /\ new \in Call /\ CallOK(queued, now, new) /\ new.kind = r.kind /\ new.seconds = r.seconds
        /\ new.count = r.count /\ new.pc = "entries" /\ new.mark = r.mark /\ new.lost = r.lost
    <3>1. r.pc # "asleep" /\ r.pc \in Early /\ "entries" \in (Early \cup Saving) \ Late
      BY <1>1 DEF Early, Late, Saving
    <3> QED BY ONLY <1>1, <3>1, Elsewhere
  <2> QED BY <1>3, <2>1, <2>2 DEF Becomes
<1> QED BY <1>2, <1>3 DEF LoadMark

LEMMA FittingOK ==
  ASSUME NEW Q, NEW t, NEW n, NEW mark \in Mark, Sound(Q, t, mark)
  PROVE  /\ Fitting(n, mark) \in Mark /\ Sound(Q, t, Fitting(n, mark))
         /\ Fitting(n, mark) \in {mark, Start}
  BY StartSound DEF Fitting

LEMMA LoadRowsIs ==
  ASSUME SweepBase, NEW s \in Instances, LoadRows(s)
  PROVE  \E new \in Call :
    /\ calls' = [calls EXCEPT ![s] = new] /\ CallOK(queued, now, new)
    /\ new.kind = calls[s].kind /\ new.seconds = calls[s].seconds
    /\ new.count = calls[s].count /\ new.lost = calls[s].lost
    /\ new.pc = "entries"
    /\ new.mark = Start \/ (new.mark.below = calls[s].mark.below /\ new.mark.kept = shared.kept)
<1> DEFINE r == calls[s]
           loaded == [below |-> r.mark.below, kept |-> shared.kept]
           mark == Fitting(r.count, loaded)
           new == Moved(r, "entries", mark, r.lost, r.expired, r.exits)
<1>1. /\ r \in Call /\ CallOK(queued, now, r) /\ r.pc = "rows"
      /\ Sound(queued, now, r.mark) /\ Sound(queued, now, shared)
      /\ r.mark \in Mark /\ shared \in Mark /\ r.lost \in SUBSET r.lost
      /\ r.expired \in SUBSET r.expired /\ r.exits \in SUBSET Depositors
  BY CallFacts DEF LoadRows, At, Believes, Call
<1>2. loaded \in Mark /\ loaded.below = r.mark.below /\ loaded.kept = shared.kept
  BY <1>1 DEF Mark
<1>3. Sound(queued, now, loaded)
  BY <1>1, <1>2 DEF Sound
<1>4. calls' = [calls EXCEPT ![s] = [calls[s] EXCEPT !.pc = "entries", !.mark = mark]]
  BY DEF LoadRows, Becomes
<1> HIDE DEF loaded
<1>5. mark \in Mark /\ Sound(queued, now, mark) /\ mark \in {loaded, Start}
  BY <1>2, <1>3, FittingOK
<1> HIDE DEF mark
<1>6. [calls[s] EXCEPT !.pc = "entries", !.mark = mark] = new
  BY <1>1 DEF Call, Moved
<1>7. /\ new \in Call /\ CallOK(queued, now, new) /\ new.kind = r.kind /\ new.seconds = r.seconds
      /\ new.count = r.count /\ new.pc = "entries" /\ new.mark = mark /\ new.lost = r.lost
  <2>1. r.pc # "asleep" /\ r.pc \in Early /\ "entries" \in (Early \cup Saving) \ Late
    BY <1>1 DEF Early, Late, Saving
  <2> QED BY ONLY <1>1, <1>5, <2>1, Elsewhere
<1> HIDE DEF new
<1> QED BY <1>2, <1>4, <1>5, <1>6, <1>7

\* A part of an interval that has all before each of its members.
LEMMA Prefix ==
  ASSUME NEW b \in Nat, NEW c \in Nat, NEW S \in SUBSET ((b + 1)..c),
         \A i \in S : (b + 1)..i \subseteq S
  PROVE  Cardinality(S) \in Nat /\ S = (b + 1)..(b + Cardinality(S))
<1> DEFINE out == {n \in Nat : b + n + 1 \notin S}
<1>1. b + c + 1 \notin S /\ c \in out
  OBVIOUS
<1>2. PICK n \in out : \A m \in out : n <= m
  BY <1>1, LeastNat
<1>3. n \in Nat /\ b + n + 1 \notin S /\ \A m \in Nat : m < n => b + m + 1 \in S
  BY <1>2
<1>4. ASSUME NEW i \in (b + 1)..(b + n) PROVE i \in S
  <2> DEFINE m == i - b - 1
  <2>1. m \in Nat /\ m < n /\ b + m + 1 = i
    BY <1>3
  <2> HIDE DEF m
  <2> QED BY <1>3, <2>1
<1>5. ASSUME NEW i \in S PROVE i \in (b + 1)..(b + n)
  <2>1. i \in Nat /\ b + 1 <= i /\ (b + 1)..i \subseteq S
    OBVIOUS
  <2>2. b + n + 1 \notin (b + 1)..i
    BY <1>3, <2>1
  <2> QED BY <1>3, <2>1, <2>2
<1>6. S = (b + 1)..(b + n)
  BY <1>4, <1>5
<1> HIDE DEF out
<1>7. Cardinality((b + 1)..(b + n)) = n
  BY <1>3, IntervalSize
<1> QED BY <1>3, <1>6, <1>7

\* The entries past the mark.
LEMMA ReadEntriesIs ==
  ASSUME SweepBase, NEW s \in Instances, ReadEntries(s)
  PROVE  \E new \in Call, mark \in Mark :
    /\ calls' = [calls EXCEPT ![s] = new] /\ CallOK(queued, now, new)
    /\ new.kind # "none" => new.kind = calls[s].kind /\ new.seconds = calls[s].seconds
    /\ local' = Remember(s, mark) /\ Sound(queued, now, mark)
    /\ calls[s].mark.kept \subseteq mark.kept
    /\ \A i \in 1..mark.below :
         i \in 1..calls[s].mark.below \/ queued[i].posted \/ i \in mark.kept
    /\ \/ /\ mark.kept = calls[s].mark.kept
          /\ new.pc \in {"post", "since", "asleep"} /\ (calls[s].lost = {} => new.lost = {})
       \/ /\ new.pc = "saveRows" /\ new.mark = mark
          /\ mark.kept = calls[s].mark.kept \cup new.lost
    /\ \A i \in SpendIds \ Unreadable :
         /\ calls[s].kind # "reading" /\ i \in 1..calls[s].count /\ i \notin 1..calls[s].mark.below
         /\ ~queued[i].posted
         /\ queued[i].dueAt <= calls[s].seconds /\ calls[s].seconds <= Ends(queued, i)
         => i \in new.todo /\ new.kind = calls[s].kind /\ new.pc \in {"saveRows", "post"}
<1> DEFINE r        == calls[s]
           past     == (r.mark.below + 1)..r.count
           recently == {i \in past : queued[i].posted /\ postedAt[i] >= now - LAG}
           final    == {i \in past : \A j \in (r.mark.below + 1)..i : Final(s, j)}
           size     == Cardinality(final)
<1>1. /\ r \in Call /\ r.pc = "entries" /\ Believes(queued, now, r) /\ Awake(now, r)
      /\ Sound(queued, now, r.mark) /\ 1..r.count \subseteq Files(queued)
      /\ r.mark \in Mark /\ r.mark.below \in Nat /\ r.mark.kept \in SUBSET SpendIds
      /\ r.count \in Nat /\ r.seconds \in Nat /\ r.seconds <= now /\ now \in Nat
  BY CallFacts DEF ReadEntries, At, Believes, Awake, Call, Mark
<1>2. /\ queued \in [SpendIds -> QueuedSpend] /\ postedAt \in [SpendIds -> Nat]
      /\ PostedOK(queued, postedAt) /\ POST_WINDOW \in Nat /\ MARGIN \in Nat /\ LAG \in Nat
      /\ LAG <= MARGIN
  BY CallFacts, TimeAssumption, SweepAssumption
<1>3. /\ past \subseteq Files(queued) /\ Files(queued) \subseteq SpendIds
      /\ \A i \in SpendIds : Ends(queued, i) \in Nat /\ Ends(queued, i) = Expiry(i)
  <2>1. past \subseteq 1..r.count
    BY <1>1
  <2>2. \A i \in SpendIds : queued[i].queuedAt \in Nat
    BY <1>2 DEF QueuedSpend
  <2> QED BY <1>1, <1>2, <2>1, <2>2 DEF Files, Ends, Expiry
<1>4. size \in Nat /\ final = (r.mark.below + 1)..(r.mark.below + size)
  <2>1. final \in SUBSET past /\ \A i \in final : (r.mark.below + 1)..i \subseteq final
    BY <1>1
  <2> HIDE DEF final, r
  <2> QED BY <1>1, <2>1, Prefix
<1>5. \A i \in final : i \in past /\ r.seconds > Ends(queued, i) + MARGIN
  <2>1. ASSUME NEW i \in final PROVE Final(s, i)
    BY <1>1
  <2> QED BY <1>3, <2>1 DEF Final
<1>6. ASSUME NEW i \in final PROVE i \notin recently
  <2>1. i \in SpendIds /\ Ends(queued, i) \in Nat /\ postedAt[i] \in Nat
    BY <1>2, <1>3, <1>5
  <2>2. queued[i].posted => postedAt[i] <= Ends(queued, i)
    BY <1>2, <2>1 DEF PostedOK
  <2>3. r.seconds > Ends(queued, i) + MARGIN
    BY <1>5
  <2> HIDE DEF r
  <2>4. now - LAG > Ends(queued, i)
    BY <1>1, <1>2, <2>1, <2>3
  <2> QED BY <1>1, <1>2, <2>1, <2>2, <2>4
<1>7. PICK unseen \in SUBSET recently :
        LET unposted == {i \in past : ~queued[i].posted} \cup unseen
            lost     == final \cap unposted
            mark     == [below |-> r.mark.below + Cardinality(final),
                         kept |-> r.mark.kept \cup lost]
            due      == {i \in Listed(s, unposted) : queued[i].dueAt <= r.seconds}
            expired  == {i \in due : r.seconds > Expiry(i)}
            read     == IF r.kind = "reading" THEN r
                        ELSE [r EXCEPT !.todo = Opened(due \ expired),
                                       !.expired = expired]
        IN /\ local' = Remember(s, mark)
           /\ IF final = {} THEN Posted(s, [read EXCEPT !.mark = Start, !.count = 0])
              ELSE Becomes(s, [read EXCEPT !.pc = "saveRows", !.mark = mark, !.lost = lost])
  BY DEF ReadEntries
<1> DEFINE unposted == {i \in past : ~queued[i].posted} \cup unseen
           lost     == final \cap unposted
           mark     == [below |-> r.mark.below + size, kept |-> r.mark.kept \cup lost]
           due      == {i \in Listed(s, unposted) : queued[i].dueAt <= r.seconds}
           expired  == {i \in due : r.seconds > Expiry(i)}
           todo     == Opened(due \ expired)
           read     == IF r.kind = "reading" THEN r ELSE [r EXCEPT !.todo = todo, !.expired = expired]
<1>8. /\ local' = Remember(s, mark)
      /\ final = {} => Posted(s, [read EXCEPT !.mark = Start, !.count = 0])
      /\ final # {} => Becomes(s, [read EXCEPT !.pc = "saveRows", !.mark = mark, !.lost = lost])
  BY <1>7
<1>9. ASSUME NEW i \in final
      PROVE  queued[i].posted \/ (i \in lost /\ Gone(queued, now, i))
  <2>1. i \in past /\ i \in Files(queued) /\ i \in SpendIds /\ r.seconds > Ends(queued, i) + MARGIN
        /\ Ends(queued, i) \in Nat
    BY <1>3, <1>5
  <2> HIDE DEF r, final
  <2>2. now > Ends(queued, i)
    BY <1>1, <1>2, <2>1
  <2> QED BY <2>1, <2>2 DEF Gone
<1>10. ASSUME NEW i \in lost PROVE Gone(queued, now, i)
  <2>1. i \in final /\ i \in unposted
    OBVIOUS
  <2>2. ~queued[i].posted
    BY <1>6, <2>1
  <2> QED BY <1>9, <2>1, <2>2
<1>11. /\ mark \in Mark /\ mark.below = r.mark.below + size /\ mark.kept = r.mark.kept \cup lost
       /\ lost \in SUBSET SpendIds
  BY <1>1, <1>3, <1>4 DEF Mark
<1>12. \A i \in 1..mark.below : i \in 1..r.mark.below \/ i \in final
  BY <1>1, <1>4, <1>11
<1>13. Sound(queued, now, mark)
  <2> HIDE DEF r, final, lost, mark
  <2>1. \A i \in final : i \in SpendIds
    BY <1>3, <1>5
  <2> QED BY <1>1, <1>9, <1>10, <1>11, <1>12, <2>1 DEF Sound
<1>14. \A i \in Listed(s, unposted) : i \in Files(queued) /\ i \in SpendIds
  <2>1. \A i \in r.mark.kept : i \in Files(queued)
    BY <1>1 DEF Sound, Gone
  <2> QED BY <1>3, <2>1 DEF Listed
<1>15. /\ todo \in SUBSET SpendIds /\ expired \in SUBSET SpendIds
       /\ \A i \in todo : i \in Files(queued) /\ queued[i].dueAt <= r.seconds /\ r.seconds <= Ends(queued, i)
       /\ \A i \in expired : i \in Files(queued) /\ r.seconds > Ends(queued, i)
  <2>1. \A i \in todo : i \in due /\ ~(r.seconds > Expiry(i))
    BY DEF Opened
  <2>2. \A i \in due : i \in Listed(s, unposted) /\ queued[i].dueAt <= r.seconds
    OBVIOUS
  <2> HIDE DEF due, todo, r, unposted
  <2> QED BY <1>1, <1>3, <1>14, <2>1, <2>2
<1>16. \A i \in SpendIds \ Unreadable :
         /\ i \in 1..r.count /\ i \notin 1..r.mark.below /\ ~queued[i].posted
         /\ queued[i].dueAt <= r.seconds /\ r.seconds <= Ends(queued, i)
         => i \in todo
  <2> SUFFICES ASSUME NEW i \in SpendIds \ Unreadable,
                      i \in 1..r.count, i \notin 1..r.mark.below, ~queued[i].posted,
                      queued[i].dueAt <= r.seconds, r.seconds <= Ends(queued, i)
               PROVE  i \in todo
    OBVIOUS
  <2>1. i \in past
    BY <1>1
  <2>2. i \in Listed(s, unposted)
    BY <2>1 DEF Listed
  <2>3. ~(r.seconds > Expiry(i))
    BY <1>1, <1>3
  <2> QED BY <2>2, <2>3 DEF Opened
<1> HIDE DEF todo, expired, lost, mark, final, past, size
<1>17. /\ read \in Call /\ Believes(queued, now, read) /\ Awake(now, read)
       /\ read.kind = r.kind /\ read.seconds = r.seconds /\ read.lost = r.lost
       /\ r.kind # "reading" => read.todo = todo
  <2>1. CASE r.kind = "reading"
    BY <1>1, <2>1
  <2>2. CASE r.kind # "reading"
    <3>1. /\ read \in Call /\ read.kind = r.kind /\ read.seconds = r.seconds /\ read.lost = r.lost
          /\ read.mark = r.mark /\ read.count = r.count /\ read.todo = todo /\ read.expired = expired
      BY <1>1, <1>15, <2>2 DEF Call
    <3> QED BY <1>1, <1>15, <3>1 DEF Believes, Awake
  <2> QED BY <2>1, <2>2
<1> HIDE DEF read
<1>18. CASE final = {}
  <2> DEFINE record == [read EXCEPT !.mark = Start, !.count = 0]
             new == GoOn(record)
  <2>1. /\ record \in Call /\ record.mark = Start /\ record.count = 0 /\ record.kind = read.kind
        /\ record.seconds = read.seconds /\ record.lost = read.lost /\ record.todo = read.todo
        /\ record.expired = read.expired
    BY <1>17, StartSound DEF Call
  <2>2. Believes(queued, now, record) /\ Awake(now, record)
    BY <1>17, <2>1, StartSound DEF Believes, Awake
  <2>3. calls' = [calls EXCEPT ![s] = new]
    BY <1>8, <1>18 DEF Posted, Becomes, GoOn
  <2> HIDE DEF record, r
  <2>4. /\ new \in Call /\ CallOK(queued, now, new)
        /\ new.kind # "none" => new.kind = record.kind /\ new.seconds = record.seconds
        /\ new.pc \in {"post", "since", "asleep"}
        /\ new.todo = record.todo /\ (record.todo # {} => new.pc = "post" /\ new.kind = record.kind)
        /\ record.lost = {} => new.lost = {}
    BY <2>1, <2>2, GoOnOK
  <2>5. mark.kept = r.mark.kept
    BY <1>11, <1>18 DEF lost
  <2> HIDE DEF new
  <2>6. \A i \in SpendIds \ Unreadable :
          /\ r.kind # "reading" /\ i \in 1..r.count /\ i \notin 1..r.mark.below
          /\ ~queued[i].posted /\ queued[i].dueAt <= r.seconds /\ r.seconds <= Ends(queued, i)
          => i \in new.todo /\ new.kind = r.kind /\ new.pc \in {"saveRows", "post"}
    BY <1>16, <1>17, <2>1, <2>4
  <2>7. \A i \in 1..mark.below : i \in 1..r.mark.below \/ queued[i].posted \/ i \in mark.kept
    BY <1>12, <1>18
  <2> QED BY <1>8, <1>11, <1>13, <1>17, <2>1, <2>3, <2>4, <2>5, <2>6, <2>7 DEF r
<1>19. CASE final # {}
  <2> DEFINE new == [read EXCEPT !.pc = "saveRows", !.mark = mark, !.lost = lost]
  <2>1. /\ new \in Call /\ new.mark = mark /\ new.count = read.count /\ new.kind = read.kind
        /\ new.seconds = read.seconds /\ new.lost = lost /\ new.todo = read.todo
        /\ new.expired = read.expired /\ new.pc = "saveRows"
    BY <1>11, <1>17 DEF Call, Saving
  <2>2. calls' = [calls EXCEPT ![s] = new]
    BY <1>8, <1>19 DEF Becomes
  <2> HIDE DEF new, r
  <2>3. CallOK(queued, now, new)
    <3>1. Believes(queued, now, new) /\ Awake(now, new)
      BY <1>10, <1>13, <1>17, <2>1 DEF Believes, Awake
    <3> QED BY <2>1, <3>1 DEF CallOK, Early, Late
  <2>4. \A i \in SpendIds \ Unreadable :
          /\ r.kind # "reading" /\ i \in 1..r.count /\ i \notin 1..r.mark.below
          /\ ~queued[i].posted /\ queued[i].dueAt <= r.seconds /\ r.seconds <= Ends(queued, i)
          => i \in new.todo /\ new.kind = r.kind /\ new.pc \in {"saveRows", "post"}
    BY <1>16, <1>17, <2>1
  <2>5. \A i \in 1..mark.below : i \in 1..r.mark.below \/ queued[i].posted \/ i \in mark.kept
    BY <1>9, <1>11, <1>12
  <2> QED BY <1>8, <1>11, <1>13, <1>17, <2>1, <2>2, <2>3, <2>4, <2>5 DEF r
<1> QED BY <1>18, <1>19

\* cache.advance is over, or was given up.
LEMMA SavedIs ==
  ASSUME SweepBase, NEW s \in Instances, calls[s].pc \in Saving, Saved(s)
  PROVE  \E new \in Call :
    /\ calls' = [calls EXCEPT ![s] = new] /\ CallOK(queued, now, new)
    /\ new.kind # "none" => new.kind = calls[s].kind /\ new.seconds = calls[s].seconds
    /\ new.pc \in {"post", "since", "asleep"} /\ new.lost = {}
    /\ new.todo = calls[s].todo
    /\ calls[s].todo # {} => new.pc = "post" /\ new.kind = calls[s].kind
<1> DEFINE r == calls[s]
           record == [r EXCEPT !.mark = Start, !.lost = {}, !.count = 0]
           new == GoOn(record)
<1>1. r \in Call /\ Believes(queued, now, r) /\ Awake(now, r)
  BY CallFacts DEF Saving
<1>2. /\ record \in Call /\ record.mark = Start /\ record.count = 0 /\ record.kind = r.kind
      /\ record.seconds = r.seconds /\ record.lost = {} /\ record.todo = r.todo
      /\ record.expired = r.expired
  BY <1>1, StartSound DEF Call
<1>3. calls' = [calls EXCEPT ![s] = new]
  BY DEF Saved, Posted, Becomes, GoOn
<1> HIDE DEF record
<1>4. Believes(queued, now, record) /\ Awake(now, record)
  BY <1>1, <1>2, StartSound DEF Believes, Awake
<1>5. /\ new \in Call /\ CallOK(queued, now, new)
      /\ new.kind # "none" => new.kind = record.kind /\ new.seconds = record.seconds
      /\ new.pc \in {"post", "since", "asleep"}
      /\ new.todo = record.todo /\ (record.todo # {} => new.pc = "post" /\ new.kind = record.kind)
      /\ record.lost = {} => new.lost = {}
  BY <1>2, <1>4, GoOnOK
<1> HIDE DEF new
<1> QED BY <1>2, <1>3, <1>5

LEMMA SaveRowsIs ==
  ASSUME SweepBase, NEW s \in Instances, SaveRows(s)
  PROVE  \E new \in Call :
    /\ calls' = [calls EXCEPT ![s] = new] /\ CallOK(queued, now, new)
    /\ new.kind # "none" => new.kind = calls[s].kind /\ new.seconds = calls[s].seconds
    /\ new.lost = {} /\ new.todo = calls[s].todo
    /\ calls[s].todo # {} => new.pc \in {"saveMark", "post"} /\ new.kind = calls[s].kind
    /\ shared' \in Mark /\ Sound(queued, now, shared')
    /\ \/ /\ new.pc = "saveMark" /\ new.mark = calls[s].mark
          /\ shared'.below = shared.below /\ shared'.kept = shared.kept \cup calls[s].lost
       \/ "save" \in Faults /\ new.pc \in {"post", "since", "asleep"} /\ shared' = shared
<1> DEFINE r == calls[s]
<1>1. /\ r \in Call /\ r.pc = "saveRows" /\ Believes(queued, now, r) /\ Awake(now, r)
      /\ shared \in Mark /\ Sound(queued, now, shared) /\ CallOK(queued, now, r)
      /\ r.mark \in Mark /\ Sound(queued, now, r.mark)
  BY CallFacts DEF SaveRows, At, Believes, Call
<1>2. CASE /\ shared' = [shared EXCEPT !.kept = @ \cup calls[s].lost]
           /\ Becomes(s, [calls[s] EXCEPT !.pc = "saveMark", !.lost = {}])
  <2> DEFINE new == Moved(r, "saveMark", r.mark, {}, r.expired, r.exits)
  <2>1. [calls[s] EXCEPT !.pc = "saveMark", !.lost = {}] = new
    BY <1>1 DEF Call, Moved
  <2>2. /\ new \in Call /\ CallOK(queued, now, new) /\ new.kind = r.kind /\ new.seconds = r.seconds
        /\ new.pc = "saveMark" /\ new.mark = r.mark /\ new.todo = r.todo /\ new.lost = {}
    <3>1. r.pc # "asleep" /\ "saveMark" \in Saving /\ "saveMark" \notin Early \cup Late
          /\ r.expired \in SUBSET r.expired /\ r.exits \in SUBSET Depositors
          /\ {} \in SUBSET r.lost
      BY <1>1 DEF Early, Saving, Call, Late
    <3> QED BY ONLY <1>1, <3>1, Elsewhere
  <2> HIDE DEF new
  <2>3. /\ shared' \in Mark /\ shared'.below = shared.below
        /\ shared'.kept = shared.kept \cup r.lost
    <3>1. r.lost \in SUBSET SpendIds
      BY <1>1 DEF Call
    <3> QED BY <1>1, <1>2, <3>1 DEF Mark
  <2>4. Sound(queued, now, shared')
    BY <1>1, <2>3 DEF Sound, Believes
  <2> QED BY <1>2, <2>1, <2>2, <2>3, <2>4 DEF Becomes
<1>3. CASE Fault("save") /\ Saved(s) /\ UNCHANGED shared
  <2>1. "save" \in Faults
    BY <1>3 DEF Fault
  <2> QED BY <1>1, <1>3, <2>1, SavedIs DEF Saving
<1> QED BY <1>2, <1>3 DEF SaveRows

LEMMA SaveMarkIs ==
  ASSUME SweepBase, NEW s \in Instances, SaveMark(s)
  PROVE  \E new \in Call :
    /\ calls' = [calls EXCEPT ![s] = new] /\ CallOK(queued, now, new)
    /\ new.kind # "none" => new.kind = calls[s].kind /\ new.seconds = calls[s].seconds
    /\ new.pc \in {"post", "since", "asleep"} /\ new.lost = {} /\ new.todo = calls[s].todo
    /\ calls[s].todo # {} => new.pc = "post" /\ new.kind = calls[s].kind
    /\ shared' \in Mark /\ Sound(queued, now, shared')
    /\ shared'.kept = shared.kept /\ shared'.below \in {shared.below, calls[s].mark.below}
<1> DEFINE r == calls[s]
<1>1. /\ r \in Call /\ r.pc = "saveMark" /\ shared \in Mark /\ Sound(queued, now, shared)
      /\ r.mark \in Mark /\ Sound(queued, now, r.mark)
  BY CallFacts DEF SaveMark, At, Believes, Call
<1>2. /\ shared' \in Mark /\ shared'.kept = shared.kept
      /\ shared'.below \in {shared.below, r.mark.below}
  <2>1. \/ shared' = [shared EXCEPT !.below = IF r.mark.below > @ THEN r.mark.below ELSE @]
        \/ shared' = shared
    BY DEF SaveMark
  <2>2. r.mark.below \in Nat
    BY <1>1 DEF Mark
  <2> QED BY <1>1, <2>1, <2>2 DEF Mark
<1>3. Sound(queued, now, shared')
  BY <1>1, <1>2 DEF Sound
<1>4. Saved(s) /\ calls[s].pc \in Saving
  BY <1>1 DEF SaveMark, Saving
<1> QED BY <1>2, <1>3, <1>4, SavedIs

LEMMA TurnIs ==
  ASSUME NEW s, calls[s].todo \in SUBSET SpendIds, calls[s].todo # {}
  PROVE  Turn(s) \in calls[s].todo
<1>1. calls[s].todo \in SUBSET Nat
  BY Places
<1>2. \E i \in calls[s].todo : \A j \in calls[s].todo : i <= j
  BY <1>1, LeastNat
<1> QED BY <1>2 DEF Turn

\* A charge's turn: it is posted, it cannot be, or it should have been.
LEMMA PostIs ==
  ASSUME SweepBase, NEW s \in Instances, Post(s)
  PROVE  \E new \in Call :
    /\ calls' = [calls EXCEPT ![s] = new] /\ CallOK(queued', now, new)
    /\ new.kind # "none" => new.kind = calls[s].kind /\ new.seconds = calls[s].seconds
    /\ new.pc \in {"post", "since", "asleep"} /\ (calls[s].lost = {} => new.lost = {})
    /\ new.todo = calls[s].todo \ {Turn(s)}
    /\ new.todo # {} => new.pc = "post" /\ new.kind = calls[s].kind
    /\ Turn(s) \in calls[s].todo /\ Turn(s) \in SpendIds
    /\ UNCHANGED <<now, paused>>
    /\ \/ /\ Postable(Turn(s)) /\ queued'[Turn(s)].posted
          /\ \A j \in SpendIds : j # Turn(s) => queued'[j] = queued[j]
          /\ Files(queued') = Files(queued) /\ QueueMoves(queued, now, queued', now)
          /\ postedAt' = [postedAt EXCEPT ![Turn(s)] = now] /\ missed' = missed
       \/ ~Postable(Turn(s)) /\ UNCHANGED <<queued, postedAt, missed>>
       \/ /\ missed' = [missed EXCEPT ![Turn(s)] = @ + 1]
          /\ UNCHANGED <<queued, postedAt>>
<1> DEFINE r == calls[s]
           i == Turn(s)
           record == [r EXCEPT !.todo = r.todo \ {i}]
           new == GoOn(record)
<1>1. /\ r \in Call /\ r.pc = "post" /\ r.todo # {} /\ Believes(queued, now, r) /\ Awake(now, r)
      /\ r.todo \in SUBSET SpendIds /\ queued \in [SpendIds -> QueuedSpend] /\ now \in Nat
      /\ PostedOK(queued, postedAt)
  BY CallFacts DEF Post, At, CallOK, Call
<1>2. i \in r.todo /\ i \in SpendIds
  BY <1>1, TurnIs
<1>3. calls' = [calls EXCEPT ![s] = new]
  BY DEF Post, PassedOver, Posted, Becomes, GoOn
<1> HIDE DEF i
<1>4. /\ record \in Call /\ record.mark = r.mark /\ record.count = r.count /\ record.kind = r.kind
      /\ record.seconds = r.seconds /\ record.lost = r.lost /\ record.todo = r.todo \ {i}
      /\ record.expired = r.expired
  BY <1>1 DEF Call
<1>5. /\ UNCHANGED <<now, paused>> /\ QueueMoves(queued, now, queued', now)
      /\ \/ /\ Postable(i) /\ queued'[i].posted
            /\ \A j \in SpendIds : j # i => queued'[j] = queued[j]
            /\ Files(queued') = Files(queued)
            /\ postedAt' = [postedAt EXCEPT ![i] = now] /\ missed' = missed
         \/ ~Postable(i) /\ UNCHANGED <<queued, postedAt, missed>>
         \/ /\ missed' = [missed EXCEPT ![i] = @ + 1]
            /\ UNCHANGED <<queued, postedAt>>
  <2>1. CASE (\E d \in Depositors : PostQueued(i, d)) /\ postedAt' = [postedAt EXCEPT ![i] = now]
             /\ UNCHANGED missed
    <3>1. PICK d \in Depositors : PostQueued(i, d)
      BY <2>1
    <3>2. /\ Postable(i) /\ queued'[i].posted
          /\ \A j \in SpendIds : j # i => queued'[j] = queued[j]
          /\ Files(queued') = Files(queued)
          /\ QueueMoves(queued, now, queued', now)
          /\ UNCHANGED <<now, paused>>
      BY <1>1, <1>2, <3>1, PostedQueue DEF SweepBase
    <3> QED BY <2>1, <3>2
  <2>2. CASE ~Postable(i) /\ UNCHANGED <<vars, postedAt, missed>>
    BY <1>1, <2>2, QueueStays DEF vars, queueVars, adminVars
  <2>3. CASE missed' = [missed EXCEPT ![i] = @ + 1] /\ UNCHANGED <<vars, postedAt>>
    BY <1>1, <2>3, QueueStays DEF vars, queueVars, adminVars
  <2> QED BY <2>1, <2>2, <2>3 DEF Post, i
<1>6. Believes(queued', now, record) /\ Awake(now, record)
  <2>1. Believes(queued', now, r)
    BY <1>1, <1>5, BelievesStays
  <2> QED BY <1>1, <1>4, <2>1 DEF Believes, Awake
<1> HIDE DEF record
<1>7. /\ new \in Call /\ CallOK(queued', now, new)
      /\ new.kind # "none" => new.kind = record.kind /\ new.seconds = record.seconds
      /\ new.pc \in {"post", "since", "asleep"}
      /\ new.todo = record.todo /\ (record.todo # {} => new.pc = "post" /\ new.kind = record.kind)
      /\ record.lost = {} => new.lost = {}
  BY <1>4, <1>6, GoOnOK
<1> HIDE DEF new
<1> QED BY <1>2, <1>3, <1>4, <1>5, <1>7 DEF i

\* The brake, up to the pull.
LEMMA LateIs ==
  ASSUME SweepBase, NEW s \in Instances, ReadSince(s) \/ ReadExit(s) \/ Simulate(s) \/ ReadPaused(s)
  PROVE  \E new \in Call :
    /\ calls' = [calls EXCEPT ![s] = new] /\ CallOK(queued, now, new)
    /\ new.kind # "none" => new.kind = calls[s].kind /\ new.seconds = calls[s].seconds
    /\ calls[s].lost = {} => new.lost = {}
    /\ calls[s].pc \in Late \ {"pull"} /\ new.pc \in {"paused", "exits", "simulate", "pull", "asleep"}
    /\ UNCHANGED <<vars, local, shared, lastPosting, resumedAt, postedAt, missed, pulls>>
    /\ new.pc \in {"exits", "simulate"} =>
         new.expired = {} \/ (calls[s].pc \in {"exits", "simulate"} /\ new.expired = calls[s].expired)
    /\ new.pc = "paused" =>
         \/ calls[s].pc = "since" /\ \A i \in new.expired : resumedAt < Ends(queued, i)
         \/ calls[s].pc = "simulate" /\ new.expired = calls[s].expired
    /\ new.pc = "pull" => ~paused /\ calls[s].pc = "paused" /\ new.expired = calls[s].expired
    /\ new.pc # "asleep" => new.kind = calls[s].kind
<1> DEFINE r == calls[s]
           Is(p, expired, exits) == Moved(r, p, r.mark, r.lost, expired, exits)
<1>1. /\ r \in Call /\ CallOK(queued, now, r) /\ r.pc \in Late \ {"pull"}
      /\ r.mark \in Mark /\ Sound(queued, now, r.mark) /\ r.lost \in SUBSET r.lost
      /\ r.expired \in SUBSET r.expired /\ r.expired \in SUBSET SpendIds /\ r.exits \in SUBSET Depositors
      /\ r.pc # "asleep"
  BY CallFacts DEF ReadSince, ReadExit, Simulate, ReadPaused, At, Believes, Call, Late, CallOK
<1>2. UNCHANGED <<vars, local, shared, lastPosting, resumedAt, postedAt, missed, pulls>>
  BY DEF ReadSince, ReadExit, Simulate, ReadPaused
<1>3. ASSUME NEW p \in Late, NEW expired \in SUBSET r.expired, NEW exits \in SUBSET Depositors
      PROVE  /\ Is(p, expired, exits) \in Call /\ CallOK(queued, now, Is(p, expired, exits))
             /\ Is(p, expired, exits).kind = r.kind /\ Is(p, expired, exits).seconds = r.seconds
             /\ Is(p, expired, exits).pc = p /\ Is(p, expired, exits).lost = r.lost
             /\ Is(p, expired, exits).expired = expired
  <2>1. p \in Late \cup Early \cup Saving /\ (p \in Early => r.pc \in Early) /\ r.pc \in Late
    BY <1>1 DEF Late, Early
  <2> DEFINE new == Is(p, expired, exits)
  <2>2. new = Moved(r, p, r.mark, r.lost, expired, exits)
    OBVIOUS
  <2> HIDE DEF new
  <2>3. /\ new \in Call /\ CallOK(queued, now, new) /\ new.kind = r.kind /\ new.seconds = r.seconds
        /\ new.pc = p /\ new.lost = r.lost /\ new.expired = expired
    BY ONLY <1>1, <1>3, <2>1, <2>2, Elsewhere
  <2> QED BY <2>3 DEF new
<1>4. \A E \in SUBSET r.exits : E \in SUBSET Depositors
  BY <1>1
<1>5. \/ \E p \in Late, expired \in SUBSET r.expired, exits \in SUBSET Depositors :
           /\ calls' = [calls EXCEPT ![s] = Is(p, expired, exits)]
           /\ p \in {"paused", "exits", "simulate", "pull"}
           /\ p \in {"exits", "simulate"} =>
                expired = {} \/ (r.pc \in {"exits", "simulate"} /\ expired = r.expired)
           /\ p = "paused" =>
                \/ r.pc = "since" /\ \A i \in expired : resumedAt < Ends(queued, i)
                \/ r.pc = "simulate" /\ expired = r.expired
           /\ p = "pull" => ~paused /\ r.pc = "paused" /\ expired = r.expired
      \/ calls' = [calls EXCEPT ![s] = Asleep]
  <2>1. ASSUME PastExit(s), r.pc \in {"exits", "simulate"}
        PROVE  \/ \E exits \in SUBSET Depositors : calls' = [calls EXCEPT ![s] = Is("exits", r.expired, exits)]
               \/ calls' = [calls EXCEPT ![s] = Asleep]
    <3> DEFINE left == r.exits \ {NextExit(s)}
    <3>1. left \in SUBSET Depositors
      BY <1>1
    <3>2. \/ calls' = [calls EXCEPT ![s] = [r EXCEPT !.pc = "exits", !.exits = left]]
          \/ calls' = [calls EXCEPT ![s] = Asleep]
      BY <2>1 DEF PastExit, Becomes
    <3> HIDE DEF left
    <3>3. [r EXCEPT !.pc = "exits", !.exits = left] = Is("exits", r.expired, left)
      BY <1>1, <3>1 DEF Call, Moved
    <3> QED BY <3>1, <3>2, <3>3
  <2>2. CASE ReadSince(s)
    <3>1. r.pc = "since"
      BY <2>2 DEF ReadSince, At
    <3>2. CASE Fresh(s) # {}
      <4>1. Fresh(s) \in SUBSET r.expired /\ \A i \in Fresh(s) : resumedAt < Ends(queued, i)
        <5>1. \A i \in SpendIds : Expiry(i) = Ends(queued, i) /\ Ends(queued, i) \in Nat
          <6>1. \A i \in SpendIds : queued[i].queuedAt \in Nat
            BY CallFacts DEF QueuedSpend
          <6> QED BY <6>1, TimeAssumption DEF Expiry, Ends
        <5>2. resumedAt \in Nat
          BY DEF SweepBase, SweepTyped
        <5> QED BY <1>1, <5>1, <5>2 DEF Fresh
      <4>2. calls' = [calls EXCEPT ![s] = [r EXCEPT !.pc = "paused", !.expired = Fresh(s)]]
        BY <2>2, <3>2 DEF ReadSince, Becomes
      <4>3. [r EXCEPT !.pc = "paused", !.expired = Fresh(s)] = Is("paused", Fresh(s), r.exits)
        BY <1>1 DEF Call, Moved
      <4> QED BY <1>1, <3>1, <4>1, <4>2, <4>3 DEF Late
    <3>3. CASE Fresh(s) = {}
      <4>1. calls' = [calls EXCEPT ![s] = [r EXCEPT !.pc = "exits", !.expired = {}, !.exits = Depositors]]
        BY <2>2, <3>3 DEF ReadSince, Becomes
      <4>2. [r EXCEPT !.pc = "exits", !.expired = {}, !.exits = Depositors] = Is("exits", {}, Depositors)
        BY <1>1 DEF Call, Moved
      <4>3. {} \in SUBSET r.expired /\ Depositors \in SUBSET Depositors /\ "exits" \in Late
        BY DEF Late
      <4> HIDE DEF Is, r
      <4> QED BY <4>1, <4>2, <4>3
    <3> QED BY <3>2, <3>3
  <2>3. CASE ReadExit(s)
    <3>1. r.pc = "exits"
      BY <2>3 DEF ReadExit, At
    <3>2. CASE calls' = [calls EXCEPT ![s] = [r EXCEPT !.pc = "simulate"]]
      <4>1. [r EXCEPT !.pc = "simulate"] = Is("simulate", r.expired, r.exits)
        BY <1>1 DEF Call, Moved
      <4> QED BY <1>1, <3>1, <3>2, <4>1 DEF Late
    <3>3. CASE PastExit(s)
      BY <1>1, <2>1, <3>1, <3>3 DEF Late
    <3> QED BY <2>3, <3>2, <3>3 DEF ReadExit, Becomes
  <2>4. CASE Simulate(s)
    <3>1. r.pc = "simulate"
      BY <2>4 DEF Simulate, At
    <3>2. CASE calls' = [calls EXCEPT ![s] = [r EXCEPT !.pc = "paused", !.exits = {}]]
      <4>1. [r EXCEPT !.pc = "paused", !.exits = {}] = Is("paused", r.expired, {})
        BY <1>1 DEF Call, Moved
      <4> QED BY <1>1, <3>1, <3>2, <4>1 DEF Late
    <3>3. CASE PastExit(s)
      BY <1>1, <2>1, <3>1, <3>3 DEF Late
    <3> QED BY <2>4, <3>2, <3>3 DEF Simulate, Becomes
  <2>5. CASE ReadPaused(s)
    <3>1. r.pc = "paused"
      BY <2>5 DEF ReadPaused, At
    <3>2. CASE ~paused /\ calls' = [calls EXCEPT ![s] = [r EXCEPT !.pc = "pull"]]
      <4>1. [r EXCEPT !.pc = "pull"] = Is("pull", r.expired, r.exits)
        BY <1>1 DEF Call, Moved
      <4> QED BY <1>1, <3>1, <3>2, <4>1 DEF Late
    <3> QED BY <2>5, <3>2 DEF ReadPaused, Becomes
  <2> QED BY <2>2, <2>3, <2>4, <2>5
<1> HIDE DEF Is
<1>6. CASE calls' = [calls EXCEPT ![s] = Asleep]
  <2>1. Asleep.lost = {}
    BY DEF Asleep
  <2> QED BY <1>1, <1>2, <1>6, <2>1, AsleepOK
<1>7. CASE \E p \in Late, expired \in SUBSET r.expired, exits \in SUBSET Depositors :
           /\ calls' = [calls EXCEPT ![s] = Is(p, expired, exits)]
           /\ p \in {"paused", "exits", "simulate", "pull"}
           /\ p \in {"exits", "simulate"} =>
                expired = {} \/ (r.pc \in {"exits", "simulate"} /\ expired = r.expired)
           /\ p = "paused" =>
                \/ r.pc = "since" /\ \A i \in expired : resumedAt < Ends(queued, i)
                \/ r.pc = "simulate" /\ expired = r.expired
           /\ p = "pull" => ~paused /\ r.pc = "paused" /\ expired = r.expired
  <2>1. PICK p \in Late, expired \in SUBSET r.expired, exits \in SUBSET Depositors :
           /\ calls' = [calls EXCEPT ![s] = Is(p, expired, exits)]
           /\ p \in {"paused", "exits", "simulate", "pull"}
           /\ p \in {"exits", "simulate"} =>
                expired = {} \/ (r.pc \in {"exits", "simulate"} /\ expired = r.expired)
           /\ p = "paused" =>
                \/ r.pc = "since" /\ \A i \in expired : resumedAt < Ends(queued, i)
                \/ r.pc = "simulate" /\ expired = r.expired
           /\ p = "pull" => ~paused /\ r.pc = "paused" /\ expired = r.expired
    BY <1>7
  <2> DEFINE new == Is(p, expired, exits)
  <2>2. /\ new \in Call /\ CallOK(queued, now, new) /\ new.kind = r.kind /\ new.seconds = r.seconds
        /\ new.pc = p /\ new.lost = r.lost /\ new.expired = expired
    BY <1>3
  <2> HIDE DEF new
  <2>3. calls' = [calls EXCEPT ![s] = new]
    BY <2>1 DEF new
  <2> QED BY <1>1, <1>2, <2>1, <2>2, <2>3
<1> QED BY <1>5, <1>6, <1>7

\* A call begins, with the mark its instance remembers or none.
LEMMA BeginIs ==
  ASSUME SweepBase, NEW s \in Instances, NEW kind \in {"reading", "posting", "queueing"},
         Begin(s, kind)
  PROVE  \E new \in Call :
    /\ calls' = [calls EXCEPT ![s] = new] /\ CallOK(queued, now, new) /\ calls[s] = Asleep
    /\ new.kind = kind /\ new.seconds = now /\ 1..new.count = Files(queued)
    /\ new.lost = {} /\ new.pc \in {"entries", "mark"}
    /\ kind # "reading" => s \notin Readers /\ ~Sweeping
    /\ kind = "posting" => now >= lastPosting + EVERY
    /\ lastPosting' = IF kind = "posting" THEN now ELSE lastPosting
    /\ \/ /\ new.pc = "entries" /\ s \in Readers /\ UNCHANGED local
          /\ new.mark = Start \/ (new.mark = local[s] /\ local[s] \in Mark)
       \/ new.pc = "mark" /\ new.mark = Start /\ local' = Remember(s, NoMark)
    /\ UNCHANGED <<vars, shared, resumedAt, postedAt, missed, pulls>>
<1> DEFINE n == Cardinality(filed)
           begun == [Asleep EXCEPT !.kind = kind, !.seconds = now, !.count = n]
<1>1. /\ queued \in [SpendIds -> QueuedSpend] /\ now \in Nat
      /\ \A r \in Readers : Sound(queued, now, local[r])
      /\ local \in [Readers -> Mark \cup {NoMark}]
  BY CallFacts
<1>2. 1..n = Files(queued) /\ n \in Nat
  <2>1. filed = Files(queued)
    BY DEF filed, Files, Known
  <2>2. n \in Nat
    BY <2>1, Places DEF Files
  <2> QED BY <2>1, <2>2 DEF SweepBase, InOrder
<1>3. Asleep \in Call /\ Asleep.todo = {} /\ Asleep.expired = {} /\ Asleep.lost = {} /\ Asleep.mark = Start
  BY AsleepOK DEF Asleep
<1> HIDE DEF n
<1>4. /\ begun \in Call /\ begun.kind = kind /\ begun.seconds = now /\ begun.count = n
      /\ begun.todo = {} /\ begun.expired = {} /\ begun.lost = {} /\ begun.mark = Start
  <2> HIDE DEF Asleep
  <2>1. kind \in Kinds
    BY DEF Kinds
  <2> QED BY <1>1, <1>2, <1>3, <2>1 DEF Call
<1>5. /\ calls[s].pc = "asleep"
      /\ IF s \in Readers THEN kind = "reading" ELSE kind # "reading" /\ ~Sweeping
      /\ kind = "posting" => now >= lastPosting + EVERY
      /\ lastPosting' = IF kind = "posting" THEN now ELSE lastPosting
      /\ \/ /\ s \in Readers /\ local[s] # NoMark
            /\ calls' = [calls EXCEPT ![s] =
                 [begun EXCEPT !.pc = "entries", !.mark = Fitting(begun.count, local[s])]]
            /\ UNCHANGED local
         \/ /\ calls' = [calls EXCEPT ![s] = [begun EXCEPT !.pc = "mark"]]
            /\ local' = Remember(s, NoMark)
      /\ UNCHANGED <<vars, shared, resumedAt, postedAt, missed, pulls>>
  BY DEF Begin, At, Becomes, n
<1>6. calls[s] = Asleep
  BY <1>5, CallFacts DEF CallOK
<1> DEFINE is(p, mark) == [begun EXCEPT !.pc = p, !.mark = mark]
<1>7. ASSUME NEW p \in {"entries", "mark"}, NEW mark \in Mark, Sound(queued, now, mark)
      PROVE  /\ is(p, mark) \in Call /\ CallOK(queued, now, is(p, mark))
             /\ is(p, mark).kind = kind /\ is(p, mark).seconds = now /\ is(p, mark).count = n
             /\ is(p, mark).lost = {} /\ is(p, mark).pc = p /\ is(p, mark).mark = mark
  <2> DEFINE new == is(p, mark)
  <2> HIDE DEF begun
  <2>1. /\ new \in Call /\ new.kind = kind /\ new.seconds = now /\ new.count = n
        /\ new.lost = {} /\ new.pc = p /\ new.mark = mark /\ new.todo = {} /\ new.expired = {}
    BY <1>4 DEF Call, Early
  <2> HIDE DEF new
  <2>2. LIFE \in Nat
    BY SweepAssumption
  <2>3. Believes(queued, now, new) /\ Awake(now, new)
    BY <1>1, <1>2, <1>7, <2>1, <2>2 DEF Believes, Awake
  <2>4. CallOK(queued, now, new)
    BY <2>1, <2>3 DEF CallOK, Late
  <2> QED BY <2>1, <2>4 DEF new
<1> HIDE DEF begun
<1>8. CASE /\ s \in Readers /\ local[s] # NoMark
           /\ calls' = [calls EXCEPT ![s] = is("entries", Fitting(begun.count, local[s]))]
           /\ UNCHANGED local
  <2> DEFINE mark == Fitting(begun.count, local[s])
  <2>1. local[s] \in Mark
    BY <1>1, <1>8
  <2>2. mark \in Mark /\ Sound(queued, now, mark) /\ mark \in {local[s], Start}
    BY <1>1, <1>8, <2>1, FittingOK
  <2> DEFINE new == is("entries", mark)
  <2> HIDE DEF mark
  <2>3. /\ new \in Call /\ CallOK(queued, now, new) /\ new.kind = kind /\ new.seconds = now
        /\ new.count = n /\ new.lost = {} /\ new.pc = "entries" /\ new.mark = mark
    BY <1>7, <2>2
  <2> HIDE DEF is
  <2> QED BY <1>2, <1>5, <1>6, <1>8, <2>1, <2>2, <2>3 DEF mark
<1>9. CASE /\ calls' = [calls EXCEPT ![s] = [begun EXCEPT !.pc = "mark"]]
           /\ local' = Remember(s, NoMark)
  <2> DEFINE new == is("mark", Start)
  <2>1. [begun EXCEPT !.pc = "mark"] = new
    BY <1>4 DEF Call
  <2>2. /\ new \in Call /\ CallOK(queued, now, new) /\ new.kind = kind /\ new.seconds = now
        /\ new.count = n /\ new.lost = {} /\ new.pc = "mark" /\ new.mark = Start
    BY <1>7, StartSound
  <2> HIDE DEF is
  <2> QED BY <1>2, <1>5, <1>6, <1>9, <2>1, <2>2
<1> QED BY <1>5, <1>8, <1>9

\* What an instance remembers.
LEMMA RememberOK ==
  ASSUME SweepBase, NEW s \in Instances, NEW mark \in Mark \cup {NoMark}, Sound(queued, now, mark)
  PROVE  /\ Remember(s, mark) \in [Readers -> Mark \cup {NoMark}]
         /\ \A r \in Readers : Remember(s, mark)[r] = IF r = s THEN mark ELSE local[r]
         /\ \A r \in Readers : Sound(queued, now, Remember(s, mark)[r])
<1>1. local \in [Readers -> Mark \cup {NoMark}] /\ \A r \in Readers : Sound(queued, now, local[r])
  BY DEF SweepBase, SweepTyped
<1>2. /\ Remember(s, mark) \in [Readers -> Mark \cup {NoMark}]
      /\ \A r \in Readers : Remember(s, mark)[r] = IF r = s THEN mark ELSE local[r]
  BY <1>1 DEF Remember
<1> QED BY <1>1, <1>2

LEMMA BaseBegin ==
  ASSUME SweepBase, NEW s \in Instances, NEW kind \in {"reading", "posting", "queueing"},
         Begin(s, kind)
  PROVE  SweepBase'
<1>1. PICK new \in Call :
    /\ calls' = [calls EXCEPT ![s] = new] /\ CallOK(queued, now, new) /\ calls[s] = Asleep
    /\ new.kind = kind /\ new.seconds = now
    /\ kind # "reading" => ~Sweeping
    /\ lastPosting' = IF kind = "posting" THEN now ELSE lastPosting
    /\ UNCHANGED local \/ local' = Remember(s, NoMark)
    /\ UNCHANGED <<vars, shared, resumedAt, postedAt, missed, pulls>>
  BY BeginIs
<1>2. UNCHANGED <<queued, now, paused>>
  BY <1>1 DEF vars, queueVars, adminVars
<1>3. calls \in [Instances -> Call] /\ now \in Nat
  BY DEF SweepBase, SweepTyped
<1>4. calls'[s] = new /\ \A r \in Instances : r # s => calls'[r] = calls[r]
  BY <1>1, <1>3
<1>5. local' \in [Readers -> Mark \cup {NoMark}] /\ \A r \in Readers : Sound(queued, now, local'[r])
  <2>1. CASE UNCHANGED local
    BY <2>1 DEF SweepBase, SweepTyped
  <2>2. CASE local' = Remember(s, NoMark)
    BY <2>2, RememberOK, NoMarkSound
  <2> QED BY <1>1, <2>1, <2>2
<1>6. SweepTyped'
  BY <1>1, <1>2, <1>3, <1>5 DEF SweepBase, SweepTyped
<1>7. Scheduled(now, lastPosting', calls')
  <2>1. EVERY \in Nat /\ lastPosting \in Nat
    BY SweepAssumption DEF SweepBase, SweepTyped
  <2>2. /\ lastPosting <= now /\ now <= lastPosting + EVERY
        /\ \A r \in Instances : calls[r].kind = "posting" => calls[r].seconds = lastPosting
        /\ \A q, r \in Instances :
             {calls[q].kind, calls[r].kind} \subseteq {"posting", "queueing"} => q = r
    BY DEF SweepBase, Scheduled
  <2>3. lastPosting' <= now /\ now <= lastPosting' + EVERY
    BY <1>1, <1>3, <2>1, <2>2
  <2>4. kind # "reading" => \A r \in Instances : calls[r].kind \notin {"posting", "queueing"}
    BY <1>1 DEF Sweeping
  <2>5. \A r \in Instances : calls'[r].kind = "posting" => calls'[r].seconds = lastPosting'
    BY <1>1, <1>4, <2>2, <2>4
  <2>6. ASSUME NEW q \in Instances, NEW r \in Instances,
               {calls'[q].kind, calls'[r].kind} \subseteq {"posting", "queueing"}
        PROVE  q = r
    BY <1>1, <1>4, <2>2, <2>4, <2>6
  <2> QED BY <2>3, <2>5, <2>6 DEF Scheduled
<1>8. \A r \in Instances : CallOK(queued, now, calls'[r])
  BY <1>1, <1>4 DEF SweepBase
<1> QED BY <1>1, <1>2, <1>5, <1>6, <1>7, <1>8 DEF SweepBase

LEMMA BaseReads ==
  ASSUME SweepBase, NEW s \in Instances,
         LoadMark(s) \/ LoadRows(s) \/ ReadEntries(s) \/ SaveRows(s) \/ SaveMark(s)
  PROVE  SweepBase'
<1>1. /\ UNCHANGED <<vars, lastPosting, resumedAt, postedAt, missed, pulls>>
      /\ UNCHANGED shared \/ SaveRows(s) \/ SaveMark(s)
      /\ UNCHANGED local \/ ReadEntries(s)
  BY DEF LoadMark, LoadRows, ReadEntries, SaveRows, SaveMark
<1>2. /\ UNCHANGED <<queued, now, lastPosting, resumedAt, postedAt>> /\ paused' \in BOOLEAN
      /\ missed' \in [SpendIds -> Nat] /\ pulls' \in [SpendIds -> Nat]
      /\ shared \in Mark /\ Sound(queued, now, shared)
      /\ local \in [Readers -> Mark \cup {NoMark}] /\ \A r \in Readers : Sound(queued, now, local[r])
  BY <1>1, CallFacts DEF vars, queueVars, adminVars
<1>3. \E new \in Call :
        /\ calls' = [calls EXCEPT ![s] = new] /\ CallOK(queued, now, new)
        /\ new.kind # "none" => new.kind = calls[s].kind /\ new.seconds = calls[s].seconds
  BY LoadMarkIs, LoadRowsIs, ReadEntriesIs, SaveRowsIs, SaveMarkIs
<1>4. shared' \in Mark /\ Sound(queued, now, shared')
  BY <1>1, <1>2, SaveRowsIs, SaveMarkIs
<1>5. local' \in [Readers -> Mark \cup {NoMark}] /\ \A r \in Readers : Sound(queued, now, local'[r])
  <2>1. CASE ReadEntries(s)
    <3>1. PICK mark \in Mark : local' = Remember(s, mark) /\ Sound(queued, now, mark)
      BY <2>1, ReadEntriesIs
    <3> QED BY <3>1, RememberOK
  <2> QED BY <1>1, <1>2, <2>1
<1> QED BY <1>2, <1>3, <1>4, <1>5, QuietCall

LEMMA BasePost ==
  ASSUME SweepBase, NEW s \in Instances, Post(s)
  PROVE  SweepBase'
<1> DEFINE i == Turn(s)
<1>1. /\ UNCHANGED <<local, shared, lastPosting, resumedAt, pulls>>
  BY DEF Post
<1>2. PICK new \in Call :
    /\ calls' = [calls EXCEPT ![s] = new] /\ CallOK(queued', now, new)
    /\ new.kind # "none" => new.kind = calls[s].kind /\ new.seconds = calls[s].seconds
    /\ i \in SpendIds
    /\ UNCHANGED <<now, paused>>
    /\ \/ /\ Postable(i) /\ queued'[i].posted
          /\ \A j \in SpendIds : j # i => queued'[j] = queued[j]
          /\ Files(queued') = Files(queued) /\ QueueMoves(queued, now, queued', now)
          /\ postedAt' = [postedAt EXCEPT ![i] = now] /\ missed' = missed
       \/ UNCHANGED <<queued, postedAt, missed>>
       \/ missed' = [missed EXCEPT ![i] = @ + 1] /\ UNCHANGED <<queued, postedAt>>
  BY PostIs
<1> HIDE DEF i
<1>3. /\ queued \in [SpendIds -> QueuedSpend] /\ now \in Nat
      /\ shared \in Mark /\ Sound(queued, now, shared)
      /\ local \in [Readers -> Mark \cup {NoMark}] /\ \A r \in Readers : Sound(queued, now, local[r])
      /\ missed \in [SpendIds -> Nat] /\ pulls \in [SpendIds -> Nat] /\ paused \in BOOLEAN
      /\ postedAt \in [SpendIds -> Nat] /\ PostedOK(queued, postedAt)
  BY CallFacts
<1>4. CASE UNCHANGED queued
  <2>1. missed' \in [SpendIds -> Nat] /\ UNCHANGED postedAt
    <3>1. CASE UNCHANGED <<postedAt, missed>>
      BY <1>3, <3>1
    <3>2. CASE missed' = [missed EXCEPT ![i] = @ + 1] /\ UNCHANGED postedAt
      BY <1>2, <1>3, <3>2
    <3>3. CASE Postable(i) /\ queued'[i].posted
      BY <1>4, <3>3 DEF Postable
    <3> QED BY <1>2, <3>1, <3>2, <3>3
  <2> QED BY <1>1, <1>2, <1>3, <1>4, <2>1, QuietCall
<1>5. CASE /\ Postable(i) /\ queued'[i].posted
           /\ \A j \in SpendIds : j # i => queued'[j] = queued[j]
           /\ Files(queued') = Files(queued) /\ QueueMoves(queued, now, queued', now)
           /\ postedAt' = [postedAt EXCEPT ![i] = now] /\ missed' = missed
  <2>1. i \in Files(queued) /\ now <= Ends(queued, i)
    <3>1. queued[i].queuedAt \in Nat /\ POST_WINDOW \in Nat
      BY <1>2, <1>3, TimeAssumption DEF QueuedSpend
    <3> QED BY <1>2, <1>3, <1>5, <3>1 DEF Postable, Known, Expired, Files, Ends
  <2>2. \A j \in Files(queued) : Ends(queued', j) = Ends(queued, j)
    BY <1>3, <1>5, FiledStays
  <2>3. postedAt' \in [SpendIds -> Nat] /\ postedAt'[i] = now
        /\ \A j \in SpendIds : j # i => postedAt'[j] = postedAt[j]
    BY <1>2, <1>3, <1>5
  <2>4. PostedOK(queued', postedAt')
    BY <1>3, <1>5, <2>1, <2>2, <2>3 DEF PostedOK
  <2>5. Sound(queued', now, shared) /\ \A r \in Readers : Sound(queued', now, local[r])
    BY <1>3, <1>5, SoundStays
  <2> QED BY <1>1, <1>2, <1>3, <1>5, <2>3, <2>4, <2>5, CallStep
<1> QED BY <1>2, <1>4, <1>5

\* The brake is pulled for the charges the sweep holds.
LEMMA PullIs ==
  ASSUME SweepBase, NEW s \in Instances, Pull(s)
  PROVE  /\ calls' = [calls EXCEPT ![s] = Asleep] /\ calls[s].pc = "pull"
         /\ UNCHANGED <<queued, now, local, shared, lastPosting, resumedAt, postedAt, missed>>
         /\ \/ /\ paused' = TRUE
               /\ pulls' = [i \in SpendIds |-> pulls[i] + IF i \in calls[s].expired THEN 1 ELSE 0]
            \/ UNCHANGED <<paused, pulls>>
<1>1. /\ calls' = [calls EXCEPT ![s] = Asleep] /\ calls[s].pc = "pull"
      /\ UNCHANGED <<local, shared, lastPosting, resumedAt, postedAt, missed>>
  BY DEF Pull, Becomes, At
<1>2. paused \in BOOLEAN
  BY CallFacts
<1>3. CASE /\ IF paused THEN UNCHANGED vars ELSE SetPaused
           /\ pulls' = [i \in SpendIds |-> pulls[i] + IF i \in calls[s].expired THEN 1 ELSE 0]
  <2>1. paused' = TRUE /\ UNCHANGED <<queued, now>>
    BY <1>2, <1>3 DEF SetPaused, vars, queueVars, adminVars
  <2> QED BY <1>1, <1>3, <2>1
<1>4. CASE UNCHANGED <<vars, pulls>>
  BY <1>1, <1>4 DEF vars, queueVars, adminVars
<1> QED BY <1>3, <1>4 DEF Pull

LEMMA BaseLate ==
  ASSUME SweepBase, NEW s \in Instances,
         ReadSince(s) \/ ReadExit(s) \/ Simulate(s) \/ ReadPaused(s) \/ Pull(s) \/ Dies(s)
  PROVE  SweepBase'
<1>1. /\ queued \in [SpendIds -> QueuedSpend] /\ now \in Nat
      /\ shared \in Mark /\ Sound(queued, now, shared)
      /\ local \in [Readers -> Mark \cup {NoMark}] /\ \A r \in Readers : Sound(queued, now, local[r])
      /\ missed \in [SpendIds -> Nat] /\ pulls \in [SpendIds -> Nat] /\ paused \in BOOLEAN
  BY CallFacts
<1>2. CASE ReadSince(s) \/ ReadExit(s) \/ Simulate(s) \/ ReadPaused(s)
  <2>1. PICK new \in Call :
          /\ calls' = [calls EXCEPT ![s] = new] /\ CallOK(queued, now, new)
          /\ new.kind # "none" => new.kind = calls[s].kind /\ new.seconds = calls[s].seconds
          /\ UNCHANGED <<vars, local, shared, lastPosting, resumedAt, postedAt, missed, pulls>>
    BY <1>2, LateIs
  <2>2. UNCHANGED <<queued, now, paused>>
    BY <2>1 DEF vars, queueVars, adminVars
  <2> QED BY <1>1, <2>1, <2>2, QuietCall
<1>3. CASE Pull(s)
  <2>1. pulls' \in [SpendIds -> Nat] /\ paused' \in BOOLEAN
    <3>1. CASE UNCHANGED <<paused, pulls>>
      BY <1>1, <3>1
    <3>2. CASE /\ paused' = TRUE
               /\ pulls' = [i \in SpendIds |-> pulls[i] + IF i \in calls[s].expired THEN 1 ELSE 0]
      BY <1>1, <3>2
    <3> QED BY <1>3, <3>1, <3>2, PullIs
  <2> QED BY <1>1, <1>3, <2>1, PullIs, AsleepOK, QuietCall
<1>4. CASE Dies(s)
  <2>1. /\ calls' = [calls EXCEPT ![s] = Asleep] /\ local' = Remember(s, NoMark)
        /\ missed' = [i \in SpendIds |-> missed[i] + IF i \in Untried(s) THEN 1 ELSE 0]
        /\ UNCHANGED <<queued, now, paused, shared, lastPosting, resumedAt, postedAt, pulls>>
    BY <1>4 DEF Dies, Becomes, vars, queueVars, adminVars
  <2>2. missed' \in [SpendIds -> Nat]
    BY <1>1, <2>1
  <2>3. local' \in [Readers -> Mark \cup {NoMark}] /\ \A r \in Readers : Sound(queued, now, local'[r])
    BY <2>1, RememberOK, NoMarkSound
  <2> QED BY <1>1, <2>1, <2>2, <2>3, AsleepOK, QuietCall
<1> QED BY <1>2, <1>3, <1>4

\* The pool's users and its admin, and time.
LEMMA OthersAre ==
  ASSUME SweepBase, Trader \/ Resume \/ Later
  PROVE  /\ UNCHANGED <<calls, local, shared, lastPosting, postedAt, missed, pulls>>
         /\ QueueMoves(queued, now, queued', now') /\ InOrder(queued')
         /\ \A i \in SpendIds : queued'[i] = queued[i]
              \/ /\ i \notin Files(queued) /\ i \in Files(queued') /\ ~queued'[i].posted
                 /\ queued'[i].queuedAt = now /\ queued'[i].dueAt > now
         /\ \/ UNCHANGED <<now, paused, resumedAt>>
            \/ now' = now /\ paused /\ paused' = FALSE /\ resumedAt' = now
            \/ /\ now' = now + 1 /\ now < lastPosting + EVERY /\ UNCHANGED <<paused, resumedAt>>
               /\ \A s \in Instances : calls[s].pc # "asleep" => now < calls[s].seconds + LIFE
<1>1. /\ queued \in [SpendIds -> QueuedSpend] /\ now \in Nat /\ SweepTyped
      /\ InOrder(queued) /\ PostedOK(queued, postedAt)
  BY DEF SweepBase, SweepTyped
<1>2. CASE Trader
  <2>1. UNCHANGED <<calls, local, shared, lastPosting, postedAt, missed, pulls, resumedAt>>
    BY <1>2 DEF Trader, sweepVars
  <2>2. CASE Queue
    BY <1>1, <2>1, <2>2, QueuedBatch
  <2>3. CASE \E d \in Depositors : ExecuteExit(d)
    <3>1. UNCHANGED <<queued, now, paused>>
      BY <2>3 DEF ExecuteExit, queueVars, adminVars
    <3> QED BY <1>1, <2>1, <3>1, QueueStays
  <2> QED BY <1>2, <2>2, <2>3 DEF Trader
<1>3. CASE Resume
  <2>1. /\ UNCHANGED <<calls, local, shared, lastPosting, postedAt, missed, pulls>>
        /\ UNCHANGED <<queued, now>> /\ paused /\ paused' = FALSE /\ resumedAt' = now
    BY <1>3 DEF Resume, SetPaused, queueVars
  <2> QED BY <1>1, <2>1, QueueStays
<1>4. CASE Later
  <2>1. /\ UNCHANGED <<calls, local, shared, lastPosting, postedAt, missed, pulls, resumedAt>>
        /\ UNCHANGED <<queued, paused>> /\ now' = now + 1 /\ now < lastPosting + EVERY
        /\ \A s \in Instances : calls[s].pc # "asleep" => now < calls[s].seconds + LIFE
    BY <1>4 DEF Later, Tick, sweepVars, queueVars, adminVars, At
  <2>2. QueueMoves(queued, now, queued', now')
    <3>1. now' \in Nat /\ now <= now'
      BY <1>1, <2>1
    <3> QED BY <1>1, <2>1, <3>1 DEF QueueMoves
  <2> QED BY <1>1, <2>1, <2>2
<1> QED BY <1>2, <1>3, <1>4

LEMMA BaseOthers ==
  ASSUME SweepBase, Trader \/ Resume \/ Later
  PROVE  SweepBase'
<1>1. /\ queued \in [SpendIds -> QueuedSpend] /\ now \in Nat /\ now # 0
      /\ InOrder(queued) /\ PostedOK(queued, postedAt) /\ lastPosting \in Nat /\ EVERY \in Nat
      /\ LIFE \in Nat /\ paused \in BOOLEAN /\ calls \in [Instances -> Call]
  BY SweepAssumption DEF SweepBase, SweepTyped
<1>2. /\ UNCHANGED <<calls, local, shared, lastPosting, postedAt, missed, pulls>>
      /\ QueueMoves(queued, now, queued', now') /\ InOrder(queued')
      /\ \A i \in SpendIds : queued'[i] = queued[i] \/ (~queued'[i].posted /\ i \notin Files(queued))
  BY OthersAre
<1>3. \/ now' = now
      \/ /\ now' = now + 1 /\ now < lastPosting + EVERY
         /\ \A s \in Instances : calls[s].pc # "asleep" => now < calls[s].seconds + LIFE
  BY OthersAre
<1>4. paused' \in BOOLEAN /\ resumedAt' \in Nat
  <2>1. resumedAt \in Nat
    BY DEF SweepBase, SweepTyped
  <2>2. \/ UNCHANGED <<paused, resumedAt>>
        \/ paused' = FALSE /\ resumedAt' = now
    BY OthersAre
  <2> QED BY <1>1, <2>1, <2>2
<1>5. now' \in Nat \ {0} /\ now <= now' /\ queued' \in [SpendIds -> QueuedSpend]
  BY <1>1, <1>2, <1>3 DEF QueueMoves
<1>6. SweepTyped'
  BY <1>2, <1>4, <1>5 DEF SweepBase, SweepTyped
<1>7. PostedOK(queued', postedAt')
  <2>1. /\ Files(queued) \subseteq Files(queued')
        /\ \A i \in Files(queued) : Ends(queued', i) = Ends(queued, i)
    BY <1>1, <1>2, FiledStays
  <2> QED BY <1>1, <1>2, <2>1 DEF PostedOK
<1>8. Scheduled(now', lastPosting', calls')
  <2>1. /\ lastPosting <= now /\ now <= lastPosting + EVERY
        /\ \A s \in Instances : calls[s].kind = "posting" => calls[s].seconds = lastPosting
        /\ \A s, r \in Instances :
             {calls[s].kind, calls[r].kind} \subseteq {"posting", "queueing"} => s = r
    BY DEF SweepBase, Scheduled
  <2>2. lastPosting <= now' /\ now' <= lastPosting + EVERY
    BY <1>1, <1>3, <2>1
  <2> QED BY <1>2, <2>1, <2>2 DEF Scheduled
<1>9. ASSUME NEW s \in Instances PROVE CallOK(queued', now', calls'[s])
  <2>1. CallOK(queued, now, calls[s]) /\ Believes(queued, now, calls[s]) /\ calls[s].seconds \in Nat
    BY <1>1 DEF SweepBase, CallOK, Call
  <2>2. Believes(queued', now', calls[s])
    BY <1>1, <1>2, <2>1, BelievesStays
  <2>3. calls[s].pc # "asleep" => Awake(now', calls[s])
    BY <1>1, <1>3, <1>5, <2>1 DEF CallOK, Awake
  <2> QED BY <1>2, <2>1, <2>2, <2>3 DEF CallOK
<1>10. Sound(queued', now', shared) /\ \A r \in Readers : Sound(queued', now', local[r])
  BY <1>1, <1>2, SoundStays DEF SweepBase
<1> QED BY <1>2, <1>6, <1>7, <1>8, <1>9, <1>10 DEF SweepBase

LEMMA BaseInit == SweepInit => SweepBase
<1> SUFFICES ASSUME SweepInit PROVE SweepBase
  OBVIOUS
<1>1. /\ queued = [i \in SpendIds |-> NoSpend] /\ paused = FALSE /\ now = 1
      /\ calls = [s \in Instances |-> Asleep] /\ local = [s \in Readers |-> NoMark]
      /\ shared = Start /\ lastPosting = 1 /\ resumedAt = 0
      /\ postedAt = [i \in SpendIds |-> 0] /\ missed = [i \in SpendIds |-> 0]
      /\ pulls = [i \in SpendIds |-> 0]
  BY DEF SweepInit
<1>2. NoSpend \in QueuedSpend /\ NoSpend.queuedAt = 0 /\ ~NoSpend.posted
  BY DEF NoSpend, QueuedSpend
<1>3. Asleep \in Call /\ Asleep.kind = "none" /\ CallOK(queued, now, Asleep)
  BY AsleepOK
<1>4. Start \in Mark /\ Sound(queued, now, Start) /\ Sound(queued, now, NoMark)
  BY StartSound, NoMarkSound
<1>5. SweepTyped
  <2>1. queued \in [SpendIds -> QueuedSpend]
    BY <1>1, <1>2
  <2>2. calls \in [Instances -> Call]
    BY <1>1, <1>3
  <2>3. local \in [Readers -> Mark \cup {NoMark}] /\ shared \in Mark
    BY <1>1, <1>4
  <2>4. now \in Nat \ {0} /\ lastPosting \in Nat /\ resumedAt \in Nat
    BY <1>1
  <2>6. paused \in BOOLEAN
    BY <1>1
  <2>5. /\ postedAt \in [SpendIds -> Nat] /\ missed \in [SpendIds -> Nat]
        /\ pulls \in [SpendIds -> Nat]
    BY <1>1
  <2> QED BY <2>1, <2>2, <2>3, <2>4, <2>5, <2>6 DEF SweepTyped
<1>6. InOrder(queued) /\ PostedOK(queued, postedAt)
  <2>1. Files(queued) = {} /\ \A i \in SpendIds : ~queued[i].posted
    BY <1>1, <1>2 DEF Files
  <2>2. Cardinality({}) = 0 /\ 1..0 = {}
    BY FS_EmptySet
  <2> QED BY <2>1, <2>2 DEF InOrder, PostedOK
<1>7. Scheduled(now, lastPosting, calls)
  <2>1. 1 <= 1 + EVERY /\ \A s \in Instances : calls[s].kind = "none"
    BY <1>1, <1>3, SweepAssumption
  <2> QED BY <1>1, <2>1 DEF Scheduled
<1>8. /\ Sound(queued, now, shared) /\ \A s \in Readers : Sound(queued, now, local[s])
      /\ \A s \in Instances : CallOK(queued, now, calls[s])
  BY <1>1, <1>3, <1>4
<1> QED BY <1>5, <1>6, <1>7, <1>8 DEF SweepBase

LEMMA BaseHolds == SweepSpec => []SweepBase
<1>1. ASSUME SweepBase, SweepNext PROVE SweepBase'
  <2>1. CASE \E s \in Instances, kind \in {"reading", "posting", "queueing"} : Begin(s, kind)
    BY <1>1, <2>1, BaseBegin
  <2>2. CASE \E s \in Instances : Step(s) \/ Dies(s)
    BY <1>1, <2>2, BaseReads, BasePost, BaseLate DEF Step
  <2>3. CASE Trader \/ Resume \/ Later
    BY <1>1, <2>3, BaseOthers
  <2> QED BY <1>1, <2>1, <2>2, <2>3 DEF SweepNext
<1>2. ASSUME SweepBase, UNCHANGED allVars PROVE SweepBase'
  <2>1. /\ UNCHANGED <<queued, now, paused, calls, local, shared, lastPosting, resumedAt>>
        /\ UNCHANGED <<postedAt, missed, pulls>>
    BY <1>2 DEF allVars, vars, sweepVars, queueVars, adminVars
  <2> QED BY <1>2, <2>1 DEF SweepBase, SweepTyped
<1> QED BY <1>1, <1>2, BaseInit, PTL DEF SweepSpec

----------------------------------------------------------------------------
(* The marks, when the rows can be saved.                                  *)

\* Every charge lost below a mark is among the rows.
Told(Q, mark, rows) == \A i \in 1..mark.below : Q[i].posted \/ i \in rows

\* What a call goes by, the rows in the database or the ones it is about to
\* write there tell.
Recorded(Q, rows, r) ==
  /\ r.pc = "mark" => r.mark = Start
  /\ r.pc = "rows" => Told(Q, r.mark, rows)
  /\ r.pc = "entries" => Told(Q, r.mark, r.mark.kept) /\ r.mark.kept \subseteq rows
  /\ r.pc \in Saving => Told(Q, r.mark, r.mark.kept) /\ r.mark.kept \subseteq rows \cup r.lost
  /\ r.pc # "saveRows" => r.lost = {}

MarkInv ==
  /\ Told(queued, shared, shared.kept)
  /\ \A s \in Readers : /\ Told(queued, local[s], local[s].kept)
                        /\ local[s].kept \subseteq shared.kept \cup calls[s].lost
  /\ \A s \in Instances : Recorded(queued, shared.kept, calls[s])

LEMMA ToldStays ==
  ASSUME NEW Q \in [SpendIds -> QueuedSpend], NEW t \in Nat, NEW R, NEW u, QueueMoves(Q, t, R, u),
         PostedOK(Q, postedAt), NEW mark, Sound(Q, t, mark),
         NEW rows, NEW more, rows \subseteq more, Told(Q, mark, rows)
  PROVE  Told(R, mark, more)
<1>1. \A i \in SpendIds : Q[i].posted => R[i].posted
  BY DEF PostedOK, QueueMoves
<1> QED BY <1>1 DEF Told, Sound

LEMMA RecordedStays ==
  ASSUME NEW Q \in [SpendIds -> QueuedSpend], NEW t \in Nat, NEW R, NEW u, QueueMoves(Q, t, R, u),
         PostedOK(Q, postedAt), NEW r, Sound(Q, t, r.mark),
         NEW rows, NEW more, rows \subseteq more, Recorded(Q, rows, r)
  PROVE  Recorded(R, more, r)
<1>1. ASSUME Told(Q, r.mark, rows) PROVE Told(R, r.mark, more)
  BY <1>1, ToldStays
<1>2. ASSUME Told(Q, r.mark, r.mark.kept) PROVE Told(R, r.mark, r.mark.kept)
  BY <1>2, ToldStays
<1> QED BY <1>1, <1>2 DEF Recorded

\* One call moves, and perhaps the marks.
LEMMA MarkStep ==
  ASSUME SweepBase, MarkInv, NEW s \in Instances, NEW new \in Call,
         calls' = [calls EXCEPT ![s] = new], QueueMoves(queued, now, queued', now),
         shared.kept \subseteq shared'.kept, Told(queued', shared', shared'.kept),
         Recorded(queued', shared'.kept, new),
         \A r \in Readers : /\ Told(queued', local'[r], local'[r].kept)
                            /\ local'[r].kept \subseteq shared'.kept \cup calls'[r].lost
  PROVE  MarkInv'
<1>1. ASSUME NEW r \in Instances PROVE Recorded(queued', shared'.kept, calls'[r])
  <2>1. /\ queued \in [SpendIds -> QueuedSpend] /\ now \in Nat /\ PostedOK(queued, postedAt)
        /\ Sound(queued, now, calls[r].mark) /\ calls \in [Instances -> Call]
    BY CallFacts DEF Believes, SweepBase, SweepTyped
  <2>2. CASE r = s
    BY <2>1, <2>2
  <2>3. CASE r # s
    <3>1. calls'[r] = calls[r] /\ Recorded(queued, shared.kept, calls[r])
      BY <2>1, <2>3 DEF MarkInv
    <3> QED BY <2>1, <3>1, RecordedStays
  <2> QED BY <2>2, <2>3
<1> QED BY <1>1 DEF MarkInv

\* One call moves and no mark does.
LEMMA MarkQuiet ==
  ASSUME SweepBase, MarkInv, NEW s \in Instances, NEW new \in Call,
         calls' = [calls EXCEPT ![s] = new], QueueMoves(queued, now, queued', now),
         UNCHANGED shared, UNCHANGED local \/ local' = Remember(s, NoMark),
         Recorded(queued', shared.kept, new),
         calls[s].lost \subseteq new.lost \/ local' = Remember(s, NoMark)
  PROVE  MarkInv'
<1>1. /\ queued \in [SpendIds -> QueuedSpend] /\ now \in Nat /\ PostedOK(queued, postedAt)
      /\ Sound(queued, now, shared) /\ \A r \in Readers : Sound(queued, now, local[r])
      /\ calls \in [Instances -> Call]
  BY CallFacts DEF SweepBase, SweepTyped
<1>2. Told(queued', shared', shared'.kept)
  BY <1>1, ToldStays DEF MarkInv
<1>3. ASSUME NEW r \in Readers
      PROVE  Told(queued', local'[r], local'[r].kept)
             /\ local'[r].kept \subseteq shared'.kept \cup calls'[r].lost
  <2>1. calls'[r].lost = IF r = s THEN new.lost ELSE calls[r].lost
    BY <1>1 DEF Instances
  <2>2. CASE local'[r] = local[r] /\ (r = s => calls[s].lost \subseteq new.lost)
    <3>1. Told(queued, local[r], local[r].kept) /\ Sound(queued, now, local[r])
          /\ local[r].kept \subseteq shared.kept \cup calls[r].lost
      BY <1>1 DEF MarkInv
    <3>2. Told(queued', local[r], local[r].kept)
      BY <1>1, <3>1, ToldStays
    <3> QED BY <2>1, <2>2, <3>1, <3>2
  <2>3. CASE local'[r] = NoMark
    BY <2>3, NoMarkSound DEF Told
  <2>4. NoMark \in Mark \cup {NoMark} /\ Sound(queued, now, NoMark)
    BY NoMarkSound
  <2>5. CASE local' = Remember(s, NoMark)
    <3>1. local'[r] = IF r = s THEN NoMark ELSE local[r]
      BY <2>4, <2>5, RememberOK
    <3> QED BY <2>2, <2>3, <3>1
  <2> QED BY <2>2, <2>5
<1> QED BY <1>2, <1>3, MarkStep

LEMMA MarkReads ==
  ASSUME SweepBase, MarkInv, "save" \notin Faults, NEW s \in Instances,
         LoadMark(s) \/ LoadRows(s) \/ ReadEntries(s) \/ SaveRows(s) \/ SaveMark(s)
  PROVE  MarkInv'
<1>1. /\ queued \in [SpendIds -> QueuedSpend] /\ now \in Nat /\ calls \in [Instances -> Call]
      /\ calls[s] \in Call /\ Recorded(queued, shared.kept, calls[s])
      /\ Told(queued, shared, shared.kept)
      /\ \A r \in Readers : /\ Told(queued, local[r], local[r].kept)
                            /\ local[r].kept \subseteq shared.kept \cup calls[r].lost
  BY CallFacts DEF SweepBase, SweepTyped, MarkInv
<1>2. QueueMoves(queued, now, queued, now)
  BY <1>1, QueueStays
<1>3. CASE LoadMark(s)
  <2>1. UNCHANGED <<queued, local, shared>> /\ calls[s].pc = "mark"
    BY <1>3 DEF LoadMark, vars, queueVars, At
  <2>2. PICK new \in Call :
          /\ calls' = [calls EXCEPT ![s] = new] /\ new.lost = calls[s].lost
          /\ \/ new.pc = "rows" /\ new.mark.below = shared.below
             \/ new.pc = "entries" /\ new.mark = calls[s].mark
    BY <1>3, LoadMarkIs
  <2>3. Recorded(queued, shared.kept, new)
    <3>1. new.lost = {} /\ calls[s].mark = Start
      BY <1>1, <2>1, <2>2 DEF Recorded
    <3> QED BY <1>1, <2>2, <3>1, StartSound DEF Recorded, Told, Saving
  <2> QED BY <1>2, <2>1, <2>2, <2>3, MarkQuiet
<1>4. CASE LoadRows(s)
  <2>1. UNCHANGED <<queued, local, shared>> /\ calls[s].pc = "rows"
    BY <1>4 DEF LoadRows, vars, queueVars, At
  <2>2. PICK new \in Call :
          /\ calls' = [calls EXCEPT ![s] = new] /\ new.lost = calls[s].lost /\ new.pc = "entries"
          /\ new.mark = Start \/ (new.mark.below = calls[s].mark.below /\ new.mark.kept = shared.kept)
    BY <1>4, LoadRowsIs
  <2>3. Recorded(queued, shared.kept, new)
    <3>1. new.lost = {} /\ Told(queued, calls[s].mark, shared.kept)
      BY <1>1, <2>1, <2>2 DEF Recorded
    <3> QED BY <2>2, <3>1, StartSound DEF Recorded, Told, Saving
  <2> QED BY <1>2, <2>1, <2>2, <2>3, MarkQuiet
<1>5. CASE ReadEntries(s)
  <2>1. UNCHANGED <<queued, shared>> /\ calls[s].pc = "entries"
    BY <1>5 DEF ReadEntries, vars, queueVars, At
  <2>2. PICK new \in Call, mark \in Mark :
          /\ calls' = [calls EXCEPT ![s] = new]
          /\ local' = Remember(s, mark) /\ Sound(queued, now, mark)
          /\ calls[s].mark.kept \subseteq mark.kept
          /\ \A i \in 1..mark.below :
               i \in 1..calls[s].mark.below \/ queued[i].posted \/ i \in mark.kept
          /\ \/ /\ mark.kept = calls[s].mark.kept
                /\ new.pc \in {"post", "since", "asleep"} /\ (calls[s].lost = {} => new.lost = {})
             \/ /\ new.pc = "saveRows" /\ new.mark = mark
                /\ mark.kept = calls[s].mark.kept \cup new.lost
    BY <1>5, ReadEntriesIs
  <2>3. /\ Told(queued, calls[s].mark, calls[s].mark.kept) /\ calls[s].mark.kept \subseteq shared.kept
        /\ calls[s].lost = {}
    BY <1>1, <2>1 DEF Recorded
  <2>4. Told(queued, mark, mark.kept) /\ mark.kept \subseteq shared.kept \cup new.lost
    BY <2>2, <2>3 DEF Told
  <2>5. Recorded(queued, shared.kept, new)
    BY <2>2, <2>3, <2>4 DEF Recorded, Saving
  <2>6. ASSUME NEW r \in Readers
        PROVE  Told(queued, local'[r], local'[r].kept)
               /\ local'[r].kept \subseteq shared.kept \cup calls'[r].lost
    <3>1. local'[r] = IF r = s THEN mark ELSE local[r]
      BY <2>2, RememberOK
    <3>2. calls'[r] = IF r = s THEN new ELSE calls[r]
      BY <1>1, <2>2 DEF Instances
    <3> QED BY <1>1, <2>4, <3>1, <3>2
  <2> QED BY <1>1, <1>2, <2>1, <2>2, <2>5, <2>6, MarkStep
<1>6. CASE SaveRows(s)
  <2>1. UNCHANGED <<queued, local>> /\ calls[s].pc = "saveRows"
    BY <1>6 DEF SaveRows, vars, queueVars, At
  <2>2. PICK new \in Call :
          /\ calls' = [calls EXCEPT ![s] = new] /\ new.lost = {}
          /\ new.pc = "saveMark" /\ new.mark = calls[s].mark
          /\ shared'.below = shared.below /\ shared'.kept = shared.kept \cup calls[s].lost
    BY <1>6, SaveRowsIs
  <2>3. /\ Told(queued, calls[s].mark, calls[s].mark.kept)
        /\ calls[s].mark.kept \subseteq shared.kept \cup calls[s].lost
    BY <1>1, <2>1 DEF Recorded, Saving
  <2>4. Recorded(queued, shared'.kept, new)
    BY <2>2, <2>3 DEF Recorded, Saving
  <2>5. Told(queued, shared', shared'.kept)
    BY <1>1, <2>2 DEF Told
  <2>6. ASSUME NEW r \in Readers
        PROVE  local[r].kept \subseteq shared'.kept \cup calls'[r].lost
    <3>1. calls'[r] = IF r = s THEN new ELSE calls[r]
      BY <1>1, <2>2 DEF Instances
    <3> QED BY <1>1, <2>2, <3>1
  <2> QED BY <1>1, <1>2, <2>1, <2>2, <2>4, <2>5, <2>6, MarkStep
<1>7. CASE SaveMark(s)
  <2>1. UNCHANGED <<queued, local>> /\ calls[s].pc = "saveMark"
    BY <1>7 DEF SaveMark, vars, queueVars, At
  <2>2. PICK new \in Call :
          /\ calls' = [calls EXCEPT ![s] = new] /\ new.lost = {}
          /\ new.pc \in {"post", "since", "asleep"}
          /\ shared'.kept = shared.kept /\ shared'.below \in {shared.below, calls[s].mark.below}
    BY <1>7, SaveMarkIs
  <2>3. /\ Told(queued, calls[s].mark, calls[s].mark.kept)
        /\ calls[s].mark.kept \subseteq shared.kept \cup calls[s].lost /\ calls[s].lost = {}
    BY <1>1, <2>1 DEF Recorded, Saving
  <2>4. Recorded(queued, shared'.kept, new)
    BY <2>2 DEF Recorded, Saving
  <2>5. Told(queued, shared', shared'.kept)
    BY <1>1, <2>2, <2>3 DEF Told
  <2>6. ASSUME NEW r \in Readers
        PROVE  local[r].kept \subseteq shared'.kept \cup calls'[r].lost
    <3>1. calls'[r] = IF r = s THEN new ELSE calls[r]
      BY <1>1, <2>2 DEF Instances
    <3> QED BY <1>1, <2>2, <2>3, <3>1
  <2> QED BY <1>1, <1>2, <2>1, <2>2, <2>4, <2>5, <2>6, MarkStep
<1> QED BY <1>3, <1>4, <1>5, <1>6, <1>7

LEMMA MarkBegin ==
  ASSUME SweepBase, MarkInv, NEW s \in Instances, NEW kind \in {"reading", "posting", "queueing"},
         Begin(s, kind)
  PROVE  MarkInv'
<1>1. UNCHANGED <<queued, shared>>
  BY DEF Begin, vars, queueVars
<1>2. QueueMoves(queued, now, queued, now)
  BY CallFacts, QueueStays
<1>3. PICK new \in Call :
        /\ calls' = [calls EXCEPT ![s] = new] /\ calls[s] = Asleep
        /\ new.lost = {} /\ new.pc \in {"entries", "mark"}
        /\ \/ /\ new.pc = "entries" /\ s \in Readers /\ UNCHANGED local
              /\ new.mark = Start \/ (new.mark = local[s] /\ local[s] \in Mark)
           \/ new.pc = "mark" /\ new.mark = Start /\ local' = Remember(s, NoMark)
  BY BeginIs
<1>4. calls[s].lost = {}
  BY <1>3 DEF Asleep
<1>5. Told(queued, Start, {}) /\ Start.kept = {}
  BY StartSound DEF Told
<1>6. Recorded(queued, shared.kept, new)
  <2>1. CASE new.pc = "mark" /\ new.mark = Start
    BY <1>3, <2>1 DEF Recorded, Saving
  <2>2. CASE new.pc = "entries" /\ new.mark = Start
    BY <1>3, <1>5, <2>2 DEF Recorded, Saving
  <2>3. CASE new.pc = "entries" /\ s \in Readers /\ new.mark = local[s]
    BY <1>3, <1>4, <2>3 DEF Recorded, Saving, MarkInv
  <2> QED BY <1>3, <2>1, <2>2, <2>3
<1> QED BY <1>1, <1>2, <1>3, <1>4, <1>6, MarkQuiet

LEMMA MarkRest ==
  ASSUME SweepBase, MarkInv, NEW s \in Instances,
         \/ Post(s) \/ ReadSince(s) \/ ReadExit(s) \/ Simulate(s) \/ ReadPaused(s)
         \/ Pull(s) \/ Dies(s)
  PROVE  MarkInv'
<1>1. /\ Recorded(queued, shared.kept, calls[s]) /\ Asleep \in Call
      /\ QueueMoves(queued, now, queued, now)
  BY CallFacts, QueueStays, AsleepOK DEF MarkInv
<1>2. \A Q : Recorded(Q, shared.kept, Asleep)
  BY DEF Recorded, Asleep, Saving
<1>3. CASE Post(s)
  <2>1. UNCHANGED <<local, shared>> /\ calls[s].pc = "post"
    BY <1>3 DEF Post, At
  <2>2. PICK new \in Call :
          /\ calls' = [calls EXCEPT ![s] = new]
          /\ new.pc \in {"post", "since", "asleep"} /\ (calls[s].lost = {} => new.lost = {})
          /\ QueueMoves(queued, now, queued', now)
    <3>1. UNCHANGED queued => QueueMoves(queued, now, queued', now)
      BY <1>1
    <3> QED BY <1>3, <3>1, PostIs
  <2>3. calls[s].lost = {}
    BY <1>1, <2>1 DEF Recorded
  <2>4. Recorded(queued', shared.kept, new)
    BY <2>2, <2>3 DEF Recorded, Saving
  <2> QED BY <2>1, <2>2, <2>3, <2>4, MarkQuiet
<1>4. CASE ReadSince(s) \/ ReadExit(s) \/ Simulate(s) \/ ReadPaused(s)
  <2>1. PICK new \in Call :
          /\ calls' = [calls EXCEPT ![s] = new]
          /\ calls[s].lost = {} => new.lost = {}
          /\ calls[s].pc \in Late \ {"pull"} /\ new.pc \in {"paused", "exits", "simulate", "pull", "asleep"}
          /\ UNCHANGED <<vars, local, shared>>
    BY <1>4, LateIs
  <2>2. calls[s].lost = {} /\ UNCHANGED queued
    BY <1>1, <2>1 DEF Recorded, Late, vars, queueVars
  <2>3. Recorded(queued, shared.kept, new)
    BY <2>1, <2>2 DEF Recorded, Saving
  <2> QED BY <1>1, <2>1, <2>2, <2>3, MarkQuiet
<1>5. CASE Pull(s)
  <2>1. /\ calls' = [calls EXCEPT ![s] = Asleep] /\ calls[s].pc = "pull"
        /\ UNCHANGED <<queued, local, shared>>
    BY <1>5, PullIs
  <2>2. calls[s].lost = {}
    BY <1>1, <2>1 DEF Recorded
  <2> QED BY <1>1, <1>2, <2>1, <2>2, MarkQuiet
<1>6. CASE Dies(s)
  <2>1. /\ calls' = [calls EXCEPT ![s] = Asleep] /\ local' = Remember(s, NoMark)
        /\ UNCHANGED <<queued, shared>>
    BY <1>6 DEF Dies, Becomes, vars, queueVars
  <2> QED BY <1>1, <1>2, <2>1, MarkQuiet
<1> QED BY <1>3, <1>4, <1>5, <1>6

LEMMA MarkOthers ==
  ASSUME SweepBase, MarkInv, Trader \/ Resume \/ Later
  PROVE  MarkInv'
<1>1. /\ queued \in [SpendIds -> QueuedSpend] /\ now \in Nat /\ PostedOK(queued, postedAt)
      /\ Sound(queued, now, shared) /\ \A r \in Readers : Sound(queued, now, local[r])
      /\ \A s \in Instances : Sound(queued, now, calls[s].mark)
  BY CallFacts DEF SweepBase, SweepTyped, Believes
<1>2. UNCHANGED <<calls, local, shared>> /\ QueueMoves(queued, now, queued', now')
  BY OthersAre
<1>3. Told(queued', shared, shared.kept)
  BY <1>1, <1>2, ToldStays DEF MarkInv
<1>4. ASSUME NEW r \in Readers PROVE Told(queued', local[r], local[r].kept)
  <2>1. Told(queued, local[r], local[r].kept) /\ Sound(queued, now, local[r])
    BY <1>1 DEF MarkInv
  <2> QED BY <1>1, <1>2, <2>1, ToldStays
<1>5. ASSUME NEW s \in Instances PROVE Recorded(queued', shared.kept, calls[s])
  BY <1>1, <1>2, RecordedStays DEF MarkInv
<1> QED BY <1>2, <1>3, <1>4, <1>5 DEF MarkInv

\* When the rows a sweep found lost can be saved, no mark hides a lost charge
\* and none calls lost what is not: not the one in the database and not the
\* one an instance remembers, whatever instances overlap or die between the
\* rows and the number, whatever the node behind them had not seen yet, and
\* whether the mark is loaded or moved at all (pool-reads-neon.ts writes the
\* rows first and the number after, and never back).
THEOREM MarksTellTrue == "save" \notin Faults /\ SweepSpec => []MarkIsTrue
<1>1. ASSUME SweepInit PROVE MarkInv
  <2>1. /\ calls = [s \in Instances |-> Asleep] /\ local = [s \in Readers |-> NoMark]
        /\ shared = Start
    BY <1>1 DEF SweepInit
  <2>2. Told(queued, Start, {}) /\ Told(queued, NoMark, {}) /\ Start.kept = {} /\ NoMark.kept = {}
    BY StartSound, NoMarkSound DEF Told
  <2>3. Recorded(queued, {}, Asleep)
    BY DEF Recorded, Asleep, Saving
  <2> QED BY <2>1, <2>2, <2>3 DEF MarkInv
<1>2. ASSUME SweepBase, MarkInv, "save" \notin Faults, [SweepNext]_allVars PROVE MarkInv'
  <2>1. CASE \E s \in Instances, kind \in {"reading", "posting", "queueing"} : Begin(s, kind)
    BY <1>2, <2>1, MarkBegin
  <2>2. CASE \E s \in Instances : Step(s) \/ Dies(s)
    BY <1>2, <2>2, MarkReads, MarkRest DEF Step
  <2>3. CASE Trader \/ Resume \/ Later
    BY <1>2, <2>3, MarkOthers
  <2>4. CASE UNCHANGED allVars
    <3>1. UNCHANGED <<queued, calls, local, shared>>
      BY <2>4 DEF allVars, vars, sweepVars, queueVars
    <3> QED BY <1>2, <3>1 DEF MarkInv
  <2> QED BY <1>2, <2>1, <2>2, <2>3, <2>4 DEF SweepNext
<1>3. ASSUME SweepBase, MarkInv PROVE MarkIsTrue
  <2>1. \A i \in SpendIds : Gone(queued, now, i) => Lost(i)
    BY DEF Gone, Files, Lost, Known, Expired, Ends
  <2>2. ASSUME NEW mark, Sound(queued, now, mark), Told(queued, mark, mark.kept) PROVE Tells(mark)
    BY <2>1, <2>2 DEF Tells, Sound, Told, Gone, Files
  <2> QED BY <1>3, <2>2 DEF MarkIsTrue, MarkInv, SweepBase
<1>4. ASSUME "save" \notin Faults PROVE SweepSpec => []MarkIsTrue
  <2>1. SweepBase /\ MarkInv /\ [SweepNext]_allVars => MarkInv'
    BY <1>2, <1>4
  <2>2. SweepInit => MarkInv
    BY <1>1
  <2>3. SweepBase /\ MarkInv => MarkIsTrue
    BY <1>3
  <2> QED BY <2>1, <2>2, <2>3, BaseHolds, PTL DEF SweepSpec
<1> QED BY <1>4

----------------------------------------------------------------------------
(* The brake.                                                              *)

\* A charge that has pulled the brake once does so again only out of a hand
\* that was already on it when the pool was resumed.
PulledOK(i) ==
  \/ pulls[i] = 0
  \/ /\ i \in Files(queued) /\ now > Ends(queued, i)
     /\ \/ pulls[i] = 1 /\ (resumedAt < Ends(queued, i) => paused)
        \/ /\ pulls[i] = 2 /\ resumedAt >= Ends(queued, i)
           /\ \A s \in Instances : calls[s].pc \in {"paused", "pull"} => i \notin calls[s].expired

PullInv ==
  /\ \A s \in Instances :
       /\ calls[s].pc \in {"exits", "simulate"} => calls[s].expired = {}
       /\ calls[s].pc = "pull" => ~paused
  /\ \A i \in SpendIds : PulledOK(i)

\* Two calls are never both at the brake.
LEMMA OneHand ==
  ASSUME SweepBase, NEW s \in Instances, calls[s].pc \in Late,
         NEW r \in Instances, calls[r].pc \in Late
  PROVE  s = r
<1>1. calls[s].kind = "queueing" /\ calls[r].kind = "queueing"
  BY CallFacts DEF CallOK
<1> QED BY <1>1 DEF SweepBase, Scheduled

\* A call that moves elsewhere than at the brake.
LEMMA PullQuiet ==
  ASSUME SweepBase, PullInv, NEW s \in Instances, NEW new \in Call,
         calls' = [calls EXCEPT ![s] = new], new.pc \notin {"exits", "simulate", "paused", "pull"},
         QueueMoves(queued, now, queued', now), UNCHANGED <<now, paused, resumedAt, pulls>>
  PROVE  PullInv'
<1>1. /\ queued \in [SpendIds -> QueuedSpend] /\ now \in Nat /\ calls \in [Instances -> Call]
  BY CallFacts DEF SweepBase, SweepTyped
<1>2. calls'[s] = new /\ \A r \in Instances : r # s => calls'[r] = calls[r]
  BY <1>1
<1>3. \A r \in Instances :
        /\ calls'[r].pc \in {"exits", "simulate"} => calls'[r].expired = {}
        /\ calls'[r].pc = "pull" => ~paused'
  BY <1>2 DEF PullInv
<1>4. ASSUME NEW i \in SpendIds PROVE PulledOK(i)'
  <2>1. \A r \in Instances : calls'[r].pc \in {"paused", "pull"} => calls'[r] = calls[r]
    BY <1>2
  <2>2. i \in Files(queued) => i \in Files(queued') /\ Ends(queued', i) = Ends(queued, i)
    BY <1>1, FiledStays
  <2>3. PulledOK(i)
    BY DEF PullInv
  <2>4. CASE pulls[i] = 0
    BY <2>4 DEF PulledOK
  <2>5. CASE /\ i \in Files(queued) /\ now > Ends(queued, i)
             /\ pulls[i] = 1 /\ (resumedAt < Ends(queued, i) => paused)
    BY <2>2, <2>5 DEF PulledOK
  <2>6. CASE /\ i \in Files(queued) /\ now > Ends(queued, i)
             /\ pulls[i] = 2 /\ resumedAt >= Ends(queued, i)
             /\ \A r \in Instances : calls[r].pc \in {"paused", "pull"} => i \notin calls[r].expired
    BY <2>1, <2>2, <2>6 DEF PulledOK
  <2> QED BY <2>3, <2>4, <2>5, <2>6 DEF PulledOK
<1> QED BY <1>3, <1>4 DEF PullInv

LEMMA PullElsewhere ==
  ASSUME SweepBase, PullInv, NEW s \in Instances,
         \/ LoadMark(s) \/ LoadRows(s) \/ ReadEntries(s) \/ SaveRows(s) \/ SaveMark(s)
         \/ Post(s) \/ Dies(s) \/ \E kind \in {"reading", "posting", "queueing"} : Begin(s, kind)
  PROVE  PullInv'
<1> DEFINE Away(new) == calls' = [calls EXCEPT ![s] = new]
                        /\ new.pc \notin {"exits", "simulate", "paused", "pull"}
<1>1. QueueMoves(queued, now, queued, now) /\ Asleep \in Call /\ Asleep.pc = "asleep"
  BY CallFacts, QueueStays, AsleepOK
<1>2. CASE Post(s)
  <2>1. UNCHANGED <<resumedAt, pulls>>
    BY <1>2 DEF Post
  <2>2. PICK new \in Call :
          /\ Away(new) /\ UNCHANGED <<now, paused>> /\ QueueMoves(queued, now, queued', now)
    <3>1. UNCHANGED queued => QueueMoves(queued, now, queued', now)
      BY <1>1
    <3> QED BY <1>2, <3>1, PostIs
  <2> QED BY <2>1, <2>2, PullQuiet
<1>3. CASE LoadMark(s) \/ LoadRows(s) \/ ReadEntries(s) \/ SaveRows(s) \/ SaveMark(s)
  <2>1. UNCHANGED <<queued, now, paused, resumedAt, pulls>>
    BY <1>3 DEF LoadMark, LoadRows, ReadEntries, SaveRows, SaveMark, vars, queueVars, adminVars
  <2>2. PICK new \in Call : Away(new)
    <3>1. CASE LoadMark(s)
      BY <3>1, LoadMarkIs
    <3>2. CASE LoadRows(s)
      BY <3>2, LoadRowsIs
    <3>3. CASE ReadEntries(s)
      BY <3>3, ReadEntriesIs
    <3>4. CASE SaveRows(s)
      BY <3>4, SaveRowsIs
    <3>5. CASE SaveMark(s)
      BY <3>5, SaveMarkIs
    <3> QED BY <1>3, <3>1, <3>2, <3>3, <3>4, <3>5
  <2> QED BY <1>1, <2>1, <2>2, PullQuiet
<1>4. CASE Dies(s)
  <2>1. calls' = [calls EXCEPT ![s] = Asleep] /\ UNCHANGED <<queued, now, paused, resumedAt, pulls>>
    BY <1>4 DEF Dies, Becomes, vars, queueVars, adminVars
  <2> QED BY <1>1, <2>1, PullQuiet
<1>5. ASSUME NEW kind \in {"reading", "posting", "queueing"}, Begin(s, kind) PROVE PullInv'
  <2>1. PICK new \in Call : Away(new) /\ UNCHANGED <<vars, resumedAt, pulls>>
    BY <1>5, BeginIs
  <2>2. UNCHANGED <<queued, now, paused>>
    BY <2>1 DEF vars, queueVars, adminVars
  <2> QED BY <1>1, <2>1, <2>2, PullQuiet
<1> QED BY <1>2, <1>3, <1>4, <1>5

LEMMA PullLate ==
  ASSUME SweepBase, PullInv, NEW s \in Instances,
         ReadSince(s) \/ ReadExit(s) \/ Simulate(s) \/ ReadPaused(s)
  PROVE  PullInv'
<1>1. PICK new \in Call :
        /\ calls' = [calls EXCEPT ![s] = new]
        /\ calls[s].pc \in Late \ {"pull"}
        /\ UNCHANGED <<vars, resumedAt, pulls>>
        /\ new.pc \in {"exits", "simulate"} =>
             new.expired = {} \/ (calls[s].pc \in {"exits", "simulate"} /\ new.expired = calls[s].expired)
        /\ new.pc = "paused" =>
             \/ calls[s].pc = "since" /\ \A i \in new.expired : resumedAt < Ends(queued, i)
             \/ calls[s].pc = "simulate" /\ new.expired = calls[s].expired
        /\ new.pc = "pull" => ~paused /\ calls[s].pc = "paused" /\ new.expired = calls[s].expired
  BY LateIs
<1>2. UNCHANGED <<queued, now, paused>>
  BY <1>1 DEF vars, queueVars, adminVars
<1>3. calls \in [Instances -> Call] /\ resumedAt \in Nat /\ queued \in [SpendIds -> QueuedSpend]
  BY DEF SweepBase, SweepTyped
<1>4. calls'[s] = new /\ \A r \in Instances : r # s => calls'[r] = calls[r]
  BY <1>1, <1>3
<1>5. calls[s].pc \in {"exits", "simulate"} => calls[s].expired = {}
  BY DEF PullInv
<1>6. \A r \in Instances :
        /\ calls'[r].pc \in {"exits", "simulate"} => calls'[r].expired = {}
        /\ calls'[r].pc = "pull" => ~paused'
  BY <1>1, <1>2, <1>4, <1>5 DEF PullInv
<1>7. ASSUME NEW i \in SpendIds PROVE PulledOK(i)'
  <2>1. CASE pulls[i] = 2 /\ resumedAt >= Ends(queued, i) /\ i \in Files(queued)
             /\ \A r \in Instances : calls[r].pc \in {"paused", "pull"} => i \notin calls[r].expired
    <3>1. Ends(queued, i) \in Nat
      BY <1>3, TimeAssumption DEF Ends, QueuedSpend
    <3>2. new.pc \in {"paused", "pull"} => i \notin new.expired
      BY <1>1, <1>3, <1>5, <2>1, <3>1
    <3>3. \A r \in Instances : calls'[r].pc \in {"paused", "pull"} => i \notin calls'[r].expired
      BY <1>4, <2>1, <3>2
    <3>4. PulledOK(i)
      BY DEF PullInv
    <3> QED BY <1>1, <1>2, <2>1, <3>3, <3>4 DEF PulledOK
  <2> QED BY <1>1, <1>2, <2>1 DEF PulledOK, PullInv
<1> QED BY <1>6, <1>7 DEF PullInv

LEMMA PullPulls ==
  ASSUME SweepBase, PullInv, NEW s \in Instances, Pull(s)
  PROVE  PullInv'
<1>1. /\ calls' = [calls EXCEPT ![s] = Asleep] /\ calls[s].pc = "pull"
      /\ UNCHANGED <<queued, now, resumedAt>>
      /\ \/ /\ paused' = TRUE
            /\ pulls' = [i \in SpendIds |-> pulls[i] + IF i \in calls[s].expired THEN 1 ELSE 0]
         \/ UNCHANGED <<paused, pulls>>
  BY PullIs
<1>2. CASE UNCHANGED <<paused, pulls>>
  <2>1. QueueMoves(queued, now, queued', now)
    BY <1>1, CallFacts, QueueStays
  <2> QED BY <1>1, <1>2, <2>1, AsleepOK, PullQuiet
<1>3. CASE /\ paused' = TRUE
           /\ pulls' = [i \in SpendIds |-> pulls[i] + IF i \in calls[s].expired THEN 1 ELSE 0]
  <2>1. /\ calls \in [Instances -> Call] /\ resumedAt \in Nat /\ queued \in [SpendIds -> QueuedSpend]
        /\ pulls \in [SpendIds -> Nat] /\ now \in Nat
    BY DEF SweepBase, SweepTyped
  <2>2. ~paused
    BY <1>1 DEF PullInv
  <2>3. ASSUME NEW r \in Instances, calls'[r].pc \in Late PROVE FALSE
    <3>1. r # s /\ calls'[r] = calls[r]
      BY <1>1, <2>1, <2>3, AsleepOK DEF Late
    <3>2. calls[s].pc \in Late
      BY <1>1 DEF Late
    <3> QED BY <2>3, <3>1, <3>2, OneHand
  <2>4. ASSUME NEW i \in SpendIds PROVE PulledOK(i)'
    <3>1. Ends(queued, i) \in Nat
      BY <2>1, TimeAssumption DEF Ends, QueuedSpend
    <3>2. PulledOK(i)
      BY DEF PullInv
    <3>3. CASE i \in calls[s].expired
      <4>1. i \in Files(queued) /\ now > Ends(queued, i)
        <5>1. i \in Files(queued) /\ calls[s].seconds > Ends(queued, i)
          BY <3>3, CallFacts DEF Believes
        <5>2. calls[s].seconds \in Nat /\ calls[s].seconds <= now
          BY <1>1, <2>1, CallFacts DEF Awake, Call
        <5> QED BY <2>1, <3>1, <5>1, <5>2
      <4>2. pulls[i] = 0 \/ (pulls[i] = 1 /\ resumedAt >= Ends(queued, i))
        BY <1>1, <2>1, <2>2, <3>1, <3>2, <3>3 DEF PulledOK
      <4>3. pulls'[i] = pulls[i] + 1
        BY <1>3, <3>3
      <4>4. \A r \in Instances : calls'[r].pc \in {"paused", "pull"} => i \notin calls'[r].expired
        BY <2>3 DEF Late
      <4>5. CASE pulls[i] = 0
        <5>1. pulls'[i] = 1
          BY <4>3, <4>5
        <5> QED BY <1>1, <1>3, <4>1, <5>1 DEF PulledOK
      <4>6. CASE pulls[i] = 1 /\ resumedAt >= Ends(queued, i)
        <5>1. pulls'[i] = 2
          BY <4>3, <4>6
        <5> QED BY <1>1, <4>1, <4>4, <4>6, <5>1 DEF PulledOK
      <4> QED BY <4>2, <4>5, <4>6
    <3>4. CASE i \notin calls[s].expired
      <4>1. pulls'[i] = pulls[i]
        BY <1>3, <2>1, <3>4
      <4>2. \A r \in Instances : calls'[r].pc \in {"paused", "pull"} => i \notin calls'[r].expired
        BY <2>3 DEF Late
      <4> QED BY <1>1, <1>3, <3>2, <4>1, <4>2 DEF PulledOK
    <3> QED BY <3>3, <3>4
  <2> QED BY <2>3, <2>4 DEF PullInv, Late
<1> QED BY <1>1, <1>2, <1>3

LEMMA PullOthers ==
  ASSUME SweepBase, PullInv, Trader \/ Resume \/ Later
  PROVE  PullInv'
<1>1. /\ calls \in [Instances -> Call] /\ resumedAt \in Nat /\ queued \in [SpendIds -> QueuedSpend]
      /\ pulls \in [SpendIds -> Nat] /\ now \in Nat /\ paused \in BOOLEAN
  BY DEF SweepBase, SweepTyped
<1>2. UNCHANGED <<calls, pulls>> /\ QueueMoves(queued, now, queued', now')
  BY OthersAre
<1>3. \/ UNCHANGED <<paused, resumedAt>>
      \/ now' = now /\ paused' = FALSE /\ resumedAt' = now
  BY OthersAre
<1>4. \A r \in Instances :
        /\ calls'[r].pc \in {"exits", "simulate"} => calls'[r].expired = {}
        /\ calls'[r].pc = "pull" => ~paused'
  BY <1>2, <1>3 DEF PullInv
<1>5. ASSUME NEW i \in SpendIds PROVE PulledOK(i)'
  <2>1. i \in Files(queued) => i \in Files(queued') /\ Ends(queued', i) = Ends(queued, i)
    BY <1>1, <1>2, FiledStays
  <2>2. PulledOK(i)
    BY DEF PullInv
  <2>3. Ends(queued, i) \in Nat /\ now' \in Nat /\ now' >= now
    BY <1>1, <1>2, TimeAssumption DEF Ends, QueuedSpend, QueueMoves
  <2>4. CASE pulls[i] = 0
    BY <1>2, <2>4 DEF PulledOK
  <2>5. CASE /\ i \in Files(queued) /\ now > Ends(queued, i)
             /\ pulls[i] = 1 /\ (resumedAt < Ends(queued, i) => paused)
    <3>1. now' > Ends(queued, i) /\ (resumedAt' < Ends(queued, i) => paused')
      <4>1. CASE UNCHANGED <<paused, resumedAt>>
        BY <1>1, <2>3, <2>5, <4>1
      <4>2. CASE now' = now /\ resumedAt' = now
        BY <1>1, <2>3, <2>5, <4>2
      <4> QED BY <1>3, <4>1, <4>2
    <3> QED BY <1>2, <2>1, <2>5, <3>1 DEF PulledOK
  <2>6. CASE /\ i \in Files(queued) /\ now > Ends(queued, i)
             /\ pulls[i] = 2 /\ resumedAt >= Ends(queued, i)
             /\ \A r \in Instances : calls[r].pc \in {"paused", "pull"} => i \notin calls[r].expired
    <3>1. now' > Ends(queued, i) /\ resumedAt' >= Ends(queued, i)
      BY <1>1, <1>3, <2>3, <2>6
    <3> QED BY <1>2, <2>1, <2>6, <3>1 DEF PulledOK
  <2> QED BY <2>2, <2>4, <2>5, <2>6 DEF PulledOK
<1> QED BY <1>4, <1>5 DEF PullInv

\* Whatever fails, a lost charge pauses the pool once, and once more only if
\* the admin resumed while a sweep stood between its reading of the last
\* resume and the brake; a charge a resume has dealt with is not fresh to any
\* sweep that begins afterwards (pauseIfTriggered compares its expiry with
\* lastResumedAt).
THEOREM NotPulledThrice == SweepSpec => []NotPulledAgain
<1>1. ASSUME SweepInit PROVE PullInv
  <2>1. /\ calls = [s \in Instances |-> Asleep] /\ pulls = [i \in SpendIds |-> 0]
    BY <1>1 DEF SweepInit
  <2>2. Asleep.pc = "asleep"
    BY DEF Asleep
  <2> QED BY <2>1, <2>2 DEF PullInv, PulledOK
<1>2. ASSUME SweepBase, PullInv, [SweepNext]_allVars PROVE PullInv'
  <2>1. CASE \E s \in Instances, kind \in {"reading", "posting", "queueing"} : Begin(s, kind)
    BY <1>2, <2>1, PullElsewhere
  <2>2. CASE \E s \in Instances : Step(s) \/ Dies(s)
    BY <1>2, <2>2, PullElsewhere, PullLate, PullPulls DEF Step
  <2>3. CASE Trader \/ Resume \/ Later
    BY <1>2, <2>3, PullOthers
  <2>4. CASE UNCHANGED allVars
    <3>1. UNCHANGED <<queued, now, paused, calls, resumedAt, pulls>>
      BY <2>4 DEF allVars, vars, sweepVars, queueVars, adminVars
    <3> QED BY <1>2, <3>1 DEF PullInv, PulledOK
  <2> QED BY <1>2, <2>1, <2>2, <2>3, <2>4 DEF SweepNext
<1>3. PullInv => NotPulledAgain
  BY DEF PullInv, PulledOK, NotPulledAgain
<1> QED BY <1>1, <1>2, <1>3, BaseHolds, PTL DEF SweepSpec

----------------------------------------------------------------------------
(* The posting schedule.                                                   *)

\* Sweep after sweep failed on it.
Excused(Q, m, i) == (m + 1) * EVERY + LIFE - 1 > Ends(Q, i) - Q[i].dueAt

\* A posting sweep has come in time for the charge and has it still to post.
Waits(Q, r, i) ==
  /\ r.kind = "posting" /\ Q[i].dueAt <= r.seconds /\ r.seconds <= Ends(Q, i)
  /\ \/ r.pc \in Early /\ i \in 1..r.count
     \/ r.pc \in Saving \cup {"post"} /\ i \in r.todo

\* A charge not posted has been missed by every sweep that came for it, but
\* for the one that is at it.
Tries(Q, m, L, C, i) ==
  \/ Excused(Q, m, i)
  \/ L < Q[i].dueAt + m * EVERY
  \/ L < Q[i].dueAt + (m + 1) * EVERY /\ \E s \in Instances : Waits(Q, C[s], i)

TryInv == \A i \in SpendIds \ Unreadable :
  i \in Files(queued) /\ ~queued[i].posted => Tries(queued, missed[i], lastPosting, calls, i)

LEMMA Times ==
  ASSUME NEW m \in Nat
  PROVE  m * EVERY \in Nat /\ (m + 1) * EVERY = m * EVERY + EVERY /\ EVERY \in Nat \ {0}
         /\ LIFE \in Nat \ {0}
<1>1. EVERY \in Nat \ {0} /\ LIFE \in Nat \ {0}
  BY SweepAssumption
<1> QED BY <1>1

\* A sweep that is at a charge whose window has closed came for it in time.
LEMMA LateExcused ==
  ASSUME SweepBase, NEW i \in SpendIds, i \in Files(queued), now > Ends(queued, i),
         Tries(queued, missed[i], lastPosting, calls, i)
  PROVE  Excused(queued, missed[i], i)
<1> DEFINE e == Ends(queued, i)
           d == queued[i].dueAt
           m == missed[i] * EVERY
           more == (missed[i] + 1) * EVERY
<1>1. /\ e \in Nat /\ d \in Nat /\ now \in Nat /\ lastPosting \in Nat /\ missed[i] \in Nat
  BY TimeAssumption DEF SweepBase, SweepTyped, QueuedSpend, Ends
<1>2. m \in Nat /\ more = m + EVERY /\ EVERY \in Nat \ {0} /\ LIFE \in Nat \ {0}
  BY <1>1, Times
<1>3. now <= lastPosting + EVERY
  BY DEF SweepBase, Scheduled
<1>4. CASE Excused(queued, missed[i], i)
  BY <1>4
<1>5. CASE lastPosting < d + m
  <2> HIDE DEF e, d, m, more
  <2>1. now > e
    BY DEF e
  <2>2. more + LIFE - 1 > e - d
    BY <1>1, <1>2, <1>3, <1>5, <2>1
  <2> QED BY <2>2 DEF Excused, e, d, more
<1>6. CASE lastPosting < d + more /\ \E s \in Instances : Waits(queued, calls[s], i)
  <2>1. PICK s \in Instances : Waits(queued, calls[s], i)
    BY <1>6
  <2>2. calls[s].seconds = lastPosting /\ calls[s].pc # "asleep"
    BY <2>1 DEF SweepBase, Scheduled, Waits, Early, Saving
  <2>3. now <= lastPosting + LIFE
    BY <2>2, CallFacts DEF Awake
  <2> HIDE DEF e, d, m, more
  <2>4. now > e
    BY DEF e
  <2>5. more + LIFE - 1 > e - d
    BY <1>1, <1>2, <1>6, <2>3, <2>4
  <2> QED BY <2>5 DEF Excused, e, d, more
<1> QED BY <1>4, <1>5, <1>6 DEF Tries

\* What a step keeps: a sweep that leaves a charge unposted has missed it, or
\* waits on, or the window has closed.
LEMMA TriesStays ==
  ASSUME SweepBase, NEW i \in SpendIds, i \in Files(queued),
         Tries(queued, missed[i], lastPosting, calls, i),
         NEW R, R[i].dueAt = queued[i].dueAt, Ends(R, i) = Ends(queued, i),
         NEW n, n \in {missed[i], missed[i] + 1}, NEW C,
         \A s \in Instances : Waits(queued, calls[s], i) =>
           \/ n = missed[i] + 1 \/ now > Ends(queued, i)
           \/ \E r \in Instances : Waits(R, C[r], i)
  PROVE  Tries(R, n, lastPosting, C, i)
<1> DEFINE e == Ends(queued, i)
           d == queued[i].dueAt
           m == missed[i] * EVERY
           more == (missed[i] + 1) * EVERY
           most == (missed[i] + 2) * EVERY
<1>1. /\ e \in Nat /\ d \in Nat /\ lastPosting \in Nat /\ missed[i] \in Nat
  BY TimeAssumption DEF SweepBase, SweepTyped, QueuedSpend, Ends
<1>2. m \in Nat /\ more = m + EVERY /\ EVERY \in Nat \ {0} /\ LIFE \in Nat \ {0}
  BY <1>1, Times
<1>3. most = more + EVERY /\ missed[i] + 1 \in Nat
  <2>1. missed[i] + 1 \in Nat /\ missed[i] + 1 + 1 = missed[i] + 2
    BY <1>1
  <2> QED BY <2>1, Times
<1>4. Excused(R, missed[i], i) <=> more + LIFE - 1 > e - d
  BY DEF Excused
<1>5. Excused(R, missed[i] + 1, i) <=> most + LIFE - 1 > e - d
  <2>1. missed[i] + 1 + 1 = missed[i] + 2
    BY <1>1
  <2> QED BY <2>1 DEF Excused
<1>6. CASE n = missed[i] + 1
  <2>1. more + LIFE - 1 > e - d \/ lastPosting < d + more
    <3>1. \/ more + LIFE - 1 > e - d \/ lastPosting < d + m \/ lastPosting < d + more
      BY DEF Tries, Excused
    <3> HIDE DEF e, d, m, more
    <3> QED BY <1>1, <1>2, <3>1
  <2>2. CASE lastPosting < d + more
    BY <1>6, <2>2 DEF Tries
  <2>3. CASE more + LIFE - 1 > e - d
    <3> HIDE DEF e, d, m, more, most
    <3>1. most + LIFE - 1 > e - d
      BY <1>1, <1>2, <1>3, <2>3
    <3> QED BY <1>5, <1>6, <3>1 DEF Tries
  <2> QED BY <2>1, <2>2, <2>3
<1>7. CASE n = missed[i]
  <2>1. CASE Excused(queued, missed[i], i)
    BY <1>7, <2>1 DEF Tries, Excused
  <2>2. CASE lastPosting < d + m
    BY <1>7, <2>2 DEF Tries
  <2>3. CASE lastPosting < d + more /\ \E s \in Instances : Waits(queued, calls[s], i)
    <3>1. missed[i] # missed[i] + 1
      BY <1>1
    <3>2. CASE now > e
      <4>1. Excused(queued, missed[i], i)
        BY <3>2, LateExcused
      <4> QED BY <2>1, <4>1
    <3>3. CASE \E r \in Instances : Waits(R, C[r], i)
      BY <1>7, <2>3, <3>3 DEF Tries
    <3> QED BY <1>7, <2>3, <3>1, <3>2, <3>3
  <2> QED BY <2>1, <2>2, <2>3 DEF Tries
<1> QED BY <1>6, <1>7

\* One call moves, and on the clock nothing does.
LEMMA TryStep ==
  ASSUME SweepBase, TryInv, NEW s \in Instances, NEW new \in Call,
         calls' = [calls EXCEPT ![s] = new],
         QueueMoves(queued, now, queued', now), Files(queued') = Files(queued),
         UNCHANGED lastPosting,
         \A i \in SpendIds : missed'[i] \in {missed[i], missed[i] + 1},
         \A i \in SpendIds \ Unreadable :
           i \in Files(queued) /\ ~queued'[i].posted /\ Waits(queued, calls[s], i) =>
             \/ missed'[i] = missed[i] + 1 \/ now > Ends(queued, i) \/ Waits(queued, new, i)
  PROVE  TryInv'
<1>1. /\ queued \in [SpendIds -> QueuedSpend] /\ now \in Nat /\ PostedOK(queued, postedAt)
      /\ calls \in [Instances -> Call]
  BY CallFacts DEF SweepBase, SweepTyped
<1>2. calls'[s] = new /\ \A r \in Instances : r # s => calls'[r] = calls[r]
  BY <1>1
<1>3. SUFFICES ASSUME NEW i \in SpendIds \ Unreadable, i \in Files(queued), ~queued'[i].posted
               PROVE  Tries(queued', missed'[i], lastPosting, calls', i)
  BY DEF TryInv
<1>4. Ends(queued', i) = Ends(queued, i) /\ queued'[i].dueAt = queued[i].dueAt /\ ~queued[i].posted
  <2>1. \A j \in Files(queued) : Ends(queued', j) = Ends(queued, j)
    BY <1>1, FiledStays
  <2>2. queued'[i].dueAt = queued[i].dueAt /\ ~queued[i].posted
    BY <1>3 DEF QueueMoves
  <2> QED BY <1>3, <2>1, <2>2
<1>5. Tries(queued, missed[i], lastPosting, calls, i)
  BY <1>3, <1>4 DEF TryInv
<1>6. ASSUME NEW r \in Instances, Waits(queued, calls[r], i)
      PROVE  \/ missed'[i] = missed[i] + 1 \/ now > Ends(queued, i)
             \/ \E q \in Instances : Waits(queued', calls'[q], i)
  <2>1. \A call : Waits(queued, call, i) => Waits(queued', call, i)
    BY <1>4 DEF Waits
  <2>2. CASE r = s
    BY <1>2, <1>3, <1>6, <2>1, <2>2
  <2>3. CASE r # s
    BY <1>2, <1>6, <2>1, <2>3
  <2> QED BY <2>2, <2>3
<1>7. missed'[i] \in {missed[i], missed[i] + 1}
  OBVIOUS
<1> QED BY <1>3, <1>4, <1>5, <1>6, <1>7, TriesStays

LEMMA TryBegin ==
  ASSUME SweepBase, TryInv, NEW s \in Instances, NEW kind \in {"reading", "posting", "queueing"},
         Begin(s, kind)
  PROVE  TryInv'
<1>1. PICK new \in Call :
        /\ calls' = [calls EXCEPT ![s] = new] /\ calls[s] = Asleep
        /\ new.kind = kind /\ new.seconds = now /\ 1..new.count = Files(queued)
        /\ new.pc \in {"entries", "mark"}
        /\ kind # "reading" => ~Sweeping
        /\ kind = "posting" => now >= lastPosting + EVERY
        /\ lastPosting' = IF kind = "posting" THEN now ELSE lastPosting
        /\ UNCHANGED <<vars, missed>>
  BY BeginIs
<1>2. UNCHANGED queued
  BY <1>1 DEF vars, queueVars
<1>3. \A i : ~Waits(queued, calls[s], i)
  BY <1>1, AsleepOK DEF Waits
<1>4. QueueMoves(queued, now, queued, now)
  BY CallFacts, QueueStays
<1>5. CASE kind # "posting"
  BY <1>1, <1>2, <1>3, <1>4, <1>5, TryStep
<1>6. CASE kind = "posting"
  <2>1. SUFFICES ASSUME NEW i \in SpendIds \ Unreadable, i \in Files(queued), ~queued[i].posted
                 PROVE  Tries(queued, missed[i], now, calls', i)
    BY <1>1, <1>2, <1>6 DEF TryInv
  <2> DEFINE e == Ends(queued, i)
             d == queued[i].dueAt
             m == missed[i] * EVERY
             more == (missed[i] + 1) * EVERY
  <2>2. /\ e \in Nat /\ d \in Nat /\ now \in Nat /\ lastPosting \in Nat /\ missed[i] \in Nat
        /\ calls \in [Instances -> Call]
    BY TimeAssumption DEF SweepBase, SweepTyped, QueuedSpend, Ends
  <2>3. m \in Nat /\ more = m + EVERY /\ EVERY \in Nat \ {0} /\ LIFE \in Nat \ {0}
    BY <2>2, Times
  <2>4. now = lastPosting + EVERY
    <3>1. now <= lastPosting + EVERY /\ now >= lastPosting + EVERY
      BY <1>1, <1>6 DEF SweepBase, Scheduled
    <3> HIDE DEF e, d, m, more
    <3> QED BY <2>2, <2>3, <3>1
  <2>5. Tries(queued, missed[i], lastPosting, calls, i)
    BY <2>1 DEF TryInv
  <2>6. \A r \in Instances : ~Waits(queued, calls[r], i)
    BY <1>1, <1>6 DEF Sweeping, Waits
  <2>7. CASE now > e
    <3>1. Excused(queued, missed[i], i)
      BY <2>1, <2>5, <2>7, LateExcused
    <3> QED BY <3>1 DEF Tries
  <2>8. CASE Excused(queued, missed[i], i)
    BY <2>8 DEF Tries
  <2>9. CASE lastPosting < d + m /\ now <= e
    <3>1. now < d + more
      <4> HIDE DEF e, d, m, more
      <4> QED BY <2>2, <2>3, <2>4, <2>9
    <3>2. CASE now < d
      <4>1. now < d + m
        <5> HIDE DEF e, d, m, more
        <5> QED BY <2>2, <2>3, <3>2
      <4> QED BY <4>1 DEF Tries
    <3>3. CASE now >= d
      <4>1. calls'[s] = new
        BY <1>1, <2>2
      <4>2. new.pc \in Early /\ i \in 1..new.count
        BY <1>1, <2>1 DEF Early
      <4>3. Waits(queued, calls'[s], i)
        BY <1>1, <1>6, <2>9, <3>3, <4>1, <4>2 DEF Waits
      <4> QED BY <3>1, <4>3 DEF Tries
    <3> QED BY <2>2, <3>2, <3>3
  <2>10. now <= e \/ now > e
    BY <2>2
  <2> QED BY <2>5, <2>6, <2>7, <2>8, <2>9, <2>10 DEF Tries
<1> QED BY <1>5, <1>6

LEMMA TryReads ==
  ASSUME SweepBase, TryInv, NEW s \in Instances,
         LoadMark(s) \/ LoadRows(s) \/ ReadEntries(s) \/ SaveRows(s) \/ SaveMark(s)
  PROVE  TryInv'
<1>1. UNCHANGED <<queued, lastPosting, missed>>
  BY DEF LoadMark, LoadRows, ReadEntries, SaveRows, SaveMark, vars, queueVars
<1>2. QueueMoves(queued, now, queued, now) /\ calls[s] \in Call
  BY CallFacts, QueueStays
<1>3. CASE LoadMark(s) \/ LoadRows(s)
  <2>1. calls[s].pc \in Early
    BY <1>3 DEF LoadMark, LoadRows, At, Early
  <2>2. PICK new \in Call :
          /\ calls' = [calls EXCEPT ![s] = new] /\ new.pc \in {"rows", "entries"}
          /\ new.kind = calls[s].kind /\ new.seconds = calls[s].seconds /\ new.count = calls[s].count
    <3>1. CASE LoadMark(s)
      BY <3>1, LoadMarkIs
    <3>2. CASE LoadRows(s)
      BY <3>2, LoadRowsIs
    <3> QED BY <1>3, <3>1, <3>2
  <2>3. \A i : Waits(queued, calls[s], i) => Waits(queued, new, i)
    BY <2>1, <2>2 DEF Waits, Early, Saving
  <2> QED BY <1>1, <1>2, <2>2, <2>3, TryStep
<1>4. CASE ReadEntries(s)
  <2>1. calls[s].pc = "entries"
    BY <1>4 DEF ReadEntries, At
  <2>2. PICK new \in Call :
          /\ calls' = [calls EXCEPT ![s] = new]
          /\ new.kind # "none" => new.kind = calls[s].kind /\ new.seconds = calls[s].seconds
          /\ \A i \in SpendIds \ Unreadable :
               /\ calls[s].kind # "reading" /\ i \in 1..calls[s].count
               /\ i \notin 1..calls[s].mark.below /\ ~queued[i].posted
               /\ queued[i].dueAt <= calls[s].seconds /\ calls[s].seconds <= Ends(queued, i)
               => i \in new.todo /\ new.kind = calls[s].kind /\ new.pc \in {"saveRows", "post"}
    BY <1>4, ReadEntriesIs
  <2>3. ASSUME NEW i \in SpendIds \ Unreadable, ~queued[i].posted, Waits(queued, calls[s], i)
        PROVE  now > Ends(queued, i) \/ Waits(queued, new, i)
    <3>1. /\ i \in 1..calls[s].count /\ calls[s].kind = "posting"
          /\ queued[i].dueAt <= calls[s].seconds /\ calls[s].seconds <= Ends(queued, i)
      BY <2>1, <2>3 DEF Waits, Saving
    <3>2. CASE i \in 1..calls[s].mark.below
      BY <2>3, <3>2, CallFacts DEF Believes, Sound, Gone
    <3>3. CASE i \notin 1..calls[s].mark.below
      <4>1. i \in new.todo /\ new.kind = "posting" /\ new.pc \in {"saveRows", "post"}
        BY <2>2, <2>3, <3>1, <3>3
      <4>2. new.seconds = calls[s].seconds
        BY <2>2, <4>1
      <4> QED BY <3>1, <4>1, <4>2 DEF Waits, Saving
    <3> QED BY <3>2, <3>3
  <2> QED BY <1>1, <1>2, <2>2, <2>3, TryStep
<1>5. CASE SaveRows(s) \/ SaveMark(s)
  <2>1. calls[s].pc \in Saving
    BY <1>5 DEF SaveRows, SaveMark, At, Saving
  <2>2. PICK new \in Call :
          /\ calls' = [calls EXCEPT ![s] = new] /\ new.todo = calls[s].todo
          /\ new.kind # "none" => new.kind = calls[s].kind /\ new.seconds = calls[s].seconds
          /\ calls[s].todo # {} => new.pc \in {"saveMark", "post"} /\ new.kind = calls[s].kind
    <3>1. CASE SaveRows(s)
      BY <3>1, SaveRowsIs
    <3>2. CASE SaveMark(s)
      BY <3>2, SaveMarkIs
    <3> QED BY <1>5, <3>1, <3>2
  <2>3. \A i : Waits(queued, calls[s], i) => Waits(queued, new, i)
    BY <2>1, <2>2 DEF Waits, Early, Saving
  <2> QED BY <1>1, <1>2, <2>2, <2>3, TryStep
<1> QED BY <1>3, <1>4, <1>5

LEMMA TryPost ==
  ASSUME SweepBase, TryInv, NEW s \in Instances, Post(s)
  PROVE  TryInv'
<1> DEFINE j == Turn(s)
<1>1. UNCHANGED lastPosting /\ calls[s].pc = "post"
  BY DEF Post, At
<1>2. /\ QueueMoves(queued, now, queued, now) /\ calls[s] \in Call /\ now \in Nat
      /\ queued \in [SpendIds -> QueuedSpend] /\ missed \in [SpendIds -> Nat]
      /\ Awake(now, calls[s])
  BY <1>1, CallFacts, QueueStays
<1>3. PICK new \in Call :
        /\ calls' = [calls EXCEPT ![s] = new]
        /\ new.kind # "none" => new.kind = calls[s].kind /\ new.seconds = calls[s].seconds
        /\ new.todo = calls[s].todo \ {j}
        /\ new.todo # {} => new.pc = "post" /\ new.kind = calls[s].kind
        /\ j \in SpendIds
        /\ \/ /\ Postable(j) /\ queued'[j].posted
              /\ Files(queued') = Files(queued) /\ QueueMoves(queued, now, queued', now)
              /\ missed' = missed
           \/ ~Postable(j) /\ UNCHANGED <<queued, missed>>
           \/ missed' = [missed EXCEPT ![j] = @ + 1] /\ UNCHANGED queued
  BY PostIs
<1> HIDE DEF j
<1>4. \A i \in SpendIds : missed'[i] \in {missed[i], missed[i] + 1}
  BY <1>2, <1>3
<1>5. QueueMoves(queued, now, queued', now) /\ Files(queued') = Files(queued)
  BY <1>2, <1>3
<1>6. ASSUME NEW i \in SpendIds \ Unreadable, i \in Files(queued), ~queued'[i].posted,
             Waits(queued, calls[s], i)
      PROVE  \/ missed'[i] = missed[i] + 1 \/ now > Ends(queued, i) \/ Waits(queued, new, i)
  <2>1. /\ i \in calls[s].todo /\ calls[s].kind = "posting"
        /\ queued[i].dueAt <= calls[s].seconds /\ calls[s].seconds <= Ends(queued, i)
    BY <1>1, <1>6 DEF Waits, Early
  <2>2. CASE i # j
    <3>1. i \in new.todo /\ new.pc = "post" /\ new.kind = "posting"
      BY <1>3, <2>1, <2>2
    <3>2. new.seconds = calls[s].seconds
      BY <1>3, <2>1, <3>1
    <3> QED BY <2>1, <3>1, <3>2 DEF Waits
  <2>3. CASE i = j /\ ~Postable(j) /\ UNCHANGED <<queued, missed>>
    <3>1. /\ queued[i].dueAt \in Nat /\ calls[s].seconds \in Nat /\ queued[i].queuedAt \in Nat
          /\ POST_WINDOW \in Nat /\ calls[s].seconds <= now
      BY <1>2, TimeAssumption DEF QueuedSpend, Call, Awake
    <3>2. now >= queued[i].dueAt
      BY <1>2, <2>1, <3>1
    <3> QED BY <1>2, <1>6, <2>3, <3>1, <3>2 DEF Postable, Known, Expired, Files, Ends
  <2>4. CASE i = j /\ missed' = [missed EXCEPT ![j] = @ + 1]
    BY <1>2, <2>4
  <2> QED BY <1>3, <1>6, <2>2, <2>3, <2>4
<1> QED BY <1>1, <1>3, <1>4, <1>5, <1>6, TryStep

LEMMA TryRest ==
  ASSUME SweepBase, TryInv, NEW s \in Instances,
         \/ ReadSince(s) \/ ReadExit(s) \/ Simulate(s) \/ ReadPaused(s) \/ Pull(s) \/ Dies(s)
  PROVE  TryInv'
<1>1. /\ QueueMoves(queued, now, queued, now) /\ calls[s] \in Call /\ missed \in [SpendIds -> Nat]
      /\ Asleep \in Call
  BY CallFacts, QueueStays, AsleepOK
<1>2. ASSUME calls[s].pc \in Late, NEW i PROVE ~Waits(queued, calls[s], i)
  BY <1>2 DEF Waits, Late, Early, Saving
<1>3. CASE ReadSince(s) \/ ReadExit(s) \/ Simulate(s) \/ ReadPaused(s)
  <2>1. PICK new \in Call :
          /\ calls' = [calls EXCEPT ![s] = new] /\ calls[s].pc \in Late \ {"pull"}
          /\ UNCHANGED <<vars, lastPosting, missed>>
    BY <1>3, LateIs
  <2>2. UNCHANGED queued
    BY <2>1 DEF vars, queueVars
  <2> QED BY <1>1, <1>2, <2>1, <2>2, TryStep
<1>4. CASE Pull(s)
  <2>1. /\ calls' = [calls EXCEPT ![s] = Asleep] /\ calls[s].pc \in Late
        /\ UNCHANGED <<queued, lastPosting, missed>>
    BY <1>4, PullIs DEF Late
  <2> QED BY <1>1, <1>2, <2>1, TryStep
<1>5. CASE Dies(s)
  <2>1. /\ calls' = [calls EXCEPT ![s] = Asleep] /\ UNCHANGED <<queued, lastPosting>>
        /\ missed' = [i \in SpendIds |-> missed[i] + IF i \in Untried(s) THEN 1 ELSE 0]
    BY <1>5 DEF Dies, Becomes, vars, queueVars
  <2>2. \A i \in SpendIds : missed'[i] \in {missed[i], missed[i] + 1}
    BY <1>1, <2>1
  <2>3. ASSUME NEW i \in SpendIds \ Unreadable, i \in Files(queued), ~queued[i].posted,
               Waits(queued, calls[s], i)
        PROVE  missed'[i] = missed[i] + 1
    <3>1. i \in filed \ Unreadable
      BY <2>3 DEF filed, Files, Known
    <3>2. /\ queued[i].dueAt <= calls[s].seconds /\ calls[s].seconds <= Expiry(i)
          /\ calls[s].kind = "posting"
      BY <2>3 DEF Waits, Ends, Expiry
    <3>3. calls[s].pc = "post" => i \in calls[s].todo
      BY <2>3 DEF Waits, Early
    <3>4. calls[s].pc \notin {"since", "exits", "simulate", "paused", "pull"}
      BY <2>3 DEF Waits, Early, Saving
    <3>5. i \in Untried(s)
      BY <2>3, <3>1, <3>2, <3>3, <3>4 DEF Untried, At
    <3> QED BY <2>1, <3>5
  <2> QED BY <1>1, <2>1, <2>2, <2>3, TryStep
<1> QED BY <1>3, <1>4, <1>5

LEMMA TryOthers ==
  ASSUME SweepBase, TryInv, Trader \/ Resume \/ Later
  PROVE  TryInv'
<1>1. /\ queued \in [SpendIds -> QueuedSpend] /\ now \in Nat /\ lastPosting \in Nat
      /\ lastPosting <= now /\ missed \in [SpendIds -> Nat]
  BY DEF SweepBase, SweepTyped, Scheduled
<1>2. /\ UNCHANGED <<calls, lastPosting, missed>> /\ QueueMoves(queued, now, queued', now')
      /\ \A i \in SpendIds : queued'[i] = queued[i]
           \/ /\ i \notin Files(queued) /\ i \in Files(queued') /\ ~queued'[i].posted
              /\ queued'[i].queuedAt = now /\ queued'[i].dueAt > now
  BY OthersAre
<1>3. SUFFICES ASSUME NEW i \in SpendIds \ Unreadable, i \in Files(queued'), ~queued'[i].posted
               PROVE  Tries(queued', missed[i], lastPosting, calls, i)
  BY <1>2 DEF TryInv
<1>4. CASE queued'[i] = queued[i]
  <2>1. i \in Files(queued) /\ ~queued[i].posted
    BY <1>3, <1>4 DEF Files
  <2> QED BY <1>4, <2>1 DEF TryInv, Tries, Excused, Waits, Ends
<1>5. CASE queued'[i].dueAt > now
  <2>1. missed[i] * EVERY \in Nat /\ queued'[i].dueAt \in Nat
    BY <1>1, <1>2, Times DEF QueueMoves, QueuedSpend
  <2>2. lastPosting < queued'[i].dueAt + missed[i] * EVERY
    <3> DEFINE m == missed[i] * EVERY
               d == queued'[i].dueAt
    <3> HIDE DEF m, d
    <3>1. m \in Nat /\ d \in Nat /\ d > now
      BY <1>5, <2>1 DEF m, d
    <3>2. lastPosting < d + m
      BY <1>1, <3>1
    <3> QED BY <3>2 DEF m, d
  <2> QED BY <2>2 DEF Tries
<1> QED BY <1>2, <1>4, <1>5

\* A charge that the ledger key can open and that is lost, sweep after sweep
\* failed on: every posting sweep that began between its due time and its
\* expiry died, or had its posting refused, and each failure is counted.  No
\* mark, no copy of one and no late node lets a sweep pass a charge over
\* (sweep reads the queue past the mark and posts what is due, one by one).
THEOREM PostsInTime == SweepSpec => []PostedInTime
<1>1. ASSUME SweepInit PROVE TryInv
  <2>1. queued = [i \in SpendIds |-> NoSpend] /\ NoSpend.queuedAt = 0
    BY <1>1 DEF SweepInit, NoSpend
  <2> QED BY <2>1 DEF TryInv, Files
<1>2. ASSUME SweepBase, TryInv, [SweepNext]_allVars PROVE TryInv'
  <2>1. CASE \E s \in Instances, kind \in {"reading", "posting", "queueing"} : Begin(s, kind)
    BY <1>2, <2>1, TryBegin
  <2>2. CASE \E s \in Instances : Step(s) \/ Dies(s)
    BY <1>2, <2>2, TryReads, TryPost, TryRest DEF Step
  <2>3. CASE Trader \/ Resume \/ Later
    BY <1>2, <2>3, TryOthers
  <2>4. CASE UNCHANGED allVars
    <3>1. UNCHANGED <<queued, calls, lastPosting, missed>>
      BY <2>4 DEF allVars, vars, sweepVars, queueVars
    <3> QED BY <1>2, <3>1 DEF TryInv
  <2> QED BY <1>2, <2>1, <2>2, <2>3, <2>4 DEF SweepNext
<1>3. ASSUME SweepBase, TryInv PROVE PostedInTime
  <2>1. SUFFICES ASSUME NEW i \in SpendIds \ Unreadable, Lost(i)
                 PROVE  (missed[i] + 1) * EVERY + LIFE - 1 > Expiry(i) - queued[i].dueAt
    BY DEF PostedInTime
  <2>2. i \in Files(queued) /\ ~queued[i].posted /\ now > Ends(queued, i)
    BY <2>1 DEF Lost, Known, Expired, Files, Ends
  <2>3. Excused(queued, missed[i], i)
    BY <1>3, <2>1, <2>2, LateExcused DEF TryInv
  <2> QED BY <2>3 DEF Excused, Expiry, Ends
<1> QED BY <1>1, <1>2, <1>3, BaseHolds, PTL DEF SweepSpec
=============================================================================
