-------------------------- MODULE OwedLedgerProofs --------------------------
(***************************************************************************)
(* What OwedLedger keeps for any charges, withdrawals, sweeps and limits.  *)
(*                                                                         *)
(* Each theorem names the faults it assumes away, as the runs do: with one *)
(* of them TLC finds a counterexample.  The invariants come in layers.     *)
(* BaseInv says what is true of hashes and outcomes once a receipt that    *)
(* exists is never missed.  PayoutsInv adds what became of withdrawals,    *)
(* QueueInv whose transaction a row may still be in when no sweep overlaps *)
(* anything, and ChargedInv that only paid withdrawals are in batches.     *)
(***************************************************************************)
EXTENDS OwedLedger, FiniteSetTheorems, WellFoundedInduction, TLAPS

----------------------------------------------------------------------------
(* The invariants.                                                         *)

Kinds  == {"batch", "payout"}
Status == {"signed", "pending", "lost", "mined", "reverted"}
Tx     == [nonce : Nat, kind : Kinds, ids : SUBSET Rows, status : Status]
Row    == [recorded : BOOLEAN, leased : BOOLEAN, voided : BOOLEAN, tx : Nat, queued : Nat]
Batch  == [tx : Nat, ids : SUBSET Rows]

Unsigned   == {"idle", "waiting", "signing"}
Named      == {"signed", "sent", "releasing", "finishing", "counting", "settling"}
Decided    == {"releasing", "finishing", "settling"}
PayoutPcs  == Unsigned \cup {"signed", "sent", "releasing", "finishing", "refused", "done", "dead"}
SweeperPcs == Unsigned \cup Named \cup {"resolving"}
Outcomes   == {"none", "unknown", "mined", "reverted", "never-mined"}
Locals     == [pc : PayoutPcs \cup SweeperPcs, ids : SUBSET Rows, tx : Nat, nonce : Nat,
               outcome : Outcomes, todo : SUBSET Batch]

Typed ==
  /\ rows \in [Rows -> Row] /\ procs \in [Procs -> Locals]
  /\ txs \in Seq(Tx) /\ count \in Nat

\* The transaction t of T will not be mined at nonce n any more.
Dead(T, n, t) ==
  \/ T[t].status = "reverted"
  \/ T[t].nonce < n /\ T[t].status # "mined"

Carries(T, t, ids) == t \in DOMAIN T /\ ids \subseteq T[t].ids
PayoutOf(T, t, w)  == T[t].kind = "payout" /\ w \in T[t].ids

\* What the locals l of p say of its transaction is so.
OutcomeOK(T, n, l) ==
  /\ l.outcome # "none"
  /\ l.outcome \in {"mined", "reverted"} => T[l.tx].status = l.outcome
  /\ l.outcome = "never-mined" => Dead(T, n, l.tx)

LocalOK(T, n, p, l) ==
  /\ l.tx # NoTx => l.tx \in DOMAIN T
  /\ l.pc \in Named => Carries(T, l.tx, l.ids)
  /\ \A b \in l.todo : Carries(T, b.tx, b.ids)
  /\ l.pc = "signed" => T[l.tx].status = "signed"
  /\ l.pc = "counting" => T[l.tx].status \notin {"mined", "reverted"}
  /\ l.pc \in Decided => OutcomeOK(T, n, l)
  /\ p \in Sweepers => l.pc \in SweeperPcs
  /\ p \in Payouts => /\ l.pc \in PayoutPcs
                      /\ l.pc # "idle" => l.ids = {p}
                      /\ l.pc \in Named => T[l.tx].kind = "payout"

\* No two processes are about to broadcast one transaction.
SignedApart(P) ==
  \A p, q \in Procs : P[p].pc = "signed" /\ P[q].pc = "signed" /\ P[p].tx = P[q].tx => p = q

\* A payout is one withdrawal's, which signs no other.
PayoutsOK(T, P) ==
  /\ \A t \in DOMAIN T : T[t].kind = "payout" =>
       \E w \in Payouts : T[t].ids = {w} /\ P[w].pc \notin Unsigned
  /\ \A t, u \in DOMAIN T : \A w \in Payouts : PayoutOf(T, t, w) /\ PayoutOf(T, u, w) => t = u

RowOK(T, r, row) ==
  /\ row.tx # NoTx => Carries(T, row.tx, {r})
  /\ row.queued # NoTx => row.queued \in DOMAIN T

RowsOK(T, R, P) ==
  /\ \A r \in Rows : RowOK(T, r, R[r])
  /\ \A w \in Payouts : P[w].pc # "idle" => R[w].recorded

BaseInv ==
  /\ Typed
  /\ \A p \in Procs : LocalOK(txs, count, p, procs[p])
  /\ SignedApart(procs)
  /\ PayoutsOK(txs, procs)
  /\ RowsOK(txs, rows, procs)

\* A receipt that exists is returned, and no block falls between the two
\* reads of resolve().
NoFalseReads == Faults \cap {"rpc", "race"} = {}

----------------------------------------------------------------------------
(* The operator account.                                                   *)

\* Of a nonempty set of naturals one is the least.
LEMMA LeastNat ==
  ASSUME NEW S \in SUBSET Nat, S # {}
  PROVE  \E n \in S : \A m \in S : n <= m
<1>1. \E n \in S : \A m \in S : <<m, n>> \notin OpToRel(<, Nat)
  BY NatLessThanWellFounded, WFMin, Zenon
<1>2. ASSUME NEW m \in Nat, NEW n \in Nat, m < n PROVE <<m, n>> \in OpToRel(<, Nat)
  BY <1>2 DEF OpToRel
<1>3. \A m, n \in Nat : n <= m \/ m < n
  OBVIOUS
<1> QED BY <1>1, <1>2, <1>3

\* The pending count exists: the pool holds fewer nonces than there are to try.
LEMMA NextNonce ==
  ASSUME txs \in Seq(Tx), count \in Nat
  PROVE  nextNonce \in Nat
<1> DEFINE tried == count..(count + Len(txs))
           free  == {n \in tried : ~Pooled(n)}
<1>1. Len(txs) \in Nat /\ DOMAIN txs = 1..Len(txs) /\ tried \subseteq Nat
  OBVIOUS
<1>2. free # {}
  <2> SUFFICES ASSUME \A n \in tried : Pooled(n) PROVE FALSE
    OBVIOUS
  <2> DEFINE f == [n \in tried |-> CHOOSE t \in DOMAIN txs : txs[t].nonce = n]
  <2>1. \A n \in tried : f[n] \in 1..Len(txs) /\ txs[f[n]].nonce = n
    BY <1>1 DEF Pooled
  <2>2. /\ IsFiniteSet(tried) /\ Cardinality(tried) = Len(txs) + 1
        /\ IsFiniteSet(1..Len(txs)) /\ Cardinality(1..Len(txs)) = Len(txs)
    <3>1. count \in Int /\ count + Len(txs) \in Int /\ 1 \in Int /\ Len(txs) \in Int
      BY <1>1
    <3>2. /\ IsFiniteSet(tried)
          /\ Cardinality(tried) = IF count > count + Len(txs) THEN 0 ELSE (count + Len(txs)) - count + 1
      <4>1. \A b \in Int : /\ IsFiniteSet(count..b)
                           /\ Cardinality(count..b) = IF count > b THEN 0 ELSE b - count + 1
        BY <3>1, FS_Interval, Zenon
      <4> QED BY <3>1, <4>1
    <3>3. /\ IsFiniteSet(1..Len(txs))
          /\ Cardinality(1..Len(txs)) = IF 1 > Len(txs) THEN 0 ELSE Len(txs) - 1 + 1
      BY <3>1, FS_Interval, Zenon
    <3> HIDE DEF tried
    <3> QED BY <1>1, <3>2, <3>3
  <2>3. f \in [tried -> 1..Len(txs)]
    BY <2>1
  <2> HIDE DEF f, tried
  <2>4. \E x, y \in tried : x # y /\ f[x] = f[y]
    <3>1. Cardinality(1..Len(txs)) < Cardinality(tried)
      BY <1>1, <2>2
    <3> QED BY <2>2, <2>3, <3>1, FS_PigeonHole
  <2> QED BY <2>1, <2>4
<1>3. PICK n \in free : \A m \in free : n <= m
  BY <1>1, <1>2, LeastNat
<1>4. \A m \in count..(n - 1) : Pooled(m)
  BY <1>1, <1>3
<1> QED BY <1>1, <1>3, <1>4 DEF nextNonce

LEMMA StatusSet ==
  ASSUME NEW T \in Seq(Tx), NEW t \in DOMAIN T, NEW s \in Status,
         NEW U, U = [T EXCEPT ![t].status = s]
  PROVE  /\ U \in Seq(Tx) /\ DOMAIN U = DOMAIN T /\ Len(U) = Len(T)
         /\ U[t] = [T[t] EXCEPT !.status = s]
         /\ \A u \in DOMAIN T : u # t => U[u] = T[u]
<1>1. T[t] \in Tx /\ DOMAIN T = 1..Len(T) /\ Len(T) \in Nat
  OBVIOUS
<1>2. [T[t] EXCEPT !.status = s] \in Tx
  BY <1>1 DEF Tx
<1>3. U = [T EXCEPT ![t] = [T[t] EXCEPT !.status = s]]
  OBVIOUS
<1> DEFINE new == [T[t] EXCEPT !.status = s]
<1> HIDE DEF new
<1>4. U = [T EXCEPT ![t] = new] /\ new \in Tx
  BY <1>2, <1>3 DEF new
<1>5. /\ U \in Seq(Tx) /\ DOMAIN U = DOMAIN T /\ Len(U) = Len(T) /\ U[t] = new
      /\ \A u \in DOMAIN T : u # t => U[u] = T[u]
  BY <1>1, <1>4
<1> QED BY <1>5 DEF new

LEMMA Appended ==
  ASSUME NEW T \in Seq(Tx), NEW x \in Tx, NEW U, U = Append(T, x)
  PROVE  /\ U \in Seq(Tx) /\ Len(U) = Len(T) + 1 /\ Len(U) \in Nat \ {NoTx}
         /\ DOMAIN U = DOMAIN T \cup {Len(U)} /\ Len(U) \notin DOMAIN T
         /\ U[Len(U)] = x
         /\ \A t \in DOMAIN T : U[t] = T[t]
  BY DEF NoTx

\* What no step of the node or the chain can undo.
TxsMove(T, n, U, m) ==
  /\ U \in Seq(Tx) /\ m \in Nat /\ n <= m
  /\ DOMAIN T \subseteq DOMAIN U
  /\ \A t \in DOMAIN T :
       /\ U[t].nonce = T[t].nonce /\ U[t].kind = T[t].kind /\ U[t].ids = T[t].ids
       /\ T[t].status \in {"mined", "reverted"} => U[t].status = T[t].status
       /\ U[t].status = "mined" => T[t].status = "mined" \/ T[t].nonce >= n

LEMMA DeadForGood ==
  ASSUME NEW T \in Seq(Tx), NEW n \in Nat, NEW U, NEW m, TxsMove(T, n, U, m),
         NEW t \in DOMAIN T, Dead(T, n, t)
  PROVE  Dead(U, m, t)
<1>1. T[t] \in Tx
  OBVIOUS
<1>2. T[t].nonce \in Nat
  BY <1>1 DEF Tx
<1> QED BY <1>2 DEF Dead, TxsMove

----------------------------------------------------------------------------
(* BaseInv.                                                                *)

\* A step in which nothing is signed, sent or mined.
LEMMA QuietStep ==
  ASSUME BaseInv, UNCHANGED <<txs, count>>,
         rows' \in [Rows -> Row], procs' \in [Procs -> Locals],
         \A p \in Procs : \/ procs'[p] = procs[p]
                          \/ /\ LocalOK(txs, count, p, procs'[p])
                             /\ procs'[p].pc # "signed"
                             /\ procs'[p].pc \in Unsigned => procs[p].pc \in Unsigned \/ p \in Sweepers,
         RowsOK(txs, rows', procs')
  PROVE  BaseInv'
<1> USE DEF BaseInv
<1>1. Typed'
  BY DEF Typed
<1>2. \A p \in Procs : LocalOK(txs, count, p, procs'[p])
  OBVIOUS
<1>3. SignedApart(procs')
  BY DEF SignedApart
<1>4. PayoutsOK(txs, procs')
  <2>1. \A w \in Payouts : w \in Procs /\ w \notin Sweepers
    BY ActorsDiffer DEF Procs
  <2> QED BY <2>1 DEF PayoutsOK
<1> QED BY <1>1, <1>2, <1>3, <1>4

\* A process that stands still while the chain moves.
LEMMA LocalMoves ==
  ASSUME NEW T \in Seq(Tx), NEW n \in Nat, NEW U, NEW m, TxsMove(T, n, U, m),
         NEW p, NEW l \in Locals, LocalOK(T, n, p, l),
         l.pc = "signed" => U[l.tx].status = "signed",
         l.pc = "counting" => U[l.tx].status \notin {"mined", "reverted"}
  PROVE  LocalOK(U, m, p, l)
<1>1. \A t, ids : Carries(T, t, ids) => Carries(U, t, ids)
  BY DEF Carries, TxsMove
<1>2. \A t \in DOMAIN T : Dead(T, n, t) => Dead(U, m, t)
  BY DeadForGood
<1>3. l.pc \in Decided => OutcomeOK(U, m, l)
  BY <1>2 DEF LocalOK, OutcomeOK, Carries, TxsMove, Decided, Named
<1>4. l.pc \in Named => l.tx \in DOMAIN T /\ U[l.tx].kind = T[l.tx].kind
  BY DEF LocalOK, Carries, TxsMove
<1>5. l.tx # NoTx => l.tx \in DOMAIN U
  BY DEF LocalOK, TxsMove
<1>6. /\ l.pc \in Named => Carries(U, l.tx, l.ids)
      /\ \A b \in l.todo : Carries(U, b.tx, b.ids)
  BY <1>1 DEF LocalOK
<1>7. /\ p \in Sweepers => l.pc \in SweeperPcs
      /\ p \in Payouts => /\ l.pc \in PayoutPcs
                          /\ l.pc # "idle" => l.ids = {p}
                          /\ l.pc \in Named => U[l.tx].kind = "payout"
  BY <1>4 DEF LocalOK
<1> QED BY <1>3, <1>5, <1>6, <1>7 DEF LocalOK

\* A step of the node or the chain: only statuses and the nonce move.
LEMMA ChainStep ==
  ASSUME BaseInv, UNCHANGED <<rows, procs>>,
         TxsMove(txs, count, txs', count'), DOMAIN txs' = DOMAIN txs,
         \A t \in DOMAIN txs : txs[t].status = "signed" => txs'[t].status = "signed",
         \A p \in Procs : procs[p].pc = "counting" =>
                            txs'[procs[p].tx].status \notin {"mined", "reverted"}
  PROVE  BaseInv'
<1> USE DEF BaseInv
<1>1. Typed'
  BY DEF Typed, TxsMove
<1>2. ASSUME NEW p \in Procs PROVE LocalOK(txs', count', p, procs[p])
  <2>1. LocalOK(txs, count, p, procs[p]) /\ procs[p] \in Locals /\ txs \in Seq(Tx) /\ count \in Nat
    BY DEF Typed
  <2>2. procs[p].pc = "signed" => txs'[procs[p].tx].status = "signed"
    BY <2>1 DEF LocalOK, Carries, Named
  <2> QED BY <2>1, <2>2, LocalMoves
<1>3. PayoutsOK(txs', procs)
  BY DEF PayoutsOK, PayoutOf, TxsMove
<1>4. RowsOK(txs', rows, procs)
  BY DEF RowsOK, RowOK, Carries, TxsMove
<1> QED BY <1>1, <1>2, <1>3, <1>4

\* What a write of the store does to a row that is recorded.
Kept(old, new) ==
  /\ old.recorded => new.recorded
  /\ new.tx \in {old.tx, NoTx}
  /\ new.queued \in {old.queued, old.tx}

Resolved(row, to) ==
  CASE to = "confirmed" -> [row EXCEPT !.queued = row.tx]
    [] to = "void"      -> [row EXCEPT !.voided = TRUE]
    [] to = "owed"      -> [row EXCEPT !.tx = NoTx, !.leased = FALSE]
    [] OTHER            -> row

LEMMA ResolvedIsKept ==
  ASSUME NEW row \in Row, NEW to
  PROVE  Resolved(row, to) \in Row /\ Kept(row, Resolved(row, to))
<1>1. /\ [row EXCEPT !.queued = row.tx] \in Row /\ Kept(row, [row EXCEPT !.queued = row.tx])
      /\ [row EXCEPT !.voided = TRUE] \in Row /\ Kept(row, [row EXCEPT !.voided = TRUE])
      /\ [row EXCEPT !.tx = NoTx, !.leased = FALSE] \in Row
      /\ Kept(row, [row EXCEPT !.tx = NoTx, !.leased = FALSE])
      /\ Kept(row, row)
  BY DEF Row, Kept, NoTx
<1> QED BY <1>1 DEF Resolved

LEMMA ResolvedFields ==
  ASSUME NEW row \in Row, NEW to
  PROVE  /\ Resolved(row, to).recorded = row.recorded
         /\ Resolved(row, to).voided = (IF to = "void" THEN TRUE ELSE row.voided)
         /\ Resolved(row, to).tx = IF to = "owed" THEN NoTx ELSE row.tx
         /\ Resolved(row, to).queued = IF to = "confirmed" THEN row.tx ELSE row.queued
  BY DEF Resolved, Row

\* The writes of the store, row by row.
LEMMA Writes ==
  ASSUME rows \in [Rows -> Row], NEW ids
  PROVE  /\ \A to : resolveSent(ids, to) =>
              rows' = [r \in Rows |-> IF r \in ids THEN Resolved(rows[r], to) ELSE rows[r]]
         /\ takeOwed(ids) =>
              rows' = [r \in Rows |-> IF r \in ids THEN [rows[r] EXCEPT !.leased = TRUE] ELSE rows[r]]
         /\ releaseOwed(ids) =>
              rows' = [r \in Rows |-> IF r \in ids THEN [rows[r] EXCEPT !.leased = FALSE] ELSE rows[r]]
         /\ \A tx : markSent(ids, tx) =>
              rows' = [r \in Rows |-> IF r \in ids THEN [rows[r] EXCEPT !.tx = tx] ELSE rows[r]]
  BY DEF resolveSent, takeOwed, releaseOwed, markSent, Write, Resolved

LEMMA LeasesKept ==
  ASSUME NEW row \in Row, NEW b \in BOOLEAN
  PROVE  [row EXCEPT !.leased = b] \in Row /\ Kept(row, [row EXCEPT !.leased = b])
  BY DEF Row, Kept

\* Resolving, leasing and giving back leave every row well formed.
LEMMA WritesKeep ==
  ASSUME rows \in [Rows -> Row], NEW ids,
         \/ UNCHANGED rows
         \/ \E to : resolveSent(ids, to)
         \/ takeOwed(ids) \/ releaseOwed(ids)
         \/ \E r \in Rows : rows' = [rows EXCEPT ![r].leased = FALSE]
  PROVE  rows' \in [Rows -> Row] /\ \A r \in Rows : Kept(rows[r], rows'[r])
<1>0. \A r \in Rows : rows[r] \in Row
  OBVIOUS
<1>1. CASE UNCHANGED rows
  BY <1>1 DEF Kept
<1>2. ASSUME NEW to, resolveSent(ids, to) PROVE rows' \in [Rows -> Row] /\ \A r \in Rows : Kept(rows[r], rows'[r])
  <2>1. rows' = [r \in Rows |-> IF r \in ids THEN Resolved(rows[r], to) ELSE rows[r]]
    BY <1>2, Writes
  <2>2. \A r \in Rows : Resolved(rows[r], to) \in Row /\ Kept(rows[r], Resolved(rows[r], to))
    BY <1>0, ResolvedIsKept
  <2> QED BY <1>0, <2>1, <2>2 DEF Kept
<1>3. ASSUME takeOwed(ids) \/ releaseOwed(ids) PROVE rows' \in [Rows -> Row] /\ \A r \in Rows : Kept(rows[r], rows'[r])
  <2>1. PICK b \in BOOLEAN :
          rows' = [r \in Rows |-> IF r \in ids THEN [rows[r] EXCEPT !.leased = b] ELSE rows[r]]
    BY <1>3, Writes
  <2>2. \A r \in Rows : [rows[r] EXCEPT !.leased = b] \in Row /\ Kept(rows[r], [rows[r] EXCEPT !.leased = b])
    BY <1>0, LeasesKept
  <2> QED BY <1>0, <2>1, <2>2 DEF Kept
<1>4. ASSUME NEW q \in Rows, rows' = [rows EXCEPT ![q].leased = FALSE]
      PROVE  rows' \in [Rows -> Row] /\ \A r \in Rows : Kept(rows[r], rows'[r])
  <2>1. [rows[q] EXCEPT !.leased = FALSE] \in Row /\ Kept(rows[q], [rows[q] EXCEPT !.leased = FALSE])
    BY <1>0, LeasesKept
  <2>2. rows' = [rows EXCEPT ![q] = [rows[q] EXCEPT !.leased = FALSE]]
    BY <1>4
  <2> QED BY <1>0, <2>1, <2>2 DEF Kept
<1> QED BY <1>1, <1>2, <1>3, <1>4

LEMMA KeptRowsOK ==
  ASSUME BaseInv, UNCHANGED txs, rows' \in [Rows -> Row],
         \A r \in Rows : Kept(rows[r], rows'[r]),
         \A w \in Payouts : procs'[w].pc # "idle" => procs[w].pc # "idle"
  PROVE  RowsOK(txs, rows', procs')
<1>1. \A w \in Payouts : w \in Rows
  BY DEF Rows
<1>2. RowsOK(txs, rows, procs)
  BY DEF BaseInv
<1>3. \A r \in Rows : RowOK(txs, r, rows'[r])
  BY <1>2 DEF RowsOK, RowOK, Kept, Carries
<1> QED BY <1>1, <1>2, <1>3 DEF RowsOK, Kept

\* One process moves; nothing is signed, sent or mined.
LEMMA QuietLocal ==
  ASSUME BaseInv, UNCHANGED <<txs, count>>, NEW p \in Procs, NEW new, Go(p, new),
         new \in Locals, LocalOK(txs, count, p, new), new.pc # "signed",
         new.pc \in Unsigned => procs[p].pc \in Unsigned \/ p \in Sweepers,
         p \in Sweepers \/ procs[p].pc # "idle",
         rows' \in [Rows -> Row], \A r \in Rows : Kept(rows[r], rows'[r])
  PROVE  BaseInv'
<1>1. procs \in [Procs -> Locals]
  BY DEF BaseInv, Typed
<1>2. /\ procs' \in [Procs -> Locals] /\ procs'[p] = new
      /\ \A q \in Procs : q # p => procs'[q] = procs[q]
  BY <1>1 DEF Go
<1>3. \A w \in Payouts : procs'[w].pc # "idle" => procs[w].pc # "idle"
  BY <1>2, ActorsDiffer DEF Procs
<1>4. RowsOK(txs, rows', procs')
  BY <1>3, KeptRowsOK
<1> QED BY <1>2, <1>4, QuietStep

LEMMA BaseFacts ==
  ASSUME BaseInv, NEW p \in Procs
  PROVE  /\ rows \in [Rows -> Row] /\ procs \in [Procs -> Locals] /\ txs \in Seq(Tx) /\ count \in Nat
         /\ procs[p] \in Locals /\ LocalOK(txs, count, p, procs[p])
         /\ p \in Payouts => p \notin Sweepers
         /\ p \in Payouts \/ p \in Sweepers
  BY ActorsDiffer DEF BaseInv, Typed, Procs

LEMMA FreshOK ==
  ASSUME NEW p \in Procs
  PROVE  Fresh \in Locals /\ LocalOK(txs, count, p, Fresh)
  BY DEF Fresh, Locals, LocalOK, NoTx, PayoutPcs, SweeperPcs, Unsigned, Named, Decided, Outcomes

\* A row is written for the first time.
LEMMA RecordedOK ==
  ASSUME BaseInv, NEW r \in Rows, recordOwed(r), UNCHANGED txs,
         \A w \in Payouts : procs'[w].pc # "idle" => procs[w].pc # "idle" \/ w = r
  PROVE  rows' \in [Rows -> Row] /\ RowsOK(txs, rows', procs')
<1>1. rows \in [Rows -> Row] /\ RowsOK(txs, rows, procs)
  BY DEF BaseInv, Typed
<1>2. Recorded \in Row /\ Recorded.recorded /\ Recorded.tx = NoTx /\ Recorded.queued = NoTx
  BY DEF Recorded, Absent, Row, NoTx
<1> DEFINE new == Recorded
<1> HIDE DEF new
<1>3. /\ rows' \in [Rows -> Row] /\ rows'[r] = new
      /\ \A q \in Rows : q # r => rows'[q] = rows[q]
  <2>1. rows' = [rows EXCEPT ![r] = new] /\ new \in Row
    BY <1>2 DEF recordOwed, new
  <2> QED BY <1>1, <2>1
<1>4. new.recorded /\ new.tx = NoTx /\ new.queued = NoTx
  BY <1>2 DEF new
<1>5. \A q \in Rows : RowOK(txs, q, rows'[q])
  BY <1>1, <1>3, <1>4 DEF RowsOK, RowOK
<1>6. \A w \in Payouts : w \in Rows
  BY DEF Rows
<1>7. \A w \in Payouts : procs'[w].pc # "idle" => rows'[w].recorded
  BY <1>1, <1>3, <1>4, <1>6 DEF RowsOK
<1> QED BY <1>3, <1>5, <1>7 DEF RowsOK

LEMMA ChargeBase ==
  ASSUME BaseInv, NEW r \in Rows, Charge(r)
  PROVE  BaseInv'
<1>1. procs \in [Procs -> Locals]
  BY DEF BaseInv, Typed
<1>2. UNCHANGED <<procs, txs, count>> /\ recordOwed(r)
  BY DEF Charge
<1>3. rows' \in [Rows -> Row] /\ RowsOK(txs, rows', procs')
  BY <1>2, RecordedOK
<1> QED BY <1>1, <1>2, <1>3, QuietStep

LEMMA LeaseLapsesBase ==
  ASSUME BaseInv, NEW r \in Rows, LeaseLapses(r)
  PROVE  BaseInv'
<1> USE DEF LeaseLapses
<1>1. rows \in [Rows -> Row] /\ procs \in [Procs -> Locals]
  BY DEF BaseInv, Typed
<1>2. rows' \in [Rows -> Row] /\ \A q \in Rows : Kept(rows[q], rows'[q])
  BY <1>1, WritesKeep
<1>3. RowsOK(txs, rows', procs')
  BY <1>2, KeptRowsOK
<1> QED BY <1>1, <1>2, <1>3, QuietStep

LEMMA WithdrawBase ==
  ASSUME BaseInv, NEW p \in Payouts, Withdraw(p)
  PROVE  BaseInv'
<1> USE DEF Withdraw
<1> DEFINE new == [Fresh EXCEPT !.pc = "waiting", !.ids = {p}]
<1>1. p \in Procs /\ p \in Rows
  BY DEF Procs, Rows
<1>2. /\ rows \in [Rows -> Row] /\ procs \in [Procs -> Locals] /\ RowsOK(txs, rows, procs)
  BY DEF BaseInv, Typed
<1>4. rows' \in [Rows -> Row] /\ RowsOK(txs, rows', procs')
  <2>1. \A w \in Payouts : procs'[w].pc # "idle" => procs[w].pc # "idle" \/ w = p
    BY <1>1, <1>2 DEF Go, Procs
  <2> QED BY <1>1, <2>1, RecordedOK
<1>5. new \in Locals /\ LocalOK(txs, count, p, new) /\ new.pc = "waiting"
  <2>1. p \notin Sweepers
    BY ActorsDiffer
  <2> QED BY <1>1, <2>1 DEF Fresh, Locals, LocalOK, NoTx, PayoutPcs, SweeperPcs, Unsigned, Named, Decided, Outcomes
<1>6. procs[p].pc = "idle"
  BY DEF At
<1>7. procs' = [procs EXCEPT ![p] = new]
  BY DEF Go
<1> HIDE DEF new
<1>8. procs' \in [Procs -> Locals] /\ procs'[p] = new /\ \A q \in Procs : q # p => procs'[q] = procs[q]
  BY <1>1, <1>2, <1>5, <1>7
<1> QED BY <1>4, <1>5, <1>6, <1>8, QuietStep DEF Unsigned

LEMMA SweepBase ==
  ASSUME BaseInv, NEW s \in Sweepers, Sweep(s)
  PROVE  BaseInv'
<1> USE DEF Sweep
<1> DEFINE new == [Fresh EXCEPT !.pc = "resolving", !.todo = sentBatches]
<1>1. s \in Procs /\ s \notin Payouts
  BY ActorsDiffer DEF Procs
<1>2. rows \in [Rows -> Row] /\ RowsOK(txs, rows, procs)
  BY DEF BaseInv, Typed
<1>3. \A b \in sentBatches : b \in Batch /\ Carries(txs, b.tx, b.ids)
  BY <1>2 DEF sentBatches, Batch, Carries, RowsOK, RowOK, Row, Live
<1>4. new \in Locals /\ LocalOK(txs, count, s, new) /\ new.pc = "resolving"
  BY <1>1, <1>3 DEF Fresh, Locals, LocalOK, NoTx, PayoutPcs, SweeperPcs, Unsigned, Named, Decided, Outcomes
<1>5. rows' \in [Rows -> Row] /\ \A q \in Rows : Kept(rows[q], rows'[q])
  BY <1>2, WritesKeep
<1>6. Go(s, new)
  OBVIOUS
<1> HIDE DEF new
<1> QED BY <1>1, <1>4, <1>5, <1>6, QuietLocal DEF Unsigned

LEMMA ReadReceiptBase ==
  ASSUME BaseInv, NoFalseReads, NEW s \in Sweepers, ReadReceipt(s)
  PROVE  BaseInv'
<1> USE DEF ReadReceipt
<1>1. s \in Procs /\ s \notin Payouts
  BY ActorsDiffer DEF Procs
<1>2. /\ rows \in [Rows -> Row] /\ procs[s] \in Locals /\ LocalOK(txs, count, s, procs[s])
      /\ txs \in Seq(Tx)
  BY <1>1, BaseFacts
<1>3. rows' \in [Rows -> Row] /\ \A q \in Rows : Kept(rows[q], rows'[q])
  BY <1>2, WritesKeep
<1>4. PICK batch \in procs[s].todo :
        LET read == [procs[s] EXCEPT !.tx = batch.tx, !.ids = batch.ids,
                                     !.todo = procs[s].todo \ {batch}]
        IN  \/ /\ Executed(batch.tx)
               /\ Go(s, [read EXCEPT !.pc = "settling", !.outcome = txs[batch.tx].status])
            \/ /\ ~Executed(batch.tx)
               /\ Go(s, [read EXCEPT !.pc = "counting"])
  BY DEF NoFalseReads, Fault
<1>5. batch \in Batch /\ Carries(txs, batch.tx, batch.ids) /\ batch.tx \in DOMAIN txs
  BY <1>2 DEF LocalOK, Carries, Locals
<1> DEFINE read == [procs[s] EXCEPT !.tx = batch.tx, !.ids = batch.ids, !.todo = procs[s].todo \ {batch}]
           settling == [read EXCEPT !.pc = "settling", !.outcome = txs[batch.tx].status]
           counting == [read EXCEPT !.pc = "counting"]
<1>6. /\ read \in Locals /\ read.tx = batch.tx /\ read.ids = batch.ids
      /\ \A b \in read.todo : Carries(txs, b.tx, b.ids)
  BY <1>2, <1>5 DEF Locals, Batch, LocalOK
<1> HIDE DEF read
<1>7. CASE Executed(batch.tx) /\ Go(s, settling)
  <2>1. settling \in Locals /\ settling.pc = "settling"
    BY <1>6, <1>7 DEF Locals, Executed, Outcomes, SweeperPcs, Named
  <2>2. LocalOK(txs, count, s, settling)
    BY <1>1, <1>5, <1>6, <1>7, <2>1
       DEF Executed, LocalOK, OutcomeOK, Locals, Named, Decided, SweeperPcs
  <2> HIDE DEF settling
  <2> QED BY <1>1, <1>3, <1>7, <2>1, <2>2, QuietLocal DEF Unsigned
<1>8. CASE ~Executed(batch.tx) /\ Go(s, counting)
  <2>1. counting \in Locals /\ counting.pc = "counting"
    BY <1>6 DEF Locals, SweeperPcs, Named
  <2>2. LocalOK(txs, count, s, counting)
    BY <1>1, <1>5, <1>6, <1>8, <2>1
       DEF Executed, LocalOK, Locals, Named, Decided, SweeperPcs
  <2> HIDE DEF counting
  <2> QED BY <1>1, <1>3, <1>8, <2>1, <2>2, QuietLocal DEF Unsigned
<1> QED BY <1>4, <1>7, <1>8 DEF read

LEMMA ReadCountBase ==
  ASSUME BaseInv, NEW s \in Sweepers, ReadCount(s)
  PROVE  BaseInv'
<1> USE DEF ReadCount
<1>1. s \in Procs /\ s \notin Payouts
  BY ActorsDiffer DEF Procs
<1>2. /\ rows \in [Rows -> Row] /\ procs[s] \in Locals /\ LocalOK(txs, count, s, procs[s])
  BY <1>1, BaseFacts
<1>3. rows' \in [Rows -> Row] /\ \A q \in Rows : Kept(rows[q], rows'[q])
  BY <1>2, WritesKeep
<1> DEFINE outcome == IF count > txs[procs[s].tx].nonce THEN "never-mined" ELSE "unknown"
           new == [procs[s] EXCEPT !.pc = "settling", !.outcome = outcome]
<1>4. procs[s].pc = "counting" /\ txs[procs[s].tx].status # "mined" /\ procs[s].tx \in DOMAIN txs
  BY <1>2 DEF LocalOK, At, Carries, Named
<1>5. /\ outcome \in {"never-mined", "unknown"}
      /\ outcome = "never-mined" => Dead(txs, count, procs[s].tx)
  <2>1. txs[procs[s].tx] \in Tx /\ count \in Nat
    BY <1>1, <1>4, BaseFacts
  <2>2. txs[procs[s].tx].nonce \in Nat
    BY <2>1 DEF Tx
  <2> QED BY <1>4, <2>1, <2>2 DEF Dead
<1>6. Go(s, new)
  OBVIOUS
<1> HIDE DEF outcome
<1>7. new \in Locals /\ new.pc = "settling" /\ new.tx = procs[s].tx /\ new.outcome = outcome
  BY <1>2, <1>5 DEF Locals, Outcomes, SweeperPcs, Named
<1>8. LocalOK(txs, count, s, new)
  BY <1>1, <1>2, <1>4, <1>5, <1>7 DEF LocalOK, OutcomeOK, Locals, Named, Decided, SweeperPcs
<1> HIDE DEF new
<1> QED BY <1>1, <1>3, <1>6, <1>7, <1>8, QuietLocal DEF Unsigned

\* A process stops, or goes on to a place where its transaction is not used.
LEMMA PcUnnamed ==
  ASSUME BaseInv, NEW p \in Procs, procs[p].pc # "idle",
         NEW pc, \/ p \in Payouts /\ pc \in {"refused", "done", "dead"}
                 \/ p \in Sweepers /\ pc \in {"idle", "resolving"}
  PROVE  /\ [procs[p] EXCEPT !.pc = pc] \in Locals
         /\ LocalOK(txs, count, p, [procs[p] EXCEPT !.pc = pc])
         /\ [procs[p] EXCEPT !.pc = pc].pc = pc
<1>1. /\ procs[p] \in Locals /\ LocalOK(txs, count, p, procs[p])
      /\ p \in Payouts => p \notin Sweepers
  BY BaseFacts
<1> DEFINE new == [procs[p] EXCEPT !.pc = pc]
<1>2. /\ new \in Locals /\ new.pc = pc /\ new.ids = procs[p].ids /\ new.tx = procs[p].tx
      /\ new.todo = procs[p].todo
  BY <1>1 DEF Locals, PayoutPcs, SweeperPcs, Unsigned, Named
<1> HIDE DEF new
<1>3. LocalOK(txs, count, p, new)
  BY <1>1, <1>2 DEF LocalOK, PayoutPcs, SweeperPcs, Unsigned, Named, Decided
<1> QED BY <1>2, <1>3 DEF new

LEMMA SettleBase ==
  ASSUME BaseInv, NEW p \in Procs, Settle(p)
  PROVE  BaseInv'
<1> USE DEF Settle
<1> DEFINE new == [procs[p] EXCEPT !.pc = Then(p)]
<1>1. /\ rows \in [Rows -> Row] /\ procs[p] \in Locals /\ LocalOK(txs, count, p, procs[p])
      /\ p \in Payouts => p \notin Sweepers
      /\ p \in Payouts \/ p \in Sweepers
  BY BaseFacts
<1>2. rows' \in [Rows -> Row] /\ \A q \in Rows : Kept(rows[q], rows'[q])
  BY <1>1, WritesKeep
<1>3. procs[p].pc # "idle"
  BY DEF At
<1>4. \/ p \in Payouts /\ Then(p) \in {"refused", "done", "dead"}
      \/ p \in Sweepers /\ Then(p) \in {"idle", "resolving"}
  BY <1>1 DEF Then, Ended, At, LocalOK, PayoutPcs, Unsigned
<1>5. new \in Locals /\ LocalOK(txs, count, p, new) /\ new.pc = Then(p)
  BY <1>3, <1>4, PcUnnamed
<1>6. Go(p, new)
  OBVIOUS
<1> HIDE DEF new
<1> QED BY <1>1, <1>2, <1>3, <1>4, <1>5, <1>6, QuietLocal DEF Unsigned

LEMMA TakeBase ==
  ASSUME BaseInv, NEW s \in Sweepers, Take(s)
  PROVE  BaseInv'
<1>1. s \in Procs /\ s \notin Payouts
  BY ActorsDiffer DEF Procs
<1>2. rows \in [Rows -> Row]
  BY <1>1, BaseFacts
<1>3. PICK ids \in SUBSET Rows :
        /\ takeOwed(ids)
        /\ Go(s, IF ids = {} THEN Fresh ELSE [Fresh EXCEPT !.pc = "waiting", !.ids = ids])
  BY DEF Take
<1>4. rows' \in [Rows -> Row] /\ \A q \in Rows : Kept(rows[q], rows'[q])
  BY <1>2, <1>3, WritesKeep
<1> DEFINE new == IF ids = {} THEN Fresh ELSE [Fresh EXCEPT !.pc = "waiting", !.ids = ids]
<1>5. new \in Locals /\ LocalOK(txs, count, s, new) /\ new.pc # "signed"
  BY <1>1 DEF Fresh, Locals, LocalOK, NoTx, PayoutPcs, SweeperPcs, Unsigned, Named, Decided, Outcomes
<1>6. UNCHANGED <<txs, count>>
  BY DEF Take
<1> HIDE DEF new
<1>7. Go(s, new)
  BY <1>3 DEF new
<1> QED BY <1>1, <1>4, <1>5, <1>6, <1>7, QuietLocal

LEMMA AcquireBase ==
  ASSUME BaseInv, NEW p \in Procs, Acquire(p)
  PROVE  BaseInv'
<1> USE DEF Acquire
<1> DEFINE new == [procs[p] EXCEPT !.pc = "signing", !.nonce = nextNonce]
<1>1. /\ rows \in [Rows -> Row] /\ procs[p] \in Locals /\ LocalOK(txs, count, p, procs[p])
      /\ p \in Payouts => p \notin Sweepers
      /\ txs \in Seq(Tx) /\ count \in Nat
  BY BaseFacts
<1>2. rows' \in [Rows -> Row] /\ \A q \in Rows : Kept(rows[q], rows'[q])
  BY <1>1, WritesKeep
<1>3. procs[p].pc = "waiting"
  BY DEF At
<1>4. nextNonce \in Nat
  BY <1>1, NextNonce
<1>5. Go(p, new)
  OBVIOUS
<1>6. /\ new \in Locals /\ new.pc = "signing" /\ new.ids = procs[p].ids /\ new.tx = procs[p].tx
      /\ new.todo = procs[p].todo
  BY <1>1, <1>4 DEF Locals, PayoutPcs, SweeperPcs, Unsigned, Named
<1> HIDE DEF new
<1>7. LocalOK(txs, count, p, new)
  BY <1>1, <1>3, <1>6 DEF LocalOK, PayoutPcs, SweeperPcs, Unsigned, Named, Decided
<1> QED BY <1>1, <1>2, <1>3, <1>5, <1>6, <1>7, QuietLocal DEF Unsigned

LEMMA AwaitBase ==
  ASSUME BaseInv, NEW p \in Procs, Await(p)
  PROVE  BaseInv'
<1>1. /\ rows \in [Rows -> Row] /\ procs[p] \in Locals /\ LocalOK(txs, count, p, procs[p])
      /\ p \in Payouts => p \notin Sweepers
  BY BaseFacts
<1>2. rows' \in [Rows -> Row] /\ \A q \in Rows : Kept(rows[q], rows'[q])
  BY <1>1, WritesKeep DEF Await
<1>3. procs[p].pc = "sent" /\ UNCHANGED <<txs, count>>
  BY DEF At, Await
<1>4. PICK outcome \in {"mined", "reverted", "unknown"} :
        /\ outcome \in {"mined", "reverted"} => txs[procs[p].tx].status = outcome
        /\ Go(p, [procs[p] EXCEPT !.pc = "releasing", !.outcome = outcome])
  BY DEF Await, Executed
<1> DEFINE new == [procs[p] EXCEPT !.pc = "releasing", !.outcome = outcome]
<1>5. /\ new \in Locals /\ new.pc = "releasing" /\ new.ids = procs[p].ids /\ new.tx = procs[p].tx
      /\ new.todo = procs[p].todo /\ new.outcome = outcome
  BY <1>1 DEF Locals, PayoutPcs, SweeperPcs, Unsigned, Named, Outcomes
<1> HIDE DEF new
<1>6. Go(p, new)
  BY <1>4 DEF new
<1>7. LocalOK(txs, count, p, new)
  BY <1>1, <1>3, <1>4, <1>5 DEF LocalOK, OutcomeOK, PayoutPcs, SweeperPcs, Unsigned, Named, Decided
<1> QED BY <1>1, <1>2, <1>3, <1>5, <1>6, <1>7, QuietLocal DEF Unsigned

\* A throw is caught before or after the transaction was named.
LEMMA CaughtBase ==
  ASSUME BaseInv, UNCHANGED <<txs, count>>, NEW p \in Procs, Caught(p), procs[p].pc # "idle"
  PROVE  BaseInv'
<1>1. /\ rows \in [Rows -> Row]
      /\ p \in Payouts => p \notin Sweepers
      /\ p \in Payouts \/ p \in Sweepers
  BY BaseFacts
<1>2. rows' \in [Rows -> Row] /\ \A q \in Rows : Kept(rows[q], rows'[q])
  BY <1>1, WritesKeep DEF Caught
<1>3. CASE p \in Sweepers
  <2>1. Go(p, Fresh) /\ Fresh.pc = "idle"
    BY <1>3 DEF Caught, Fresh
  <2> QED BY <1>2, <1>3, <2>1, FreshOK, QuietLocal
<1>4. CASE p \notin Sweepers
  <2> DEFINE new == [procs[p] EXCEPT !.pc = "refused"]
  <2>1. new \in Locals /\ LocalOK(txs, count, p, new) /\ new.pc = "refused"
    BY <1>1, <1>4, PcUnnamed
  <2>2. Go(p, new)
    BY <1>4 DEF Caught
  <2> HIDE DEF new
  <2> QED BY <1>2, <2>1, <2>2, QuietLocal DEF Unsigned
<1> QED BY <1>3, <1>4

LEMMA RefuseBase ==
  ASSUME BaseInv, NEW p \in Procs, Refuse(p)
  PROVE  BaseInv'
<1>1. procs[p].pc # "idle" /\ Caught(p) /\ UNCHANGED <<txs, count>>
  BY DEF Refuse, At
<1> QED BY <1>1, CaughtBase

LEMMA ReleaseBase ==
  ASSUME BaseInv, NEW p \in Procs, Release(p)
  PROVE  BaseInv'
<1>1. procs[p].pc = "releasing" /\ UNCHANGED <<txs, count>>
  BY DEF Release, At
<1>2. CASE Caught(p)
  BY <1>1, <1>2, CaughtBase
<1>3. CASE Go(p, [procs[p] EXCEPT !.pc = "finishing"]) /\ UNCHANGED rows
  <2> DEFINE new == [procs[p] EXCEPT !.pc = "finishing"]
  <2>1. /\ rows \in [Rows -> Row] /\ procs[p] \in Locals /\ LocalOK(txs, count, p, procs[p])
        /\ p \in Payouts => p \notin Sweepers
    BY BaseFacts
  <2>2. rows' \in [Rows -> Row] /\ \A q \in Rows : Kept(rows[q], rows'[q])
    BY <1>3, <2>1, WritesKeep
  <2>3. /\ new \in Locals /\ new.pc = "finishing" /\ new.ids = procs[p].ids /\ new.tx = procs[p].tx
        /\ new.todo = procs[p].todo /\ new.outcome = procs[p].outcome
    BY <2>1 DEF Locals, PayoutPcs, SweeperPcs, Unsigned, Named, Outcomes
  <2>4. Go(p, new)
    BY <1>3
  <2> HIDE DEF new
  <2>5. LocalOK(txs, count, p, new)
    BY <1>1, <2>1, <2>3 DEF LocalOK, OutcomeOK, PayoutPcs, SweeperPcs, Unsigned, Named, Decided
  <2> QED BY <1>1, <2>1, <2>2, <2>3, <2>4, <2>5, QuietLocal DEF Unsigned
<1> QED BY <1>2, <1>3 DEF Release

LEMMA CrashBase ==
  ASSUME BaseInv, NEW p \in Procs, Crash(p)
  PROVE  BaseInv'
<1>1. procs[p].pc # "idle" /\ UNCHANGED <<rows, txs, count>>
  BY DEF Crash, Over
<1>2. /\ rows \in [Rows -> Row]
      /\ p \in Payouts => p \notin Sweepers
      /\ p \in Payouts \/ p \in Sweepers
  BY BaseFacts
<1>3. rows' \in [Rows -> Row] /\ \A q \in Rows : Kept(rows[q], rows'[q])
  BY <1>1, <1>2, WritesKeep
<1>4. CASE p \in Sweepers
  <2>1. Go(p, Fresh) /\ Fresh.pc = "idle"
    BY <1>4 DEF Crash, Fresh
  <2> QED BY <1>1, <1>3, <1>4, <2>1, FreshOK, QuietLocal
<1>5. CASE p \notin Sweepers
  <2> DEFINE new == [procs[p] EXCEPT !.pc = "dead"]
  <2>1. new \in Locals /\ LocalOK(txs, count, p, new) /\ new.pc = "dead"
    BY <1>1, <1>2, <1>5, PcUnnamed
  <2>2. Go(p, new)
    BY <1>5 DEF Crash
  <2> HIDE DEF new
  <2> QED BY <1>1, <1>3, <2>1, <2>2, QuietLocal DEF Unsigned
<1> QED BY <1>4, <1>5

LEMMA MineBase ==
  ASSUME BaseInv, NoFalseReads, NEW t \in DOMAIN txs, Mine(t)
  PROVE  /\ BaseInv' /\ TxsMove(txs, count, txs', count')
         /\ DOMAIN txs' = DOMAIN txs /\ \A u \in DOMAIN txs : u # t => txs'[u] = txs[u]
         /\ txs[t].nonce = count /\ txs[t].status \in {"pending", "lost"}
         /\ txs'[t].status \in {"mined", "reverted"}
<1>1. txs \in Seq(Tx) /\ count \in Nat /\ txs[t] \in Tx
  BY DEF BaseInv, Typed
<1>2. PICK result \in {"mined", "reverted"} :
        /\ Executes(t, result)
        /\ \A p \in Procs : procs[p].pc = "counting" => procs[p].tx # t
  BY DEF Mine, Fault, NoFalseReads
<1>3. /\ txs[t].nonce = count /\ txs[t].status \in {"pending", "lost"} /\ count' = count + 1
      /\ txs' = [txs EXCEPT ![t].status = result]
  BY <1>2 DEF Executes
<1>4. /\ txs' \in Seq(Tx) /\ DOMAIN txs' = DOMAIN txs
      /\ txs'[t] = [txs[t] EXCEPT !.status = result]
      /\ \A u \in DOMAIN txs : u # t => txs'[u] = txs[u]
  BY <1>1, <1>3, StatusSet DEF Status
<1>5. /\ txs'[t].nonce = txs[t].nonce /\ txs'[t].kind = txs[t].kind /\ txs'[t].ids = txs[t].ids
      /\ txs'[t].status = result
  BY <1>1, <1>4 DEF Tx
<1>6. TxsMove(txs, count, txs', count')
  BY <1>1, <1>3, <1>4, <1>5 DEF TxsMove
<1>7. \A u \in DOMAIN txs : txs[u].status = "signed" => txs'[u].status = "signed"
  BY <1>3, <1>4
<1>8. ASSUME NEW p \in Procs, procs[p].pc = "counting"
      PROVE  txs'[procs[p].tx].status \notin {"mined", "reverted"}
  <2>1. LocalOK(txs, count, p, procs[p])
    BY DEF BaseInv
  <2>2. procs[p].tx \in DOMAIN txs /\ txs[procs[p].tx].status \notin {"mined", "reverted"}
    BY <1>8, <2>1 DEF LocalOK, Carries, Named
  <2> QED BY <1>2, <1>4, <1>8, <2>2
<1>9. BaseInv'
  BY <1>4, <1>6, <1>7, <1>8, ChainStep DEF Mine
<1> QED BY <1>3, <1>4, <1>5, <1>6, <1>9

LEMMA DropBase ==
  ASSUME BaseInv, NEW t \in DOMAIN txs, Drop(t)
  PROVE  /\ BaseInv' /\ TxsMove(txs, count, txs', count')
         /\ DOMAIN txs' = DOMAIN txs /\ \A u \in DOMAIN txs : txs'[u].status = "mined" => txs[u].status = "mined"
<1>1. txs \in Seq(Tx) /\ count \in Nat /\ txs[t] \in Tx
  BY DEF BaseInv, Typed
<1>2. txs[t].status = "pending" /\ txs' = [txs EXCEPT ![t].status = "lost"] /\ UNCHANGED count
  BY DEF Drop, Forgotten
<1>4. /\ txs' \in Seq(Tx) /\ DOMAIN txs' = DOMAIN txs
      /\ txs'[t] = [txs[t] EXCEPT !.status = "lost"]
      /\ \A u \in DOMAIN txs : u # t => txs'[u] = txs[u]
  BY <1>1, <1>2, StatusSet DEF Status
<1>5. /\ txs'[t].nonce = txs[t].nonce /\ txs'[t].kind = txs[t].kind /\ txs'[t].ids = txs[t].ids
      /\ txs'[t].status = "lost"
  BY <1>1, <1>4 DEF Tx
<1>6. TxsMove(txs, count, txs', count')
  BY <1>1, <1>2, <1>4, <1>5 DEF TxsMove
<1>7. \A u \in DOMAIN txs : txs[u].status = "signed" => txs'[u].status = "signed"
  BY <1>2, <1>4
<1>8. ASSUME NEW p \in Procs, procs[p].pc = "counting"
      PROVE  txs'[procs[p].tx].status \notin {"mined", "reverted"}
  <2>1. LocalOK(txs, count, p, procs[p])
    BY DEF BaseInv
  <2>2. procs[p].tx \in DOMAIN txs /\ txs[procs[p].tx].status \notin {"mined", "reverted"}
    BY <1>8, <2>1 DEF LocalOK, Carries, Named
  <2> QED BY <1>4, <1>5, <2>2
<1>9. BaseInv'
  BY <1>4, <1>6, <1>7, <1>8, ChainStep DEF Drop
<1> QED BY <1>4, <1>5, <1>6, <1>9

LEMMA OtherTrafficBase ==
  ASSUME BaseInv, OtherTraffic
  PROVE  BaseInv' /\ TxsMove(txs, count, txs', count')
<1>1. txs \in Seq(Tx) /\ count \in Nat
  BY DEF BaseInv, Typed
<1>2. txs' = txs /\ count' = count + 1
  BY DEF OtherTraffic, Overtaken
<1>3. TxsMove(txs, count, txs', count')
  BY <1>1, <1>2 DEF TxsMove
<1>4. \A p \in Procs : procs[p].pc = "counting" => txs'[procs[p].tx].status \notin {"mined", "reverted"}
  BY <1>2 DEF BaseInv, LocalOK
<1> QED BY <1>2, <1>3, <1>4, ChainStep DEF OtherTraffic

\* What a signature changes: the transaction t is the newest, and only the
\* rows of p name it.
RecordFacts(p, t) ==
  /\ procs[p].pc = "signing" /\ UNCHANGED count
  /\ TxsMove(txs, count, txs', count)
  /\ t \notin DOMAIN txs /\ DOMAIN txs' = DOMAIN txs \cup {t} /\ t \in Nat \ {NoTx}
  /\ \A u \in DOMAIN txs : txs'[u] = txs[u]
  /\ txs'[t].kind = (IF p \in Sweepers THEN "batch" ELSE "payout")
  /\ txs'[t].ids = procs[p].ids /\ txs'[t].status = "signed"
  /\ procs' \in [Procs -> Locals]
  /\ procs'[p] = [procs[p] EXCEPT !.pc = "signed", !.tx = t]
  /\ \A q \in Procs : q # p => procs'[q] = procs[q]
  /\ rows' = [r \in Rows |-> IF r \in procs[p].ids THEN [rows[r] EXCEPT !.tx = t] ELSE rows[r]]

LEMMA RecordIs ==
  ASSUME BaseInv, NEW p \in Procs, Record(p)
  PROVE  \E t \in Nat : RecordFacts(p, t)
<1> DEFINE t == Len(txs')
           x == [nonce |-> procs[p].nonce, kind |-> IF p \in Sweepers THEN "batch" ELSE "payout",
                 ids |-> procs[p].ids, status |-> "signed"]
           new == [procs[p] EXCEPT !.pc = "signed", !.tx = t]
<1>1. /\ rows \in [Rows -> Row] /\ procs \in [Procs -> Locals] /\ txs \in Seq(Tx) /\ count \in Nat
      /\ procs[p] \in Locals
  BY BaseFacts
<1>2. x \in Tx
  BY <1>1 DEF Tx, Locals, Kinds, Status
<1>3. /\ txs' = Append(txs, x) /\ markSent(procs[p].ids, t) /\ procs' = [procs EXCEPT ![p] = new]
      /\ procs[p].pc = "signing" /\ UNCHANGED count
  BY DEF Record, Signed, Go, At
<1>4. x.kind = (IF p \in Sweepers THEN "batch" ELSE "payout") /\ x.ids = procs[p].ids /\ x.status = "signed"
  OBVIOUS
<1> HIDE DEF x
<1>5. /\ txs' \in Seq(Tx) /\ t \in Nat \ {NoTx} /\ t \notin DOMAIN txs
      /\ DOMAIN txs' = DOMAIN txs \cup {t} /\ txs'[t] = x
      /\ \A u \in DOMAIN txs : txs'[u] = txs[u]
  <2>1. /\ txs' \in Seq(Tx) /\ Len(txs') \in Nat \ {NoTx} /\ Len(txs') \notin DOMAIN txs
        /\ DOMAIN txs' = DOMAIN txs \cup {Len(txs')} /\ txs'[Len(txs')] = x
        /\ \A u \in DOMAIN txs : txs'[u] = txs[u]
    <3>1. txs \in Seq(Tx) /\ x \in Tx /\ txs' = Append(txs, x)
      BY <1>1, <1>2, <1>3
    <3>2. txs' \in Seq(Tx)
      BY ONLY <3>1, Appended
    <3>3. Len(txs') \in Nat \ {NoTx} /\ Len(txs') \notin DOMAIN txs
      BY ONLY <3>1, Appended
    <3>4. DOMAIN txs' = DOMAIN txs \cup {Len(txs')}
      BY ONLY <3>1, Appended
    <3>5. txs'[Len(txs')] = x /\ \A u \in DOMAIN txs : txs'[u] = txs[u]
      BY ONLY <3>1, Appended
    <3> QED BY <3>2, <3>3, <3>4, <3>5
  <2> QED BY <2>1
<1> HIDE DEF t
<1>6. TxsMove(txs, count, txs', count)
  BY <1>1, <1>5 DEF TxsMove
<1>7. new \in Locals
  BY <1>1, <1>5 DEF Locals, PayoutPcs
<1>8. rows' = [r \in Rows |-> IF r \in procs[p].ids THEN [rows[r] EXCEPT !.tx = t] ELSE rows[r]]
  <2>1. rows \in [Rows -> Row] /\ markSent(procs[p].ids, t)
    BY <1>1, <1>3
  <2> QED BY ONLY <2>1 DEF markSent, Write
<1>9. /\ procs' \in [Procs -> Locals] /\ procs'[p] = new
      /\ \A q \in Procs : q # p => procs'[q] = procs[q]
  <2> HIDE DEF new
  <2> QED BY <1>1, <1>3, <1>7
<1> QED BY <1>3, <1>4, <1>5, <1>6, <1>8, <1>9 DEF RecordFacts

LEMMA RecordBase ==
  ASSUME BaseInv, NEW p \in Procs, NEW t \in Nat, RecordFacts(p, t)
  PROVE  BaseInv'
<1> USE DEF RecordFacts
<1>1. /\ rows \in [Rows -> Row] /\ procs \in [Procs -> Locals] /\ txs \in Seq(Tx) /\ count \in Nat
      /\ procs[p] \in Locals /\ LocalOK(txs, count, p, procs[p])
      /\ p \in Payouts \/ p \in Sweepers
  BY BaseFacts
<1>2. /\ procs'[p].pc = "signed" /\ procs'[p].tx = t /\ procs'[p].ids = procs[p].ids
      /\ procs'[p].todo = procs[p].todo
  BY <1>1 DEF Locals
<1>3. p \in Payouts => p \notin Sweepers
  BY ActorsDiffer
<1>4. ASSUME NEW q \in Procs PROVE LocalOK(txs', count, q, procs'[q])
  <2>1. CASE q # p
    <3>1. procs[q] \in Locals /\ LocalOK(txs, count, q, procs[q])
      BY BaseFacts
    <3>2. /\ procs[q].pc = "signed" => txs'[procs[q].tx].status = "signed"
          /\ procs[q].pc = "counting" => txs'[procs[q].tx].status \notin {"mined", "reverted"}
      BY <3>1 DEF LocalOK, Carries, Named
    <3>3. LocalOK(txs', count, q, procs[q])
      BY <1>1, <3>1, <3>2, LocalMoves
    <3> QED BY <2>1, <3>3
  <2>2. CASE q = p
    <3>1. \A b \in procs[p].todo : Carries(txs', b.tx, b.ids)
      BY <1>1 DEF LocalOK, Carries
    <3>2. Carries(txs', t, procs[p].ids)
      BY DEF Carries
    <3> QED BY <1>1, <1>2, <1>3, <2>2, <3>1, <3>2
            DEF LocalOK, PayoutPcs, SweeperPcs, Unsigned, Named, Decided
  <2> QED BY <2>1, <2>2
<1>5. SignedApart(procs')
  <2>1. \A q \in Procs : procs[q].pc = "signed" => procs[q].tx \in DOMAIN txs
    BY DEF BaseInv, LocalOK, Carries, Named
  <2>2. SignedApart(procs)
    BY DEF BaseInv
  <2>3. ASSUME NEW q \in Procs, NEW o \in Procs, q # o,
               procs'[q].pc = "signed", procs'[o].pc = "signed", procs'[q].tx = procs'[o].tx
        PROVE  FALSE
    <3>1. CASE q = p
      BY <1>2, <2>1, <2>3, <3>1
    <3>2. CASE o = p
      BY <1>2, <2>1, <2>3, <3>2
    <3>3. CASE q # p /\ o # p
      BY <2>2, <2>3, <3>3 DEF SignedApart
    <3> QED BY <3>1, <3>2, <3>3
  <2> QED BY <2>3 DEF SignedApart
<1>6. PayoutsOK(txs', procs')
  <2>1. PayoutsOK(txs, procs)
    BY DEF BaseInv
  <2>2. p \in Payouts => txs'[t].ids = {p}
    BY <1>1 DEF LocalOK
  <2>3. \A w \in Payouts : w \in Procs /\ (procs[w].pc \notin Unsigned => procs'[w].pc \notin Unsigned)
    BY <1>2 DEF Procs, Unsigned
  <2>4. \A u \in DOMAIN txs : \A w \in Payouts : PayoutOf(txs', u, w) => procs[w].pc \notin Unsigned
    BY <2>1 DEF PayoutsOK, PayoutOf
  <2>5. \A w \in Payouts : PayoutOf(txs', t, w) => w = p
    BY <1>1, <1>3, <2>2 DEF PayoutOf
  <2>6. procs[p].pc \in Unsigned /\ procs'[p].pc \notin Unsigned
    BY <1>2 DEF Unsigned
  <2>7. \A u \in DOMAIN txs' : txs'[u].kind = "payout" =>
          \E w \in Payouts : txs'[u].ids = {w} /\ procs'[w].pc \notin Unsigned
    BY <1>1, <1>3, <2>1, <2>2, <2>3, <2>6 DEF PayoutsOK
  <2>8. \A u, v \in DOMAIN txs' : \A w \in Payouts :
          PayoutOf(txs', u, w) /\ PayoutOf(txs', v, w) => u = v
    <3>1. \A u, v \in DOMAIN txs : \A w \in Payouts :
            PayoutOf(txs', u, w) /\ PayoutOf(txs', v, w) => u = v
      BY <2>1 DEF PayoutsOK, PayoutOf
    <3> QED BY <2>4, <2>5, <2>6, <3>1
  <2> QED BY <2>7, <2>8 DEF PayoutsOK
<1>7. rows' \in [Rows -> Row]
  <2>1. \A r \in Rows : [rows[r] EXCEPT !.tx = t] \in Row
    <3> SUFFICES ASSUME NEW r \in Rows PROVE [rows[r] EXCEPT !.tx = t] \in Row
      OBVIOUS
    <3>1. rows[r] \in Row
      BY <1>1
    <3> HIDE DEF RecordFacts
    <3> QED BY <3>1 DEF Row
  <2> QED BY <1>1, <2>1
<1>8. RowsOK(txs', rows', procs')
  <2>1. RowsOK(txs, rows, procs)
    BY DEF BaseInv
  <2>2. ASSUME NEW r \in Rows PROVE RowOK(txs', r, rows'[r]) /\ rows'[r].recorded = rows[r].recorded
    <3>1. rows[r] \in Row /\ RowOK(txs, r, rows[r])
      BY <1>1, <2>1 DEF RowsOK
    <3>2. CASE r \in procs[p].ids
      <4>1. /\ rows'[r].tx = t /\ rows'[r].queued = rows[r].queued
            /\ rows'[r].recorded = rows[r].recorded
        BY <3>1, <3>2 DEF Row
      <4> QED BY <3>1, <3>2, <4>1 DEF RowOK, Carries
    <3>3. CASE r \notin procs[p].ids
      BY <3>1, <3>3 DEF RowOK, Carries
    <3> QED BY <3>2, <3>3
  <2>3. \A w \in Payouts : w \in Rows /\ w \in Procs /\ (procs'[w].pc # "idle" => procs[w].pc # "idle")
    BY <1>2 DEF Rows, Procs
  <2> QED BY <2>1, <2>2, <2>3 DEF RowsOK
<1>9. Typed'
  BY <1>1, <1>7 DEF Typed, TxsMove
<1> QED BY <1>4, <1>5, <1>6, <1>8, <1>9 DEF BaseInv

\* What a broadcast changes: the status of a transaction the node saw for the
\* first time, and where its process is.
LEMMA BroadcastIs ==
  ASSUME BaseInv, NEW p \in Procs, Broadcast(p)
  PROVE  /\ procs[p].pc = "signed" /\ procs[p].tx \in DOMAIN txs
         /\ UNCHANGED <<rows, count>>
         /\ TxsMove(txs, count, txs', count) /\ DOMAIN txs' = DOMAIN txs
         /\ txs'[procs[p].tx].status \in {"pending", "lost"}
         /\ \A u \in DOMAIN txs : u # procs[p].tx => txs'[u] = txs[u]
         /\ \E new \in Locals :
              /\ procs' = [procs EXCEPT ![p] = new]
              /\ new.ids = procs[p].ids /\ new.tx = procs[p].tx /\ new.todo = procs[p].todo
              /\ \/ new.pc = "sent"
                 \/ new.pc = "releasing" /\ new.outcome = "unknown"
<1> DEFINE t == procs[p].tx
<1>1. /\ txs \in Seq(Tx) /\ count \in Nat /\ procs[p] \in Locals /\ LocalOK(txs, count, p, procs[p])
  BY BaseFacts
<1>2. procs[p].pc = "signed" /\ UNCHANGED <<rows, count>>
  BY DEF Broadcast, At
<1>3. t \in DOMAIN txs /\ txs[t].status = "signed" /\ txs[t] \in Tx
  <2>1. t \in DOMAIN txs /\ txs[t].status = "signed"
    BY <1>1, <1>2 DEF LocalOK, Carries, Named
  <2> QED BY <1>1, <2>1
<1>4. PICK s \in {"pending", "lost"} : txs' = [txs EXCEPT ![t].status = s]
  BY DEF Broadcast, Sends
<1> HIDE DEF t
<1>5. /\ txs' \in Seq(Tx) /\ DOMAIN txs' = DOMAIN txs
      /\ txs'[t] = [txs[t] EXCEPT !.status = s]
      /\ \A u \in DOMAIN txs : u # t => txs'[u] = txs[u]
  BY <1>1, <1>3, <1>4, StatusSet DEF Status
<1>6. /\ txs'[t].nonce = txs[t].nonce /\ txs'[t].kind = txs[t].kind /\ txs'[t].ids = txs[t].ids
      /\ txs'[t].status = s
  BY <1>3, <1>5 DEF Tx
<1>7. TxsMove(txs, count, txs', count)
  BY <1>1, <1>3, <1>4, <1>5, <1>6 DEF TxsMove
<1> DEFINE sent == [procs[p] EXCEPT !.pc = "sent"]
           unseen == [procs[p] EXCEPT !.pc = "releasing", !.outcome = "unknown"]
<1>8. procs' = [procs EXCEPT ![p] = sent] \/ procs' = [procs EXCEPT ![p] = unseen]
  BY DEF Broadcast, Go
<1>9. /\ sent \in Locals /\ sent.ids = procs[p].ids /\ sent.tx = procs[p].tx /\ sent.todo = procs[p].todo
      /\ sent.pc = "sent"
      /\ unseen \in Locals /\ unseen.ids = procs[p].ids /\ unseen.tx = procs[p].tx
      /\ unseen.todo = procs[p].todo /\ unseen.pc = "releasing" /\ unseen.outcome = "unknown"
  BY <1>1 DEF Locals, PayoutPcs, Outcomes
<1> HIDE DEF sent, unseen
<1>10. \E new \in Locals :
         /\ procs' = [procs EXCEPT ![p] = new]
         /\ new.ids = procs[p].ids /\ new.tx = procs[p].tx /\ new.todo = procs[p].todo
         /\ \/ new.pc = "sent"
            \/ new.pc = "releasing" /\ new.outcome = "unknown"
  BY <1>8, <1>9
<1> QED BY <1>2, <1>3, <1>5, <1>6, <1>7, <1>10 DEF t

LEMMA BroadcastBase ==
  ASSUME BaseInv, NEW p \in Procs, Broadcast(p)
  PROVE  BaseInv'
<1>1. /\ rows \in [Rows -> Row] /\ procs \in [Procs -> Locals] /\ txs \in Seq(Tx) /\ count \in Nat
      /\ procs[p] \in Locals /\ LocalOK(txs, count, p, procs[p])
  BY BaseFacts
<1>2. /\ procs[p].pc = "signed" /\ procs[p].tx \in DOMAIN txs /\ UNCHANGED <<rows, count>>
      /\ TxsMove(txs, count, txs', count) /\ DOMAIN txs' = DOMAIN txs
      /\ txs'[procs[p].tx].status \in {"pending", "lost"}
      /\ \A u \in DOMAIN txs : u # procs[p].tx => txs'[u] = txs[u]
  BY BroadcastIs
<1>3. PICK new \in Locals :
        /\ procs' = [procs EXCEPT ![p] = new]
        /\ new.ids = procs[p].ids /\ new.tx = procs[p].tx /\ new.todo = procs[p].todo
        /\ \/ new.pc = "sent"
           \/ new.pc = "releasing" /\ new.outcome = "unknown"
  BY BroadcastIs
<1>4. /\ procs' \in [Procs -> Locals] /\ procs'[p] = new
      /\ \A q \in Procs : q # p => procs'[q] = procs[q]
  BY <1>1, <1>3
<1>5. SignedApart(procs)
  BY DEF BaseInv
<1>6. ASSUME NEW q \in Procs PROVE LocalOK(txs', count, q, procs'[q])
  <2>1. procs[q] \in Locals /\ LocalOK(txs, count, q, procs[q])
    BY BaseFacts
  <2>2. procs[q].pc \in Named => procs[q].tx \in DOMAIN txs
    BY <2>1 DEF LocalOK, Carries
  <2>3. procs[q].pc = "counting" => txs'[procs[q].tx].status \notin {"mined", "reverted"}
    BY <1>2, <2>1, <2>2 DEF LocalOK, Named
  <2>4. CASE q # p
    <3>1. procs[q].pc = "signed" => procs[q].tx # procs[p].tx
      BY <1>2, <1>5, <2>4 DEF SignedApart
    <3>2. procs[q].pc = "signed" => txs'[procs[q].tx].status = "signed"
      BY <1>2, <2>1, <2>2, <3>1 DEF LocalOK, Named
    <3>3. LocalOK(txs', count, q, procs[q])
      BY <1>1, <1>2, <2>1, <2>3, <3>2, LocalMoves
    <3> QED BY <1>4, <2>4, <3>3
  <2>5. CASE q = p
    <3>1. LocalOK(txs, count, p, new)
      BY <1>1, <1>2, <1>3 DEF LocalOK, OutcomeOK, PayoutPcs, SweeperPcs, Unsigned, Named, Decided
    <3>2. LocalOK(txs', count, p, new)
      BY <1>1, <1>2, <1>3, <3>1, LocalMoves
    <3> QED BY <1>4, <2>5, <3>2
  <2> QED BY <2>4, <2>5
<1>7. SignedApart(procs')
  BY <1>3, <1>4, <1>5 DEF SignedApart
<1>8. PayoutsOK(txs', procs')
  <2>1. PayoutsOK(txs, procs)
    BY DEF BaseInv
  <2>2. \A w \in Payouts : w \in Procs /\ (procs[w].pc \notin Unsigned => procs'[w].pc \notin Unsigned)
    BY <1>3, <1>4 DEF Procs, Unsigned
  <2> QED BY <1>2, <2>1, <2>2 DEF PayoutsOK, PayoutOf, TxsMove
<1>9. RowsOK(txs', rows', procs')
  <2>1. RowsOK(txs, rows, procs)
    BY DEF BaseInv
  <2>2. \A w \in Payouts : w \in Procs /\ (procs'[w].pc # "idle" => procs[w].pc # "idle")
    BY <1>2, <1>4 DEF Procs
  <2> QED BY <1>2, <2>1, <2>2 DEF RowsOK, RowOK, Carries, TxsMove
<1>10. Typed'
  BY <1>1, <1>2, <1>4 DEF Typed, TxsMove
<1> QED BY <1>2, <1>6, <1>7, <1>8, <1>9, <1>10 DEF BaseInv

\* Every step, as the chain sees it.
LEMMA TxsStep ==
  ASSUME BaseInv, NoFalseReads, [Next]_vars
  PROVE  TxsMove(txs, count, txs', count')
<1>1. txs \in Seq(Tx) /\ count \in Nat
  BY DEF BaseInv, Typed
<1>2. CASE UNCHANGED <<txs, count>>
  BY <1>1, <1>2 DEF TxsMove
<1>3. CASE \E t \in DOMAIN txs : Mine(t) \/ Drop(t)
  BY <1>3, MineBase, DropBase
<1>4. CASE OtherTraffic
  BY <1>4, OtherTrafficBase
<1>5. CASE \E p \in Procs : Record(p) \/ Broadcast(p)
  BY <1>5, RecordIs, BroadcastIs DEF RecordFacts
<1>6. CASE UNCHANGED vars
  BY <1>2, <1>6 DEF vars
<1>7. CASE \/ \E r \in Rows : Charge(r) \/ LeaseLapses(r)
           \/ \E w \in Payouts : Withdraw(w)
           \/ \E s \in Sweepers : Sweep(s) \/ SweepStep(s)
           \/ LockLapses
  BY <1>2, <1>7 DEF Charge, LeaseLapses, Withdraw, Sweep, SweepStep, ReadReceipt, ReadCount, Take, LockLapses
<1>8. CASE \E p \in Procs : Acquire(p) \/ Await(p) \/ Release(p) \/ Settle(p) \/ Refuse(p) \/ Crash(p)
  BY <1>2, <1>8 DEF Acquire, Await, Release, Settle, Refuse, Crash
<1> QED BY <1>3, <1>4, <1>5, <1>6, <1>7, <1>8 DEF Next, Step

LEMMA BaseInit ==
  ASSUME Init
  PROVE  BaseInv
<1>1. Fresh \in Locals /\ Fresh.pc = "idle"
  BY DEF Fresh, Locals, NoTx, PayoutPcs, SweeperPcs, Unsigned, Named, Outcomes
<1>2. Absent \in Row /\ Absent.tx = NoTx /\ Absent.queued = NoTx
  BY DEF Absent, Row, NoTx
<1>3. rows \in [Rows -> Row] /\ procs \in [Procs -> Locals] /\ txs = <<>> /\ count = 0
  BY <1>1, <1>2 DEF Init
<1>4. \A p \in Procs : LocalOK(txs, count, p, procs[p])
  BY FreshOK DEF Init
<1>5. SignedApart(procs) /\ PayoutsOK(txs, procs)
  BY <1>1, <1>3 DEF Init, SignedApart, PayoutsOK
<1>6. RowsOK(txs, rows, procs)
  BY <1>1, <1>2 DEF Init, RowsOK, RowOK, Procs
<1> QED BY <1>3, <1>4, <1>5, <1>6 DEF BaseInv, Typed

LEMMA BaseStep ==
  ASSUME BaseInv, NoFalseReads, [Next]_vars
  PROVE  BaseInv'
<1>1. ASSUME NEW r \in Rows, Charge(r) \/ LeaseLapses(r) PROVE BaseInv'
  BY <1>1, ChargeBase, LeaseLapsesBase
<1>2. ASSUME NEW w \in Payouts, Withdraw(w) PROVE BaseInv'
  BY <1>2, WithdrawBase
<1>3. ASSUME NEW s \in Sweepers, Sweep(s) \/ SweepStep(s) PROVE BaseInv'
  BY <1>3, SweepBase, ReadReceiptBase, ReadCountBase, TakeBase DEF SweepStep
<1>4. ASSUME NEW p \in Procs, Step(p) \/ Crash(p) PROVE BaseInv'
  <2>1. CASE Record(p)
    BY <2>1, RecordIs, RecordBase
  <2> QED BY <1>4, <2>1, AcquireBase, BroadcastBase, AwaitBase, ReleaseBase, SettleBase, RefuseBase, CrashBase
          DEF Step
<1>5. ASSUME NEW t \in DOMAIN txs, Mine(t) \/ Drop(t) PROVE BaseInv'
  BY <1>5, MineBase, DropBase
<1>6. CASE OtherTraffic
  BY <1>6, OtherTrafficBase
<1>7. CASE UNCHANGED <<rows, procs, txs, count>>
  BY <1>7 DEF BaseInv, Typed
<1>8. LockLapses \/ UNCHANGED vars => UNCHANGED <<rows, procs, txs, count>>
  BY DEF LockLapses, vars
<1> QED BY <1>1, <1>2, <1>3, <1>4, <1>5, <1>6, <1>7, <1>8 DEF Next

----------------------------------------------------------------------------
(* Withdrawals: what was paid stays charged, and a refusal is the truth.   *)

\* The lock is given back when the code says so.
NoLostRelease == "release" \notin Faults

\* A charge is void only once its payout cannot be mined, and a refusal is
\* given only once it is known to have reverted or was never signed.
WithdrawalOK(T, n, w, l, row) ==
  /\ row.voided => /\ l.pc \notin Unsigned
                   /\ \A t \in DOMAIN T : PayoutOf(T, t, w) => Dead(T, n, t)
  /\ l.pc = "refused" => \A t \in DOMAIN T : PayoutOf(T, t, w) => T[t].status = "reverted"

PayoutsInv ==
  /\ BaseInv
  /\ \A w \in Payouts : WithdrawalOK(txs, count, w, procs[w], rows[w])

\* A step that neither voids nor refuses w.
Mild(w) ==
  /\ rows'[w].voided => rows[w].voided
  /\ procs'[w].pc \in Unsigned => procs[w].pc \in Unsigned
  /\ procs'[w].pc = "refused" => procs[w].pc = "refused"

\* A payout that was not there before is one of a withdrawal that had none.
NewPayouts ==
  \A t \in DOMAIN txs' : \A w \in Payouts :
    PayoutOf(txs', t, w) =>
      t \in DOMAIN txs \/ (procs[w].pc \in Unsigned /\ procs'[w].pc # "refused")

LEMMA MildStep ==
  ASSUME PayoutsInv, TxsMove(txs, count, txs', count'), NewPayouts, NEW w \in Payouts, Mild(w)
  PROVE  WithdrawalOK(txs', count', w, procs'[w], rows'[w])
<1>1. WithdrawalOK(txs, count, w, procs[w], rows[w]) /\ txs \in Seq(Tx) /\ count \in Nat
  BY DEF PayoutsInv, BaseInv, Typed
<1>2. \A t \in DOMAIN txs : /\ PayoutOf(txs', t, w) => PayoutOf(txs, t, w)
                            /\ txs[t].status = "reverted" => txs'[t].status = "reverted"
                            /\ Dead(txs, count, t) => Dead(txs', count', t)
  BY <1>1, DeadForGood DEF TxsMove, PayoutOf
<1>3. ASSUME rows'[w].voided
      PROVE  /\ procs'[w].pc \notin Unsigned
             /\ \A t \in DOMAIN txs' : PayoutOf(txs', t, w) => Dead(txs', count', t)
  BY <1>1, <1>2, <1>3 DEF WithdrawalOK, Mild, NewPayouts
<1>4. ASSUME procs'[w].pc = "refused", NEW t \in DOMAIN txs', PayoutOf(txs', t, w)
      PROVE  txs'[t].status = "reverted"
  BY <1>1, <1>2, <1>4 DEF WithdrawalOK, Mild, NewPayouts
<1> QED BY <1>3, <1>4 DEF WithdrawalOK

\* A withdrawal that has not signed has no payout, and one that has has one.
LEMMA PayoutsOf ==
  ASSUME BaseInv, NEW w \in Payouts
  PROVE  /\ procs[w].pc \in Unsigned => \A t \in DOMAIN txs : ~PayoutOf(txs, t, w)
         /\ \A t, u \in DOMAIN txs : PayoutOf(txs, t, w) /\ PayoutOf(txs, u, w) => t = u
  BY DEF BaseInv, PayoutsOK, PayoutOf

LEMMA SettlePayouts ==
  ASSUME PayoutsInv, NEW p \in Procs, Settle(p), NEW w \in Payouts
  PROVE  WithdrawalOK(txs, count, w, procs'[w], rows'[w])
<1> DEFINE l == procs[p]
           ids == l.ids
<1>1. /\ BaseInv /\ rows \in [Rows -> Row] /\ procs \in [Procs -> Locals] /\ LocalOK(txs, count, p, l)
      /\ txs \in Seq(Tx)
  BY BaseFacts DEF PayoutsInv
<1>2. WithdrawalOK(txs, count, w, procs[w], rows[w])
  BY DEF PayoutsInv
<1>3. w \in Procs /\ w \in Rows /\ w \notin Sweepers
  BY ActorsDiffer DEF Procs, Rows
<1>4. /\ l.pc \in {"settling", "finishing"}
      /\ procs' = [procs EXCEPT ![p] = [procs[p] EXCEPT !.pc = Then(p)]]
      /\ resolveSent(ids, Verdict(p))
  BY DEF Settle, At, Go
<1>5. Carries(txs, l.tx, ids) /\ OutcomeOK(txs, count, l)
  BY <1>1, <1>4 DEF LocalOK, Named, Decided
<1>6. rows' = [r \in Rows |-> IF r \in ids THEN Resolved(rows[r], Verdict(p)) ELSE rows[r]]
  <2> HIDE DEF ids
  <2> QED BY ONLY <1>4 DEF resolveSent, Write, Resolved
<1>7. rows[w] \in Row
  BY <1>1, <1>3
<1>8. rows'[w].voided => rows[w].voided \/ (w \in ids /\ Verdict(p) = "void")
  <2> HIDE DEF ids
  <2>1. Resolved(rows[w], Verdict(p)).voided = (IF Verdict(p) = "void" THEN TRUE ELSE rows[w].voided)
    BY ONLY <1>7, ResolvedFields
  <2>2. rows'[w] = IF w \in ids THEN Resolved(rows[w], Verdict(p)) ELSE rows[w]
    BY ONLY <1>3, <1>6
  <2>3. w \in ids /\ Verdict(p) # "void" => rows'[w].voided = rows[w].voided
    BY ONLY <2>1, <2>2
  <2>4. w \notin ids => rows'[w].voided = rows[w].voided
    BY ONLY <2>2
  <2> QED BY ONLY <2>3, <2>4, Zenon
<1>9. procs'[w].pc = (IF w = p THEN Then(p) ELSE procs[w].pc)
  BY <1>1, <1>3, <1>4 DEF Locals
<1>10. w = p => Then(p) \in {"refused", "done"} /\ (Then(p) = "refused" => l.outcome = "reverted")
  BY <1>1, <1>3, <1>4 DEF Then, Ended, At, LocalOK, PayoutPcs, Unsigned
<1>11. CASE rows'[w].voided /\ ~rows[w].voided
  <2>1. w \in ids /\ Verdict(p) = "void"
    BY <1>8, <1>11
  <2>2. txs[l.tx].kind = "payout" /\ l.outcome \notin {"unknown", "mined"}
    BY <2>1 DEF Verdict, Payout, Mined
  <2>3. PayoutOf(txs, l.tx, w) /\ l.tx \in DOMAIN txs
    BY <1>5, <2>1, <2>2 DEF PayoutOf, Carries
  <2>4. l.outcome \in Outcomes
    BY <1>1 DEF Locals
  <2>5. Dead(txs, count, l.tx)
    BY <1>5, <2>2, <2>4 DEF OutcomeOK, Dead, Outcomes
  <2>6. \A t \in DOMAIN txs : PayoutOf(txs, t, w) => t = l.tx
    BY <1>1, <2>3, PayoutsOf
  <2>7. procs[w].pc \notin Unsigned
    BY <1>1, <2>3, PayoutsOf
  <2>8. procs'[w].pc \notin Unsigned
    BY <1>9, <1>10, <2>7 DEF Unsigned
  <2>9. procs'[w].pc = "refused" => \A t \in DOMAIN txs : PayoutOf(txs, t, w) => txs[t].status = "reverted"
    BY <1>2, <1>5, <1>9, <1>10, <2>6 DEF OutcomeOK, WithdrawalOK
  <2> QED BY <2>5, <2>6, <2>8, <2>9 DEF WithdrawalOK
<1>12. CASE ~(rows'[w].voided /\ ~rows[w].voided)
  <2>1. w = p => PayoutOf(txs, l.tx, w) /\ l.tx \in DOMAIN txs
    BY <1>1, <1>4, <1>5 DEF LocalOK, Named, PayoutOf, Carries
  <2>2. w = p /\ Then(p) = "refused" => \A t \in DOMAIN txs : PayoutOf(txs, t, w) => txs[t].status = "reverted"
    BY <1>1, <1>5, <1>10, <2>1, PayoutsOf DEF OutcomeOK
  <2>3. procs'[w].pc \in Unsigned => procs[w].pc \in Unsigned
    BY <1>9, <1>10 DEF Unsigned
  <2> QED BY <1>2, <1>9, <1>12, <2>2, <2>3 DEF WithdrawalOK
<1> QED BY <1>11, <1>12

\* A withdrawal whose locked step throws before it signed is void, refused
\* and never paid.
LEMMA CaughtPayouts ==
  ASSUME PayoutsInv, UNCHANGED <<txs, count>>, NEW p \in Procs, Caught(p),
         procs[p].pc \in {"waiting", "signing"}, NEW w \in Payouts
  PROVE  WithdrawalOK(txs, count, w, procs'[w], rows'[w])
<1>1. /\ BaseInv /\ rows \in [Rows -> Row] /\ procs \in [Procs -> Locals] /\ LocalOK(txs, count, p, procs[p])
      /\ p \in Payouts \/ p \in Sweepers
  BY BaseFacts DEF PayoutsInv
<1>2. WithdrawalOK(txs, count, w, procs[w], rows[w])
  BY DEF PayoutsInv
<1>3. w \in Procs /\ w \in Rows /\ w \notin Sweepers /\ rows[w] \in Row
  BY <1>1, ActorsDiffer DEF Procs, Rows
<1>4. CASE p = w
  <2>1. \A t \in DOMAIN txs : ~PayoutOf(txs, t, w)
    BY <1>1, <1>4, PayoutsOf DEF Unsigned
  <2>2. procs'[w].pc = "refused"
    BY <1>1, <1>3, <1>4 DEF Caught, Go, Locals
  <2> QED BY <2>1, <2>2 DEF WithdrawalOK, Unsigned
<1>5. CASE p # w
  <2>1. procs'[w] = procs[w]
    BY <1>1, <1>3, <1>5 DEF Caught, Go
  <2>2. CASE p \in Sweepers
    <3>1. releaseOwed(procs[p].ids)
      BY <2>2 DEF Caught
    <3>2. rows' = [r \in Rows |-> IF r \in procs[p].ids THEN [rows[r] EXCEPT !.leased = FALSE] ELSE rows[r]]
      BY ONLY <3>1 DEF releaseOwed, Write
    <3>3. rows'[w].voided = rows[w].voided
      BY <1>3, <3>2 DEF Row
    <3> QED BY <1>2, <2>1, <3>3 DEF WithdrawalOK
  <2>3. CASE p \notin Sweepers
    <3>1. procs[p].ids = {p} /\ resolveSent(procs[p].ids, "void")
      BY <1>1, <2>3 DEF Caught, LocalOK
    <3>2. rows' = [r \in Rows |-> IF r \in procs[p].ids THEN Resolved(rows[r], "void") ELSE rows[r]]
      BY ONLY <3>1 DEF resolveSent, Write, Resolved
    <3>3. rows'[w] = rows[w]
      BY <1>3, <1>5, <3>1, <3>2
    <3> QED BY <1>2, <2>1, <3>3
  <2> QED BY <2>2, <2>3
<1> QED BY <1>4, <1>5

\* The steps of a process that stay mild, whoever's row is looked at.
LEMMA MildLocal ==
  ASSUME BaseInv, NEW p \in Procs, NEW new, Go(p, new),
         p \in Sweepers \/ (/\ new.pc \in Unsigned => procs[p].pc \in Unsigned
                           /\ new.pc # "refused"),
         NEW w \in Payouts, rows'[w].voided => rows[w].voided
  PROVE  Mild(w)
<1>1. procs \in [Procs -> Locals] /\ w \in Procs /\ w \notin Sweepers
  BY ActorsDiffer DEF Procs, BaseInv, Typed
<1>2. procs'[w] = IF w = p THEN new ELSE procs[w]
  BY <1>1 DEF Go
<1> QED BY <1>1, <1>2 DEF Mild

LEMMA PayoutsInit ==
  ASSUME Init
  PROVE  PayoutsInv
<1>1. \A w \in Payouts : ~rows[w].voided /\ procs[w].pc = "idle"
  BY DEF Init, Absent, Fresh, Rows, Procs
<1> QED BY <1>1, BaseInit DEF PayoutsInv, WithdrawalOK

LEMMA PayoutsStep ==
  ASSUME PayoutsInv, NoFalseReads, NoLostRelease, [Next]_vars
  PROVE  PayoutsInv'
<1>1. BaseInv /\ BaseInv' /\ TxsMove(txs, count, txs', count')
  BY BaseStep, TxsStep DEF PayoutsInv
<1> SUFFICES ASSUME NEW w \in Payouts
             PROVE  WithdrawalOK(txs', count', w, procs'[w], rows'[w])
  BY <1>1 DEF PayoutsInv
<1>2. w \in Rows /\ w \in Procs /\ w \notin Sweepers /\ w \notin Charges
  BY ActorsDiffer DEF Rows, Procs
<1>3. rows \in [Rows -> Row] /\ procs \in [Procs -> Locals] /\ rows[w] \in Row
  BY <1>1, <1>2 DEF BaseInv, Typed
<1>4. DOMAIN txs' = DOMAIN txs => NewPayouts
  BY DEF NewPayouts
<1>5. CASE UNCHANGED <<rows, procs, txs, count>>
  BY <1>5 DEF PayoutsInv
<1>6. ASSUME NEW r \in Rows, Charge(r) \/ LeaseLapses(r)
      PROVE  WithdrawalOK(txs', count', w, procs'[w], rows'[w])
  <2>1. UNCHANGED <<procs, txs, count>>
    BY <1>6 DEF Charge, LeaseLapses
  <2>2. rows'[w].voided => rows[w].voided
    <3>1. CASE Charge(r)
      BY <1>2, <1>3, <3>1 DEF Charge, recordOwed
    <3>2. CASE LeaseLapses(r)
      <4>1. rows' = [rows EXCEPT ![r] = [rows[r] EXCEPT !.leased = FALSE]]
        BY <3>2 DEF LeaseLapses
      <4> QED BY <1>2, <1>3, <4>1 DEF Row
    <3> QED BY <1>6, <3>1, <3>2
  <2> QED BY <1>1, <1>4, <2>1, <2>2, MildStep DEF Mild
<1>7. ASSUME NEW p \in Payouts, Withdraw(p)
      PROVE  WithdrawalOK(txs', count', w, procs'[w], rows'[w])
  <2> DEFINE new == [Fresh EXCEPT !.pc = "waiting", !.ids = {p}]
  <2>1. p \in Procs /\ p \in Rows /\ procs[p].pc = "idle" /\ Go(p, new) /\ recordOwed(p) /\ UNCHANGED <<txs, count>>
    BY <1>7 DEF Withdraw, At, Procs, Rows
  <2>2. new.pc = "waiting"
    BY DEF Fresh
  <2> HIDE DEF new
  <2>3. rows'[w].voided => rows[w].voided
    <3>1. ~Recorded.voided
      BY DEF Recorded, Absent
    <3> QED BY <1>2, <1>3, <2>1, <3>1 DEF recordOwed
  <2>4. Mild(w)
    BY <1>1, <2>1, <2>2, <2>3, MildLocal DEF Unsigned
  <2> QED BY <1>1, <1>4, <2>1, <2>4, MildStep
<1>8. ASSUME NEW s \in Sweepers, Sweep(s) \/ SweepStep(s)
      PROVE  WithdrawalOK(txs', count', w, procs'[w], rows'[w])
  <2>1. UNCHANGED <<txs, count>> /\ \E new : Go(s, new)
    BY <1>8 DEF Sweep, SweepStep, ReadReceipt, ReadCount, Take
  <2>2. rows'[w].voided => rows[w].voided
    <3>1. CASE UNCHANGED rows
      BY <3>1
    <3>2. CASE Take(s)
      <4>1. PICK ids : takeOwed(ids)
        BY <3>2 DEF Take
      <4>2. rows' = [r \in Rows |-> IF r \in ids THEN [rows[r] EXCEPT !.leased = TRUE] ELSE rows[r]]
        BY ONLY <4>1 DEF takeOwed, Write
      <4> QED BY <1>2, <1>3, <4>2 DEF Row
    <3> QED BY <1>8, <3>1, <3>2 DEF Sweep, SweepStep, ReadReceipt, ReadCount
  <2>3. Mild(w)
    BY <1>1, <2>1, <2>2, MildLocal DEF Procs
  <2> QED BY <1>1, <1>4, <2>1, <2>3, MildStep
<1>9. ASSUME NEW p \in Procs, Step(p) \/ Crash(p)
      PROVE  WithdrawalOK(txs', count', w, procs'[w], rows'[w])
  <2>0. procs[p] \in Locals
    BY <1>3
  <2>1. CASE Settle(p)
    <3>1. UNCHANGED <<txs, count>>
      BY <2>1 DEF Settle
    <3> QED BY <2>1, <3>1, SettlePayouts
  <2>2. CASE Refuse(p)
    <3>1. UNCHANGED <<txs, count>> /\ Caught(p) /\ procs[p].pc \in {"waiting", "signing"}
      BY <2>2 DEF Refuse, At
    <3> QED BY <3>1, CaughtPayouts
  <2>3. CASE Acquire(p)
    <3>1. /\ Go(p, [procs[p] EXCEPT !.pc = "signing", !.nonce = nextNonce]) /\ procs[p].pc = "waiting"
          /\ UNCHANGED <<rows, txs, count>>
      BY <2>3 DEF Acquire, At
    <3>2. [procs[p] EXCEPT !.pc = "signing", !.nonce = nextNonce].pc = "signing"
      BY <2>0 DEF Locals
    <3>3. Mild(w)
      BY <1>1, <3>1, <3>2, MildLocal DEF Unsigned
    <3> QED BY <1>1, <1>4, <3>1, <3>3, MildStep
  <2>4. CASE Await(p)
    <3>1. PICK outcome : Go(p, [procs[p] EXCEPT !.pc = "releasing", !.outcome = outcome])
      BY <2>4 DEF Await
    <3>2. [procs[p] EXCEPT !.pc = "releasing", !.outcome = outcome].pc = "releasing"
      BY <2>0 DEF Locals
    <3>3. UNCHANGED <<rows, txs, count>>
      BY <2>4 DEF Await
    <3>4. Mild(w)
      BY <1>1, <3>1, <3>2, <3>3, MildLocal DEF Unsigned
    <3> QED BY <1>1, <1>4, <3>3, <3>4, MildStep
  <2>5. CASE Release(p)
    <3>1. Go(p, [procs[p] EXCEPT !.pc = "finishing"]) /\ UNCHANGED <<rows, txs, count>>
      BY <2>5 DEF Release, Fault, NoLostRelease
    <3>2. [procs[p] EXCEPT !.pc = "finishing"].pc = "finishing"
      BY <2>0 DEF Locals
    <3>3. Mild(w)
      BY <1>1, <3>1, <3>2, MildLocal DEF Unsigned
    <3> QED BY <1>1, <1>4, <3>1, <3>3, MildStep
  <2>6. CASE Crash(p)
    <3>1. PICK new : Go(p, new) /\ (p \in Sweepers \/ new.pc = "dead")
      <4>1. [procs[p] EXCEPT !.pc = "dead"].pc = "dead"
        BY <2>0 DEF Locals
      <4> QED BY <2>6, <4>1 DEF Crash
    <3>2. UNCHANGED <<rows, txs, count>>
      BY <2>6 DEF Crash
    <3>3. Mild(w)
      BY <1>1, <3>1, <3>2, MildLocal DEF Unsigned
    <3> QED BY <1>1, <1>4, <3>2, <3>3, MildStep
  <2>7. CASE Broadcast(p)
    <3>1. PICK new : procs' = [procs EXCEPT ![p] = new] /\ new.pc \in {"sent", "releasing"}
      BY <1>1, <2>7, BroadcastIs
    <3>2. UNCHANGED rows /\ DOMAIN txs' = DOMAIN txs
      BY <1>1, <2>7, BroadcastIs
    <3>3. Mild(w)
      BY <1>1, <3>1, <3>2, MildLocal DEF Unsigned, Go
    <3> QED BY <1>1, <1>4, <3>2, <3>3, MildStep
  <2>8. CASE Record(p)
    <3>1. PICK t \in Nat : RecordFacts(p, t)
      BY <1>1, <2>8, RecordIs
    <3>2. rows'[w].voided => rows[w].voided
      <4>1. rows' = [r \in Rows |-> IF r \in procs[p].ids THEN [rows[r] EXCEPT !.tx = t] ELSE rows[r]]
        BY <3>1 DEF RecordFacts
      <4> QED BY <1>2, <1>3, <4>1 DEF Row
    <3>3. procs'[p].pc = "signed" /\ procs[p].pc = "signing" /\ \A q \in Procs : q # p => procs'[q] = procs[q]
      BY <2>0, <3>1 DEF RecordFacts, Locals
    <3>4. Mild(w)
      BY <1>2, <3>2, <3>3 DEF Mild, Unsigned
    <3>5. NewPayouts
      <4>1. \A v \in Payouts : PayoutOf(txs', t, v) => v = p
        <5>1. LocalOK(txs, count, p, procs[p]) /\ (p \in Payouts \/ p \in Sweepers)
          BY <1>1, BaseFacts
        <5> QED BY <3>1, <3>3, <5>1 DEF RecordFacts, PayoutOf, LocalOK
      <4>2. DOMAIN txs' = DOMAIN txs \cup {t}
        BY <3>1 DEF RecordFacts
      <4> QED BY <3>3, <4>1, <4>2 DEF NewPayouts, Unsigned
    <3> QED BY <1>1, <3>4, <3>5, MildStep
  <2> QED BY <1>9, <2>1, <2>2, <2>3, <2>4, <2>5, <2>6, <2>7, <2>8 DEF Step
<1>10. ASSUME NEW t \in DOMAIN txs, Mine(t) \/ Drop(t)
       PROVE  WithdrawalOK(txs', count', w, procs'[w], rows'[w])
  <2>1. UNCHANGED <<rows, procs>> /\ DOMAIN txs' = DOMAIN txs
    BY <1>1, <1>10, MineBase, DropBase DEF Mine, Drop
  <2> QED BY <1>1, <1>4, <2>1, MildStep DEF Mild
<1>11. CASE OtherTraffic
  <2>1. UNCHANGED <<rows, procs, txs>>
    BY <1>11 DEF OtherTraffic, Overtaken
  <2> QED BY <1>1, <1>4, <2>1, MildStep DEF Mild
<1>12. LockLapses \/ UNCHANGED vars => UNCHANGED <<rows, procs, txs, count>>
  BY DEF LockLapses, vars
<1> QED BY <1>5, <1>6, <1>7, <1>8, <1>9, <1>10, <1>11, <1>12 DEF Next

LEMMA PayoutsInvHolds ==
  ASSUME NoFalseReads, NoLostRelease
  PROVE  Spec => []PayoutsInv
<1>1. Init => PayoutsInv
  BY PayoutsInit
<1>2. PayoutsInv /\ [Next]_vars => PayoutsInv'
  BY PayoutsStep
<1> QED BY <1>1, <1>2, PTL DEF Spec

\* A withdrawal whose payout was mined is charged for it, whatever died, was
\* lost or overlapped: the charge was recorded before the payout and only a
\* payout that cannot be mined any more voids it (pool-buy.ts:514).
THEOREM PaidIsCharged ==
  ASSUME NoFalseReads, NoLostRelease
  PROVE  Spec => []PaidStaysCharged
<1>1. PayoutsInv => PaidStaysCharged
  <2> SUFFICES ASSUME PayoutsInv, NEW w \in Payouts, Paid(w)
               PROVE  rows[w].recorded /\ ~rows[w].voided
    BY DEF PaidStaysCharged
  <2>1. PICK t \in DOMAIN txs : PayoutOf(txs, t, w) /\ txs[t].status = "mined"
    BY DEF Paid, MinedWith, PayoutOf
  <2>2. BaseInv /\ WithdrawalOK(txs, count, w, procs[w], rows[w]) /\ w \in Procs
    BY DEF PayoutsInv, Procs
  <2>3. procs[w].pc # "idle"
    BY <2>1, <2>2, PayoutsOf DEF Unsigned
  <2>4. rows[w].recorded
    BY <2>2, <2>3 DEF BaseInv, RowsOK
  <2>5. ~Dead(txs, count, t)
    BY <2>1 DEF Dead
  <2> QED BY <2>1, <2>2, <2>4, <2>5 DEF WithdrawalOK
<1> QED BY <1>1, PayoutsInvHolds, PTL

\* A trader whose withdrawal was refused was not paid and will not be, so
\* asking again is safe (pool-buy.ts:534).
THEOREM RefusalIsTrue ==
  ASSUME NoFalseReads, NoLostRelease
  PROVE  Spec => []RefusedNotPaid
<1>1. PayoutsInv => RefusedNotPaid
  BY DEF PayoutsInv, WithdrawalOK, RefusedNotPaid, Paid, MinedWith, PayoutOf, At
<1> QED BY <1>1, PayoutsInvHolds, PTL

----------------------------------------------------------------------------
(* The queue: whose transaction a row may still be in.                     *)

\* No sweep runs beside another process, and no lease lapses under a sweep.
NothingOverlaps == Faults \cap {"overlap", "slow"} = {}

Overs     == {"idle", "refused", "done", "dead"}
Resolving == {"resolving", "counting", "settling"}
LiveRow(row) == row.recorded /\ row.queued = NoTx /\ ~row.voided

\* The rows p works on are as it read them.
HeldOK(R, p, l) ==
  /\ l.pc \in {"waiting", "signing"} => \A r \in l.ids :
       LiveRow(R[r]) /\ R[r].tx = NoTx /\ (p \in Sweepers => R[r].leased)
  /\ l.pc \in Named => \A r \in l.ids : LiveRow(R[r]) /\ R[r].tx = l.tx
  /\ l.pc \in Resolving =>
       /\ \A b \in l.todo : \A r \in b.ids : LiveRow(R[r]) /\ R[r].tx = b.tx
       /\ \A b, c \in l.todo : b.tx = c.tx => b = c
       /\ l.pc # "resolving" => \A b \in l.todo : b.tx # l.tx
  /\ p \in Payouts /\ l.pc = "idle" => ~R[p].recorded

\* A sweep runs alone.
Alone(P) ==
  \A s \in Sweepers, p \in Procs : s # p /\ P[s].pc \notin Overs => P[p].pc \in Overs

\* Whatever batch a row was ever in cannot be mined, or is the one it names.
RowHeld(T, n, r, row) ==
  /\ \A t \in DOMAIN T : T[t].kind = "batch" /\ r \in T[t].ids => Dead(T, n, t) \/ row.tx = t
  /\ row.tx # NoTx => row.recorded /\ (row.voided => T[row.tx].kind = "payout")

QueueInv ==
  /\ BaseInv
  /\ \A p \in Procs : HeldOK(rows, p, procs[p])
  /\ Alone(procs)
  /\ \A r \in Rows : RowHeld(txs, count, r, rows[r])

LEMMA QueueFacts ==
  ASSUME QueueInv, NEW p \in Procs
  PROVE  /\ BaseInv
         /\ rows \in [Rows -> Row] /\ procs \in [Procs -> Locals] /\ txs \in Seq(Tx) /\ count \in Nat
         /\ procs[p] \in Locals /\ LocalOK(txs, count, p, procs[p]) /\ HeldOK(rows, p, procs[p])
         /\ p \in Payouts => p \notin Sweepers
         /\ p \in Payouts \/ p \in Sweepers
  BY BaseFacts DEF QueueInv

\* A row that still names what it named, while the chain moves.
LEMMA RowStays ==
  ASSUME NEW T \in Seq(Tx), NEW n \in Nat, NEW U, NEW m, TxsMove(T, n, U, m),
         NEW r, NEW old, NEW new, RowOK(T, r, old), RowHeld(T, n, r, old),
         new.tx = old.tx, new.tx # NoTx => new.recorded,
         new.voided => old.voided \/ old.tx = NoTx \/ T[old.tx].kind = "payout",
         \A t \in DOMAIN U : r \in U[t].ids => t \in DOMAIN T
  PROVE  RowHeld(U, m, r, new)
<1>1. \A t \in DOMAIN T : Dead(T, n, t) => Dead(U, m, t)
  BY DeadForGood
<1>2. old.tx # NoTx => old.tx \in DOMAIN T
  BY DEF RowOK, Carries
<1> QED BY <1>1, <1>2 DEF RowHeld, TxsMove

\* While p is under way, a process that stands still keeps what it holds.
LEMMA OthersHold ==
  ASSUME QueueInv, NEW p \in Procs, procs[p].pc \notin Overs,
         p \in Sweepers \/ \A r \in Rows : r \notin procs[p].ids => rows'[r] = rows[r],
         \A r \in Rows : rows'[r].recorded = rows[r].recorded,
         NEW q \in Procs, q # p
  PROVE  HeldOK(rows', q, procs[q])
<1>1. /\ LocalOK(txs, count, p, procs[p]) /\ LocalOK(txs, count, q, procs[q])
      /\ HeldOK(rows, q, procs[q])
      /\ p \in Payouts \/ p \in Sweepers
      /\ q \in Payouts \/ q \in Sweepers
      /\ q \in Payouts => q \in Rows
  BY QueueFacts DEF Rows
<1>2. Alone(procs)
  BY DEF QueueInv
<1>3. CASE procs[q].pc \in Overs
  BY <1>1, <1>3 DEF HeldOK, Overs, Named, Resolving
<1>4. CASE procs[q].pc \notin Overs
  <2>1. p \notin Sweepers /\ q \notin Sweepers
    BY <1>2, <1>4 DEF Alone
  <2>2. procs[p].ids = {p} /\ procs[q].ids = {q} /\ procs[q].pc \in PayoutPcs
    BY <1>1, <1>4, <2>1 DEF LocalOK, Overs
  <2>3. rows'[q] = rows[q] /\ procs[q].pc \notin Resolving /\ procs[q].pc # "idle"
    BY <1>1, <1>4, <2>1, <2>2 DEF Resolving, PayoutPcs, Unsigned, Overs
  <2> QED BY <1>1, <2>2, <2>3 DEF HeldOK
<1> QED BY <1>3, <1>4

\* A process that was under way or found no sweep under way may go on.
LEMMA AloneStays ==
  ASSUME QueueInv, NEW p \in Procs, NEW new, procs' = [procs EXCEPT ![p] = new],
         new.pc \in Overs \/ procs[p].pc \notin Overs
  PROVE  Alone(procs')
<1>1. procs \in [Procs -> Locals] /\ Alone(procs)
  BY QueueFacts DEF QueueInv
<1>2. \A q \in Procs : procs'[q] = IF q = p THEN new ELSE procs[q]
  BY <1>1
<1>3. \A q \in Procs : procs'[q].pc \notin Overs => procs[q].pc \notin Overs
  BY <1>2
<1> QED BY <1>1, <1>3 DEF Alone, Procs

\* The step of one process under way.
LEMMA HolderStep ==
  ASSUME QueueInv, BaseInv', NEW p \in Procs, procs[p].pc \notin Overs,
         NEW new, procs' = [procs EXCEPT ![p] = new],
         p \in Sweepers \/ \A r \in Rows : r \notin procs[p].ids => rows'[r] = rows[r],
         \A r \in Rows : rows'[r].recorded = rows[r].recorded,
         HeldOK(rows', p, new),
         \A r \in Rows : RowHeld(txs', count', r, rows'[r])
  PROVE  QueueInv'
<1>1. procs \in [Procs -> Locals]
  BY QueueFacts
<1>2. \A q \in Procs : procs'[q] = IF q = p THEN new ELSE procs[q]
  BY <1>1
<1>3. \A q \in Procs : HeldOK(rows', q, procs'[q])
  BY <1>2, OthersHold
<1>4. Alone(procs')
  BY AloneStays
<1> QED BY <1>3, <1>4 DEF QueueInv

\* Nothing is signed, sent or mined, and no row loses or changes its name.
LEMMA RowsStay ==
  ASSUME QueueInv, UNCHANGED <<txs, count>>, NEW r \in Rows,
         rows'[r].tx = rows[r].tx, rows'[r].recorded = rows[r].recorded,
         rows'[r].voided => \/ rows[r].voided
                           \/ rows[r].tx = NoTx
                           \/ txs[rows[r].tx].kind = "payout"
  PROVE  RowHeld(txs', count', r, rows'[r])
<1>1. /\ RowHeld(txs, count, r, rows[r]) /\ RowOK(txs, r, rows[r])
      /\ txs \in Seq(Tx) /\ count \in Nat
  BY DEF QueueInv, BaseInv, Typed, RowsOK
<1>2. TxsMove(txs, count, txs', count')
  BY <1>1 DEF TxsMove
<1>3. rows'[r].tx # NoTx => rows'[r].recorded
  BY <1>1 DEF RowHeld
<1> QED BY <1>1, <1>2, <1>3, RowStays

LEMMA ChargeQueue ==
  ASSUME QueueInv, NEW r \in Rows, Charge(r)
  PROVE  QueueInv'
<1>1. BaseInv /\ BaseInv' /\ rows \in [Rows -> Row] /\ txs \in Seq(Tx)
  BY ChargeBase DEF QueueInv, BaseInv, Typed
<1>2. /\ UNCHANGED <<procs, txs, count>> /\ ~rows[r].recorded /\ r \notin Payouts
      /\ rows' = [rows EXCEPT ![r] = Recorded]
  BY ActorsDiffer DEF Charge, recordOwed
<1>3. Recorded.tx = NoTx /\ ~Recorded.voided /\ Recorded.recorded
  BY DEF Recorded, Absent
<1>4. \A q \in Rows : q # r => rows'[q] = rows[q]
  BY <1>1, <1>2
<1>5. rows'[r].tx = NoTx
  BY <1>1, <1>2, <1>3
<1>6. ASSUME NEW p \in Procs PROVE HeldOK(rows', p, procs[p])
  <2>1. HeldOK(rows, p, procs[p]) /\ procs[p] \in Locals
    BY QueueFacts
  <2>2. procs[p].ids \subseteq Rows /\ \A b \in procs[p].todo : b.ids \subseteq Rows
    BY <2>1 DEF Locals, Batch
  <2>3. \A q \in Rows : LiveRow(rows[q]) => q # r
    BY <1>2 DEF LiveRow
  <2>4. p \in Payouts => p # r /\ p \in Rows
    BY <1>2 DEF Rows
  <2> QED BY <1>4, <2>1, <2>2, <2>3, <2>4 DEF HeldOK
<1>7. ASSUME NEW q \in Rows PROVE RowHeld(txs, count, q, rows'[q])
  <2>1. RowHeld(txs, count, q, rows[q])
    BY DEF QueueInv
  <2>2. CASE q = r
    <3>1. rows[r].tx = NoTx
      BY <1>2, <2>1, <2>2 DEF RowHeld
    <3>2. NoTx \notin DOMAIN txs
      BY <1>1 DEF NoTx
    <3> QED BY <1>5, <2>1, <2>2, <3>1, <3>2 DEF RowHeld
  <2> QED BY <1>4, <2>1, <2>2
<1> QED BY <1>1, <1>2, <1>6, <1>7 DEF QueueInv

LEMMA LeaseLapsesQueue ==
  ASSUME QueueInv, NothingOverlaps, NEW r \in Rows, LeaseLapses(r)
  PROVE  QueueInv'
<1>1. BaseInv /\ BaseInv' /\ rows \in [Rows -> Row]
  BY LeaseLapsesBase DEF QueueInv, BaseInv, Typed
<1>2. /\ UNCHANGED <<procs, txs, count>> /\ \A s \in Sweepers : ~Holding(s, r)
      /\ rows' = [rows EXCEPT ![r] = [rows[r] EXCEPT !.leased = FALSE]]
  BY DEF LeaseLapses, Fault, NothingOverlaps
<1>3. /\ \A q \in Rows : q # r => rows'[q] = rows[q]
      /\ rows'[r].tx = rows[r].tx /\ rows'[r].recorded = rows[r].recorded
      /\ rows'[r].queued = rows[r].queued /\ rows'[r].voided = rows[r].voided
  <2>1. rows[r] \in Row
    BY <1>1
  <2> QED BY <1>1, <1>2, <2>1 DEF Row
<1>4. ASSUME NEW p \in Procs PROVE HeldOK(rows', p, procs[p])
  <2>1. HeldOK(rows, p, procs[p]) /\ procs[p] \in Locals
    BY QueueFacts
  <2>2. procs[p].ids \subseteq Rows /\ \A b \in procs[p].todo : b.ids \subseteq Rows
    BY <2>1 DEF Locals, Batch
  <2>3. \A q \in Rows : /\ LiveRow(rows'[q]) <=> LiveRow(rows[q])
                        /\ rows'[q].tx = rows[q].tx /\ rows'[q].recorded = rows[q].recorded
    BY <1>3 DEF LiveRow
  <2>4. \A q \in procs[p].ids : procs[p].pc \in {"waiting", "signing"} /\ p \in Sweepers => rows'[q].leased = rows[q].leased
    BY <1>2, <1>3, <2>2 DEF Holding
  <2>5. p \in Payouts => p \in Rows
    BY DEF Rows
  <2> QED BY <2>1, <2>2, <2>3, <2>4, <2>5 DEF HeldOK
<1>5. ASSUME NEW q \in Rows PROVE RowHeld(txs', count', q, rows'[q])
  BY <1>2, <1>3, RowsStay
<1> QED BY <1>1, <1>2, <1>4, <1>5 DEF QueueInv

LEMMA WithdrawQueue ==
  ASSUME QueueInv, NothingOverlaps, NEW p \in Payouts, Withdraw(p)
  PROVE  QueueInv'
<1> DEFINE new == [Fresh EXCEPT !.pc = "waiting", !.ids = {p}]
<1>0. p \in Procs /\ p \in Rows /\ p \notin Sweepers
  BY ActorsDiffer DEF Procs, Rows
<1>1. /\ BaseInv' /\ rows \in [Rows -> Row] /\ procs \in [Procs -> Locals] /\ txs \in Seq(Tx)
      /\ HeldOK(rows, p, procs[p])
  BY <1>0, WithdrawBase, QueueFacts
<1>2. /\ UNCHANGED <<txs, count>> /\ procs[p].pc = "idle"
      /\ rows' = [rows EXCEPT ![p] = Recorded] /\ procs' = [procs EXCEPT ![p] = new]
      /\ \A s \in Sweepers : procs[s].pc \in Overs
  BY DEF Withdraw, At, recordOwed, Go, Fault, NothingOverlaps, Over, Overs
<1>3. new.pc = "waiting" /\ new.ids = {p}
  BY DEF Fresh
<1> HIDE DEF new
<1>4. /\ Recorded.tx = NoTx /\ ~Recorded.voided /\ Recorded.recorded /\ LiveRow(Recorded)
  BY DEF Recorded, Absent, LiveRow, NoTx
<1>5. rows'[p] = Recorded /\ \A q \in Rows : q # p => rows'[q] = rows[q]
  BY <1>0, <1>1, <1>2
<1>6. procs'[p] = new /\ \A q \in Procs : q # p => procs'[q] = procs[q]
  BY <1>0, <1>1, <1>2
<1>7. ~rows[p].recorded
  BY <1>1, <1>2 DEF HeldOK
<1>8. ASSUME NEW q \in Procs PROVE HeldOK(rows', q, procs'[q])
  <2>1. CASE q = p
    BY <1>0, <1>3, <1>4, <1>5, <1>6, <2>1 DEF HeldOK, Named, Resolving
  <2>2. CASE q # p
    <3>1. /\ HeldOK(rows, q, procs[q]) /\ LocalOK(txs, count, q, procs[q])
          /\ q \in Payouts \/ q \in Sweepers
          /\ q \in Payouts => q \in Rows
      BY QueueFacts DEF Rows
    <3>2. CASE q \in Sweepers
      <4>1. procs[q].pc \in Overs /\ q \notin Payouts
        BY <1>2, <3>2, ActorsDiffer
      <4> QED BY <1>6, <2>2, <4>1 DEF HeldOK, Overs, Named, Resolving
    <3>3. CASE q \notin Sweepers
      <4>1. /\ rows'[q] = rows[q] /\ procs[q].pc \in PayoutPcs
            /\ procs[q].pc # "idle" => procs[q].ids = {q}
        BY <1>5, <2>2, <3>1, <3>3 DEF LocalOK
      <4>2. procs[q].pc \notin Resolving /\ (procs[q].pc \in Named \cup {"waiting", "signing"} => procs[q].pc # "idle")
        BY <4>1 DEF Resolving, PayoutPcs, Unsigned, Named
      <4>3. HeldOK(rows', q, procs[q])
        BY <3>1, <3>3, <4>1, <4>2 DEF HeldOK
      <4> QED BY <1>6, <2>2, <4>3
    <3> QED BY <3>2, <3>3
  <2> QED BY <2>1, <2>2
<1>9. Alone(procs')
  <2>1. \A s \in Sweepers : procs'[s].pc \in Overs
    BY <1>0, <1>2, <1>6 DEF Procs
  <2> QED BY <2>1 DEF Alone
<1>10. ASSUME NEW q \in Rows PROVE RowHeld(txs, count, q, rows'[q])
  <2>1. RowHeld(txs, count, q, rows[q])
    BY DEF QueueInv
  <2>2. CASE q = p
    <3>1. rows[p].tx = NoTx
      BY <1>7, <2>1, <2>2 DEF RowHeld
    <3>2. NoTx \notin DOMAIN txs
      BY <1>1 DEF NoTx
    <3> QED BY <1>4, <1>5, <2>1, <2>2, <3>1, <3>2 DEF RowHeld
  <2> QED BY <1>5, <2>1, <2>2
<1> QED BY <1>1, <1>2, <1>8, <1>9, <1>10 DEF QueueInv

LEMMA SweepQueue ==
  ASSUME QueueInv, NothingOverlaps, NEW s \in Sweepers, Sweep(s)
  PROVE  QueueInv'
<1> DEFINE new == [Fresh EXCEPT !.pc = "resolving", !.todo = sentBatches]
<1>0. s \in Procs /\ s \notin Payouts
  BY ActorsDiffer DEF Procs
<1>1. /\ BaseInv /\ BaseInv' /\ rows \in [Rows -> Row] /\ procs \in [Procs -> Locals]
  BY <1>0, SweepBase, QueueFacts
<1>2. /\ UNCHANGED <<rows, txs, count>> /\ procs' = [procs EXCEPT ![s] = new]
      /\ \A p \in Procs : procs[p].pc \in Overs
  BY DEF Sweep, At, Go, Fault, NothingOverlaps, Over, Overs
<1>3. new.pc = "resolving" /\ new.todo = sentBatches
  BY DEF Fresh
<1> HIDE DEF new
<1>4. procs'[s] = new /\ \A q \in Procs : q # s => procs'[q] = procs[q]
  BY <1>0, <1>1, <1>2
<1>5. HeldOK(rows, s, new)
  <2>1. \A b \in sentBatches : \A r \in b.ids : LiveRow(rows[r]) /\ rows[r].tx = b.tx
    BY DEF sentBatches, Live, LiveRow
  <2> DEFINE named(t) == [tx |-> t, ids |-> {q \in Rows : Live(q) /\ rows[q].tx = t}]
  <2>2. \A b \in sentBatches : b = named(b.tx)
    BY DEF sentBatches
  <2> HIDE DEF named
  <2>3. ASSUME NEW b \in sentBatches, NEW c \in sentBatches, b.tx = c.tx PROVE b = c
    <3>1. b = named(b.tx) /\ c = named(c.tx)
      BY <2>2
    <3> QED BY ONLY <2>3, <3>1
  <2>4. \A b, c \in sentBatches : b.tx = c.tx => b = c
    BY <2>3
  <2> QED BY <1>0, <1>3, <2>1, <2>4 DEF HeldOK, Named
<1>6. \A q \in Procs : HeldOK(rows', q, procs'[q])
  BY <1>2, <1>4, <1>5, QueueFacts
<1>7. Alone(procs')
  <2>1. \A q \in Procs : q # s => procs'[q].pc \in Overs
    BY <1>2, <1>4
  <2> QED BY <2>1 DEF Alone, Procs
<1>8. \A r \in Rows : RowHeld(txs', count', r, rows'[r])
  BY <1>2 DEF QueueInv
<1> QED BY <1>1, <1>6, <1>7, <1>8 DEF QueueInv

LEMMA ReadReceiptQueue ==
  ASSUME QueueInv, NoFalseReads, NEW s \in Sweepers, ReadReceipt(s)
  PROVE  QueueInv'
<1>0. s \in Procs /\ s \notin Payouts
  BY ActorsDiffer DEF Procs
<1>1. /\ BaseInv /\ BaseInv' /\ procs[s] \in Locals /\ HeldOK(rows, s, procs[s])
  BY <1>0, ReadReceiptBase, QueueFacts
<1>2. UNCHANGED <<rows, txs, count>> /\ procs[s].pc = "resolving"
  BY DEF ReadReceipt, At
<1>3. \E batch \in procs[s].todo : \E new :
        /\ procs' = [procs EXCEPT ![s] = new]
        /\ new.pc \in {"settling", "counting"}
        /\ new.tx = batch.tx /\ new.ids = batch.ids /\ new.todo = procs[s].todo \ {batch}
  <2>1. PICK batch \in procs[s].todo :
          LET read == [procs[s] EXCEPT !.tx = batch.tx, !.ids = batch.ids,
                                       !.todo = procs[s].todo \ {batch}]
          IN  \/ Go(s, [read EXCEPT !.pc = "settling", !.outcome = txs[batch.tx].status])
              \/ Go(s, [read EXCEPT !.pc = "counting"])
    BY DEF ReadReceipt
  <2> DEFINE read == [procs[s] EXCEPT !.tx = batch.tx, !.ids = batch.ids, !.todo = procs[s].todo \ {batch}]
             settling == [read EXCEPT !.pc = "settling", !.outcome = txs[batch.tx].status]
             counting == [read EXCEPT !.pc = "counting"]
  <2>2. /\ settling.pc = "settling" /\ settling.tx = batch.tx /\ settling.ids = batch.ids
        /\ settling.todo = procs[s].todo \ {batch}
        /\ counting.pc = "counting" /\ counting.tx = batch.tx /\ counting.ids = batch.ids
        /\ counting.todo = procs[s].todo \ {batch}
    BY <1>1 DEF Locals
  <2>3. procs' = [procs EXCEPT ![s] = settling] \/ procs' = [procs EXCEPT ![s] = counting]
    BY <2>1 DEF Go
  <2> HIDE DEF settling, counting
  <2> QED BY <2>2, <2>3
<1>7. PICK batch \in procs[s].todo : \E new :
        /\ procs' = [procs EXCEPT ![s] = new]
        /\ new.pc \in {"settling", "counting"}
        /\ new.tx = batch.tx /\ new.ids = batch.ids /\ new.todo = procs[s].todo \ {batch}
  BY <1>3
<1>8. PICK new :
        /\ procs' = [procs EXCEPT ![s] = new]
        /\ new.pc \in {"settling", "counting"}
        /\ new.tx = batch.tx /\ new.ids = batch.ids /\ new.todo = procs[s].todo \ {batch}
  BY <1>7
<1>4. HeldOK(rows', s, new)
  BY <1>0, <1>1, <1>2, <1>8 DEF HeldOK, Resolving
<1>5. \A r \in Rows : RowHeld(txs', count', r, rows'[r])
  BY <1>2 DEF QueueInv
<1>6. procs[s].pc \notin Overs
  BY <1>2 DEF Overs
<1> QED BY <1>0, <1>1, <1>2, <1>4, <1>5, <1>6, <1>8, HolderStep

LEMMA ReadCountQueue ==
  ASSUME QueueInv, NEW s \in Sweepers, ReadCount(s)
  PROVE  QueueInv'
<1> DEFINE outcome == IF count > txs[procs[s].tx].nonce THEN "never-mined" ELSE "unknown"
           new == [procs[s] EXCEPT !.pc = "settling", !.outcome = outcome]
<1>0. s \in Procs /\ s \notin Payouts
  BY ActorsDiffer DEF Procs
<1>1. /\ BaseInv' /\ procs[s] \in Locals /\ HeldOK(rows, s, procs[s])
  BY <1>0, ReadCountBase, QueueFacts
<1>2. /\ UNCHANGED <<rows, txs, count>> /\ procs[s].pc = "counting"
      /\ procs' = [procs EXCEPT ![s] = new]
  BY DEF ReadCount, At, Go
<1> HIDE DEF outcome
<1>3. new.pc = "settling" /\ new.tx = procs[s].tx /\ new.ids = procs[s].ids /\ new.todo = procs[s].todo
  BY <1>1 DEF Locals
<1> HIDE DEF new
<1>4. HeldOK(rows', s, new)
  BY <1>0, <1>1, <1>2, <1>3 DEF HeldOK, Resolving, Named
<1>5. \A r \in Rows : RowHeld(txs', count', r, rows'[r])
  BY <1>2 DEF QueueInv
<1>6. procs[s].pc \notin Overs
  BY <1>2 DEF Overs
<1> QED BY <1>0, <1>1, <1>2, <1>4, <1>5, <1>6, HolderStep

\* A row whose transaction is settled: it stays, or it goes back to owed when
\* its batch cannot be mined any more or it was a payout's.
LEMMA SettleRow ==
  ASSUME QueueInv, NEW p \in Procs, procs[p].pc \in {"settling", "finishing"},
         NEW r \in procs[p].ids
  PROVE  /\ RowHeld(txs, count, r, Resolved(rows[r], Verdict(p)))
         /\ Resolved(rows[r], Verdict(p)).recorded = rows[r].recorded
<1> DEFINE l == procs[p]
           new == Resolved(rows[r], Verdict(p))
<1>1. /\ rows \in [Rows -> Row] /\ l \in Locals /\ LocalOK(txs, count, p, l) /\ HeldOK(rows, p, l)
      /\ txs \in Seq(Tx)
  BY QueueFacts
<1>2. r \in Rows /\ rows[r] \in Row
  BY <1>1 DEF Locals
<1>3. /\ Carries(txs, l.tx, l.ids) /\ OutcomeOK(txs, count, l)
      /\ LiveRow(rows[r]) /\ rows[r].tx = l.tx
  BY <1>1 DEF LocalOK, HeldOK, Named, Decided
<1>4. RowHeld(txs, count, r, rows[r])
  BY <1>2 DEF QueueInv
<1>5. /\ new.recorded = rows[r].recorded
      /\ new.voided = (IF Verdict(p) = "void" THEN TRUE ELSE rows[r].voided)
      /\ new.tx = IF Verdict(p) = "owed" THEN NoTx ELSE rows[r].tx
  BY <1>2, ResolvedFields
<1>6. Verdict(p) = "void" => txs[l.tx].kind = "payout"
  BY DEF Verdict, Payout
<1>7. Verdict(p) = "owed" => txs[l.tx].kind = "payout" \/ Dead(txs, count, l.tx)
  <2>1. l.outcome \in Outcomes
    BY <1>1 DEF Locals
  <2> QED BY <1>3, <2>1 DEF Verdict, Payout, Mined, OutcomeOK, Dead, Outcomes
<1>8. rows[r].recorded /\ ~rows[r].voided
  BY <1>3 DEF LiveRow
<1> HIDE DEF new
<1>9. RowHeld(txs, count, r, new)
  <2>1. \A t \in DOMAIN txs : txs[t].kind = "batch" /\ r \in txs[t].ids => Dead(txs, count, t) \/ l.tx = t
    BY <1>3, <1>4 DEF RowHeld
  <2>2. \A t \in DOMAIN txs : txs[t].kind = "batch" /\ r \in txs[t].ids => Dead(txs, count, t) \/ new.tx = t
    BY <1>3, <1>5, <1>7, <2>1
  <2>3. new.voided => Verdict(p) = "void"
    BY <1>5, <1>8
  <2>4. new.recorded
    BY <1>5, <1>8
  <2>5. new.voided => new.tx = l.tx /\ txs[l.tx].kind = "payout"
    BY <1>3, <1>5, <1>6, <2>3
  <2> QED BY <2>2, <2>4, <2>5 DEF RowHeld
<1> QED BY <1>5, <1>9 DEF new

LEMMA SettleQueue ==
  ASSUME QueueInv, NEW p \in Procs, Settle(p)
  PROVE  QueueInv'
<1> DEFINE l == procs[p]
           new == [procs[p] EXCEPT !.pc = Then(p)]
<1>1. /\ BaseInv' /\ rows \in [Rows -> Row] /\ l \in Locals /\ LocalOK(txs, count, p, l)
      /\ HeldOK(rows, p, l)
      /\ p \in Payouts => p \notin Sweepers
      /\ p \in Payouts \/ p \in Sweepers
  BY SettleBase, QueueFacts
<1>2. /\ UNCHANGED <<txs, count>> /\ l.pc \in {"settling", "finishing"}
      /\ procs' = [procs EXCEPT ![p] = new] /\ resolveSent(l.ids, Verdict(p))
  BY DEF Settle, At, Go
<1>3. rows' = [r \in Rows |-> IF r \in l.ids THEN Resolved(rows[r], Verdict(p)) ELSE rows[r]]
  BY ONLY <1>2 DEF resolveSent, Write, Resolved
<1>4. \A r \in Rows : RowHeld(txs, count, r, rows'[r]) /\ rows'[r].recorded = rows[r].recorded
  BY <1>2, <1>3, SettleRow DEF QueueInv
<1>5. new.pc = Then(p) /\ new.todo = l.todo
  BY <1>1 DEF Locals
<1> HIDE DEF new
<1>6. HeldOK(rows', p, new)
  <2>1. CASE l.pc = "settling"
    <3>1. p \notin Payouts /\ new.pc = "resolving"
      BY <1>1, <1>5, <2>1 DEF LocalOK, PayoutPcs, Unsigned, Then, At
    <3>2. \A b \in l.todo : b.tx # l.tx /\ \A r \in b.ids : LiveRow(rows[r]) /\ rows[r].tx = b.tx
      BY <1>1, <2>1 DEF HeldOK, Resolving
    <3>3. \A r \in l.ids : rows[r].tx = l.tx
      BY <1>1, <2>1 DEF HeldOK, Named
    <3>4. \A b \in l.todo : b.ids \subseteq Rows
      BY <1>1 DEF Locals, Batch
    <3>5. \A b \in l.todo : \A r \in b.ids : rows'[r] = rows[r]
      BY <1>3, <3>2, <3>3, <3>4
    <3> QED BY <1>1, <1>5, <2>1, <3>1, <3>2, <3>5 DEF HeldOK, Resolving, Named
  <2>2. CASE l.pc = "finishing"
    <3>1. new.pc \in Overs /\ (new.pc = "idle" => p \notin Payouts)
      BY <1>1, <1>2, <1>5, <2>2 DEF Then, At, Ended, Overs
    <3> QED BY <3>1 DEF HeldOK, Overs, Named, Resolving
  <2> QED BY <1>2, <2>1, <2>2
<1>7. p \in Sweepers \/ \A r \in Rows : r \notin l.ids => rows'[r] = rows[r]
  BY <1>3
<1>8. l.pc \notin Overs
  BY <1>2 DEF Overs
<1> QED BY <1>1, <1>2, <1>4, <1>6, <1>7, <1>8, HolderStep

LEMMA TakeQueue ==
  ASSUME QueueInv, NEW s \in Sweepers, Take(s)
  PROVE  QueueInv'
<1>0. s \in Procs /\ s \notin Payouts
  BY ActorsDiffer DEF Procs
<1>1. /\ BaseInv' /\ rows \in [Rows -> Row]
  BY <1>0, TakeBase, QueueFacts
<1>2. PICK ids \in SUBSET Rows :
        /\ \A r \in ids : Owed(r)
        /\ takeOwed(ids)
        /\ Go(s, IF ids = {} THEN Fresh ELSE [Fresh EXCEPT !.pc = "waiting", !.ids = ids])
  BY DEF Take
<1>3. UNCHANGED <<txs, count>> /\ procs[s].pc = "resolving"
  BY DEF Take, At
<1>4. rows' = [r \in Rows |-> IF r \in ids THEN [rows[r] EXCEPT !.leased = TRUE] ELSE rows[r]]
  BY ONLY <1>2 DEF takeOwed, Write
<1>5. \A r \in Rows : /\ rows'[r].tx = rows[r].tx /\ rows'[r].recorded = rows[r].recorded
                      /\ rows'[r].voided = rows[r].voided /\ rows'[r].queued = rows[r].queued
                      /\ r \in ids => rows'[r].leased
  <2> SUFFICES ASSUME NEW r \in Rows
               PROVE  /\ rows'[r].tx = rows[r].tx /\ rows'[r].recorded = rows[r].recorded
                      /\ rows'[r].voided = rows[r].voided /\ rows'[r].queued = rows[r].queued
                      /\ r \in ids => rows'[r].leased
    OBVIOUS
  <2>1. rows[r] \in Row
    BY <1>1
  <2> QED BY <1>4, <2>1 DEF Row
<1> DEFINE new == IF ids = {} THEN Fresh ELSE [Fresh EXCEPT !.pc = "waiting", !.ids = ids]
<1>6. new.pc \in {"idle", "waiting"} /\ new.ids = ids
  BY DEF Fresh
<1>7. procs' = [procs EXCEPT ![s] = new]
  BY <1>2 DEF Go
<1> HIDE DEF new
<1>8. HeldOK(rows', s, new)
  BY <1>0, <1>2, <1>5, <1>6 DEF HeldOK, Owed, Live, LiveRow, Named, Resolving
<1>9. \A r \in Rows : RowHeld(txs', count', r, rows'[r])
  BY <1>3, <1>5, RowsStay
<1>10. procs[s].pc \notin Overs
  BY <1>3 DEF Overs
<1> QED BY <1>0, <1>1, <1>5, <1>7, <1>8, <1>9, <1>10, HolderStep

LEMMA AcquireQueue ==
  ASSUME QueueInv, NEW p \in Procs, Acquire(p)
  PROVE  QueueInv'
<1> DEFINE new == [procs[p] EXCEPT !.pc = "signing", !.nonce = nextNonce]
<1>1. /\ BaseInv' /\ procs[p] \in Locals /\ HeldOK(rows, p, procs[p])
  BY AcquireBase, QueueFacts
<1>2. /\ UNCHANGED <<rows, txs, count>> /\ procs[p].pc = "waiting"
      /\ procs' = [procs EXCEPT ![p] = new]
  BY DEF Acquire, At, Go
<1>3. new.pc = "signing" /\ new.ids = procs[p].ids
  BY <1>1 DEF Locals
<1> HIDE DEF new
<1>4. HeldOK(rows', p, new)
  BY <1>1, <1>2, <1>3 DEF HeldOK, Named, Resolving
<1>5. \A r \in Rows : RowHeld(txs', count', r, rows'[r])
  BY <1>2 DEF QueueInv
<1>6. procs[p].pc \notin Overs
  BY <1>2 DEF Overs
<1> QED BY <1>1, <1>2, <1>4, <1>5, <1>6, HolderStep

LEMMA AwaitQueue ==
  ASSUME QueueInv, NEW p \in Procs, Await(p)
  PROVE  QueueInv'
<1>1. /\ BaseInv' /\ procs[p] \in Locals /\ HeldOK(rows, p, procs[p])
  BY AwaitBase, QueueFacts
<1>2. UNCHANGED <<rows, txs, count>> /\ procs[p].pc = "sent"
  BY DEF Await, At
<1>3. PICK outcome : Go(p, [procs[p] EXCEPT !.pc = "releasing", !.outcome = outcome])
  BY DEF Await
<1> DEFINE new == [procs[p] EXCEPT !.pc = "releasing", !.outcome = outcome]
<1>4. new.pc = "releasing" /\ new.ids = procs[p].ids /\ new.tx = procs[p].tx
  BY <1>1 DEF Locals
<1>5. procs' = [procs EXCEPT ![p] = new]
  BY <1>3 DEF Go
<1> HIDE DEF new
<1>6. HeldOK(rows', p, new)
  BY <1>1, <1>2, <1>4 DEF HeldOK, Named, Resolving
<1>7. \A r \in Rows : RowHeld(txs', count', r, rows'[r])
  BY <1>2 DEF QueueInv
<1>8. procs[p].pc \notin Overs
  BY <1>2 DEF Overs
<1> QED BY <1>1, <1>2, <1>5, <1>6, <1>7, <1>8, HolderStep

\* A caught throw: a sweep's rows go back, a withdrawal's row is void.  A row
\* that a withdrawal voids names its payout or nothing.
LEMMA CaughtQueue ==
  ASSUME QueueInv, BaseInv', UNCHANGED <<txs, count>>, NEW p \in Procs, Caught(p),
         procs[p].pc \in {"waiting", "signing", "releasing"}
  PROVE  QueueInv'
<1>1. /\ rows \in [Rows -> Row] /\ procs[p] \in Locals /\ LocalOK(txs, count, p, procs[p])
      /\ HeldOK(rows, p, procs[p])
      /\ p \in Payouts => p \notin Sweepers
      /\ p \in Payouts \/ p \in Sweepers
  BY QueueFacts
<1>2. procs[p].pc \notin Overs
  BY DEF Overs
<1>3. CASE p \in Sweepers
  <2>1. procs' = [procs EXCEPT ![p] = Fresh] /\ releaseOwed(procs[p].ids)
    BY <1>3 DEF Caught, Go
  <2>2. rows' = [r \in Rows |-> IF r \in procs[p].ids THEN [rows[r] EXCEPT !.leased = FALSE] ELSE rows[r]]
    BY ONLY <2>1 DEF releaseOwed, Write
  <2>3. \A r \in Rows : /\ rows'[r].tx = rows[r].tx /\ rows'[r].recorded = rows[r].recorded
                        /\ rows'[r].voided = rows[r].voided
    <3> SUFFICES ASSUME NEW r \in Rows
                 PROVE  /\ rows'[r].tx = rows[r].tx /\ rows'[r].recorded = rows[r].recorded
                        /\ rows'[r].voided = rows[r].voided
      OBVIOUS
    <3>1. rows[r] \in Row
      BY <1>1
    <3> QED BY <2>2, <3>1 DEF Row
  <2>4. HeldOK(rows', p, Fresh)
    BY <1>1, <1>3 DEF HeldOK, Fresh, Named, Resolving
  <2>5. \A r \in Rows : RowHeld(txs', count', r, rows'[r])
    BY <2>3, RowsStay
  <2> QED BY <1>2, <1>3, <2>1, <2>3, <2>4, <2>5, HolderStep
<1>4. CASE p \notin Sweepers
  <2> DEFINE new == [procs[p] EXCEPT !.pc = "refused"]
  <2>1. procs' = [procs EXCEPT ![p] = new] /\ resolveSent(procs[p].ids, "void")
    BY <1>4 DEF Caught, Go
  <2>2. rows' = [r \in Rows |-> IF r \in procs[p].ids THEN Resolved(rows[r], "void") ELSE rows[r]]
    BY ONLY <2>1 DEF resolveSent, Write, Resolved
  <2>3. new.pc = "refused"
    BY <1>1 DEF Locals
  <2> HIDE DEF new
  <2>4. ASSUME NEW r \in procs[p].ids
        PROVE  rows[r].tx = NoTx \/ txs[rows[r].tx].kind = "payout"
    BY <1>1, <1>4 DEF HeldOK, LocalOK, Named
  <2>5. ASSUME NEW r \in Rows
        PROVE  /\ rows'[r].tx = rows[r].tx /\ rows'[r].recorded = rows[r].recorded
               /\ rows'[r].voided => rows[r].voided \/ r \in procs[p].ids
    <3>1. rows[r] \in Row
      BY <1>1
    <3>2. /\ Resolved(rows[r], "void").recorded = rows[r].recorded
          /\ Resolved(rows[r], "void").tx = rows[r].tx
      BY <3>1, ResolvedFields
    <3> QED BY <2>2, <3>2
  <2>6. HeldOK(rows', p, new)
    BY <2>3 DEF HeldOK, Named, Resolving
  <2>7. \A r \in Rows : RowHeld(txs', count', r, rows'[r])
    BY <2>4, <2>5, RowsStay
  <2>8. \A r \in Rows : r \notin procs[p].ids => rows'[r] = rows[r]
    BY <2>2
  <2> QED BY <1>2, <2>1, <2>5, <2>6, <2>7, <2>8, HolderStep
<1> QED BY <1>3, <1>4

LEMMA RefuseQueue ==
  ASSUME QueueInv, NEW p \in Procs, Refuse(p)
  PROVE  QueueInv'
<1>1. /\ procs[p].pc \in {"waiting", "signing", "releasing"} /\ Caught(p)
      /\ UNCHANGED <<txs, count>>
  BY DEF Refuse, At
<1>2. BaseInv'
  BY RefuseBase DEF QueueInv
<1> QED BY <1>1, <1>2, CaughtQueue

LEMMA ReleaseQueue ==
  ASSUME QueueInv, NEW p \in Procs, Release(p)
  PROVE  QueueInv'
<1>1. procs[p].pc = "releasing" /\ UNCHANGED <<txs, count>>
  BY DEF Release, At
<1>2. BaseInv'
  BY ReleaseBase DEF QueueInv
<1>3. CASE Caught(p)
  BY <1>1, <1>2, <1>3, CaughtQueue
<1>4. CASE Go(p, [procs[p] EXCEPT !.pc = "finishing"]) /\ UNCHANGED rows
  <2> DEFINE new == [procs[p] EXCEPT !.pc = "finishing"]
  <2>1. procs[p] \in Locals /\ HeldOK(rows, p, procs[p])
    BY QueueFacts
  <2>2. new.pc = "finishing" /\ new.ids = procs[p].ids /\ new.tx = procs[p].tx
    BY <2>1 DEF Locals
  <2>3. procs' = [procs EXCEPT ![p] = new]
    BY <1>4 DEF Go
  <2> HIDE DEF new
  <2>4. HeldOK(rows', p, new)
    BY <1>1, <1>4, <2>1, <2>2 DEF HeldOK, Named, Resolving
  <2>5. \A r \in Rows : RowHeld(txs', count', r, rows'[r])
    BY <1>1, <1>4 DEF QueueInv
  <2>6. procs[p].pc \notin Overs
    BY <1>1 DEF Overs
  <2> QED BY <1>2, <1>4, <2>3, <2>4, <2>5, <2>6, HolderStep
<1> QED BY <1>3, <1>4 DEF Release

LEMMA CrashQueue ==
  ASSUME QueueInv, NEW p \in Procs, Crash(p)
  PROVE  QueueInv'
<1>1. /\ UNCHANGED <<rows, txs, count>> /\ procs[p].pc \notin Overs
  BY DEF Crash, Over, Overs
<1>2. /\ BaseInv' /\ procs[p] \in Locals
      /\ p \in Payouts => p \notin Sweepers
  BY CrashBase, QueueFacts
<1>3. PICK new : procs' = [procs EXCEPT ![p] = new] /\ new.pc \in {"idle", "dead"}
                 /\ (new.pc = "idle" => p \in Sweepers)
  <2>1. [procs[p] EXCEPT !.pc = "dead"].pc = "dead" /\ Fresh.pc = "idle"
    BY <1>2 DEF Locals, Fresh
  <2>2. CASE p \in Sweepers
    BY <2>1, <2>2 DEF Crash, Go
  <2>3. CASE p \notin Sweepers
    <3>1. procs' = [procs EXCEPT ![p] = [procs[p] EXCEPT !.pc = "dead"]]
      BY <2>3 DEF Crash, Go
    <3> QED BY <2>1, <3>1
  <2> QED BY <2>2, <2>3
<1>4. HeldOK(rows', p, new)
  BY <1>2, <1>3 DEF HeldOK, Named, Resolving
<1>5. \A r \in Rows : RowHeld(txs', count', r, rows'[r])
  BY <1>1 DEF QueueInv
<1> QED BY <1>1, <1>2, <1>3, <1>4, <1>5, HolderStep

LEMMA RecordQueue ==
  ASSUME QueueInv, NEW p \in Procs, Record(p)
  PROVE  QueueInv'
<1>0. BaseInv
  BY DEF QueueInv
<1>1. PICK t \in Nat : RecordFacts(p, t)
  BY <1>0, RecordIs
<1>2. BaseInv'
  BY <1>0, <1>1, RecordBase
<1>3. /\ rows \in [Rows -> Row] /\ procs \in [Procs -> Locals] /\ procs[p] \in Locals
      /\ txs \in Seq(Tx) /\ count \in Nat
      /\ LocalOK(txs, count, p, procs[p]) /\ HeldOK(rows, p, procs[p])
  BY QueueFacts
<1> DEFINE new == [procs[p] EXCEPT !.pc = "signed", !.tx = t]
<1>4. /\ procs' = [procs EXCEPT ![p] = new] /\ procs[p].pc = "signing"
      /\ UNCHANGED count /\ t \in Nat \ {NoTx}
  BY <1>1, <1>3 DEF RecordFacts
<1>5. new.pc = "signed" /\ new.tx = t /\ new.ids = procs[p].ids
  BY <1>3 DEF Locals
<1> HIDE DEF new
<1>6. \A r \in Rows : /\ rows'[r].recorded = rows[r].recorded /\ rows'[r].voided = rows[r].voided
                      /\ rows'[r].queued = rows[r].queued
                      /\ rows'[r].tx = IF r \in procs[p].ids THEN t ELSE rows[r].tx
                      /\ r \notin procs[p].ids => rows'[r] = rows[r]
  <2> SUFFICES ASSUME NEW r \in Rows
               PROVE  /\ rows'[r].recorded = rows[r].recorded /\ rows'[r].voided = rows[r].voided
                      /\ rows'[r].queued = rows[r].queued
                      /\ rows'[r].tx = IF r \in procs[p].ids THEN t ELSE rows[r].tx
                      /\ r \notin procs[p].ids => rows'[r] = rows[r]
    OBVIOUS
  <2>1. rows[r] \in Row
    BY <1>3
  <2>2. rows' = [q \in Rows |-> IF q \in procs[p].ids THEN [rows[q] EXCEPT !.tx = t] ELSE rows[q]]
    BY <1>1 DEF RecordFacts
  <2> QED BY <2>1, <2>2 DEF Row
<1>7. procs[p].ids \subseteq Rows
  BY <1>3 DEF Locals
<1>8. \A r \in procs[p].ids : LiveRow(rows[r]) /\ rows[r].tx = NoTx
  BY <1>3, <1>4 DEF HeldOK
<1>9. HeldOK(rows', p, new)
  BY <1>5, <1>6, <1>7, <1>8 DEF HeldOK, LiveRow, Named, Resolving
<1>10. ASSUME NEW r \in Rows PROVE RowHeld(txs', count', r, rows'[r])
  <2>1. /\ RowHeld(txs, count, r, rows[r]) /\ RowOK(txs, r, rows[r])
        /\ TxsMove(txs, count, txs', count') /\ DOMAIN txs' = DOMAIN txs \cup {t}
        /\ txs'[t].ids = procs[p].ids
    BY <1>0, <1>1, <1>4 DEF QueueInv, BaseInv, RowsOK, RecordFacts
  <2>2. CASE r \notin procs[p].ids
    <3>1. \A u \in DOMAIN txs' : r \in txs'[u].ids => u \in DOMAIN txs
      BY <2>1, <2>2
    <3>2. rows'[r] = rows[r] /\ (rows[r].tx # NoTx => rows[r].recorded)
      BY <1>6, <2>1, <2>2 DEF RowHeld
    <3> QED BY <1>3, <2>1, <3>1, <3>2, RowStays
  <2>3. CASE r \in procs[p].ids
    <3>1. rows[r].tx = NoTx /\ rows[r].recorded /\ ~rows[r].voided
      BY <1>8, <2>3 DEF LiveRow
    <3>2. NoTx \notin DOMAIN txs
      BY <1>3 DEF NoTx
    <3>3. \A u \in DOMAIN txs : txs[u].kind = "batch" /\ r \in txs[u].ids => Dead(txs, count, u)
      BY <2>1, <3>1, <3>2 DEF RowHeld
    <3>4. \A u \in DOMAIN txs : Dead(txs, count, u) => Dead(txs', count', u)
      BY <1>3, <2>1, DeadForGood
    <3>5. \A u \in DOMAIN txs : txs'[u].kind = txs[u].kind /\ txs'[u].ids = txs[u].ids
      BY <2>1 DEF TxsMove
    <3>6. rows'[r].tx = t /\ rows'[r].recorded /\ ~rows'[r].voided
      BY <1>6, <2>3, <3>1
    <3> QED BY <2>1, <3>3, <3>4, <3>5, <3>6 DEF RowHeld
  <2> QED BY <2>2, <2>3
<1>11. procs[p].pc \notin Overs
  BY <1>4 DEF Overs
<1> QED BY <1>2, <1>4, <1>6, <1>9, <1>10, <1>11, HolderStep

LEMMA BroadcastQueue ==
  ASSUME QueueInv, NEW p \in Procs, Broadcast(p)
  PROVE  QueueInv'
<1>0. BaseInv /\ BaseInv'
  BY BroadcastBase DEF QueueInv
<1>1. /\ procs[p].pc = "signed" /\ UNCHANGED <<rows, count>>
      /\ TxsMove(txs, count, txs', count) /\ DOMAIN txs' = DOMAIN txs
  BY <1>0, BroadcastIs
<1>2. PICK new \in Locals :
        /\ procs' = [procs EXCEPT ![p] = new]
        /\ new.ids = procs[p].ids /\ new.tx = procs[p].tx
        /\ new.pc \in {"sent", "releasing"}
  BY <1>0, BroadcastIs
<1>3. HeldOK(rows, p, procs[p]) /\ txs \in Seq(Tx) /\ count \in Nat
  BY QueueFacts
<1>4. HeldOK(rows', p, new)
  BY <1>1, <1>2, <1>3 DEF HeldOK, Named, Resolving
<1>5. ASSUME NEW r \in Rows PROVE RowHeld(txs', count', r, rows'[r])
  <2>1. RowHeld(txs, count, r, rows[r]) /\ RowOK(txs, r, rows[r])
    BY <1>0 DEF QueueInv, BaseInv, RowsOK
  <2>2. rows[r].tx # NoTx => rows[r].recorded
    BY <2>1 DEF RowHeld
  <2> QED BY <1>1, <1>3, <2>1, <2>2, RowStays
<1>6. procs[p].pc \notin Overs
  BY <1>1 DEF Overs
<1> QED BY <1>0, <1>1, <1>2, <1>4, <1>5, <1>6, HolderStep

\* The node and the chain.
LEMMA ChainQueue ==
  ASSUME QueueInv, BaseInv', UNCHANGED <<rows, procs>>,
         TxsMove(txs, count, txs', count'), DOMAIN txs' = DOMAIN txs
  PROVE  QueueInv'
<1>1. txs \in Seq(Tx) /\ count \in Nat
  BY DEF QueueInv, BaseInv, Typed
<1>2. ASSUME NEW r \in Rows PROVE RowHeld(txs', count', r, rows'[r])
  <2>1. RowHeld(txs, count, r, rows[r]) /\ RowOK(txs, r, rows[r])
    BY DEF QueueInv, BaseInv, RowsOK
  <2>2. rows[r].tx # NoTx => rows[r].recorded
    BY <2>1 DEF RowHeld
  <2> QED BY <1>1, <2>1, <2>2, RowStays
<1> QED BY <1>2 DEF QueueInv

LEMMA QueueInit ==
  ASSUME Init
  PROVE  QueueInv
<1>1. \A r \in Rows : rows[r] = Absent
  BY DEF Init
<1>2. \A p \in Procs : procs[p] = Fresh
  BY DEF Init
<1>3. txs = <<>>
  BY DEF Init
<1>4. Absent.tx = NoTx /\ ~Absent.recorded /\ Fresh.pc = "idle"
  BY DEF Absent, Fresh
<1>5. \A p \in Payouts : p \in Rows
  BY DEF Rows
<1>6. \A p \in Procs : HeldOK(rows, p, procs[p])
  BY <1>1, <1>2, <1>4, <1>5 DEF HeldOK, Named, Resolving
<1>7. Alone(procs)
  BY <1>2, <1>4 DEF Alone, Overs
<1>8. \A r \in Rows : RowHeld(txs, count, r, rows[r])
  BY <1>1, <1>3, <1>4 DEF RowHeld
<1> QED BY <1>6, <1>7, <1>8, BaseInit DEF QueueInv

LEMMA QueueStep ==
  ASSUME QueueInv, NoFalseReads, NothingOverlaps, [Next]_vars
  PROVE  QueueInv'
<1>0. BaseInv /\ BaseInv'
  BY BaseStep DEF QueueInv
<1>1. ASSUME NEW r \in Rows, Charge(r) \/ LeaseLapses(r) PROVE QueueInv'
  BY <1>1, ChargeQueue, LeaseLapsesQueue
<1>2. ASSUME NEW w \in Payouts, Withdraw(w) PROVE QueueInv'
  BY <1>2, WithdrawQueue
<1>3. ASSUME NEW s \in Sweepers, Sweep(s) \/ SweepStep(s) PROVE QueueInv'
  BY <1>3, SweepQueue, ReadReceiptQueue, ReadCountQueue, TakeQueue DEF SweepStep
<1>4. ASSUME NEW p \in Procs, Step(p) \/ Crash(p) PROVE QueueInv'
  BY <1>4, AcquireQueue, RecordQueue, BroadcastQueue, AwaitQueue, ReleaseQueue, SettleQueue, RefuseQueue,
     CrashQueue DEF Step
<1>5. ASSUME NEW t \in DOMAIN txs, Mine(t) \/ Drop(t) PROVE QueueInv'
  <2>1. TxsMove(txs, count, txs', count') /\ DOMAIN txs' = DOMAIN txs
    BY <1>0, <1>5, MineBase, DropBase
  <2>2. UNCHANGED <<rows, procs>>
    BY <1>5 DEF Mine, Drop
  <2> QED BY <1>0, <2>1, <2>2, ChainQueue
<1>6. CASE OtherTraffic
  <2>1. TxsMove(txs, count, txs', count')
    BY <1>0, <1>6, OtherTrafficBase
  <2>2. UNCHANGED <<rows, procs, txs>>
    BY <1>6 DEF OtherTraffic, Overtaken
  <2> QED BY <1>0, <2>1, <2>2, ChainQueue
<1>7. CASE UNCHANGED <<rows, procs, txs, count>>
  BY <1>0, <1>7 DEF QueueInv
<1>8. LockLapses \/ UNCHANGED vars => UNCHANGED <<rows, procs, txs, count>>
  BY DEF LockLapses, vars
<1> QED BY <1>1, <1>2, <1>3, <1>4, <1>5, <1>6, <1>7, <1>8 DEF Next

LEMMA QueueInvHolds ==
  ASSUME NoFalseReads, NothingOverlaps
  PROVE  Spec => []QueueInv
<1>1. Init => QueueInv
  BY QueueInit
<1>2. QueueInv /\ [Next]_vars => QueueInv'
  BY QueueStep
<1> QED BY <1>1, <1>2, PTL DEF Spec

----------------------------------------------------------------------------
(* The sweeps and withdrawals implement the ledger of charges.             *)

FateOf(T, row) ==
  IF ~row.recorded THEN "absent"
  ELSE IF row.voided THEN "void"
  ELSE IF row.tx # NoTx /\ T[row.tx].kind = "batch" /\ T[row.tx].status = "mined" THEN "queued"
  ELSE "owed"

Fates == \A r \in Rows : Fate(r) = FateOf(txs, rows[r])

\* A row was mined in the batch it names and in no other.
LEMMA FateIs ==
  ASSUME QueueInv, NEW r \in Rows
  PROVE  Fate(r) = FateOf(txs, rows[r])
<1> DEFINE row == rows[r]
           M == MinedWith("batch", r)
<1>1. /\ RowHeld(txs, count, r, row) /\ RowOK(txs, r, row) /\ row \in Row
      /\ txs \in Seq(Tx) /\ NoTx \notin DOMAIN txs
  BY DEF QueueInv, BaseInv, Typed, RowsOK, NoTx
<1>2. \A t \in M : t = row.tx /\ row.tx # NoTx
  BY <1>1 DEF MinedWith, RowHeld, Dead
<1>3. row.tx # NoTx => row.tx \in DOMAIN txs /\ r \in txs[row.tx].ids
  BY <1>1 DEF RowOK, Carries
<1>4. CASE row.tx # NoTx /\ txs[row.tx].kind = "batch" /\ txs[row.tx].status = "mined"
  <2>1. M = {row.tx}
    BY <1>2, <1>3, <1>4 DEF MinedWith
  <2>2. Cardinality(M) = 1 /\ Queued(r)
    BY <2>1, FS_Singleton DEF Queued
  <2>3. row.recorded => ~row.voided
    BY <1>1, <1>4 DEF RowHeld
  <2> HIDE DEF M
  <2> QED BY <1>4, <2>2, <2>3 DEF Fate, FateOf, M
<1>5. CASE ~(row.tx # NoTx /\ txs[row.tx].kind = "batch" /\ txs[row.tx].status = "mined")
  <2>1. M = {}
    BY <1>2, <1>5 DEF MinedWith
  <2>2. Cardinality(M) = 0 /\ ~Queued(r)
    BY <2>1, FS_EmptySet DEF Queued
  <2>3. row.voided \in BOOLEAN
    BY <1>1 DEF Row
  <2> HIDE DEF M
  <2> QED BY <1>5, <2>2, <2>3 DEF Fate, FateOf, M
<1> QED BY <1>4, <1>5

Promised == {<<"absent", "owed">>, <<"owed", "queued">>, <<"owed", "void">>}

\* Rows that move together, as the ledger lets them.
LEMMA FatesMove ==
  ASSUME Fates, Fates', NEW from, NEW to, <<from, to>> \in Promised,
         \A r \in Rows : \/ FateOf(txs', rows'[r]) = FateOf(txs, rows[r])
                         \/ FateOf(txs, rows[r]) = from /\ FateOf(txs', rows'[r]) = to
  PROVE  [Ledger!FateNext]_([r \in Rows |-> Fate(r)])
<1> DEFINE f == [r \in Rows |-> Fate(r)]
           S == {r \in Rows : f'[r] # f[r]}
<1>1. \A r \in Rows : f[r] = FateOf(txs, rows[r]) /\ f'[r] = FateOf(txs', rows'[r])
  BY DEF Fates
<1>2. \A r \in S : f[r] = from /\ f'[r] = to
  BY <1>1
<1>3. DOMAIN f = Rows /\ DOMAIN f' = Rows /\ S \subseteq Rows
  OBVIOUS
<1>4. f' = [r \in Rows |-> IF r \in S THEN to ELSE f[r]]
  BY <1>2, <1>3
<1>5. CASE S = {}
  <2>1. f' = [r \in Rows |-> f[r]]
    BY ONLY <1>4, <1>5
  <2>2. f' = f
    BY ONLY <1>3, <2>1
  <2> QED BY <2>2
<1>6. CASE S # {}
  <2>1. Ledger!Move(S, from, to)
    <3>1. \A r \in S : f[r] = from
      BY <1>2
    <3> HIDE DEF S
    <3> QED BY <1>4, <1>6, <3>1 DEF Ledger!Move
  <2> HIDE DEF S, f
  <2>2. Ledger!FateNext
    BY <1>3, <2>1 DEF Ledger!FateNext, Promised
  <2> QED BY <2>2
<1> QED BY <1>5, <1>6

LEMMA FateStays ==
  ASSUME NEW T \in Seq(Tx), NEW n, NEW U, NEW m, TxsMove(T, n, U, m),
         NEW r, NEW old, NEW new, RowOK(T, r, old),
         new.recorded = old.recorded, new.voided = old.voided, new.tx = old.tx,
         old.tx # NoTx /\ T[old.tx].kind = "batch" /\ U[old.tx].status = "mined" => T[old.tx].status = "mined"
  PROVE  FateOf(U, new) = FateOf(T, old)
<1>1. old.tx # NoTx => old.tx \in DOMAIN T
  BY DEF RowOK, Carries
<1> QED BY <1>1 DEF FateOf, TxsMove

Moves(from, to) ==
  \A r \in Rows : \/ FateOf(txs', rows'[r]) = FateOf(txs, rows[r])
                  \/ FateOf(txs, rows[r]) = from /\ FateOf(txs', rows'[r]) = to

Stays == \A r \in Rows : FateOf(txs', rows'[r]) = FateOf(txs, rows[r])

\* Nothing is mined, and rows keep what they were.
LEMMA RowsStayPut ==
  ASSUME QueueInv, TxsMove(txs, count, txs', count'),
         \A t \in DOMAIN txs : txs'[t].status = "mined" => txs[t].status = "mined",
         \A r \in Rows : /\ rows'[r].recorded = rows[r].recorded /\ rows'[r].voided = rows[r].voided
                         /\ rows'[r].tx = rows[r].tx
  PROVE  Stays
<1>1. txs \in Seq(Tx) /\ \A r \in Rows : RowOK(txs, r, rows[r])
  BY DEF QueueInv, BaseInv, Typed, RowsOK
<1>2. \A r \in Rows : rows[r].tx # NoTx => rows[r].tx \in DOMAIN txs
  BY <1>1 DEF RowOK, Carries
<1> SUFFICES ASSUME NEW r \in Rows PROVE FateOf(txs', rows'[r]) = FateOf(txs, rows[r])
  BY DEF Stays
<1>3. rows[r].tx # NoTx /\ txs[rows[r].tx].kind = "batch" /\ txs'[rows[r].tx].status = "mined"
        => txs[rows[r].tx].status = "mined"
  BY <1>2
<1> QED BY <1>1, <1>3, FateStays

LEMMA WrittenFate ==
  ASSUME QueueInv, NEW r \in Rows, ~rows[r].recorded, recordOwed(r), UNCHANGED txs
  PROVE  Moves("absent", "owed")
<1>1. rows \in [Rows -> Row]
  BY DEF QueueInv, BaseInv, Typed
<1>2. Recorded.recorded /\ ~Recorded.voided /\ Recorded.tx = NoTx
  BY DEF Recorded, Absent
<1>3. rows'[r] = Recorded /\ \A q \in Rows : q # r => rows'[q] = rows[q]
  BY <1>1 DEF recordOwed
<1>4. FateOf(txs', rows'[r]) = "owed" /\ FateOf(txs, rows[r]) = "absent"
  BY <1>2, <1>3 DEF FateOf
<1> QED BY <1>3, <1>4 DEF Moves

LEMMA MinedFates ==
  ASSUME QueueInv, NoFalseReads, NEW t \in DOMAIN txs, Mine(t)
  PROVE  Moves("owed", "queued")
<1>1. /\ BaseInv /\ txs \in Seq(Tx) /\ \A r \in Rows : RowOK(txs, r, rows[r])
  BY DEF QueueInv, BaseInv, Typed, RowsOK
<1>2. /\ TxsMove(txs, count, txs', count')
      /\ \A u \in DOMAIN txs : u # t => txs'[u] = txs[u]
      /\ txs[t].status # "mined"
  <2>1. txs[t].status \in {"pending", "lost"}
    BY <1>1, MineBase
  <2> QED BY <1>1, <2>1, MineBase
<1>3. UNCHANGED rows
  BY DEF Mine
<1>4. txs'[t].kind = txs[t].kind
  BY <1>2 DEF TxsMove
<1> SUFFICES ASSUME NEW r \in Rows
             PROVE  \/ FateOf(txs', rows[r]) = FateOf(txs, rows[r])
                    \/ FateOf(txs, rows[r]) = "owed" /\ FateOf(txs', rows[r]) = "queued"
  BY <1>3 DEF Moves
<1>5. rows[r].tx # NoTx => rows[r].tx \in DOMAIN txs
  BY <1>1 DEF RowOK, Carries
<1>6. CASE rows[r].tx = t
  BY <1>2, <1>4, <1>6 DEF FateOf
<1>7. CASE rows[r].tx # t
  BY <1>2, <1>5, <1>7 DEF FateOf
<1> QED BY <1>6, <1>7

LEMMA SettledFates ==
  ASSUME QueueInv, NEW p \in Procs, Settle(p)
  PROVE  Moves("owed", "void")
<1> DEFINE l == procs[p]
<1>1. /\ rows \in [Rows -> Row] /\ l \in Locals /\ LocalOK(txs, count, p, l) /\ HeldOK(rows, p, l)
  BY QueueFacts
<1>2. /\ UNCHANGED txs /\ l.pc \in {"settling", "finishing"} /\ resolveSent(l.ids, Verdict(p))
  BY DEF Settle, At
<1>3. rows' = [r \in Rows |-> IF r \in l.ids THEN Resolved(rows[r], Verdict(p)) ELSE rows[r]]
  BY ONLY <1>2 DEF resolveSent, Write, Resolved
<1>4. OutcomeOK(txs, count, l)
  BY <1>1, <1>2 DEF LocalOK, Decided
<1>5. Verdict(p) = "void" => txs[l.tx].kind = "payout"
  BY DEF Verdict, Payout
<1>6. Verdict(p) = "owed" => txs[l.tx].kind = "payout" \/ txs[l.tx].status # "mined"
  <2>1. l.outcome \in Outcomes
    BY <1>1 DEF Locals
  <2> QED BY <1>4, <2>1 DEF Verdict, Payout, Mined, OutcomeOK, Dead, Outcomes
<1>7. ASSUME NEW r \in l.ids, r \in Rows
      PROVE  \/ FateOf(txs, Resolved(rows[r], Verdict(p))) = FateOf(txs, rows[r])
             \/ FateOf(txs, rows[r]) = "owed" /\ FateOf(txs, Resolved(rows[r], Verdict(p))) = "void"
  <2> DEFINE new == Resolved(rows[r], Verdict(p))
  <2>1. rows[r].recorded /\ ~rows[r].voided /\ rows[r].tx = l.tx
    BY <1>1, <1>2 DEF HeldOK, Named, LiveRow
  <2>2. rows[r] \in Row
    BY <1>1, <1>7
  <2>3. /\ new.recorded = rows[r].recorded
        /\ new.voided = (IF Verdict(p) = "void" THEN TRUE ELSE rows[r].voided)
        /\ new.tx = IF Verdict(p) = "owed" THEN NoTx ELSE rows[r].tx
    BY <2>2, ResolvedFields
  <2> HIDE DEF new
  <2>4. CASE Verdict(p) = "void"
    <3>1. new.voided = TRUE
      BY ONLY <2>3, <2>4, Zenon
    <3>2. new.voided
      BY ONLY <3>1, Zenon
    <3>3. FateOf(txs, new) = "void" /\ FateOf(txs, rows[r]) = "owed"
      BY <1>5, <2>1, <2>3, <2>4, <3>2 DEF FateOf
    <3> QED BY <3>3 DEF new
  <2>5. CASE Verdict(p) = "owed"
    <3>1. new.voided = rows[r].voided /\ new.tx = NoTx
      BY <2>3, <2>5
    <3>2. FateOf(txs, new) = "owed" /\ FateOf(txs, rows[r]) = "owed"
      BY <1>6, <2>1, <2>3, <2>5, <3>1 DEF FateOf
    <3> QED BY <3>2 DEF new
  <2>6. CASE Verdict(p) \notin {"void", "owed"}
    <3>1. new.voided = rows[r].voided /\ new.tx = rows[r].tx
      BY <2>3, <2>6
    <3>2. FateOf(txs, new) = FateOf(txs, rows[r])
      BY <2>3, <3>1 DEF FateOf
    <3> QED BY <3>2 DEF new
  <2> QED BY <2>4, <2>5, <2>6 DEF new
<1> QED BY <1>2, <1>3, <1>7 DEF Moves

LEMMA CaughtFates ==
  ASSUME QueueInv, UNCHANGED <<txs, count>>, NEW p \in Procs, Caught(p),
         procs[p].pc \in {"waiting", "signing", "releasing"}
  PROVE  Moves("owed", "void")
<1>1. /\ rows \in [Rows -> Row] /\ LocalOK(txs, count, p, procs[p]) /\ HeldOK(rows, p, procs[p])
      /\ procs[p] \in Locals /\ txs \in Seq(Tx) /\ count \in Nat
      /\ p \in Payouts \/ p \in Sweepers
  BY QueueFacts
<1>2. CASE p \in Sweepers
  <2>1. releaseOwed(procs[p].ids)
    BY <1>2 DEF Caught
  <2>2. rows' = [r \in Rows |-> IF r \in procs[p].ids THEN [rows[r] EXCEPT !.leased = FALSE] ELSE rows[r]]
    BY ONLY <2>1 DEF releaseOwed, Write
  <2>3. \A r \in Rows : /\ rows'[r].tx = rows[r].tx /\ rows'[r].recorded = rows[r].recorded
                        /\ rows'[r].voided = rows[r].voided
    <3> SUFFICES ASSUME NEW r \in Rows
                 PROVE  /\ rows'[r].tx = rows[r].tx /\ rows'[r].recorded = rows[r].recorded
                        /\ rows'[r].voided = rows[r].voided
      OBVIOUS
    <3>1. rows[r] \in Row
      BY <1>1
    <3> QED BY <2>2, <3>1 DEF Row
  <2>4. TxsMove(txs, count, txs', count')
    BY <1>1 DEF TxsMove
  <2>5. Stays
    BY <2>3, <2>4, RowsStayPut
  <2> QED BY <2>5 DEF Stays, Moves
<1>3. CASE p \notin Sweepers
  <2>1. resolveSent(procs[p].ids, "void")
    BY <1>3 DEF Caught
  <2>2. rows' = [r \in Rows |-> IF r \in procs[p].ids THEN Resolved(rows[r], "void") ELSE rows[r]]
    BY ONLY <2>1 DEF resolveSent, Write, Resolved
  <2>3. ASSUME NEW r \in procs[p].ids, r \in Rows
        PROVE  FateOf(txs, rows[r]) = "owed" /\ FateOf(txs, Resolved(rows[r], "void")) = "void"
    <3>1. /\ rows[r].recorded /\ ~rows[r].voided
          /\ rows[r].tx = NoTx \/ txs[rows[r].tx].kind = "payout"
      BY <1>1, <1>3 DEF HeldOK, LocalOK, Named, LiveRow
    <3>2. rows[r] \in Row
      BY <1>1, <2>3
    <3>3. /\ Resolved(rows[r], "void").recorded = rows[r].recorded
          /\ Resolved(rows[r], "void").voided
      <4>1. \A to : Resolved(rows[r], to).voided = (IF to = "void" THEN TRUE ELSE rows[r].voided)
        BY <3>2, ResolvedFields
      <4>2. Resolved(rows[r], "void").voided = (IF "void" = "void" THEN TRUE ELSE rows[r].voided)
        BY ONLY <4>1, Zenon
      <4>3. Resolved(rows[r], "void").voided
        BY ONLY <4>2, Zenon
      <4> QED BY <3>2, <4>3, ResolvedFields
    <3> QED BY <3>1, <3>3 DEF FateOf
  <2> QED BY <2>2, <2>3 DEF Moves
<1> QED BY <1>2, <1>3

LEMMA SignedFates ==
  ASSUME QueueInv, NEW p \in Procs, Record(p)
  PROVE  Stays
<1>1. /\ BaseInv /\ rows \in [Rows -> Row] /\ txs \in Seq(Tx) /\ HeldOK(rows, p, procs[p])
  BY QueueFacts
<1>2. PICK t \in Nat : RecordFacts(p, t)
  BY <1>1, RecordIs
<1>3. /\ rows' = [r \in Rows |-> IF r \in procs[p].ids THEN [rows[r] EXCEPT !.tx = t] ELSE rows[r]]
      /\ txs'[t].status = "signed" /\ \A u \in DOMAIN txs : txs'[u] = txs[u]
      /\ procs[p].pc = "signing"
  BY <1>2 DEF RecordFacts
<1> SUFFICES ASSUME NEW r \in Rows PROVE FateOf(txs', rows'[r]) = FateOf(txs, rows[r])
  BY DEF Stays
<1>4. rows[r] \in Row /\ RowOK(txs, r, rows[r])
  BY <1>1 DEF BaseInv, RowsOK
<1>5. CASE r \in procs[p].ids
  <2>1. rows[r].recorded /\ ~rows[r].voided /\ rows[r].tx = NoTx
    BY <1>1, <1>3, <1>5 DEF HeldOK, LiveRow
  <2>2. /\ rows'[r].recorded = rows[r].recorded /\ rows'[r].voided = rows[r].voided
        /\ rows'[r].tx = t
    BY <1>3, <1>4, <1>5 DEF Row
  <2> QED BY <1>3, <2>1, <2>2 DEF FateOf
<1>6. CASE r \notin procs[p].ids
  BY <1>3, <1>4, <1>6 DEF FateOf, RowOK, Carries
<1> QED BY <1>5, <1>6

LEMMA LedgerMoves ==
  ASSUME QueueInv, NoFalseReads, [Next]_vars
  PROVE  Moves("absent", "owed") \/ Moves("owed", "queued") \/ Moves("owed", "void")
<1> DEFINE Allowed == Moves("absent", "owed") \/ Moves("owed", "queued") \/ Moves("owed", "void")
<1>0. BaseInv /\ txs \in Seq(Tx) /\ count \in Nat /\ rows \in [Rows -> Row]
  BY DEF QueueInv, BaseInv, Typed
<1>1. Stays => Allowed
  BY DEF Stays, Moves
<1>2. UNCHANGED <<rows, txs>> => Stays
  BY DEF Stays
<1> HIDE DEF Allowed
<1>3. ASSUME NEW r \in Rows, Charge(r) PROVE Allowed
  BY <1>3, WrittenFate DEF Charge, Allowed
<1>4. ASSUME NEW r \in Rows, LeaseLapses(r) PROVE Allowed
  <2>1. rows' = [rows EXCEPT ![r] = [rows[r] EXCEPT !.leased = FALSE]] /\ UNCHANGED <<txs, count>>
    BY <1>4 DEF LeaseLapses
  <2>2. TxsMove(txs, count, txs', count')
    BY <1>0, <2>1 DEF TxsMove
  <2>3. rows[r] \in Row
    BY <1>0
  <2>4. \A q \in Rows : /\ rows'[q].recorded = rows[q].recorded /\ rows'[q].voided = rows[q].voided
                        /\ rows'[q].tx = rows[q].tx
    BY <1>0, <2>1, <2>3 DEF Row
  <2>5. Stays
    BY <2>1, <2>2, <2>4, RowsStayPut
  <2> QED BY <1>1, <2>5
<1>5. ASSUME NEW w \in Payouts, Withdraw(w) PROVE Allowed
  <2>1. w \in Rows /\ w \in Procs
    BY DEF Rows, Procs
  <2>2. HeldOK(rows, w, procs[w])
    BY <2>1, QueueFacts
  <2>3. ~rows[w].recorded
    BY <1>5, <2>2 DEF Withdraw, At, HeldOK
  <2> QED BY <1>5, <2>1, <2>3, WrittenFate DEF Withdraw, Allowed
<1>6. ASSUME NEW s \in Sweepers, Sweep(s) \/ ReadReceipt(s) \/ ReadCount(s) PROVE Allowed
  BY <1>1, <1>2, <1>6 DEF Sweep, ReadReceipt, ReadCount
<1>7. ASSUME NEW s \in Sweepers, Take(s) PROVE Allowed
  <2>1. PICK ids \in SUBSET Rows : takeOwed(ids)
    BY <1>7 DEF Take
  <2>2. UNCHANGED <<txs, count>>
    BY <1>7 DEF Take
  <2>3. rows' = [r \in Rows |-> IF r \in ids THEN [rows[r] EXCEPT !.leased = TRUE] ELSE rows[r]]
    BY ONLY <2>1 DEF takeOwed, Write
  <2>4. \A q \in Rows : /\ rows'[q].recorded = rows[q].recorded /\ rows'[q].voided = rows[q].voided
                        /\ rows'[q].tx = rows[q].tx
    <3> SUFFICES ASSUME NEW q \in Rows
                 PROVE  /\ rows'[q].recorded = rows[q].recorded /\ rows'[q].voided = rows[q].voided
                        /\ rows'[q].tx = rows[q].tx
      OBVIOUS
    <3>1. rows[q] \in Row
      BY <1>0
    <3> QED BY <2>3, <3>1 DEF Row
  <2>5. TxsMove(txs, count, txs', count')
    BY <1>0, <2>2 DEF TxsMove
  <2>6. Stays
    BY <2>2, <2>4, <2>5, RowsStayPut
  <2> QED BY <1>1, <2>6
<1>8. ASSUME NEW p \in Procs, Acquire(p) \/ Await(p) \/ Crash(p) PROVE Allowed
  BY <1>1, <1>2, <1>8 DEF Acquire, Await, Crash
<1>9. ASSUME NEW p \in Procs, Record(p) PROVE Allowed
  BY <1>1, <1>9, SignedFates
<1>10. ASSUME NEW p \in Procs, Settle(p) PROVE Allowed
  BY <1>10, SettledFates DEF Allowed
<1>11. ASSUME NEW p \in Procs, Refuse(p) \/ Release(p) PROVE Allowed
  <2>1. procs[p].pc \in {"waiting", "signing", "releasing"} /\ UNCHANGED <<txs, count>>
    BY <1>11 DEF Refuse, Release, At
  <2>2. CASE Caught(p)
    BY <2>1, <2>2, CaughtFates DEF Allowed
  <2> QED BY <1>1, <1>2, <1>11, <2>1, <2>2 DEF Refuse, Release
<1>12. ASSUME NEW p \in Procs, Broadcast(p) PROVE Allowed
  <2>1. /\ TxsMove(txs, count, txs', count) /\ UNCHANGED <<rows, count>>
        /\ txs'[procs[p].tx].status \in {"pending", "lost"}
        /\ \A u \in DOMAIN txs : u # procs[p].tx => txs'[u] = txs[u]
    BY <1>0, <1>12, BroadcastIs
  <2>2. \A t \in DOMAIN txs : txs'[t].status = "mined" => txs[t].status = "mined"
    BY <2>1
  <2>3. Stays
    BY <2>1, <2>2, RowsStayPut
  <2> QED BY <1>1, <2>3
<1>13. ASSUME NEW t \in DOMAIN txs, Mine(t) PROVE Allowed
  BY <1>13, MinedFates DEF Allowed
<1>14. ASSUME NEW t \in DOMAIN txs, Drop(t) PROVE Allowed
  <2>1. /\ TxsMove(txs, count, txs', count') /\ UNCHANGED rows
        /\ \A u \in DOMAIN txs : txs'[u].status = "mined" => txs[u].status = "mined"
    BY <1>0, <1>14, DropBase DEF Drop
  <2>2. Stays
    BY <2>1, RowsStayPut
  <2> QED BY <1>1, <2>2
<1>15. OtherTraffic \/ LockLapses \/ UNCHANGED vars => UNCHANGED <<rows, txs>>
  BY DEF OtherTraffic, Overtaken, LockLapses, vars
<1>16. Allowed
  BY <1>1, <1>2, <1>3, <1>4, <1>5, <1>6, <1>7, <1>8, <1>9, <1>10, <1>11, <1>12, <1>13, <1>14, <1>15
     DEF Next, Step, SweepStep
<1> QED BY <1>16 DEF Allowed

\* Every charge is recorded, then queued once or voided, and never comes
\* back, however transactions are lost, revert or overtake each other: while
\* sweeps run alone, what resolve() reads of a hash is all a row needs to be
\* signed again or not (pool-buy.ts:286).
THEOREM LedgerIsKept ==
  ASSUME NoFalseReads, NothingOverlaps
  PROVE  Spec => LedgerSpec
<1>1. Init => Ledger!FateInit
  <2> SUFFICES ASSUME Init PROVE Ledger!FateInit
    OBVIOUS
  <2>1. \A r \in Rows : ~rows[r].recorded
    BY DEF Init, Absent
  <2>2. \A r \in Rows : Fate(r) = "absent"
    BY <2>1 DEF Fate
  <2> QED BY <2>2 DEF Ledger!FateInit
<1>2. QueueInv => Fates
  BY FateIs DEF Fates
<1>3. QueueInv /\ Fates /\ Fates' /\ [Next]_vars => [Ledger!FateNext]_([r \in Rows |-> Fate(r)])
  <2> SUFFICES ASSUME QueueInv, Fates, Fates', [Next]_vars
               PROVE  [Ledger!FateNext]_([r \in Rows |-> Fate(r)])
    OBVIOUS
  <2>1. CASE Moves("absent", "owed")
    BY <2>1, FatesMove DEF Moves, Promised
  <2>2. CASE Moves("owed", "queued")
    BY <2>2, FatesMove DEF Moves, Promised
  <2>3. CASE Moves("owed", "void")
    BY <2>3, FatesMove DEF Moves, Promised
  <2> QED BY <2>1, <2>2, <2>3, LedgerMoves
<1> QED BY <1>1, <1>2, <1>3, QueueInvHolds, PTL DEF Spec, LedgerSpec, Ledger!FateSpec

----------------------------------------------------------------------------
(* A trader is charged for a withdrawal only if it was paid.               *)

\* A withdrawal that has not signed does not die silently: nothing else
\* knows that its charge is for a payout nobody sent.
NoOrphans == "orphan" \notin Faults

Asking       == {"waiting", "signing"}
OwedRow(row) == LiveRow(row) /\ row.tx = NoTx
PaidIn(T, w) == \E t \in DOMAIN T : PayoutOf(T, t, w) /\ T[t].status = "mined"

ChargedOK(T, w, l, row) ==
  /\ OwedRow(row) => PaidIn(T, w) \/ l.pc \in Asking
  /\ \A t \in DOMAIN T : T[t].kind = "batch" /\ w \in T[t].ids => PaidIn(T, w)

ChargedInv ==
  /\ QueueInv
  /\ \A w \in Payouts : ChargedOK(txs, w, procs[w], rows[w])

LEMMA ChargedStays ==
  ASSUME NEW T \in Seq(Tx), NEW n, NEW U, NEW m, TxsMove(T, n, U, m),
         NEW w, NEW l, NEW row, ChargedOK(T, w, l, row),
         NEW k, NEW new,
         OwedRow(new) => \/ PaidIn(T, w) \/ k.pc \in Asking
                         \/ OwedRow(row) /\ (l.pc \in Asking => k.pc \in Asking),
         \A t \in DOMAIN U : U[t].kind = "batch" /\ w \in U[t].ids => t \in DOMAIN T \/ PaidIn(T, w)
  PROVE  ChargedOK(U, w, k, new)
<1>1. PaidIn(T, w) => PaidIn(U, w)
  BY DEF PaidIn, PayoutOf, TxsMove
<1>2. \A t \in DOMAIN T : U[t].kind = T[t].kind /\ U[t].ids = T[t].ids
  BY DEF TxsMove
<1> QED BY <1>1, <1>2 DEF ChargedOK

LEMMA ChargedInit ==
  ASSUME Init
  PROVE  ChargedInv
<1>1. \A r \in Rows : ~LiveRow(rows[r])
  BY DEF Init, Absent, LiveRow
<1>2. txs = <<>> /\ \A w \in Payouts : w \in Rows
  BY DEF Init, Rows
<1>3. \A w \in Payouts : ChargedOK(txs, w, procs[w], rows[w])
  BY <1>1, <1>2 DEF ChargedOK, OwedRow
<1> QED BY <1>3, QueueInit DEF ChargedInv

\* A settled row goes back to owed only when its payout was mined, or when
\* it was in a batch already.
LEMMA SettleCharged ==
  ASSUME ChargedInv, NEW p \in Procs, Settle(p), NEW w \in Payouts
  PROVE  ChargedOK(txs, w, procs'[w], rows'[w])
<1> DEFINE l == procs[p]
<1>1. /\ BaseInv /\ rows \in [Rows -> Row] /\ procs \in [Procs -> Locals] /\ l \in Locals
      /\ LocalOK(txs, count, p, l) /\ HeldOK(rows, p, l)
      /\ txs \in Seq(Tx) /\ count \in Nat
  BY QueueFacts DEF ChargedInv
<1>2. w \in Procs /\ w \in Rows /\ rows[w] \in Row /\ ChargedOK(txs, w, procs[w], rows[w])
  BY <1>1 DEF Procs, Rows, ChargedInv
<1>3. /\ l.pc \in {"settling", "finishing"} /\ resolveSent(l.ids, Verdict(p))
      /\ procs' = [procs EXCEPT ![p] = [procs[p] EXCEPT !.pc = Then(p)]]
  BY DEF Settle, At, Go
<1>4. rows' = [r \in Rows |-> IF r \in l.ids THEN Resolved(rows[r], Verdict(p)) ELSE rows[r]]
  BY ONLY <1>3 DEF resolveSent, Write, Resolved
<1>5. Carries(txs, l.tx, l.ids) /\ OutcomeOK(txs, count, l)
  BY <1>1, <1>3 DEF LocalOK, Named, Decided
<1>6. procs[w].pc \in Asking => procs'[w] = procs[w]
  BY <1>1, <1>2, <1>3 DEF Asking
<1>7. TxsMove(txs, count, txs, count)
  BY <1>1 DEF TxsMove
<1>8. CASE w \notin l.ids
  <2>1. rows'[w] = rows[w]
    BY <1>2, <1>4, <1>8
  <2> QED BY <1>1, <1>2, <1>6, <1>7, <2>1, ChargedStays
<1>9. CASE w \in l.ids
  <2> DEFINE new == Resolved(rows[w], Verdict(p))
  <2>1. rows'[w] = new
    BY <1>2, <1>4, <1>9
  <2>2. rows[w].tx = l.tx /\ rows[w].tx # NoTx
    <3>1. rows[w].tx = l.tx
      BY <1>1, <1>3, <1>9 DEF HeldOK, Named
    <3>2. NoTx \notin DOMAIN txs
      BY <1>1 DEF NoTx
    <3> QED BY <1>5, <3>1, <3>2 DEF Carries
  <2>3. new.tx = IF Verdict(p) = "owed" THEN NoTx ELSE rows[w].tx
    BY <1>2, ResolvedFields
  <2> HIDE DEF new
  <2>4. OwedRow(new) => Verdict(p) = "owed"
    BY <2>2, <2>3 DEF OwedRow
  <2>5. txs[l.tx] \in Tx /\ l.outcome \in Outcomes
    BY <1>1, <1>5 DEF Carries, Locals
  <2>6. CASE txs[l.tx].kind = "payout"
    <3>1. Verdict(p) = "owed" => txs[l.tx].status = "mined"
      BY <1>5, <2>6 DEF Verdict, Payout, Mined, OutcomeOK
    <3>2. Verdict(p) = "owed" => PaidIn(txs, w)
      BY <1>5, <1>9, <2>6, <3>1 DEF PaidIn, PayoutOf, Carries
    <3> QED BY <1>1, <1>2, <1>7, <2>1, <2>4, <3>2, ChargedStays
  <2>7. CASE txs[l.tx].kind # "payout"
    <3>1. txs[l.tx].kind = "batch"
      BY <2>5, <2>7 DEF Tx, Kinds
    <3>2. PaidIn(txs, w)
      BY <1>2, <1>5, <1>9, <3>1 DEF ChargedOK, Carries
    <3> QED BY <1>1, <1>2, <1>7, <2>1, <3>2, ChargedStays
  <2> QED BY <2>6, <2>7
<1> QED BY <1>8, <1>9

\* A withdrawal that refuses voids its charge, a sweep changes only leases.
LEMMA CaughtCharged ==
  ASSUME ChargedInv, NEW p \in Procs, Caught(p),
         procs[p].pc \in {"waiting", "signing", "releasing"}, NEW w \in Payouts
  PROVE  ChargedOK(txs, w, procs'[w], rows'[w])
<1>1. /\ rows \in [Rows -> Row] /\ procs \in [Procs -> Locals] /\ procs[p] \in Locals
      /\ LocalOK(txs, count, p, procs[p])
      /\ txs \in Seq(Tx) /\ count \in Nat
      /\ p \in Payouts \/ p \in Sweepers
  BY QueueFacts DEF ChargedInv
<1>2. /\ w \in Procs /\ w \in Rows /\ w \notin Sweepers /\ rows[w] \in Row
      /\ ChargedOK(txs, w, procs[w], rows[w])
  BY <1>1, ActorsDiffer DEF Procs, Rows, ChargedInv
<1>3. TxsMove(txs, count, txs, count)
  BY <1>1 DEF TxsMove
<1>4. CASE p \in Sweepers
  <2>1. releaseOwed(procs[p].ids) /\ procs' = [procs EXCEPT ![p] = Fresh]
    BY <1>4 DEF Caught, Go
  <2>2. rows' = [r \in Rows |-> IF r \in procs[p].ids THEN [rows[r] EXCEPT !.leased = FALSE] ELSE rows[r]]
    BY ONLY <2>1 DEF releaseOwed, Write
  <2>3. OwedRow(rows'[w]) => OwedRow(rows[w])
    BY <1>2, <2>2 DEF Row, OwedRow, LiveRow
  <2>4. procs'[w] = procs[w]
    BY <1>1, <1>2, <1>4, <2>1
  <2> QED BY <1>1, <1>2, <1>3, <2>3, <2>4, ChargedStays
<1>5. CASE p \notin Sweepers
  <2>1. /\ procs[p].ids = {p} /\ resolveSent(procs[p].ids, "void")
        /\ procs' = [procs EXCEPT ![p] = [procs[p] EXCEPT !.pc = "refused"]]
    BY <1>1, <1>5 DEF Caught, LocalOK, Go
  <2>2. rows' = [r \in Rows |-> IF r \in procs[p].ids THEN Resolved(rows[r], "void") ELSE rows[r]]
    BY ONLY <2>1 DEF resolveSent, Write, Resolved
  <2>3. CASE w = p
    <3>1. \A to : Resolved(rows[w], to).voided = (IF to = "void" THEN TRUE ELSE rows[w].voided)
      BY <1>2, ResolvedFields
    <3>2. Resolved(rows[w], "void").voided = (IF "void" = "void" THEN TRUE ELSE rows[w].voided)
      BY ONLY <3>1, Zenon
    <3>3. Resolved(rows[w], "void").voided
      BY ONLY <3>2, Zenon
    <3>4. rows'[w] = Resolved(rows[w], "void")
      BY <1>2, <2>1, <2>2, <2>3
    <3>5. ~OwedRow(rows'[w])
      BY <3>3, <3>4 DEF OwedRow, LiveRow
    <3> QED BY <1>1, <1>2, <1>3, <3>5, ChargedStays
  <2>4. CASE w # p
    <3>1. rows'[w] = rows[w] /\ procs'[w] = procs[w]
      BY <1>1, <1>2, <2>1, <2>2, <2>4
    <3> QED BY <1>2, <3>1
  <2> QED BY <2>3, <2>4
<1> QED BY <1>4, <1>5

\* A batch is signed with rows that are owed while no withdrawal is under way.
LEMMA RecordCharged ==
  ASSUME ChargedInv, NEW p \in Procs, Record(p), NEW w \in Payouts
  PROVE  ChargedOK(txs', w, procs'[w], rows'[w])
<1>1. /\ BaseInv /\ rows \in [Rows -> Row] /\ procs \in [Procs -> Locals] /\ procs[p] \in Locals
      /\ LocalOK(txs, count, p, procs[p]) /\ HeldOK(rows, p, procs[p])
      /\ txs \in Seq(Tx) /\ count \in Nat
      /\ p \in Payouts => p \notin Sweepers
      /\ p \in Payouts \/ p \in Sweepers
  BY QueueFacts DEF ChargedInv
<1>2. /\ w \in Procs /\ w \in Rows /\ w \notin Sweepers /\ rows[w] \in Row
      /\ ChargedOK(txs, w, procs[w], rows[w])
  BY <1>1, ActorsDiffer DEF Procs, Rows, ChargedInv
<1>3. PICK t \in Nat : RecordFacts(p, t)
  BY <1>1, RecordIs
<1>4. /\ procs[p].pc = "signing" /\ t # NoTx
      /\ TxsMove(txs, count, txs', count) /\ DOMAIN txs' = DOMAIN txs \cup {t}
      /\ txs'[t].kind = (IF p \in Sweepers THEN "batch" ELSE "payout") /\ txs'[t].ids = procs[p].ids
      /\ \A q \in Procs : q # p => procs'[q] = procs[q]
      /\ rows' = [r \in Rows |-> IF r \in procs[p].ids THEN [rows[r] EXCEPT !.tx = t] ELSE rows[r]]
  BY <1>3 DEF RecordFacts
<1>5. \A u \in DOMAIN txs' : txs'[u].kind = "batch" /\ w \in txs'[u].ids => u \in DOMAIN txs \/ PaidIn(txs, w)
  <2> SUFFICES ASSUME p \in Sweepers, w \in procs[p].ids PROVE PaidIn(txs, w)
    BY <1>4
  <2>1. OwedRow(rows[w])
    BY <1>1, <1>4 DEF HeldOK, OwedRow
  <2>2. procs[w].pc \in Overs
    BY <1>2, <1>4 DEF ChargedInv, QueueInv, Alone, Overs
  <2> QED BY <1>2, <2>1, <2>2 DEF ChargedOK, Overs, Asking
<1>6. CASE w \in procs[p].ids
  <2>1. rows'[w].tx = t
    BY <1>2, <1>4, <1>6 DEF Row
  <2>2. ~OwedRow(rows'[w])
    BY <1>4, <2>1 DEF OwedRow
  <2> QED BY <1>1, <1>2, <1>4, <1>5, <2>2, ChargedStays
<1>7. CASE w \notin procs[p].ids
  <2>1. rows'[w] = rows[w]
    BY <1>2, <1>4, <1>7
  <2>2. w # p
    BY <1>1, <1>4, <1>7 DEF LocalOK
  <2>3. procs'[w] = procs[w]
    BY <1>2, <1>4, <2>2
  <2> QED BY <1>1, <1>2, <1>4, <1>5, <2>1, <2>3, ChargedStays
<1> QED BY <1>6, <1>7

LEMMA ChargedStep ==
  ASSUME ChargedInv, NoFalseReads, NothingOverlaps, NoOrphans, [Next]_vars
  PROVE  ChargedInv'
<1>0. QueueInv /\ QueueInv' /\ BaseInv /\ TxsMove(txs, count, txs', count')
  BY QueueStep, TxsStep DEF ChargedInv, QueueInv
<1> SUFFICES ASSUME NEW w \in Payouts
             PROVE  ChargedOK(txs', w, procs'[w], rows'[w])
  BY <1>0 DEF ChargedInv
<1>1. /\ w \in Procs /\ w \in Rows /\ w \notin Sweepers /\ w \notin Charges
      /\ ChargedOK(txs, w, procs[w], rows[w])
  BY ActorsDiffer DEF Procs, Rows, ChargedInv
<1>2. /\ rows \in [Rows -> Row] /\ procs \in [Procs -> Locals] /\ rows[w] \in Row
      /\ txs \in Seq(Tx) /\ count \in Nat /\ LocalOK(txs, count, w, procs[w])
  BY <1>0, <1>1, BaseFacts
<1>3. ASSUME DOMAIN txs' = DOMAIN txs, OwedRow(rows'[w]) => OwedRow(rows[w]),
             procs[w].pc \in Asking => procs'[w].pc \in Asking
      PROVE  ChargedOK(txs', w, procs'[w], rows'[w])
  BY <1>0, <1>1, <1>2, <1>3, ChargedStays
<1>4. ASSUME NEW r \in Rows, Charge(r) \/ LeaseLapses(r) PROVE ChargedOK(txs', w, procs'[w], rows'[w])
  <2>1. UNCHANGED <<procs, txs>>
    BY <1>4 DEF Charge, LeaseLapses
  <2>2. CASE Charge(r)
    <3>1. rows'[w] = rows[w]
      BY <1>1, <1>2, <2>2 DEF Charge, recordOwed
    <3> QED BY <1>3, <2>1, <3>1
  <2>3. CASE LeaseLapses(r)
    <3>1. rows' = [rows EXCEPT ![r] = [rows[r] EXCEPT !.leased = FALSE]]
      BY <2>3 DEF LeaseLapses
    <3>2. OwedRow(rows'[w]) => OwedRow(rows[w])
      BY <1>1, <1>2, <3>1 DEF OwedRow, LiveRow, Row
    <3> QED BY <1>3, <2>1, <3>2
  <2> QED BY <1>4, <2>2, <2>3
<1>5. ASSUME NEW v \in Payouts, Withdraw(v) PROVE ChargedOK(txs', w, procs'[w], rows'[w])
  <2>1. /\ UNCHANGED txs
        /\ rows' = [rows EXCEPT ![v] = Recorded]
        /\ procs' = [procs EXCEPT ![v] = [Fresh EXCEPT !.pc = "waiting", !.ids = {v}]]
    BY <1>5 DEF Withdraw, recordOwed, Go
  <2>2. CASE v = w
    <3>1. procs'[w].pc \in Asking
      BY <1>1, <1>2, <2>1, <2>2 DEF Fresh, Asking
    <3> QED BY <1>0, <1>1, <1>2, <2>1, <3>1, ChargedStays
  <2>3. CASE v # w
    <3>1. rows'[w] = rows[w] /\ procs'[w] = procs[w]
      BY <1>1, <1>2, <2>1, <2>3
    <3> QED BY <1>3, <2>1, <3>1
  <2> QED BY <2>2, <2>3
<1>6. ASSUME NEW s \in Sweepers, Sweep(s) \/ SweepStep(s) PROVE ChargedOK(txs', w, procs'[w], rows'[w])
  <2>1. UNCHANGED txs /\ procs'[w] = procs[w]
    BY <1>1, <1>2, <1>6 DEF Sweep, SweepStep, ReadReceipt, ReadCount, Take, Go
  <2>2. OwedRow(rows'[w]) => OwedRow(rows[w])
    <3>1. CASE Take(s)
      <4>1. PICK ids : takeOwed(ids)
        BY <3>1 DEF Take
      <4>2. rows' = [r \in Rows |-> IF r \in ids THEN [rows[r] EXCEPT !.leased = TRUE] ELSE rows[r]]
        BY ONLY <4>1 DEF takeOwed, Write
      <4> QED BY <1>1, <1>2, <4>2 DEF OwedRow, LiveRow, Row
    <3>2. CASE Sweep(s) \/ ReadReceipt(s) \/ ReadCount(s)
      BY <3>2 DEF Sweep, ReadReceipt, ReadCount
    <3> QED BY <1>6, <3>1, <3>2 DEF SweepStep
  <2> QED BY <1>3, <2>1, <2>2
<1>7. ASSUME NEW p \in Procs, Step(p) \/ Crash(p) PROVE ChargedOK(txs', w, procs'[w], rows'[w])
  <2>1. CASE Record(p)
    BY <2>1, RecordCharged
  <2>2. CASE Settle(p)
    <3>1. UNCHANGED txs
      BY <2>2 DEF Settle
    <3> QED BY <2>2, <3>1, SettleCharged
  <2>3. CASE Refuse(p) \/ (Release(p) /\ Caught(p))
    <3>1. UNCHANGED txs /\ Caught(p) /\ procs[p].pc \in {"waiting", "signing", "releasing"}
      BY <2>3 DEF Refuse, Release, At
    <3> QED BY <3>1, CaughtCharged
  <2>4. CASE Acquire(p)
    <3>1. UNCHANGED <<rows, txs>> /\ procs' = [procs EXCEPT ![p] = [procs[p] EXCEPT !.pc = "signing", !.nonce = nextNonce]]
      BY <2>4 DEF Acquire, Go
    <3>2. procs[p] \in Locals
      BY <1>2
    <3>3. procs[w].pc \in Asking => procs'[w].pc \in Asking
      BY <1>1, <1>2, <3>1, <3>2 DEF Locals, Asking
    <3> QED BY <1>3, <3>1, <3>3
  <2>5. CASE Await(p) \/ Broadcast(p) \/ (Release(p) /\ ~Caught(p))
    <3>1. UNCHANGED rows /\ DOMAIN txs' = DOMAIN txs
      BY <1>0, <2>5, BroadcastIs DEF Await, Release
    <3>2. procs[p].pc \in {"sent", "signed", "releasing"} /\ \E new : procs' = [procs EXCEPT ![p] = new]
      BY <2>5 DEF Await, Broadcast, Release, At, Go
    <3>3. procs[w].pc \in Asking => procs'[w] = procs[w]
      BY <1>1, <1>2, <3>2 DEF Asking
    <3> QED BY <1>3, <3>1, <3>3
  <2>6. CASE Crash(p)
    <3>1. UNCHANGED <<rows, txs>> /\ \E new : procs' = [procs EXCEPT ![p] = new]
      BY <2>6 DEF Crash, Go
    <3>2. p \in Payouts => procs[p].pc \notin Asking
      BY <2>6 DEF Crash, Fault, NoOrphans, Asking
    <3>3. procs[w].pc \in Asking => procs'[w] = procs[w]
      BY <1>1, <1>2, <3>1, <3>2
    <3> QED BY <1>3, <3>1, <3>3
  <2> QED BY <1>7, <2>1, <2>2, <2>3, <2>4, <2>5, <2>6 DEF Step
<1>8. ASSUME NEW t \in DOMAIN txs, Mine(t) \/ Drop(t) PROVE ChargedOK(txs', w, procs'[w], rows'[w])
  <2>1. UNCHANGED <<rows, procs>> /\ DOMAIN txs' = DOMAIN txs
    BY <1>0, <1>8, MineBase, DropBase DEF Mine, Drop
  <2> QED BY <1>3, <2>1
<1>9. OtherTraffic \/ LockLapses \/ UNCHANGED vars => UNCHANGED <<rows, procs, txs>>
  BY DEF OtherTraffic, Overtaken, LockLapses, vars
<1>10. CASE UNCHANGED <<rows, procs, txs>>
  BY <1>1, <1>10
<1> QED BY <1>4, <1>5, <1>6, <1>7, <1>8, <1>9, <1>10 DEF Next

\* A withdrawal is in the pool's queue only if its payout was mined: one that
\* was refused is void before a sweep can take it, and one whose payout was
\* not seen waits for a receipt or a nonce (pool-buy.ts:514, 300).
THEOREM UnpaidIsNotCharged ==
  ASSUME NoFalseReads, NothingOverlaps, NoOrphans
  PROVE  Spec => []UnpaidNotCharged
<1>1. ChargedInv => UnpaidNotCharged
  BY DEF ChargedInv, ChargedOK, UnpaidNotCharged, Queued, Paid, PaidIn, PayoutOf, MinedWith
<1>2. Init => ChargedInv
  BY ChargedInit
<1>3. ChargedInv /\ [Next]_vars => ChargedInv'
  BY ChargedStep
<1> QED BY <1>1, <1>2, <1>3, PTL DEF Spec

=============================================================================
