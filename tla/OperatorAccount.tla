--------------------------- MODULE OperatorAccount ---------------------------
(***************************************************************************)
(* The operator's account on the chain, as the code that sends from it     *)
(* sees it (src/fleet/chain-pool.ts).  A transaction is signed (the node   *)
(* has not seen it), pending (in the node's pool), lost (sent once,        *)
(* forgotten by the node), mined or reverted.  One nonce is mined once.    *)
(*                                                                         *)
(* A module that extends this one signs records with a nonce, a status     *)
(* and whatever it has to say of them, and decides which of these          *)
(* operators are its actions, and which of them count as faults.           *)
(***************************************************************************)
EXTENDS Integers, Sequences

VARIABLES
  txs,             \* transactions signed, in order: a hash is a position
  count            \* the account's nonce at the latest block

NoTx == 0

Executed(t) == txs[t].status \in {"mined", "reverted"}
Pooled(n)   == \E t \in DOMAIN txs : txs[t].nonce = n /\ txs[t].status = "pending"

\* Nothing but time stands between the transaction and a block.
Minable(t) ==
  /\ txs[t].status = "pending" /\ txs[t].nonce >= count
  /\ \A n \in count..txs[t].nonce : Pooled(n)

\* The pending count: where the next signed step goes.
nextNonce == CHOOSE n \in count..(count + Len(txs)) :
               ~Pooled(n) /\ \A m \in count..(n - 1) : Pooled(m)

\* sendRawTransaction: a nonce already used, or held in the node's pool by
\* another transaction, is refused.
Accepted(t)      == txs[t].nonce >= count /\ ~Pooled(txs[t].nonce)
Sends(t, status) == txs' = [txs EXCEPT ![t].status = status]

\* A transaction the node holds, or held, is executed at the account's nonce.
Executes(t, result) ==
  /\ txs[t].nonce = count
  /\ txs[t].status \in {"pending", "lost"}
  /\ count' = count + 1
  /\ txs' = [txs EXCEPT ![t].status = result]

Forgotten(t) ==
  /\ txs[t].status = "pending"
  /\ txs' = [txs EXCEPT ![t].status = "lost"]
  /\ UNCHANGED count

\* Something else the account sends is mined.  It matters only when it takes
\* the nonce of a transaction the node does not hold.
Overtaken ==
  /\ ~Pooled(count)
  /\ \E t \in DOMAIN txs : txs[t].nonce = count /\ txs[t].status \in {"signed", "lost"}
  /\ count' = count + 1
  /\ UNCHANGED txs
=============================================================================
