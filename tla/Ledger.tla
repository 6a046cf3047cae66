------------------------------- MODULE Ledger -------------------------------
(***************************************************************************)
(* What the database of a full node promises: at every moment it names one *)
(* block as the tip of the best chain, and its transaction index is the    *)
(* index of exactly that chain.  It moves only to a heavier chain, from    *)
(* the one index to the other in a single step, whatever the number of     *)
(* blocks that are disconnected and connected in between.                  *)
(***************************************************************************)
EXTENDS ChainData

VARIABLES best, txindex

LedgerInit == best = Genesis /\ txindex = EmptyTxIndex

(* The best chain changes to the one that ends in b.                       *)
Advance(b) ==
  /\ ChainTrust[b] > ChainTrust[best]
  /\ best' = b
  /\ txindex' \in TxIndexType
  /\ IsIndexOf(txindex', b)

LedgerNext == \E b \in Block : Advance(b)

LedgerSpec == LedgerInit /\ [][LedgerNext]_<<best, txindex>>
=============================================================================
