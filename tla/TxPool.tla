------------------------------- MODULE TxPool -------------------------------
(***************************************************************************)
(* The memory pool of a full node: CTxMemPool of txmempool.cpp,            *)
(* AcceptToMemoryPool, the orphan transactions and the "tx" message of     *)
(* main.cpp, and what SetBestChainInner and Reorganize do to the pool.     *)
(*                                                                         *)
(* BlockChain shows that the transaction index is at all times the index   *)
(* of the best chain, so here the chain is its tip alone and the index is  *)
(* IndexOf[best].  cs_main is held by the "tx" message and by SetBestChain *)
(* alike: no block comes between two steps of the message's loop.          *)
(***************************************************************************)
EXTENDS ChainData, SequencesExt

CONSTANTS
  MaxOrphanTx,  \* MAX_ORPHAN_TRANSACTIONS
  NonStandard,  \* transactions refused before anything is looked up
  LowFee        \* transactions refused once their inputs are known

ASSUME PoolAssumption ==
  /\ MaxOrphanTx \in Nat
  /\ NonStandard \subseteq Tx
  /\ LowFee \subseteq Tx
  /\ Generated \subseteq NonStandard

VARIABLES
  best,                         \* hashBestChain
  pool,                         \* mapTx and mapNextTx
  mapOrphanTransactions,
  mapOrphanTransactionsByPrev,  \* the orphans that spend from a transaction
  hpc,                          \* where the "tx" message is
  tx,                           \* the transaction it has brought
  vWorkQueue, i,                \* accepted transactions, and the current one
  visit,                        \* orphans of the current one still to be tried
  vEraseQueue                   \* orphans to be erased at the end

orphanVars == <<mapOrphanTransactions, mapOrphanTransactionsByPrev>>
loopVars == <<hpc, tx, vWorkQueue, i, visit, vEraseQueue>>
poolVars == <<best, pool, orphanVars, loopVars>>

-----------------------------------------------------------------------------
(* The best chain.                                                         *)

(* ConnectBlock on top of idx: the index after k transactions of b.        *)
Connecting(idx, b) ==
  LET after[k \in 0 .. Len(vtx[b])] ==
        IF k = 0 THEN idx ELSE ConnectInputs(after[k - 1], vtx[b][k], b)
  IN after

(* The index of every chain, as ConnectBlock builds it up.                 *)
IndexOf[b \in Block] ==
  IF b = Genesis THEN EmptyTxIndex
  ELSE Connecting(IndexOf[Prev[b]], b)[Len(vtx[b])]

(* Whether the blocks up to b connect.                                     *)
ChainOk[b \in Block] ==
  b # Genesis =>
    /\ ChainOk[Prev[b]]
    /\ b \notin BadBlock
    /\ \A j \in DOMAIN vtx[b] :
         /\ vtx[b][j] \notin BadTx
         /\ ~Overwrites(IndexOf[Prev[b]], vtx[b][j])
         /\ \A o \in vin[vtx[b][j]] :
              InputOk(Connecting(IndexOf[Prev[b]], b)[j - 1], o, b)

ChainTxs(b) == {t \in Tx : IndexOf[b].pos[t] # None}

(* The transactions of the blocks up to b that are not below c, in the     *)
(* order of the chain: the walk along pprev to the fork.                   *)
TxsAbove(c) ==
  LET upTo[b \in Block] == IF b \in Anc[c] THEN <<>> ELSE upTo[Prev[b]] \o vtx[b]
  IN upTo

BranchTxs(from, to) == TxsAbove(to)[from]

-----------------------------------------------------------------------------
(* CTxMemPool.                                                             *)

EmptyPool == [mapTx |-> {}, mapNextTx |-> [o \in OutPoint |-> None]]

(* CTxMemPool::addUnchecked.                                               *)
addUnchecked(p, t) ==
  [mapTx     |-> p.mapTx \cup {t},
   mapNextTx |-> [o \in OutPoint |-> IF o \in vin[t] THEN t ELSE p.mapNextTx[o]]]

(* CTxMemPool::remove of each of the transactions that are in the pool.    *)
remove(p, ts) ==
  LET gone == ts \cap p.mapTx
  IN [mapTx     |-> p.mapTx \ gone,
      mapNextTx |-> [o \in OutPoint |->
                       IF \E t \in gone : o \in vin[t] THEN None ELSE p.mapNextTx[o]]]

(* t and everything in the pool that spends from it, directly or not: what *)
(* remove visits when fRecursive.                                          *)
WithDependants(p, t) ==
  {u \in p.mapTx :
     \A s \in SUBSET p.mapTx :
       /\ t \in s
       /\ \A o \in OutPoint :
            o[1] \in s /\ p.mapNextTx[o] # None => p.mapNextTx[o] \in s
       => u \in s}

(* Mutant of removeConflicts: only the conflicting transaction goes.       *)
removeConflictsFlat(p, t) ==
  remove(p, {p.mapNextTx[o] : o \in vin[t] \cap OutPoint} \ {t, None})

(* CTxMemPool::removeConflicts.                                            *)
removeConflicts(p, t) ==
  LET conflicts == {p.mapNextTx[o] : o \in vin[t] \cap OutPoint} \ {t, None}
  IN remove(p, UNION {WithDependants(p, c) : c \in conflicts})

-----------------------------------------------------------------------------
(* AcceptToMemoryPool of t into p.  The index is that of the chain up to   *)
(* c; maturity is counted from block at, which is pindexBest.              *)

(* Refused without a look at the inputs.                                   *)
Known(p, c, t) ==
  \/ t \in NonStandard
  \/ t \in p.mapTx
  \/ \E o \in vin[t] \cap OutPoint : p.mapNextTx[o] # None
  \/ IndexOf[c].pos[t] # None

HasInput(p, c, o) == IndexOf[c].pos[o[1]] # None \/ o[1] \in p.mapTx

(* *pfMissingInputs.                                                       *)
MissingInputs(p, c, t) ==
  ~Known(p, c, t) /\ \E o \in vin[t] : ~HasInput(p, c, o)

PoolInputOk(p, c, at, o) ==
  /\ o \in OutPoint
  /\ ~Immature(IndexOf[c], o[1], at)
  /\ IndexOf[c].vSpent[o] = None

Accepts(p, c, at, t) ==
  /\ ~Known(p, c, t)
  /\ \A o \in vin[t] : HasInput(p, c, o) /\ PoolInputOk(p, c, at, o)
  /\ t \notin LowFee \cup BadTx

AcceptToMemoryPool(p, c, at, t) ==
  IF Accepts(p, c, at, t) THEN addUnchecked(p, t) ELSE p

-----------------------------------------------------------------------------
(* The orphan transactions.                                                *)

Parents(t) == {o[1] : o \in vin[t]}

(* EraseOrphanTx of each of the transactions.                              *)
EraseOrphanTxs(ts) ==
  /\ mapOrphanTransactions' = mapOrphanTransactions \ ts
  /\ mapOrphanTransactionsByPrev' =
       [h \in Tx |-> mapOrphanTransactionsByPrev[h] \ (ts \cap mapOrphanTransactions)]

PoolInit ==
  /\ best = Genesis
  /\ pool = EmptyPool
  /\ mapOrphanTransactions = {}
  /\ mapOrphanTransactionsByPrev = [h \in Tx |-> {}]
  /\ hpc = "idle"
  /\ tx = None
  /\ vWorkQueue = <<>>
  /\ i = 0
  /\ visit = {}
  /\ vEraseQueue = {}

(* The "tx" message: the transaction is accepted, and its orphans are to   *)
(* be looked at.                                                           *)
ReceiveTx(t) ==
  /\ hpc = "idle"
  /\ Accepts(pool, best, best, t)
  /\ pool' = addUnchecked(pool, t)
  /\ tx' = t
  /\ vWorkQueue' = <<t>>
  /\ i' = 1
  /\ visit' = mapOrphanTransactionsByPrev[t]
  /\ vEraseQueue' = {t}
  /\ hpc' = "orphans"
  /\ UNCHANGED <<best, orphanVars>>

(* The "tx" message: AddOrphanTx.                                          *)
ReceiveOrphanTx(t) ==
  /\ hpc = "idle"
  /\ MissingInputs(pool, best, t)
  /\ t \notin mapOrphanTransactions
  /\ mapOrphanTransactions' = mapOrphanTransactions \cup {t}
  /\ mapOrphanTransactionsByPrev' =
       [h \in Tx |-> IF h \in Parents(t) THEN mapOrphanTransactionsByPrev[h] \cup {t}
                     ELSE mapOrphanTransactionsByPrev[h]]
  /\ hpc' = "limit"
  /\ UNCHANGED <<best, pool, tx, vWorkQueue, i, visit, vEraseQueue>>

(* LimitOrphanTxSize: a random orphan goes as long as there are too many.  *)
LimitOrphanTxSize ==
  /\ hpc = "limit"
  /\ IF Cardinality(mapOrphanTransactions) > MaxOrphanTx
     THEN (\E o \in mapOrphanTransactions : EraseOrphanTxs({o})) /\ UNCHANGED hpc
     ELSE hpc' = "idle" /\ UNCHANGED orphanVars
  /\ UNCHANGED <<best, pool, tx, vWorkQueue, i, visit, vEraseQueue>>

(* Mutant of TryOrphan: an accepted orphan is not queued itself.           *)
TryOrphanUnqueued(o) ==
  /\ hpc = "orphans"
  /\ o \in visit
  /\ visit' = visit \ {o}
  /\ pool' = AcceptToMemoryPool(pool, best, best, o)
  /\ vEraseQueue' = IF MissingInputs(pool, best, o) THEN vEraseQueue
                    ELSE vEraseQueue \cup {o}
  /\ UNCHANGED <<best, orphanVars, hpc, tx, i, vWorkQueue>>

(* An orphan of the current transaction is tried; it stays an orphan only  *)
(* if other inputs are missing.                                            *)
TryOrphan(o) ==
  /\ hpc = "orphans"
  /\ o \in visit
  /\ visit' = visit \ {o}
  /\ IF Accepts(pool, best, best, o)
     THEN /\ pool' = addUnchecked(pool, o)
          /\ vWorkQueue' = Append(vWorkQueue, o)
     ELSE UNCHANGED <<pool, vWorkQueue>>
  /\ vEraseQueue' = IF MissingInputs(pool, best, o) THEN vEraseQueue
                    ELSE vEraseQueue \cup {o}
  /\ UNCHANGED <<best, orphanVars, hpc, tx, i>>

(* On to the next accepted transaction, or to the end of the message.      *)
NextInQueue ==
  /\ hpc = "orphans"
  /\ visit = {}
  /\ i' = i + 1
  /\ \/ /\ i < Len(vWorkQueue)
        /\ visit' = mapOrphanTransactionsByPrev[vWorkQueue[i + 1]]
        /\ UNCHANGED <<hpc, orphanVars>>
     \/ /\ i = Len(vWorkQueue)
        /\ EraseOrphanTxs(vEraseQueue)
        /\ hpc' = "idle"
        /\ UNCHANGED visit
  /\ UNCHANGED <<best, pool, tx, vWorkQueue, vEraseQueue>>

-----------------------------------------------------------------------------
(* Blocks.  What ConnectBlock tells the wallets is in module Wallet.       *)

(* Mutant of SetBestChainInner: the pool is left as it is.                 *)
SetBestChainInnerKeepsPool(b) ==
  /\ hpc = "idle"
  /\ Prev[b] = best
  /\ ChainOk[b]
  /\ best' = b
  /\ UNCHANGED <<pool, orphanVars, loopVars>>

(* A block is attached to the best chain: its transactions, and only they, *)
(* leave the pool.                                                         *)
SetBestChainInner(b) ==
  /\ hpc = "idle"
  /\ Prev[b] = best
  /\ ChainOk[b]
  /\ best' = b
  /\ pool' = remove(pool, TxsOf(b))
  /\ UNCHANGED <<orphanVars, loopVars>>

(* The pool while the transactions of the blocks disconnected by a         *)
(* reorganization from one tip to another come back, after k of them.      *)
Resurrecting(from, to) ==
  LET txs == BranchTxs(from, to)
      after[k \in 0 .. Len(txs)] ==
        IF k = 0 THEN pool
        ELSE IF txs[k] \in Generated THEN after[k - 1]
        ELSE AcceptToMemoryPool(after[k - 1], to, from, txs[k])
  IN after

(* And while those of the connected blocks, and their conflicts, leave p.  *)
Evicting(p, from, to) ==
  LET txs == BranchTxs(to, from)
      after[k \in 0 .. Len(txs)] ==
        IF k = 0 THEN p ELSE removeConflicts(remove(after[k - 1], {txs[k]}), txs[k])
  IN after

(* Mutant of Reorganized: the disconnected transactions are not resurrected*)
ReorganizedDropsOld(from, to) ==
  Evicting(pool, from, to)[Len(BranchTxs(to, from))]

Reorganized(from, to) ==
  Evicting(Resurrecting(from, to)[Len(BranchTxs(from, to))], from, to)
    [Len(BranchTxs(to, from))]

(* Reorganize: the disconnected transactions come back in the order of the *)
(* chain, before the connected ones and their conflicts leave.  pindexBest *)
(* is still the old tip.                                                   *)
Reorganize(b) ==
  /\ hpc = "idle"
  /\ Prev[b] # best
  /\ ChainTrust[b] > ChainTrust[best]
  /\ ChainTrust[Prev[b]] <= ChainTrust[best]
  /\ ChainOk[b]
  /\ best' = b
  /\ pool' = Reorganized(best, b)
  /\ UNCHANGED <<orphanVars, loopVars>>

PoolNext ==
  \/ \E t \in Tx : ReceiveTx(t) \/ ReceiveOrphanTx(t) \/ TryOrphan(t)
  \/ LimitOrphanTxSize
  \/ NextInQueue
  \/ \E b \in Block \ {Genesis} : SetBestChainInner(b) \/ Reorganize(b)

PoolSpec == PoolInit /\ [][PoolNext]_poolVars

-----------------------------------------------------------------------------
(* The type of every variable.                                             *)
PoolTypeOK ==
  /\ best \in Block
  /\ pool \in [mapTx : SUBSET Tx, mapNextTx : [OutPoint -> Tx \cup {None}]]
  /\ mapOrphanTransactions \subseteq Tx
  /\ mapOrphanTransactionsByPrev \in [Tx -> SUBSET Tx]
  /\ hpc \in {"idle", "limit", "orphans"}
  /\ tx \in Tx \cup {None}
  /\ vWorkQueue \in Seq(Tx)
  /\ i \in Nat
  /\ visit \subseteq Tx
  /\ vEraseQueue \subseteq Tx

(* mapNextTx is the inverse of the inputs of mapTx, through every accept,  *)
(* removal, resurrection and recursive conflict removal; in particular no  *)
(* two transactions of the pool spend the same output.                     *)
PoolMapsAgree ==
  \A o \in OutPoint, t \in Tx :
    pool.mapNextTx[o] = t <=> t \in pool.mapTx /\ o \in vin[t]

(* A transaction is never both in the pool and on the best chain.          *)
PoolNotInChain == pool.mapTx \cap ChainTxs(best) = {}

(* The two orphan maps list each other's entries, and when the message has *)
(* been handled there are at most MaxOrphanTx orphans.                     *)
OrphanTxMapsAgree ==
  /\ \A h \in Tx : mapOrphanTransactionsByPrev[h] =
                     {o \in mapOrphanTransactions : h \in Parents(o)}
  /\ hpc = "idle" => Cardinality(mapOrphanTransactions) <= MaxOrphanTx

(* When the work queue has been emptied, no orphan that spends from any    *)
(* transaction accepted on the way could be accepted now, whatever the     *)
(* order in which the orphans were tried.                                  *)
OrphansResolved ==
  hpc = "orphans" /\ visit = {} /\ i = Len(vWorkQueue) =>
    \A o \in mapOrphanTransactions :
      Parents(o) \cap ToSet(vWorkQueue) # {} => ~Accepts(pool, best, best, o)

(* A reorganization loses no transaction: what was on the old chain and is *)
(* not on the new one is in the pool, unless it could not be accepted, or  *)
(* the pool already held a conflict with the old chain.                    *)
NothingLost ==
  [][\A t \in ChainTxs(best) \ ChainTxs(best') :
       \/ t \in pool'.mapTx
       \/ ~Accepts(pool', best', best', t)
       \/ \E o \in vin[t] : pool.mapNextTx[o] # None]_poolVars

(* After a reorganization nothing in the pool spends what the connected    *)
(* blocks have spent, and whatever depended on an evicted transaction has  *)
(* been evicted with it.                                                   *)
ReorgEvictsConflicts ==
  [][best' # best /\ Prev[best'] # best =>
       \A t \in pool'.mapTx : \A o \in vin[t] :
         /\ \A a \in Anc[best'] \ Anc[best] : \A u \in TxsOf(a) : o \notin vin[u]
         /\ o[1] \in pool.mapTx => o[1] \in pool'.mapTx \cup ChainTxs(best')]_poolVars

(* The pool as a whole: its two maps are inverse to each other and it has  *)
(* nothing of the best chain.                                              *)
PoolConsistent == PoolTypeOK /\ PoolMapsAgree /\ PoolNotInChain

(* The orphan transactions as a whole: the two maps list each other's      *)
(* entries, their number is limited, and none is left that the tx handler  *)
(* could have accepted.                                                    *)
OrphanTxsConsistent == OrphanTxMapsAgree /\ OrphansResolved
=============================================================================
