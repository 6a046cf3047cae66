---------------------------- MODULE TxPoolProofs ----------------------------
(***************************************************************************)
(* Proofs about TxPool, for every block tree, every set of transactions    *)
(* and every limit on orphans.                                             *)
(*                                                                         *)
(* The orphan transactions are an induction over TxInv: the two maps are   *)
(* one relation, and while the tx handler works through vWorkQueue every   *)
(* orphan that could be accepted now has a parent still to be visited.     *)
(* The pool itself is an induction over PoolInv.  What a reorganization    *)
(* does to the pool, and what the index of a chain holds, are recursive    *)
(* functions, to which the lemmas FoldRecursion and BlockRecursion of      *)
(* LedgerProofs apply.  IndexDescribes says that the index here is the one *)
(* that NodeProofs finds in the database; from it follows that the loops   *)
(* of a reorganization lose nothing.                                       *)
(***************************************************************************)
EXTENDS TxPool, LedgerProofs, FiniteSetTheorems

(* An orphan with a parent among the accepted transactions that could be   *)
(* accepted now is still to be visited: a parent of it is further on in    *)
(* the queue, or is the current one and the orphan has not been tried.     *)
Awaited(o) ==
  \E j \in i .. Len(vWorkQueue) :
    /\ vWorkQueue[j] \in Parents(o)
    /\ j = i => o \in visit

(* Where the handler stands in vWorkQueue, and that nobody is forgotten.   *)
LoopInv ==
  hpc = "orphans" =>
    /\ vWorkQueue \in Seq(Tx)
    /\ i \in 1 .. Len(vWorkQueue)
    /\ visit \subseteq mapOrphanTransactions
    /\ \A o \in mapOrphanTransactions :
         Parents(o) \cap ToSet(vWorkQueue) # {} /\ Accepts(pool, best, best, o) =>
           Awaited(o)

(* The limit may be passed by one, until LimitOrphanTxSize has run.        *)
OrphanInv ==
  /\ mapOrphanTransactions \subseteq Tx
  /\ IsFiniteSet(mapOrphanTransactions)
  /\ mapOrphanTransactionsByPrev = [h \in Tx |-> {o \in mapOrphanTransactions : h \in Parents(o)}]
  /\ hpc # "limit" => Cardinality(mapOrphanTransactions) <= MaxOrphanTx

(* The induction over the orphan transactions.                             *)
TxInv == OrphanInv /\ LoopInv

-----------------------------------------------------------------------------
(* AcceptToMemoryPool *)

(* A transaction that came into the pool makes only its own spenders       *)
(* acceptable, and is not acceptable itself.                               *)
LEMMA AcceptsNew ==
  ASSUME NEW p, NEW c, NEW x \in Tx, NEW o \in Tx,
         Accepts(addUnchecked(p, x), c, c, o)
  PROVE  o # x /\ (x \in Parents(o) \/ Accepts(p, c, c, o))
<1> DEFINE q == addUnchecked(p, x)
<1>1. q.mapTx = p.mapTx \cup {x}
  BY DEF addUnchecked
<1>2. \A r \in OutPoint : q.mapNextTx[r] = IF r \in vin[x] THEN x ELSE p.mapNextTx[r]
  BY DEF addUnchecked
<1>3. x # None
  BY TxAssumption
<1>4. Accepts(q, c, c, o)
  OBVIOUS
<1> HIDE DEF q
<1>5. o # x
  BY <1>1, <1>4 DEF Accepts, Known
<1>6. ~Known(p, c, o)
  <2>1. ~Known(q, c, o)
    BY <1>4 DEF Accepts
  <2>2. ASSUME NEW r \in vin[o] \cap OutPoint PROVE p.mapNextTx[r] = None
    <3>1. q.mapNextTx[r] = None
      BY <2>1 DEF Known
    <3> QED BY <3>1, <1>2, <1>3
  <2> QED BY <2>1, <2>2, <1>1 DEF Known
<1>7. ASSUME x \notin Parents(o), NEW r \in vin[o]
      PROVE  HasInput(p, c, r)
  <2>1. HasInput(q, c, r)
    BY <1>4 DEF Accepts
  <2>2. r[1] # x
    BY <1>7 DEF Parents
  <2> QED BY <2>1, <2>2, <1>1 DEF HasInput
<1>8. ASSUME x \notin Parents(o) PROVE Accepts(p, c, c, o)
  <2>1. /\ \A r \in vin[o] : PoolInputOk(q, c, c, r)
        /\ o \notin LowFee \cup BadTx
    BY <1>4 DEF Accepts
  <2>2. \A r \in vin[o] : PoolInputOk(p, c, c, r)
    BY <2>1 DEF PoolInputOk
  <2> QED BY <1>6, <1>7, <1>8, <2>1, <2>2 DEF Accepts
<1> QED BY <1>5, <1>8

-----------------------------------------------------------------------------
(* The orphan maps *)

(* EraseOrphanTx keeps the two maps in step, whatever it is given.         *)
LEMMA EraseKeepsMaps ==
  ASSUME OrphanInv, NEW ts, EraseOrphanTxs(ts)
  PROVE  /\ mapOrphanTransactions' \subseteq Tx
         /\ IsFiniteSet(mapOrphanTransactions')
         /\ mapOrphanTransactionsByPrev' =
              [h \in Tx |-> {o \in mapOrphanTransactions' : h \in Parents(o)}]
         /\ Cardinality(mapOrphanTransactions') <= Cardinality(mapOrphanTransactions)
<1>1. mapOrphanTransactions' \subseteq mapOrphanTransactions
  BY DEF EraseOrphanTxs
<1>2. /\ IsFiniteSet(mapOrphanTransactions')
      /\ Cardinality(mapOrphanTransactions') <= Cardinality(mapOrphanTransactions)
  BY <1>1, FS_Subset DEF OrphanInv
<1>3. mapOrphanTransactionsByPrev' =
        [h \in Tx |-> {o \in mapOrphanTransactions' : h \in Parents(o)}]
  BY DEF EraseOrphanTxs, OrphanInv
<1> QED BY <1>1, <1>2, <1>3 DEF OrphanInv

(* The number of orphans and the limit are numbers.                        *)
LEMMA OrphanNumbers ==
  ASSUME OrphanInv
  PROVE  Cardinality(mapOrphanTransactions) \in Nat /\ MaxOrphanTx \in Nat
BY FS_CardinalityType, PoolAssumption DEF OrphanInv

(* Every step keeps the orphan maps in step and their number limited.      *)
LEMMA OrphanStep ==
  ASSUME TxInv, [PoolNext]_poolVars
  PROVE  OrphanInv'
<1> USE OrphanNumbers DEF TxInv
<1>1. CASE UNCHANGED <<orphanVars, hpc>>
  BY <1>1 DEF OrphanInv, orphanVars
<1>2. ASSUME NEW t \in Tx, ReceiveTx(t) PROVE OrphanInv'
  BY <1>2 DEF OrphanInv, ReceiveTx, orphanVars
<1>3. ASSUME NEW t \in Tx, ReceiveOrphanTx(t) PROVE OrphanInv'
  <2>1. mapOrphanTransactions' = mapOrphanTransactions \cup {t} /\ hpc' = "limit"
    BY <1>3 DEF ReceiveOrphanTx
  <2>2. IsFiniteSet(mapOrphanTransactions')
    BY <2>1, FS_AddElement DEF OrphanInv
  <2>3. mapOrphanTransactionsByPrev' =
          [h \in Tx |-> {o \in mapOrphanTransactions' : h \in Parents(o)}]
    BY <1>3 DEF ReceiveOrphanTx, OrphanInv
  <2> QED BY <2>1, <2>2, <2>3 DEF OrphanInv
<1>4. ASSUME LimitOrphanTxSize PROVE OrphanInv'
  <2>1. CASE Cardinality(mapOrphanTransactions) > MaxOrphanTx
    <3>1. PICK o \in mapOrphanTransactions : EraseOrphanTxs({o})
      BY <1>4, <2>1 DEF LimitOrphanTxSize
    <3>2. hpc' = "limit"
      BY <1>4, <2>1 DEF LimitOrphanTxSize
    <3> QED BY <3>1, <3>2, EraseKeepsMaps DEF OrphanInv
  <2>2. CASE ~(Cardinality(mapOrphanTransactions) > MaxOrphanTx)
    <3>1. UNCHANGED <<mapOrphanTransactions, mapOrphanTransactionsByPrev>>
      BY <1>4, <2>2 DEF LimitOrphanTxSize, orphanVars
    <3> QED BY <2>2, <3>1 DEF OrphanInv
  <2> QED BY <2>1, <2>2
<1>5. ASSUME NEW t \in Tx, TryOrphan(t) PROVE OrphanInv'
  BY <1>5, <1>1 DEF TryOrphan
<1>6. ASSUME NextInQueue PROVE OrphanInv'
  <2>1. CASE UNCHANGED <<hpc, orphanVars>>
    BY <2>1, <1>1
  <2>2. CASE EraseOrphanTxs(vEraseQueue)
    <3>1. hpc # "limit"
      BY <1>6 DEF NextInQueue
    <3>2. Cardinality(mapOrphanTransactions') <= Cardinality(mapOrphanTransactions)
      BY <2>2, EraseKeepsMaps
    <3>3. IsFiniteSet(mapOrphanTransactions')
      BY <2>2, EraseKeepsMaps
    <3>4. Cardinality(mapOrphanTransactions') <= MaxOrphanTx
      BY <3>1, <3>2, <3>3, FS_CardinalityType DEF OrphanInv
    <3> QED BY <2>2, <3>4, EraseKeepsMaps DEF OrphanInv
  <2> QED BY <1>6, <2>1, <2>2 DEF NextInQueue
<1>7. ASSUME NEW b \in Block, SetBestChainInner(b) PROVE OrphanInv'
  BY <1>7, <1>1 DEF SetBestChainInner, loopVars
<1>8. ASSUME NEW b \in Block, Reorganize(b) PROVE OrphanInv'
  BY <1>8, <1>1 DEF Reorganize, loopVars
<1>9. CASE UNCHANGED poolVars
  BY <1>9, <1>1 DEF poolVars, loopVars
<1> QED BY <1>2, <1>3, <1>4, <1>5, <1>6, <1>7, <1>8, <1>9 DEF PoolNext

-----------------------------------------------------------------------------
(* The work queue *)

(* The first transaction: all its orphans are to be visited.               *)
LEMMA LoopStart ==
  ASSUME TxInv, NEW t \in Tx, ReceiveTx(t)
  PROVE  LoopInv'
<1>1. vWorkQueue' = <<t>> /\ i' = 1
  BY DEF ReceiveTx
<1>2. UNCHANGED <<best, mapOrphanTransactions, mapOrphanTransactionsByPrev>>
  BY DEF ReceiveTx, orphanVars
<1>3. visit' = {o \in mapOrphanTransactions : t \in Parents(o)}
  BY DEF ReceiveTx, TxInv, OrphanInv
<1>4. ToSet(vWorkQueue') = {t}
  BY <1>1 DEF ToSet
<1>5. ASSUME NEW o \in mapOrphanTransactions, Parents(o) \cap ToSet(vWorkQueue') # {}
      PROVE  Awaited(o)'
  BY <1>1, <1>3, <1>4, <1>5 DEF Awaited, Parents
<1>6. vWorkQueue' \in Seq(Tx) /\ i' \in 1 .. Len(vWorkQueue')
  BY <1>1
<1>7. visit' \subseteq mapOrphanTransactions'
  BY <1>2, <1>3
<1> QED BY <1>2, <1>5, <1>6, <1>7 DEF LoopInv

(* An orphan is tried.  If it is accepted its own orphans are awaited      *)
(* through it, and every other one as before.                              *)
LEMMA LoopTry ==
  ASSUME TxInv, NEW x \in Tx, TryOrphan(x)
  PROVE  LoopInv'
<1>1. /\ vWorkQueue \in Seq(Tx)
      /\ i \in 1 .. Len(vWorkQueue)
      /\ visit \subseteq mapOrphanTransactions
      /\ \A o \in mapOrphanTransactions :
           Parents(o) \cap ToSet(vWorkQueue) # {} /\ Accepts(pool, best, best, o) =>
             Awaited(o)
  BY DEF TryOrphan, TxInv, LoopInv
<1>2. UNCHANGED <<best, mapOrphanTransactions, i>> /\ visit' = visit \ {x}
  BY DEF TryOrphan, orphanVars
<1>3. mapOrphanTransactions \subseteq Tx
  BY DEF TxInv, OrphanInv
<1>4. CASE Accepts(pool, best, best, x)
  <2>1. pool' = addUnchecked(pool, x) /\ vWorkQueue' = Append(vWorkQueue, x)
    BY <1>4 DEF TryOrphan
  <2>2. /\ vWorkQueue' \in Seq(Tx)
        /\ Len(vWorkQueue') = Len(vWorkQueue) + 1
        /\ \A j \in 1 .. Len(vWorkQueue) : vWorkQueue'[j] = vWorkQueue[j]
        /\ vWorkQueue'[Len(vWorkQueue) + 1] = x
        /\ i' \in 1 .. Len(vWorkQueue')
        /\ Len(vWorkQueue) \in Nat
    BY <1>1, <1>2, <2>1
  <2>3. ToSet(vWorkQueue') = ToSet(vWorkQueue) \cup {x}
    BY <1>1, <2>2 DEF ToSet
  <2>4. ASSUME NEW o \in mapOrphanTransactions,
               Parents(o) \cap ToSet(vWorkQueue') # {},
               Accepts(pool', best', best', o)
        PROVE  Awaited(o)'
    <3>1. o # x /\ (x \in Parents(o) \/ Accepts(pool, best, best, o))
      BY <1>2, <1>3, <2>1, <2>4, AcceptsNew
    <3>2. CASE x \in Parents(o)
      <4>1. Len(vWorkQueue) + 1 \in i' .. Len(vWorkQueue') /\ Len(vWorkQueue) + 1 # i'
        BY <1>1, <1>2, <2>2
      <4> QED BY <2>2, <3>2, <4>1 DEF Awaited
    <3>3. CASE x \notin Parents(o)
      <4>1. Awaited(o)
        BY <1>1, <2>3, <2>4, <3>1, <3>3
      <4>2. PICK j \in i .. Len(vWorkQueue) : vWorkQueue[j] \in Parents(o)
                                              /\ (j = i => o \in visit)
        BY <4>1 DEF Awaited
      <4>3. j \in i' .. Len(vWorkQueue') /\ vWorkQueue'[j] = vWorkQueue[j]
        BY <1>1, <1>2, <2>2
      <4>4. j = i' => o \in visit'
        BY <1>2, <3>1, <4>2
      <4> QED BY <4>2, <4>3, <4>4 DEF Awaited
    <3> QED BY <3>2, <3>3
  <2> QED BY <1>1, <1>2, <2>2, <2>4 DEF LoopInv
<1>5. CASE ~Accepts(pool, best, best, x)
  <2>1. UNCHANGED <<pool, vWorkQueue>>
    BY <1>5 DEF TryOrphan
  <2>2. ASSUME NEW o \in mapOrphanTransactions,
               Parents(o) \cap ToSet(vWorkQueue) # {},
               Accepts(pool, best, best, o)
        PROVE  Awaited(o)'
    <3>1. Awaited(o) /\ o # x
      BY <1>1, <1>5, <2>2
    <3> QED BY <1>2, <2>1, <3>1 DEF Awaited
  <2> QED BY <1>1, <1>2, <2>1, <2>2 DEF LoopInv
<1> QED BY <1>4, <1>5

(* The next transaction of the queue: what was awaited through the last    *)
(* one has been tried, and all the orphans of the new one are to be.       *)
LEMMA LoopNext ==
  ASSUME TxInv, NextInQueue
  PROVE  LoopInv'
<1>1. /\ vWorkQueue \in Seq(Tx)
      /\ i \in 1 .. Len(vWorkQueue)
      /\ \A o \in mapOrphanTransactions :
           Parents(o) \cap ToSet(vWorkQueue) # {} /\ Accepts(pool, best, best, o) =>
             Awaited(o)
  BY DEF NextInQueue, TxInv, LoopInv
<1>2. CASE hpc' = "idle"
  BY <1>2 DEF LoopInv
<1>3. CASE /\ i < Len(vWorkQueue)
           /\ visit' = mapOrphanTransactionsByPrev[vWorkQueue[i + 1]]
           /\ UNCHANGED <<hpc, orphanVars>>
  <2>1. UNCHANGED <<best, pool, vWorkQueue, mapOrphanTransactions>> /\ i' = i + 1
    BY <1>3 DEF NextInQueue, orphanVars
  <2>2. i + 1 \in 1 .. Len(vWorkQueue) /\ vWorkQueue[i + 1] \in Tx
    BY <1>1, <1>3
  <2>3. visit' = {o \in mapOrphanTransactions : vWorkQueue[i + 1] \in Parents(o)}
    BY <1>3, <2>2 DEF TxInv, OrphanInv
  <2>4. ASSUME NEW o \in mapOrphanTransactions,
               Parents(o) \cap ToSet(vWorkQueue) # {},
               Accepts(pool, best, best, o)
        PROVE  Awaited(o)'
    <3>1. visit = {}
      BY DEF NextInQueue
    <3>2. PICK j \in i .. Len(vWorkQueue) : vWorkQueue[j] \in Parents(o) /\ j # i
      BY <1>1, <2>4, <3>1 DEF Awaited
    <3>3. j \in i' .. Len(vWorkQueue')
      BY <1>1, <2>1, <3>2
    <3>4. j = i' => o \in visit'
      BY <2>1, <2>3, <3>2
    <3> QED BY <2>1, <3>2, <3>3, <3>4 DEF Awaited
  <2> QED BY <1>1, <2>1, <2>2, <2>3, <2>4 DEF LoopInv
<1> QED BY <1>2, <1>3 DEF NextInQueue

(* Every step keeps LoopInv; only the message itself is ever in the loop.  *)
LEMMA LoopStep ==
  ASSUME TxInv, [PoolNext]_poolVars
  PROVE  LoopInv'
<1>1. CASE hpc' # "orphans"
  BY <1>1 DEF LoopInv
<1>2. CASE \E t \in Tx : ReceiveTx(t)
  BY <1>2, LoopStart
<1>3. CASE \E t \in Tx : TryOrphan(t)
  BY <1>3, LoopTry
<1>4. CASE NextInQueue
  BY <1>4, LoopNext
<1>5. CASE UNCHANGED poolVars
  BY <1>5 DEF poolVars, loopVars, orphanVars, TxInv, LoopInv, Awaited
<1>6. CASE \E t \in Tx : ReceiveOrphanTx(t)
  BY <1>6, <1>1 DEF ReceiveOrphanTx
<1>7. CASE LimitOrphanTxSize
  BY <1>7, <1>1 DEF LimitOrphanTxSize
<1>8. CASE \E b \in Block : SetBestChainInner(b) \/ Reorganize(b)
  BY <1>8, <1>1 DEF SetBestChainInner, Reorganize, loopVars
<1> QED BY <1>2, <1>3, <1>4, <1>5, <1>6, <1>7, <1>8 DEF PoolNext

(* The invariant gives the property: the queue is empty when i is at its   *)
(* end and nothing is left to visit.                                       *)
LEMMA TxInvEnough ==
  ASSUME TxInv
  PROVE  OrphanTxsConsistent
<1>1. OrphanTxMapsAgree
  BY DEF TxInv, OrphanInv, OrphanTxMapsAgree
<1>2. ASSUME hpc = "orphans", visit = {}, i = Len(vWorkQueue),
             NEW o \in mapOrphanTransactions, Parents(o) \cap ToSet(vWorkQueue) # {}
      PROVE  ~Accepts(pool, best, best, o)
  <2>1. i \in Int
    BY <1>2 DEF TxInv, LoopInv
  <2>2. ~Awaited(o)
    BY <1>2, <2>1 DEF Awaited
  <2> QED BY <1>2, <2>2 DEF TxInv, LoopInv
<1> QED BY <1>1, <1>2 DEF OrphanTxsConsistent, OrphansResolved

(* For every set of transactions and blocks: at all times the two maps of  *)
(* orphan transactions list each other's entries and their number is       *)
(* limited, and when the tx handler has emptied its work queue no orphan   *)
(* is left that spends from what it accepted and could be accepted itself, *)
(* in whatever order it tried them.                                        *)
THEOREM OrphanTxsAlwaysConsistent == PoolSpec => []OrphanTxsConsistent
<1>1. PoolInit => TxInv
  BY FS_EmptySet, PoolAssumption DEF PoolInit, TxInv, OrphanInv, LoopInv
<1>2. TxInv /\ [PoolNext]_poolVars => TxInv'
  BY OrphanStep, LoopStep DEF TxInv
<1>3. TxInv => OrphanTxsConsistent
  BY TxInvEnough
<1> QED BY <1>1, <1>2, <1>3, PTL DEF PoolSpec

-----------------------------------------------------------------------------
(* The index of a chain *)

(* A record more makes an index of an index.                               *)
LEMMA ConnectInputsType ==
  ASSUME NEW idx \in TxIndexType, NEW t \in Tx, NEW b \in Block
  PROVE  /\ ConnectInputs(idx, t, b) \in TxIndexType
         /\ \A u \in Tx : ConnectInputs(idx, t, b).pos[u] = IF u = t THEN b ELSE idx.pos[u]
<1>1. idx.pos \in [Tx -> Block \cup {None}] /\ idx.vSpent \in [OutPoint -> Tx \cup {None}]
  BY DEF TxIndexType
<1> DEFINE p == [idx.pos EXCEPT ![t] = b]
           v == [o \in OutPoint |-> IF o[1] = t THEN None
                                    ELSE IF o \in vin[t] THEN t ELSE idx.vSpent[o]]
<1>2. p \in [Tx -> Block \cup {None}] /\ v \in [OutPoint -> Tx \cup {None}]
  BY <1>1
<1>3. \A u \in Tx : p[u] = IF u = t THEN b ELSE idx.pos[u]
  BY <1>1
<1>4. ConnectInputs(idx, t, b) = [pos |-> p, vSpent |-> v]
  BY DEF ConnectInputs
<1> HIDE DEF p, v
<1> QED BY <1>2, <1>3, <1>4 DEF TxIndexType

(* The loop of ConnectBlock, step by step.                                 *)
LEMMA ConnectingSteps ==
  ASSUME NEW idx \in TxIndexType, NEW b \in Block
  PROVE  /\ Len(vtx[b]) \in Nat
         /\ Connecting(idx, b)[0] = idx
         /\ \A k \in 1 .. Len(vtx[b]) :
              Connecting(idx, b)[k] = ConnectInputs(Connecting(idx, b)[k - 1], vtx[b][k], b)
         /\ \A k \in 0 .. Len(vtx[b]) : Connecting(idx, b)[k] \in TxIndexType
<1> DEFINE n == Len(vtx[b])
           g == [k \in 1 .. n |-> [x \in TxIndexType |-> ConnectInputs(x, vtx[b][k], b)]]
<1>1. n \in Nat /\ \A k \in 1 .. n : vtx[b][k] \in Tx
  BY TxAssumption
<1>2. g \in [1 .. n -> [TxIndexType -> TxIndexType]]
  BY <1>1, ConnectInputsType
<1>3. \A k \in 1 .. n, x \in TxIndexType : g[k][x] = ConnectInputs(x, vtx[b][k], b)
  OBVIOUS
<1> HIDE DEF g
<1>4. PICK f : IsFold(f, n, TxIndexType, idx, g)
  <2> HIDE DEF n
  <2> QED BY <1>1, <1>2, FoldRecursion
<1>5. f = [k \in 0 .. Len(vtx[b]) |->
             IF k = 0 THEN idx ELSE ConnectInputs(f[k - 1], vtx[b][k], b)]
  <2>1. ASSUME NEW k \in 1 .. n PROVE f[k] = ConnectInputs(f[k - 1], vtx[b][k], b)
    <3> HIDE DEF n
    <3>1. f[k - 1] \in TxIndexType /\ f[k] = g[k][f[k - 1]]
      BY <1>1, <1>4 DEF IsFold
    <3> QED BY <1>3, <3>1
  <2> QED BY <1>4, <2>1 DEF IsFold
<1>6. Connecting(idx, b) =
        [k \in 0 .. Len(vtx[b]) |->
           IF k = 0 THEN idx ELSE ConnectInputs(Connecting(idx, b)[k - 1], vtx[b][k], b)]
  BY <1>5 DEF Connecting
<1>7. /\ Connecting(idx, b)[0] = idx
      /\ \A k \in 1 .. n :
           Connecting(idx, b)[k] = ConnectInputs(Connecting(idx, b)[k - 1], vtx[b][k], b)
  <2>1. 0 \in 0 .. Len(vtx[b]) /\ \A k \in 1 .. n : k \in 0 .. Len(vtx[b]) /\ k # 0
    BY <1>1
  <2>2. Connecting(idx, b)[0] = idx
    BY <1>6, <2>1
  <2>3. ASSUME NEW k \in 1 .. n
        PROVE  Connecting(idx, b)[k] = ConnectInputs(Connecting(idx, b)[k - 1], vtx[b][k], b)
    <3>1. k \in 0 .. Len(vtx[b]) /\ k # 0
      BY <2>1
    <3> QED BY <1>6, <3>1, Zenon
  <2> QED BY <2>2, <2>3
<1> DEFINE c == Connecting(idx, b)
           S == {k \in 0 .. n : c[k] \in TxIndexType}
<1> HIDE DEF c, n
<1>8. 0 \in S
  BY <1>1, <1>7 DEF c
<1>9. ASSUME NEW k \in 1 .. n, k - 1 \in S PROVE k \in S
  <2>1. c[k] = ConnectInputs(c[k - 1], vtx[b][k], b)
    BY <1>7 DEF c
  <2> QED BY <1>1, <1>9, <2>1, ConnectInputsType
<1>10. \A k \in 0 .. n : k \in S
  <2> HIDE DEF S
  <2> QED BY <1>1, <1>8, <1>9, UpTo
<1> QED BY <1>1, <1>7, <1>10 DEF n, c

(* ConnectBlock adds a record of each of its transactions and no other.    *)
LEMMA ConnectingTxs ==
  ASSUME NEW idx \in TxIndexType, NEW b \in Block, NEW t \in Tx
  PROVE  Connecting(idx, b)[Len(vtx[b])].pos[t] # None
           <=> idx.pos[t] # None \/ t \in TxsOf(b)
<1> DEFINE n == Len(vtx[b])
           c == Connecting(idx, b)
           S == {k \in 0 .. n : c[k].pos[t] # None
                                  <=> idx.pos[t] # None \/ \E j \in 1 .. k : vtx[b][j] = t}
<1>1. /\ n \in Nat
      /\ c[0] = idx
      /\ \A k \in 1 .. n : c[k] = ConnectInputs(c[k - 1], vtx[b][k], b)
      /\ \A k \in 0 .. n : c[k] \in TxIndexType
  BY ConnectingSteps
<1>2. \A k \in 1 .. n : vtx[b][k] \in Tx
  BY TxAssumption
<1>3. b # None
  BY TreeAssumption
<1> HIDE DEF c, n
<1>4. 0 \in S
  BY <1>1
<1>5. ASSUME NEW k \in 1 .. n, k - 1 \in S PROVE k \in S
  <2>1. k - 1 \in 0 .. n /\ c[k - 1] \in TxIndexType
    BY <1>1
  <2>2. c[k].pos[t] = IF t = vtx[b][k] THEN b ELSE c[k - 1].pos[t]
    BY <1>1, <1>2, <2>1, ConnectInputsType
  <2>3. (\E j \in 1 .. k : vtx[b][j] = t)
          <=> vtx[b][k] = t \/ \E j \in 1 .. k - 1 : vtx[b][j] = t
    BY <1>1
  <2> QED BY <1>3, <1>5, <2>2, <2>3
<1>6. \A k \in 0 .. n : k \in S
  <2> HIDE DEF S
  <2> QED BY <1>1, <1>4, <1>5, UpTo
<1>7. c[n].pos[t] # None <=> idx.pos[t] # None \/ \E j \in 1 .. n : vtx[b][j] = t
  BY <1>1, <1>6
<1>8. DOMAIN vtx[b] = 1 .. n
  BY TxAssumption DEF n
<1> QED BY <1>7, <1>8 DEF c, n, TxsOf

(* The index of every chain is that of the previous block and this one.    *)
LEMMA IndexOfSteps ==
  /\ IndexOf \in [Block -> TxIndexType]
  /\ IndexOf[Genesis] = EmptyTxIndex
  /\ \A b \in Block \ {Genesis} :
       IndexOf[b] = Connecting(IndexOf[Prev[b]], b)[Len(vtx[b])]
<1> DEFINE g == [b \in Block |-> [x \in TxIndexType |-> Connecting(x, b)[Len(vtx[b])]]]
<1>1. g \in [Block -> [TxIndexType -> TxIndexType]]
  <2>1. ASSUME NEW b \in Block, NEW x \in TxIndexType
        PROVE  Connecting(x, b)[Len(vtx[b])] \in TxIndexType
    BY ConnectingSteps
  <2> QED BY <2>1
<1>2. \A b \in Block, x \in TxIndexType : g[b][x] = Connecting(x, b)[Len(vtx[b])]
  OBVIOUS
<1>3. EmptyTxIndex \in TxIndexType
  BY DEF EmptyTxIndex, TxIndexType
<1> HIDE DEF g
<1>4. PICK f : IsBlockFcn(f, {Genesis}, TxIndexType, EmptyTxIndex, g)
  BY <1>1, <1>3, BlockRecursion
<1>5. f = [b \in Block |-> IF b = Genesis THEN EmptyTxIndex
                           ELSE Connecting(f[Prev[b]], b)[Len(vtx[b])]]
  <2>1. ASSUME NEW b \in Block, b # Genesis
        PROVE  f[b] = Connecting(f[Prev[b]], b)[Len(vtx[b])]
    <3>1. Prev[b] \in Block
      BY <2>1, TreeAssumption
    <3>2. f[Prev[b]] \in TxIndexType /\ f[b] = g[b][f[Prev[b]]]
      BY <1>4, <2>1, <3>1 DEF IsBlockFcn
    <3> QED BY <1>2, <3>2
  <2> QED BY <1>4, <2>1 DEF IsBlockFcn
<1>6. IndexOf = [b \in Block |-> IF b = Genesis THEN EmptyTxIndex
                                 ELSE Connecting(IndexOf[Prev[b]], b)[Len(vtx[b])]]
  BY <1>5 DEF IndexOf
<1>7. /\ Genesis \in Block
      /\ \A b \in Block \ {Genesis} : Prev[b] \in Block
  BY TreeAssumption
<1>8. /\ IndexOf[Genesis] = EmptyTxIndex
      /\ \A b \in Block \ {Genesis} :
           IndexOf[b] = Connecting(IndexOf[Prev[b]], b)[Len(vtx[b])]
  BY <1>6, <1>7
<1> DEFINE S == {b \in Block : IndexOf[b] \in TxIndexType}
<1>9. Genesis \in S
  BY <1>3, <1>7, <1>8
<1>10. ASSUME NEW b \in Block \ {Genesis}, Prev[b] \in S PROVE b \in S
  BY <1>8, <1>10, ConnectingSteps
<1>11. Block \subseteq S
  <2> HIDE DEF S
  <2> QED BY <1>9, <1>10, BlockInduction
<1>12. IndexOf \in [Block -> TxIndexType]
  BY <1>6, <1>11
<1> QED BY <1>8, <1>12

(* A chain has the transactions of its blocks, those of the genesis block  *)
(* apart.                                                                  *)
LEMMA ChainTxsAre ==
  ASSUME NEW c \in Block
  PROVE  ChainTxs(c) = {t \in Tx : \E a \in Anc[c] \ {Genesis} : t \in TxsOf(a)}
<1> DEFINE S == {b \in Block : \A t \in Tx : IndexOf[b].pos[t] # None
                                 <=> \E a \in Anc[b] \ {Genesis} : t \in TxsOf(a)}
<1>1. Genesis \in S
  BY IndexOfSteps, TreeAssumption DEF EmptyTxIndex
<1>2. ASSUME NEW b \in Block \ {Genesis}, Prev[b] \in S PROVE b \in S
  <2>1. Anc[b] = Anc[Prev[b]] \cup {b}
    BY TreeAssumption
  <2>2. IndexOf[Prev[b]] \in TxIndexType
    BY <1>2, IndexOfSteps
  <2>3. ASSUME NEW t \in Tx
        PROVE  IndexOf[b].pos[t] # None
                 <=> \E a \in Anc[b] \ {Genesis} : t \in TxsOf(a)
    <3>1. IndexOf[b].pos[t] # None <=> IndexOf[Prev[b]].pos[t] # None \/ t \in TxsOf(b)
      BY <2>2, IndexOfSteps, ConnectingTxs
    <3> QED BY <1>2, <2>1, <3>1
  <2> QED BY <2>3
<1>3. Block \subseteq S
  <2> HIDE DEF S
  <2> QED BY <1>1, <1>2, BlockInduction
<1> QED BY <1>3 DEF ChainTxs

-----------------------------------------------------------------------------
(* The two branches of a reorganization *)

(* The members of a concatenation.                                         *)
LEMMA ToSetConcat ==
  ASSUME NEW s \in Seq(Tx), NEW u \in Seq(Tx)
  PROVE  s \o u \in Seq(Tx) /\ ToSet(s \o u) = ToSet(s) \cup ToSet(u)
<1>1. /\ s \o u \in Seq(Tx)
      /\ Len(s \o u) = Len(s) + Len(u)
      /\ \A k \in 1 .. Len(s) + Len(u) :
           (s \o u)[k] = IF k <= Len(s) THEN s[k] ELSE u[k - Len(s)]
      /\ Len(s) \in Nat /\ Len(u) \in Nat
  OBVIOUS
<1>2. ASSUME NEW k \in DOMAIN s PROVE s[k] \in ToSet(s \o u)
  <2>1. k \in DOMAIN (s \o u) /\ (s \o u)[k] = s[k]
    BY <1>1
  <2> QED BY <2>1 DEF ToSet
<1>3. ASSUME NEW k \in DOMAIN u PROVE u[k] \in ToSet(s \o u)
  <2>1. k + Len(s) \in DOMAIN (s \o u) /\ (s \o u)[k + Len(s)] = u[k]
    BY <1>1
  <2> QED BY <2>1 DEF ToSet
<1>4. ASSUME NEW k \in DOMAIN (s \o u) PROVE (s \o u)[k] \in ToSet(s) \cup ToSet(u)
  <2>1. CASE k <= Len(s)
    BY <1>1, <2>1 DEF ToSet
  <2>2. CASE ~(k <= Len(s))
    <3>1. k - Len(s) \in DOMAIN u /\ (s \o u)[k] = u[k - Len(s)]
      BY <1>1, <2>2
    <3> QED BY <3>1 DEF ToSet
  <2> QED BY <2>1, <2>2
<1> QED BY <1>1, <1>2, <1>3, <1>4 DEF ToSet

(* The walk along pprev, block by block.                                   *)
LEMMA TxsAboveSteps ==
  ASSUME NEW c \in Block
  PROVE  \A b \in Block :
           TxsAbove(c)[b] = IF b \in Anc[c] THEN <<>> ELSE TxsAbove(c)[Prev[b]] \o vtx[b]
<1> DEFINE g == [b \in Block |-> [x \in Seq(Tx) |-> x \o vtx[b]]]
<1>1. g \in [Block -> [Seq(Tx) -> Seq(Tx)]]
  BY TxAssumption
<1>2. \A b \in Block, x \in Seq(Tx) : g[b][x] = x \o vtx[b]
  OBVIOUS
<1> HIDE DEF g
<1>3. Genesis \in Anc[c] /\ <<>> \in Seq(Tx)
  BY TreeAssumption
<1>4. PICK f : IsBlockFcn(f, Anc[c], Seq(Tx), <<>>, g)
  BY <1>1, <1>3, BlockRecursion
<1>5. f = [b \in Block |-> IF b \in Anc[c] THEN <<>> ELSE f[Prev[b]] \o vtx[b]]
  <2>1. ASSUME NEW b \in Block, b \notin Anc[c]
        PROVE  f[b] = f[Prev[b]] \o vtx[b]
    <3>1. Prev[b] \in Block
      BY <2>1, <1>3, TreeAssumption
    <3>2. f[Prev[b]] \in Seq(Tx) /\ f[b] = g[b][f[Prev[b]]]
      BY <1>4, <2>1, <3>1 DEF IsBlockFcn
    <3> QED BY <1>2, <3>2
  <2> QED BY <1>4, <2>1 DEF IsBlockFcn
<1>6. TxsAbove(c) =
        [b \in Block |-> IF b \in Anc[c] THEN <<>> ELSE TxsAbove(c)[Prev[b]] \o vtx[b]]
  BY <1>5 DEF TxsAbove
<1> QED BY <1>6

(* A branch has the transactions of its blocks.                            *)
LEMMA BranchTxsAre ==
  ASSUME NEW from \in Block, NEW to \in Block
  PROVE  /\ BranchTxs(from, to) \in Seq(Tx)
         /\ ToSet(BranchTxs(from, to)) = UNION {TxsOf(a) : a \in Anc[from] \ Anc[to]}
<1> DEFINE w == TxsAbove(to)
           S == {b \in Block : /\ w[b] \in Seq(Tx)
                               /\ ToSet(w[b]) = UNION {TxsOf(a) : a \in Anc[b] \ Anc[to]}}
<1>1. \A b \in Block : w[b] = IF b \in Anc[to] THEN <<>> ELSE w[Prev[b]] \o vtx[b]
  BY TxsAboveSteps
<1> HIDE DEF w
<1>2. ASSUME NEW b \in Block, b \in Anc[to] PROVE b \in S
  <2>1. Anc[b] \ Anc[to] = {}
    BY <1>2, TreeAssumption
  <2>2. w[b] = <<>>
    BY <1>1, <1>2
  <2>3. w[b] \in Seq(Tx) /\ ToSet(w[b]) = {}
    BY <2>2 DEF ToSet
  <2> QED BY <2>1, <2>3
<1>3. Genesis \in S
  BY <1>2, TreeAssumption
<1>4. ASSUME NEW b \in Block \ {Genesis}, Prev[b] \in S PROVE b \in S
  <2>1. CASE b \in Anc[to]
    BY <1>2, <2>1
  <2>2. CASE b \notin Anc[to]
    <3>1. Anc[b] \ Anc[to] = (Anc[Prev[b]] \ Anc[to]) \cup {b}
      BY <2>2, TreeAssumption
    <3>2. w[b] = w[Prev[b]] \o vtx[b]
      BY <1>1, <2>2
    <3>3. vtx[b] \in Seq(Tx) /\ ToSet(vtx[b]) = TxsOf(b)
      BY TxAssumption DEF ToSet, TxsOf
    <3>4. w[b] \in Seq(Tx) /\ ToSet(w[b]) = ToSet(w[Prev[b]]) \cup TxsOf(b)
      BY <1>4, <3>2, <3>3, ToSetConcat
    <3> QED BY <1>4, <3>1, <3>4
  <2> QED BY <2>1, <2>2
<1>5. Block \subseteq S
  <2> HIDE DEF S
  <2> QED BY <1>3, <1>4, BlockInduction
<1> QED BY <1>5 DEF BranchTxs, w

-----------------------------------------------------------------------------
(* The pool *)

(* What every operation on the pool keeps: the two maps agree, and what is *)
(* in the pool spends outputs that exist.                                  *)
PoolType == [mapTx : SUBSET Tx, mapNextTx : [OutPoint -> Tx \cup {None}]]

PoolOk(p) ==
  /\ p \in PoolType
  /\ \A o \in OutPoint, t \in Tx : p.mapNextTx[o] = t <=> t \in p.mapTx /\ o \in vin[t]
  /\ \A t \in p.mapTx : vin[t] \subseteq OutPoint

(* The empty pool.                                                         *)
LEMMA EmptyPoolOk == PoolOk(EmptyPool)
BY TxAssumption DEF PoolOk, PoolType, EmptyPool

(* addUnchecked of what AcceptToMemoryPool accepts: none of its inputs is  *)
(* spent in the pool.                                                      *)
LEMMA AddOk ==
  ASSUME NEW p, PoolOk(p), NEW c, NEW at, NEW t \in Tx, Accepts(p, c, at, t)
  PROVE  PoolOk(addUnchecked(p, t)) /\ addUnchecked(p, t).mapTx = p.mapTx \cup {t}
<1> DEFINE q == addUnchecked(p, t)
           m == p.mapTx \cup {t}
           x == [o \in OutPoint |-> IF o \in vin[t] THEN t ELSE p.mapNextTx[o]]
<1>1. p.mapTx \subseteq Tx /\ p.mapNextTx \in [OutPoint -> Tx \cup {None}]
  BY DEF PoolOk, PoolType
<1>2. m \subseteq Tx /\ x \in [OutPoint -> Tx \cup {None}]
  BY <1>1
<1>3. \A o \in OutPoint : x[o] = IF o \in vin[t] THEN t ELSE p.mapNextTx[o]
  OBVIOUS
<1>4. q = [mapTx |-> m, mapNextTx |-> x]
  BY DEF addUnchecked
<1>5. \A o \in vin[t] : o \in OutPoint /\ p.mapNextTx[o] = None
  BY DEF Accepts, Known, PoolInputOk
<1>6. None \notin Tx
  BY TxAssumption
<1> HIDE DEF x
<1>7. q.mapTx = m /\ q.mapNextTx = x /\ q \in PoolType
  BY <1>2, <1>4 DEF PoolType
<1>8. ASSUME NEW o \in OutPoint, NEW u \in Tx
      PROVE  x[o] = u <=> u \in m /\ o \in vin[u]
  <2>1. p.mapNextTx[o] = u <=> u \in p.mapTx /\ o \in vin[u]
    BY DEF PoolOk
  <2> QED BY <1>3, <1>5, <1>6, <2>1
<1>9. \A u \in m : vin[u] \subseteq OutPoint
  BY <1>5 DEF PoolOk
<1> HIDE DEF q, m
<1>10. PoolOk(q)
  BY <1>7, <1>8, <1>9 DEF PoolOk
<1> QED BY <1>7, <1>10 DEF q, m

(* CTxMemPool::remove, of whatever it is given.                            *)
LEMMA RemoveOk ==
  ASSUME NEW p, PoolOk(p), NEW ts
  PROVE  PoolOk(remove(p, ts)) /\ remove(p, ts).mapTx = p.mapTx \ ts
<1> DEFINE q == remove(p, ts)
           gone == ts \cap p.mapTx
           x == [o \in OutPoint |->
                   IF \E t \in gone : o \in vin[t] THEN None ELSE p.mapNextTx[o]]
           m == p.mapTx \ gone
<1>1. p.mapTx \subseteq Tx /\ p.mapNextTx \in [OutPoint -> Tx \cup {None}]
  BY DEF PoolOk, PoolType
<1>2. m \subseteq Tx /\ x \in [OutPoint -> Tx \cup {None}]
  BY <1>1
<1>3. \A o \in OutPoint :
        x[o] = IF \E t \in gone : o \in vin[t] THEN None ELSE p.mapNextTx[o]
  OBVIOUS
<1>4. q = [mapTx |-> m, mapNextTx |-> x]
  BY DEF remove
<1>5. None \notin Tx
  BY TxAssumption
<1>6. m = p.mapTx \ ts
  OBVIOUS
<1> HIDE DEF x
<1>7. q.mapTx = m /\ q.mapNextTx = x /\ q \in PoolType
  BY <1>2, <1>4 DEF PoolType
<1>8. ASSUME NEW o \in OutPoint, NEW u \in Tx
      PROVE  x[o] = u <=> u \in m /\ o \in vin[u]
  <2>1. \A v \in Tx : p.mapNextTx[o] = v <=> v \in p.mapTx /\ o \in vin[v]
    BY DEF PoolOk
  <2>2. CASE \E t \in gone : o \in vin[t]
    <3>1. PICK t \in gone : o \in vin[t]
      BY <2>2
    <3>2. t \in Tx /\ p.mapNextTx[o] = t
      BY <1>1, <2>1, <3>1
    <3>3. x[o] = None
      BY <1>3, <2>2
    <3>4. ~(u \in m /\ o \in vin[u])
      BY <2>1, <3>1, <3>2
    <3> QED BY <1>5, <3>3, <3>4
  <2>3. CASE ~\E t \in gone : o \in vin[t]
    <3>1. x[o] = p.mapNextTx[o]
      BY <1>3, <2>3
    <3> QED BY <2>1, <2>3, <3>1
  <2> QED BY <2>2, <2>3
<1>9. \A u \in m : vin[u] \subseteq OutPoint
  BY DEF PoolOk
<1> HIDE DEF q, m
<1>10. PoolOk(q)
  BY <1>7, <1>8, <1>9 DEF PoolOk
<1> QED BY <1>6, <1>7, <1>10 DEF q

(* AcceptToMemoryPool adds at most the transaction.                        *)
LEMMA AcceptOk ==
  ASSUME NEW p, PoolOk(p), NEW c, NEW at, NEW t \in Tx
  PROVE  /\ PoolOk(AcceptToMemoryPool(p, c, at, t))
         /\ p.mapTx \subseteq AcceptToMemoryPool(p, c, at, t).mapTx
         /\ \A u \in AcceptToMemoryPool(p, c, at, t).mapTx :
              u \in p.mapTx \/ (u = t /\ IndexOf[c].pos[t] = None)
<1>1. CASE Accepts(p, c, at, t)
  <2>1. AcceptToMemoryPool(p, c, at, t) = addUnchecked(p, t)
    BY <1>1 DEF AcceptToMemoryPool
  <2>2. IndexOf[c].pos[t] = None
    BY <1>1 DEF Accepts, Known
  <2> QED BY <1>1, <2>1, <2>2, AddOk
<1>2. CASE ~Accepts(p, c, at, t)
  BY <1>2 DEF AcceptToMemoryPool
<1> QED BY <1>1, <1>2

(* A transaction and what spends from it go together.                      *)
LEMMA DependantsClosed ==
  ASSUME NEW p, PoolOk(p), NEW c \in p.mapTx
  PROVE  /\ c \in WithDependants(p, c)
         /\ \A u \in p.mapTx : \A o \in vin[u] :
              o[1] \in WithDependants(p, c) => u \in WithDependants(p, c)
<1>1. c \in WithDependants(p, c)
  BY DEF WithDependants
<1>2. ASSUME NEW u \in p.mapTx, NEW o \in vin[u], o[1] \in WithDependants(p, c)
      PROVE  u \in WithDependants(p, c)
  <2>1. o \in OutPoint /\ u \in Tx
    BY DEF PoolOk, PoolType
  <2>2. p.mapNextTx[o] = u /\ u # None
    BY <2>1, TxAssumption DEF PoolOk
  <2>3. ASSUME NEW s \in SUBSET p.mapTx, c \in s,
               \A x \in OutPoint : x[1] \in s /\ p.mapNextTx[x] # None => p.mapNextTx[x] \in s
        PROVE  u \in s
    <3>1. o[1] \in s
      BY <1>2, <2>3 DEF WithDependants
    <3> QED BY <2>1, <2>2, <2>3, <3>1
  <2> QED BY <2>3 DEF WithDependants
<1> QED BY <1>1, <1>2

(* e is what is left of p when ts are connected: none of them, nothing     *)
(* that spends what they spend, and nothing that depended on what has left.*)
LeftOf(p, ts, e) ==
  /\ e.mapTx \subseteq p.mapTx \ ts
  /\ \A u \in e.mapTx, t \in ts : vin[u] \cap vin[t] = {}
  /\ \A u \in e.mapTx : \A o \in vin[u] :
       o[1] \in p.mapTx => o[1] \in e.mapTx \cup ts

(* A transaction of a connected block leaves the pool, with everything     *)
(* that spends what it spends and everything that depended on that.        *)
LEMMA EvictOk ==
  ASSUME NEW p, PoolOk(p), NEW t, NEW e, e = removeConflicts(remove(p, {t}), t)
  PROVE  PoolOk(e) /\ LeftOf(p, {t}, e)
<1> DEFINE q == remove(p, {t})
<1>1. PoolOk(q) /\ q.mapTx = p.mapTx \ {t}
  BY RemoveOk
<1> HIDE DEF q
<1> DEFINE cs == {q.mapNextTx[o] : o \in vin[t] \cap OutPoint} \ {t, None}
           D == UNION {WithDependants(q, c) : c \in cs}
<1>2. e = remove(q, D)
  BY DEF removeConflicts, q
<1>3. cs \subseteq q.mapTx
  <2>1. ASSUME NEW o \in OutPoint, q.mapNextTx[o] # None PROVE q.mapNextTx[o] \in q.mapTx
    <3>1. q.mapNextTx[o] \in Tx
      BY <1>1, <2>1 DEF PoolOk, PoolType
    <3> QED BY <1>1, <3>1 DEF PoolOk
  <2> QED BY <2>1
<1> HIDE DEF cs
<1>4. PoolOk(e) /\ e.mapTx = q.mapTx \ D
  <2> HIDE DEF D
  <2>1. PoolOk(remove(q, D)) /\ remove(q, D).mapTx = q.mapTx \ D
    BY <1>1, RemoveOk
  <2> QED BY <1>2, <2>1
<1>5. ASSUME NEW u \in e.mapTx, NEW o \in vin[u], o \in vin[t] PROVE FALSE
  <2>1. u \in q.mapTx /\ u \in Tx /\ o \in OutPoint
    BY <1>1, <1>4 DEF PoolOk, PoolType
  <2>2. q.mapNextTx[o] = u /\ u # None /\ u # t
    BY <1>1, <2>1, TxAssumption DEF PoolOk
  <2>3. u \in cs
    BY <1>5, <2>1, <2>2 DEF cs
  <2>4. u \in WithDependants(q, u)
    BY <1>1, <2>1, DependantsClosed
  <2> QED BY <1>4, <2>3, <2>4
<1>6. ASSUME NEW u \in e.mapTx, NEW o \in vin[u], o[1] \in p.mapTx
      PROVE  o[1] \in e.mapTx \cup {t}
  <2>1. SUFFICES ASSUME o[1] \in D PROVE FALSE
    BY <1>1, <1>4, <1>6
  <2>2. PICK c \in cs : o[1] \in WithDependants(q, c)
    BY <2>1
  <2>3. c \in q.mapTx /\ u \in q.mapTx
    BY <1>3, <1>4
  <2>4. u \in WithDependants(q, c)
    BY <1>1, <2>2, <2>3, DependantsClosed
  <2> QED BY <1>4, <2>4
<1> QED BY <1>1, <1>4, <1>5, <1>6 DEF LeftOf

-----------------------------------------------------------------------------
(* The pool in a reorganization *)

(* The pools whose maps agree: what both loops of Reorganize stay within.  *)
OkPools == {p \in PoolType : PoolOk(p)}

(* One round of the loop over vResurrect.                                  *)
ResurrectOne(p, from, to, t) ==
  IF t \in Generated THEN p ELSE AcceptToMemoryPool(p, to, from, t)

(* A round keeps the maps agreeing, removes nothing, and adds only what    *)
(* the new branch has not confirmed.                                       *)
LEMMA ResurrectOneOk ==
  ASSUME NEW p \in OkPools, NEW from, NEW to, NEW t \in Tx
  PROVE  /\ ResurrectOne(p, from, to, t) \in OkPools
         /\ p.mapTx \subseteq ResurrectOne(p, from, to, t).mapTx
         /\ \A u \in ResurrectOne(p, from, to, t).mapTx :
              u \in p.mapTx \/ (u = t /\ IndexOf[to].pos[u] = None)
<1>1. PoolOk(p)
  BY DEF OkPools
<1>2. CASE t \in Generated
  BY <1>2 DEF ResurrectOne
<1>3. CASE t \notin Generated
  <2> DEFINE q == AcceptToMemoryPool(p, to, from, t)
  <2>1. ResurrectOne(p, from, to, t) = q
    BY <1>3 DEF ResurrectOne
  <2>2. /\ PoolOk(q)
        /\ p.mapTx \subseteq q.mapTx
        /\ \A u \in q.mapTx : u \in p.mapTx \/ (u = t /\ IndexOf[to].pos[t] = None)
    BY <1>1, AcceptOk
  <2> HIDE DEF q
  <2> QED BY <2>1, <2>2 DEF OkPools, PoolOk
<1> QED BY <1>2, <1>3

(* Resurrecting is that loop, round by round.                              *)
LEMMA ResurrectingSteps ==
  ASSUME pool \in OkPools, NEW from \in Block, NEW to \in Block
  PROVE  /\ Resurrecting(from, to)[0] = pool
         /\ \A k \in 1 .. Len(BranchTxs(from, to)) :
              Resurrecting(from, to)[k] =
                ResurrectOne(Resurrecting(from, to)[k - 1], from, to, BranchTxs(from, to)[k])
<1> DEFINE s == BranchTxs(from, to)
           n == Len(s)
           g == [k \in 1 .. n |-> [x \in OkPools |-> ResurrectOne(x, from, to, s[k])]]
<1>1. n \in Nat /\ \A k \in 1 .. n : s[k] \in Tx
  <2>1. s \in Seq(Tx)
    BY BranchTxsAre
  <2> QED BY <2>1
<1> HIDE DEF s
<1>2. g \in [1 .. n -> [OkPools -> OkPools]]
  BY <1>1, ResurrectOneOk
<1>3. \A k \in 1 .. n, x \in OkPools : g[k][x] = ResurrectOne(x, from, to, s[k])
  OBVIOUS
<1> HIDE DEF g
<1>4. PICK f : IsFold(f, n, OkPools, pool, g)
  <2> HIDE DEF n
  <2> QED BY <1>1, <1>2, FoldRecursion
<1>5. f = [k \in 0 .. Len(BranchTxs(from, to)) |->
             IF k = 0 THEN pool
             ELSE IF BranchTxs(from, to)[k] \in Generated THEN f[k - 1]
             ELSE AcceptToMemoryPool(f[k - 1], to, from, BranchTxs(from, to)[k])]
  <2>1. ASSUME NEW k \in 1 .. n PROVE f[k] = ResurrectOne(f[k - 1], from, to, s[k])
    <3> HIDE DEF n
    <3>1. f[k - 1] \in OkPools /\ f[k] = g[k][f[k - 1]]
      BY <1>1, <1>4 DEF IsFold
    <3> QED BY <1>3, <3>1
  <2> QED BY <1>4, <2>1 DEF IsFold, ResurrectOne, s
<1>6. Resurrecting(from, to) =
        [k \in 0 .. Len(BranchTxs(from, to)) |->
           IF k = 0 THEN pool
           ELSE IF BranchTxs(from, to)[k] \in Generated THEN Resurrecting(from, to)[k - 1]
           ELSE AcceptToMemoryPool(Resurrecting(from, to)[k - 1], to, from,
                                   BranchTxs(from, to)[k])]
  BY <1>5 DEF Resurrecting
<1> QED BY SMTT(40), <1>1, <1>6 DEF ResurrectOne, s

(* What comes back is not on the new chain.                                *)
LEMMA ResurrectedOk ==
  ASSUME pool \in OkPools, NEW from \in Block, NEW to \in Block,
         NEW p, p = Resurrecting(from, to)[Len(BranchTxs(from, to))]
  PROVE  /\ p \in OkPools
         /\ pool.mapTx \subseteq p.mapTx
         /\ \A u \in p.mapTx : u \in pool.mapTx \/ IndexOf[to].pos[u] = None
<1> DEFINE s == BranchTxs(from, to)
           n == Len(s)
           r == Resurrecting(from, to)
           S == {k \in 0 .. n :
                   /\ r[k] \in OkPools
                   /\ pool.mapTx \subseteq r[k].mapTx
                   /\ \A u \in r[k].mapTx : u \in pool.mapTx \/ IndexOf[to].pos[u] = None}
<1>1. n \in Nat /\ \A k \in 1 .. n : s[k] \in Tx
  <2>1. s \in Seq(Tx)
    BY BranchTxsAre
  <2> QED BY <2>1
<1>2. r[0] = pool /\ \A k \in 1 .. n : r[k] = ResurrectOne(r[k - 1], from, to, s[k])
  BY ResurrectingSteps
<1>3. p = r[n]
  OBVIOUS
<1> HIDE DEF r, n, s
<1>4. 0 \in S
  BY <1>1, <1>2
<1>5. ASSUME NEW k \in 1 .. n, k - 1 \in S PROVE k \in S
  <2>1. r[k - 1] \in OkPools /\ s[k] \in Tx
    BY <1>1, <1>5
  <2>2. /\ r[k] \in OkPools
        /\ r[k - 1].mapTx \subseteq r[k].mapTx
        /\ \A u \in r[k].mapTx : u \in r[k - 1].mapTx \/ IndexOf[to].pos[u] = None
    BY <1>2, <2>1, ResurrectOneOk
  <2> QED BY <1>1, <1>5, <2>2
<1>6. \A k \in 0 .. n : k \in S
  <2> HIDE DEF S
  <2> QED BY <1>1, <1>4, <1>5, UpTo
<1> QED BY <1>1, <1>3, <1>6

(* One round of the loop over vDelete.                                     *)
EvictOne(p, t) == removeConflicts(remove(p, {t}), t)

(* Evicting is that loop, round by round, over pools whose maps agree.     *)
LEMMA EvictingSteps ==
  ASSUME NEW p \in OkPools, NEW from \in Block, NEW to \in Block
  PROVE  /\ Len(BranchTxs(to, from)) \in Nat
         /\ Evicting(p, from, to)[0] = p
         /\ \A k \in 1 .. Len(BranchTxs(to, from)) :
              Evicting(p, from, to)[k] =
                EvictOne(Evicting(p, from, to)[k - 1], BranchTxs(to, from)[k])
         /\ \A k \in 0 .. Len(BranchTxs(to, from)) : Evicting(p, from, to)[k] \in OkPools
<1> DEFINE s == BranchTxs(to, from)
           n == Len(s)
           g == [k \in 1 .. n |-> [x \in OkPools |-> EvictOne(x, s[k])]]
<1>1. n \in Nat /\ \A k \in 1 .. n : s[k] \in Tx
  <2>1. s \in Seq(Tx)
    BY BranchTxsAre
  <2> QED BY <2>1
<1> HIDE DEF s
<1>2. ASSUME NEW x \in OkPools, NEW t PROVE EvictOne(x, t) \in OkPools
  <2>1. PoolOk(x)
    BY DEF OkPools
  <2>2. PoolOk(EvictOne(x, t))
    BY <2>1, EvictOk DEF EvictOne
  <2> QED BY <2>2 DEF OkPools, PoolOk
<1>3. g \in [1 .. n -> [OkPools -> OkPools]]
  BY <1>2
<1>4. \A k \in 1 .. n, x \in OkPools : g[k][x] = EvictOne(x, s[k])
  OBVIOUS
<1> HIDE DEF g
<1>5. PICK f : IsFold(f, n, OkPools, p, g)
  <2> HIDE DEF n
  <2> QED BY <1>1, <1>3, FoldRecursion
<1>6. f = [k \in 0 .. Len(BranchTxs(to, from)) |->
             IF k = 0 THEN p
             ELSE removeConflicts(remove(f[k - 1], {BranchTxs(to, from)[k]}),
                                  BranchTxs(to, from)[k])]
  <2>1. ASSUME NEW k \in 1 .. n PROVE f[k] = EvictOne(f[k - 1], s[k])
    <3> HIDE DEF n
    <3>1. f[k - 1] \in OkPools /\ f[k] = g[k][f[k - 1]]
      BY <1>1, <1>5 DEF IsFold
    <3> QED BY <1>4, <3>1
  <2>2. f = [k \in 0 .. n |-> IF k = 0 THEN p ELSE EvictOne(f[k - 1], s[k])]
    BY <1>5, <2>1 DEF IsFold
  <2> QED BY <2>2 DEF EvictOne, s
<1> DEFINE e == Evicting(p, from, to)
<1>7. e = [k \in 0 .. Len(BranchTxs(to, from)) |->
             IF k = 0 THEN p
             ELSE removeConflicts(remove(e[k - 1], {BranchTxs(to, from)[k]}),
                                  BranchTxs(to, from)[k])]
  BY <1>6 DEF Evicting
<1> HIDE DEF e
<1>8. e[0] = p /\ \A k \in 1 .. n : e[k] = EvictOne(e[k - 1], s[k])
  <2>1. 0 \in 0 .. n /\ \A k \in 1 .. n : k \in 0 .. n /\ k # 0
    BY <1>1
  <2>2. e[0] = p
    BY <1>7, <2>1
  <2>3. ASSUME NEW k \in 1 .. n PROVE e[k] = EvictOne(e[k - 1], s[k])
    <3>1. k \in 0 .. n /\ k # 0
      BY <2>1
    <3> QED BY <1>7, <3>1, Zenon DEF EvictOne, s
  <2> QED BY <2>2, <2>3
<1> HIDE DEF n
<1> DEFINE S == {k \in 0 .. n : e[k] \in OkPools}
<1>9. 0 \in S
  BY <1>1, <1>8
<1>10. ASSUME NEW k \in 1 .. n, k - 1 \in S PROVE k \in S
  BY <1>2, <1>8, <1>10
<1>11. \A k \in 0 .. n : k \in S
  <2> HIDE DEF S
  <2> QED BY <1>1, <1>9, <1>10, UpTo
<1> QED BY <1>1, <1>8, <1>11 DEF n, s, e

(* What is left of what is left.                                           *)
LEMMA LeftOfLeft ==
  ASSUME NEW p, NEW q, NEW e, NEW A, NEW B, LeftOf(p, A, q), LeftOf(q, B, e)
  PROVE  LeftOf(p, A \cup B, e)
BY DEF LeftOf

(* What is left when the branch from `from' to `to' has been connected.    *)
LEMMA EvictedOk ==
  ASSUME NEW p \in OkPools, NEW from \in Block, NEW to \in Block,
         NEW q, q = Evicting(p, from, to)[Len(BranchTxs(to, from))]
  PROVE  q \in OkPools /\ LeftOf(p, ToSet(BranchTxs(to, from)), q)
<1> DEFINE s == BranchTxs(to, from)
           n == Len(s)
           e == Evicting(p, from, to)
           Done(k) == {s[j] : j \in 1 .. k}
           S == {k \in 0 .. n : LeftOf(p, Done(k), e[k])}
<1>1. /\ n \in Nat
      /\ e[0] = p
      /\ \A k \in 1 .. n : e[k] = EvictOne(e[k - 1], s[k])
      /\ \A k \in 0 .. n : e[k] \in OkPools
  BY EvictingSteps
<1>2. q = e[n] /\ ToSet(s) = Done(n)
  <2>1. DOMAIN s = 1 .. n
    BY BranchTxsAre
  <2> QED BY <2>1 DEF ToSet
<1> HIDE DEF e, n, s
<1>3. 0 \in S
  <2>1. Done(0) = {}
    OBVIOUS
  <2>2. LeftOf(p, {}, p)
    BY DEF LeftOf
  <2> HIDE DEF Done
  <2>3. LeftOf(p, Done(0), e[0])
    BY <1>1, <2>1, <2>2, Zenon
  <2> QED BY <1>1, <2>3
<1>4. ASSUME NEW k \in 1 .. n, k - 1 \in S PROVE k \in S
  <2>1. Done(k) = Done(k - 1) \cup {s[k]}
    BY <1>1
  <2> HIDE DEF Done
  <2>2. PoolOk(e[k - 1]) /\ LeftOf(p, Done(k - 1), e[k - 1])
    BY <1>1, <1>4 DEF OkPools
  <2>3. e[k] = removeConflicts(remove(e[k - 1], {s[k]}), s[k])
    BY <1>1 DEF EvictOne
  <2>4. LeftOf(e[k - 1], {s[k]}, e[k])
    BY <2>2, <2>3, EvictOk
  <2>5. LeftOf(p, Done(k), e[k])
    BY <2>1, <2>2, <2>4, LeftOfLeft
  <2> QED BY <2>5
<1>5. \A k \in 0 .. n : k \in S
  <2> HIDE DEF S
  <2> QED BY <1>1, <1>3, <1>4, UpTo
<1> HIDE DEF Done
<1>6. n \in S
  BY <1>1, <1>5
<1> QED BY <1>1, <1>2, <1>6 DEF s

-----------------------------------------------------------------------------
(* The pool and the best chain *)

(* The induction over the pool: what is spent there is what mapNextTx      *)
(* says, and nothing of it is on the best chain.                           *)
PoolInv == PoolTypeOK /\ PoolOk(pool) /\ PoolNotInChain

(* Every variable but the pool keeps its type.                             *)
LEMMA TypeStep ==
  ASSUME PoolInv, [PoolNext]_poolVars, PoolOk(pool)'
  PROVE  PoolTypeOK'
<1>1. PoolTypeOK /\ pool' \in PoolType
  BY DEF PoolInv, PoolOk
<1>2. pool' \in [mapTx : SUBSET Tx, mapNextTx : [OutPoint -> Tx \cup {None}]]
  BY <1>1 DEF PoolType
<1> USE <1>1, <1>2 DEF PoolTypeOK, orphanVars, loopVars
<1>3. ASSUME NEW t \in Tx, ReceiveTx(t) PROVE PoolTypeOK'
  BY <1>3 DEF ReceiveTx
<1>4. ASSUME NEW t \in Tx, ReceiveOrphanTx(t) PROVE PoolTypeOK'
  BY <1>4 DEF ReceiveOrphanTx
<1>5. ASSUME NEW t \in Tx, TryOrphan(t) PROVE PoolTypeOK'
  BY SMTT(40), <1>5 DEF TryOrphan
<1>6. ASSUME LimitOrphanTxSize PROVE PoolTypeOK'
  BY <1>6 DEF LimitOrphanTxSize, EraseOrphanTxs
<1>7. ASSUME NextInQueue PROVE PoolTypeOK'
  BY <1>7 DEF NextInQueue, EraseOrphanTxs
<1>8. ASSUME NEW b \in Block, SetBestChainInner(b) \/ Reorganize(b) PROVE PoolTypeOK'
  BY <1>8 DEF SetBestChainInner, Reorganize
<1>9. CASE UNCHANGED poolVars
  BY <1>9 DEF poolVars
<1> QED BY <1>3, <1>4, <1>5, <1>6, <1>7, <1>8, <1>9 DEF PoolNext

(* A transaction accepted by the tx handler is not on the best chain.      *)
LEMMA AcceptStep ==
  ASSUME PoolInv, NEW t \in Tx, Accepts(pool, best, best, t),
         pool' = addUnchecked(pool, t), best' = best
  PROVE  PoolOk(pool)' /\ PoolNotInChain'
<1>1. PoolOk(pool') /\ pool'.mapTx = pool.mapTx \cup {t}
  BY AddOk DEF PoolInv
<1>2. t \notin ChainTxs(best)
  BY DEF Accepts, Known, ChainTxs
<1>3. pool.mapTx \cap ChainTxs(best) = {}
  BY DEF PoolInv, PoolNotInChain
<1>4. ChainTxs(best') = ChainTxs(best)
  OBVIOUS
<1>5. pool'.mapTx \cap ChainTxs(best') = {}
  BY <1>1, <1>2, <1>3, <1>4
<1> QED BY <1>1, <1>5 DEF PoolNotInChain

(* An attached block takes its transactions out of the pool.               *)
LEMMA AttachStep ==
  ASSUME PoolInv, NEW b \in Block \ {Genesis}, SetBestChainInner(b)
  PROVE  PoolOk(pool)' /\ PoolNotInChain'
<1>1. best' = b /\ Prev[b] = best /\ pool' = remove(pool, TxsOf(b))
  BY DEF SetBestChainInner
<1>2. PoolOk(pool') /\ pool'.mapTx = pool.mapTx \ TxsOf(b)
  BY <1>1, RemoveOk DEF PoolInv
<1>3. Anc[b] = Anc[best] \cup {b} /\ best \in Block
  BY <1>1, TreeAssumption
<1>4. ChainTxs(b) \subseteq ChainTxs(best) \cup TxsOf(b)
  BY <1>3, ChainTxsAre
<1>5. pool.mapTx \cap ChainTxs(best) = {}
  BY DEF PoolInv, PoolNotInChain
<1>6. pool'.mapTx \cap ChainTxs(best') = {}
  BY <1>1, <1>2, <1>4, <1>5
<1> QED BY <1>2, <1>6 DEF PoolNotInChain

(* A reorganization: what it resurrects is not on the new chain, and what  *)
(* it had before is on it only through a connected block.                  *)
LEMMA ReorganizeStep ==
  ASSUME PoolInv, NEW b \in Block \ {Genesis}, Reorganize(b)
  PROVE  /\ PoolOk(pool)' /\ PoolNotInChain'
         /\ \E p : /\ pool.mapTx \subseteq p.mapTx
                   /\ LeftOf(p, ToSet(BranchTxs(b, best)), pool')
<1> DEFINE p == Resurrecting(best, b)[Len(BranchTxs(best, b))]
           q == Evicting(p, best, b)[Len(BranchTxs(b, best))]
<1>1. best' = b /\ pool' = q /\ best \in Block
  BY DEF Reorganize, Reorganized, PoolInv, PoolTypeOK
<1>2. pool \in OkPools
  BY DEF PoolInv, OkPools, PoolOk
<1>3. /\ p \in OkPools
      /\ pool.mapTx \subseteq p.mapTx
      /\ \A u \in p.mapTx : u \in pool.mapTx \/ IndexOf[b].pos[u] = None
  BY <1>1, <1>2, ResurrectedOk
<1> HIDE DEF p
<1>4. q \in OkPools /\ LeftOf(p, ToSet(BranchTxs(b, best)), q)
  BY <1>1, <1>3, EvictedOk
<1> HIDE DEF q
<1>5. ToSet(BranchTxs(b, best)) = UNION {TxsOf(a) : a \in Anc[b] \ Anc[best]}
  BY <1>1, BranchTxsAre
<1>6. ChainTxs(b) \subseteq ChainTxs(best) \cup ToSet(BranchTxs(b, best))
  BY <1>1, <1>5, ChainTxsAre
<1>7. pool.mapTx \cap ChainTxs(best) = {}
  BY DEF PoolInv, PoolNotInChain
<1>8. q.mapTx \cap ChainTxs(b) = {}
  <2>1. ASSUME NEW u \in q.mapTx, u \in ChainTxs(b) PROVE FALSE
    <3>1. u \in p.mapTx /\ u \notin ToSet(BranchTxs(b, best))
      BY <1>4 DEF LeftOf
    <3>2. u \in pool.mapTx
      BY <1>3, <2>1, <3>1 DEF ChainTxs
    <3> QED BY <1>6, <1>7, <2>1, <3>1, <3>2
  <2> QED BY <2>1
<1>9. PoolOk(pool') /\ PoolNotInChain'
  BY <1>1, <1>4, <1>8 DEF PoolNotInChain, OkPools
<1> QED BY <1>1, <1>3, <1>4, <1>9

(* Every step keeps the pool sound and apart from the best chain.          *)
LEMMA PoolStep ==
  ASSUME PoolInv, [PoolNext]_poolVars
  PROVE  PoolOk(pool)' /\ PoolNotInChain'
<1>1. CASE UNCHANGED <<pool, best>>
  BY <1>1 DEF PoolInv, PoolOk, PoolNotInChain
<1>2. ASSUME NEW t \in Tx, ReceiveTx(t) PROVE PoolOk(pool)' /\ PoolNotInChain'
  <2>1. Accepts(pool, best, best, t) /\ pool' = addUnchecked(pool, t) /\ best' = best
    BY <1>2 DEF ReceiveTx
  <2> QED BY <2>1, AcceptStep
<1>3. ASSUME NEW t \in Tx, ReceiveOrphanTx(t) PROVE PoolOk(pool)' /\ PoolNotInChain'
  BY <1>1, <1>3 DEF ReceiveOrphanTx
<1>4. ASSUME NEW t \in Tx, TryOrphan(t) PROVE PoolOk(pool)' /\ PoolNotInChain'
  <2>1. CASE Accepts(pool, best, best, t)
    <3>1. pool' = addUnchecked(pool, t) /\ best' = best
      BY <1>4, <2>1 DEF TryOrphan
    <3> QED BY <2>1, <3>1, AcceptStep
  <2>2. CASE ~Accepts(pool, best, best, t)
    BY <1>1, <1>4, <2>2 DEF TryOrphan
  <2> QED BY <2>1, <2>2
<1>5. ASSUME LimitOrphanTxSize PROVE PoolOk(pool)' /\ PoolNotInChain'
  BY <1>1, <1>5 DEF LimitOrphanTxSize
<1>6. ASSUME NextInQueue PROVE PoolOk(pool)' /\ PoolNotInChain'
  BY <1>1, <1>6 DEF NextInQueue
<1>7. CASE UNCHANGED poolVars
  BY <1>1, <1>7 DEF poolVars
<1> QED BY <1>2, <1>3, <1>4, <1>5, <1>6, <1>7, AttachStep, ReorganizeStep DEF PoolNext

(* At first.                                                               *)
LEMMA PoolInvInit ==
  ASSUME PoolInit
  PROVE  PoolInv
<1>1. PoolOk(pool)
  BY EmptyPoolOk DEF PoolInit
<1>2. pool.mapTx = {}
  BY DEF PoolInit, EmptyPool
<1>3. PoolTypeOK
  BY <1>1, TreeAssumption DEF PoolInit, PoolTypeOK, PoolOk, PoolType
<1> QED BY <1>1, <1>2, <1>3 DEF PoolInv, PoolNotInChain

(* For every tree of blocks and set of transactions: through every accept, *)
(* removal, resurrection and recursive conflict removal mapNextTx stays    *)
(* the inverse of the inputs of mapTx, so that no two transactions of the  *)
(* pool spend the same output, and none of them is on the best chain.      *)
THEOREM PoolAlwaysConsistent == PoolSpec => []PoolConsistent
<1>1. PoolInit => PoolInv
  BY PoolInvInit
<1>2. PoolInv /\ [PoolNext]_poolVars => PoolInv'
  BY PoolStep, TypeStep DEF PoolInv
<1>3. PoolInv => PoolConsistent
  BY DEF PoolInv, PoolConsistent, PoolMapsAgree, PoolOk
<1> QED BY <1>1, <1>2, <1>3, PTL DEF PoolSpec

(* For every tree of blocks and set of transactions: a reorganization      *)
(* leaves nothing in the pool that spends what the connected blocks have   *)
(* spent, and evicts with a transaction whatever depended on it.           *)
THEOREM ReorgAlwaysEvictsConflicts == PoolSpec => ReorgEvictsConflicts
<1> DEFINE A == best' # best /\ Prev[best'] # best =>
                  \A t \in pool'.mapTx : \A o \in vin[t] :
                    /\ \A a \in Anc[best'] \ Anc[best] : \A u \in TxsOf(a) : o \notin vin[u]
                    /\ o[1] \in pool.mapTx => o[1] \in pool'.mapTx \cup ChainTxs(best')
<1>1. PoolInit => PoolInv
  BY PoolInvInit
<1>2. PoolInv /\ [PoolNext]_poolVars => PoolInv'
  BY PoolStep, TypeStep DEF PoolInv
<1>3. ASSUME PoolInv, [PoolNext]_poolVars PROVE [A]_poolVars
  <2>1. CASE best' = best
    BY <2>1
  <2>2. ASSUME NEW b \in Block \ {Genesis}, SetBestChainInner(b) PROVE A
    BY <2>2 DEF SetBestChainInner
  <2>3. ASSUME NEW b \in Block \ {Genesis}, Reorganize(b) PROVE A
    <3>1. PICK p : /\ pool.mapTx \subseteq p.mapTx
                   /\ LeftOf(p, ToSet(BranchTxs(b, best)), pool')
      BY <1>3, <2>3, ReorganizeStep
    <3>2. best' = b /\ best \in Block
      BY <1>3, <2>3 DEF Reorganize, PoolInv, PoolTypeOK
    <3>3. ToSet(BranchTxs(b, best)) = UNION {TxsOf(a) : a \in Anc[b] \ Anc[best]}
      BY <3>2, BranchTxsAre
    <3>4. ToSet(BranchTxs(b, best)) \subseteq ChainTxs(b)
      <4>1. ASSUME NEW a \in Anc[b] \ Anc[best] PROVE a # Genesis /\ TxsOf(a) \subseteq Tx
        BY <3>2, <4>1, TreeAssumption, TxAssumption DEF TxsOf
      <4> QED BY <3>3, <4>1, ChainTxsAre
    <3> QED BY <3>1, <3>2, <3>3, <3>4 DEF LeftOf
  <2>4. CASE \E t \in Tx : ReceiveTx(t) \/ ReceiveOrphanTx(t) \/ TryOrphan(t)
    BY <2>1, <2>4 DEF ReceiveTx, ReceiveOrphanTx, TryOrphan
  <2>5. CASE LimitOrphanTxSize \/ NextInQueue
    BY <2>1, <2>5 DEF LimitOrphanTxSize, NextInQueue
  <2>6. CASE UNCHANGED poolVars
    BY <2>6
  <2> QED BY <1>3, <2>2, <2>3, <2>4, <2>5, <2>6 DEF PoolNext
<1> QED BY <1>1, <1>2, <1>3, PTL DEF PoolSpec, ReorgEvictsConflicts

-----------------------------------------------------------------------------
(* Chains that connect *)

(* What ConnectBlock demands of block b on top of the previous ones.       *)
BlockConnects(b) ==
  /\ b \notin BadBlock
  /\ \A j \in DOMAIN vtx[b] :
       /\ vtx[b][j] \notin BadTx
       /\ ~Overwrites(IndexOf[Prev[b]], vtx[b][j])
       /\ \A o \in vin[vtx[b][j]] :
            InputOk(Connecting(IndexOf[Prev[b]], b)[j - 1], o, b)

(* A chain connects if the one before its tip does and the tip does.       *)
LEMMA ChainOkSteps ==
  /\ ChainOk[Genesis]
  /\ \A b \in Block \ {Genesis} : ChainOk[b] <=> ChainOk[Prev[b]] /\ BlockConnects(b)
<1> DEFINE g == [b \in Block |-> [x \in BOOLEAN |-> x /\ BlockConnects(b)]]
<1>1. g \in [Block -> [BOOLEAN -> BOOLEAN]]
  <2>1. \A b \in Block : BlockConnects(b) \in BOOLEAN
    BY DEF BlockConnects
  <2> HIDE DEF BlockConnects
  <2> QED BY <2>1
<1>2. \A b \in Block, x \in BOOLEAN : g[b][x] = (x /\ BlockConnects(b))
  OBVIOUS
<1> HIDE DEF g
<1>3. PICK f : IsBlockFcn(f, {Genesis}, BOOLEAN, TRUE, g)
  <2> DEFINE B == BOOLEAN
  <2>1. TRUE \in B
    OBVIOUS
  <2> HIDE DEF B
  <2>2. \E f : IsBlockFcn(f, {Genesis}, B, TRUE, g)
    BY <1>1, <2>1, BlockRecursion DEF B
  <2> QED BY <2>2 DEF B
<1>4. f = [b \in Block |-> b # Genesis => f[Prev[b]] /\ BlockConnects(b)]
  <2>1. ASSUME NEW b \in Block
        PROVE  f[b] = (b # Genesis => f[Prev[b]] /\ BlockConnects(b))
    <3>1. CASE b = Genesis
      BY <1>3, <3>1, Zenon DEF IsBlockFcn
    <3>2. CASE b # Genesis
      <4>1. Prev[b] \in Block
        BY <3>2, TreeAssumption
      <4>2. f[Prev[b]] \in BOOLEAN
        BY <1>3, <4>1 DEF IsBlockFcn
      <4>3. f[b] = g[b][f[Prev[b]]]
        BY <1>3, <3>2 DEF IsBlockFcn
      <4>4. f[b] = (f[Prev[b]] /\ BlockConnects(b))
        BY <1>2, <4>2, <4>3, Zenon
      <4> QED BY <3>2, <4>4, Zenon
    <3> QED BY <3>1, <3>2
  <2> DEFINE h == [b \in Block |-> b # Genesis => f[Prev[b]] /\ BlockConnects(b)]
  <2>2. \A b \in Block : h[b] = f[b]
    BY <2>1, Zenon
  <2>3. h = [b \in Block |-> h[b]]
    OBVIOUS
  <2>4. f = [b \in Block |-> f[b]]
    BY <1>3 DEF IsBlockFcn
  <2> HIDE DEF h
  <2>5. f = h
    BY <2>2, <2>3, <2>4
  <2> QED BY <2>5 DEF h
<1>5. ChainOk = [b \in Block |-> b # Genesis => ChainOk[Prev[b]] /\ BlockConnects(b)]
  BY <1>4, Zenon DEF ChainOk, BlockConnects
<1>6. \A b \in Block : ChainOk[b] = (b # Genesis => ChainOk[Prev[b]] /\ BlockConnects(b))
  BY <1>5, Zenon
<1> QED BY <1>6, TreeAssumption, Zenon

(* All blocks below the tip of a chain that connects do.                   *)
LEMMA ChainOkBelow ==
  ASSUME NEW c \in Block, ChainOk[c], NEW a \in Anc[c]
  PROVE  ChainOk[a]
<1> DEFINE S == {b \in Block : ChainOk[b] => \A d \in Anc[b] : ChainOk[d]}
<1>1. Genesis \in S
  BY TreeAssumption
<1>2. ASSUME NEW b \in Block \ {Genesis}, Prev[b] \in S PROVE b \in S
  <2>1. Anc[b] = Anc[Prev[b]] \cup {b}
    BY TreeAssumption
  <2>2. ChainOk[b] => ChainOk[Prev[b]]
    BY ChainOkSteps
  <2> QED BY <1>2, <2>1, <2>2
<1>3. Block \subseteq S
  <2> HIDE DEF S
  <2> QED BY <1>1, <1>2, BlockInduction
<1> QED BY <1>3

(* The index within the loop of ConnectBlock.                              *)
LEMMA DescribesWithin ==
  ASSUME NEW b \in Block \ {Genesis}, ChainOk[b], IsIndexOf(IndexOf[Prev[b]], Prev[b])
  PROVE  \A k \in 0 .. Len(vtx[b]) :
           Describes(Connecting(IndexOf[Prev[b]], b)[k], Connected(Prev[b], b, k))
<1> DEFINE n == Len(vtx[b])
           c == Connecting(IndexOf[Prev[b]], b)
           m(k) == Connected(Prev[b], b, k)
           S == {k \in 0 .. n : Describes(c[k], m(k))}
<1>1. Prev[b] \in Block /\ IndexOf[Prev[b]] \in TxIndexType
  BY IndexOfSteps, TreeAssumption
<1>2. /\ n \in Nat
      /\ c[0] = IndexOf[Prev[b]]
      /\ \A k \in 1 .. n : c[k] = ConnectInputs(c[k - 1], vtx[b][k], b)
      /\ \A k \in 0 .. n : c[k] \in TxIndexType
  BY <1>1, ConnectingSteps
<1>3. \A k \in 1 .. n : \A o \in vin[vtx[b][k]] : InputOk(c[k - 1], o, b)
  <2>1. DOMAIN vtx[b] = 1 .. n
    BY TxAssumption
  <2> QED BY <2>1, ChainOkSteps DEF BlockConnects
<1>4. \A k \in 0 .. n : m(k) \in Counts /\ m(k)[b] = k /\ TipIs(m(k), b)
  BY <1>1, <1>2, ConnectedCounts, ConnectedChild
<1>5. \A k \in 1 .. n : [m(k - 1) EXCEPT ![b] = k] = m(k)
  BY <1>1, <1>2, ConnectedCounts
<1>6. m(0) = Connected(Prev[b], None, 0)
  BY ConnectedChild
<1> HIDE DEF c, n, m
<1>7. 0 \in S
  BY <1>2, <1>6 DEF IsIndexOf
<1>8. ASSUME NEW k \in 1 .. n, k - 1 \in S PROVE k \in S
  <2>1. k - 1 \in 0 .. n /\ m(k - 1)[b] + 1 = k /\ m(k - 1)[b] < n
    BY <1>2, <1>4
  <2>2. Describes(ConnectInputs(c[k - 1], vtx[b][m(k - 1)[b] + 1], b),
                  [m(k - 1) EXCEPT ![b] = m(k - 1)[b] + 1])
    BY <1>2, <1>3, <1>4, <1>8, <2>1, ConnectDescribes DEF n
  <2>3. Describes(c[k], m(k))
    BY <1>2, <1>5, <2>1, <2>2
  <2> QED BY <2>3
<1>9. \A k \in 0 .. n : k \in S
  <2> HIDE DEF S
  <2> QED BY <1>2, <1>7, <1>8, UpTo
<1> QED BY <1>9 DEF n, c, m

(* The index that the pool is checked against is the index of the chain,   *)
(* in the sense in which NodeProofs shows that of the database.            *)
LEMMA IndexDescribes ==
  ASSUME NEW c \in Block, ChainOk[c]
  PROVE  IsIndexOf(IndexOf[c], c)
<1> DEFINE S == {b \in Block : ChainOk[b] => IsIndexOf(IndexOf[b], b)}
<1>1. Genesis \in S
  <2>1. IndexOf[Genesis] = EmptyTxIndex /\ Anc[Genesis] = {Genesis} /\ Genesis \in Block
    BY IndexOfSteps, TreeAssumption
  <2>2. \A b \in Block : Connected(Genesis, None, 0)[b] = 0
    BY <2>1, TreeAssumption DEF Connected
  <2>3. IsIndexOf(EmptyTxIndex, Genesis)
    BY <2>2 DEF IsIndexOf, Describes, RecordsOf, OnlyRecordsOf, InputsOf, OnlyInputsOf, EmptyTxIndex
  <2> QED BY <2>1, <2>3
<1>2. ASSUME NEW b \in Block \ {Genesis}, Prev[b] \in S PROVE b \in S
  <2>1. SUFFICES ASSUME ChainOk[b] PROVE IsIndexOf(IndexOf[b], b)
    OBVIOUS
  <2>2. IsIndexOf(IndexOf[Prev[b]], Prev[b])
    BY <1>2, <2>1, ChainOkSteps
  <2>3. Len(vtx[b]) \in 0 .. Len(vtx[b])
    BY VtxType
  <2>4. Describes(Connecting(IndexOf[Prev[b]], b)[Len(vtx[b])], Connected(Prev[b], b, Len(vtx[b])))
    BY <2>1, <2>2, <2>3, DescribesWithin
  <2>5. Connected(Prev[b], b, Len(vtx[b])) = Connected(b, None, 0)
    BY ConnectedChild
  <2>6. IndexOf[b] = Connecting(IndexOf[Prev[b]], b)[Len(vtx[b])]
    BY IndexOfSteps
  <2> QED BY <2>4, <2>5, <2>6 DEF IsIndexOf
<1>3. Block \subseteq S
  <2> HIDE DEF S
  <2> QED BY <1>1, <1>2, BlockInduction
<1> QED BY <1>3

(* On a chain that connects a transaction has one place, spends what was   *)
(* there before it, and is the only one to do so.                          *)
LEMMA ChainFacts ==
  ASSUME NEW c \in Block, ChainOk[c], NEW a \in Anc[c] \ {Genesis},
         NEW i0 \in 1 .. Len(vtx[a]), NEW t, t = vtx[a][i0]
  PROVE  /\ IndexOf[c].pos[t] = a
         /\ \A o \in vin[t] :
              /\ o \in OutPoint
              /\ IndexOf[c].vSpent[o] = t
              /\ IndexOf[c].pos[o[1]] \in Anc[a] \ {Genesis}
              /\ IndexOf[c].pos[o[1]] = a => \E j \in 1 .. i0 - 1 : vtx[a][j] = o[1]
<1> DEFINE n == Connected(c, None, 0)
           idx == IndexOf[c]
<1>1. Describes(idx, n)
  BY IndexDescribes DEF IsIndexOf
<1>2. a \in Block /\ Genesis \in Block /\ None \notin Block /\ idx \in TxIndexType
  BY AncFacts, TreeAssumption, IndexOfSteps
<1>3. n[a] = Len(vtx[a]) /\ n[Genesis] = 0
  BY <1>2 DEF Connected
<1> HIDE DEF n, idx
<1>4. i0 \in 1 .. n[a]
  BY <1>3
<1>5. idx.pos[t] = a
  BY <1>1, <1>2, <1>4 DEF Describes, RecordsOf
<1>6. ASSUME NEW o \in vin[t]
      PROVE  /\ o \in OutPoint
             /\ idx.vSpent[o] = t
             /\ idx.pos[o[1]] \in Anc[a]
             /\ idx.pos[o[1]] = a => \E j \in 1 .. i0 - 1 : vtx[a][j] = o[1]
  BY <1>1, <1>2, <1>4 DEF Describes, InputsOf
<1>7. ASSUME NEW o \in vin[t] PROVE idx.pos[o[1]] # Genesis
  <2>1. o[1] \in Tx /\ idx.pos[o[1]] # None
    <3>1. o \in Tx \X Nat
      BY <1>6, TxAssumption
    <3>2. idx.pos[o[1]] \in Block
      BY <1>2, <1>6, AncFacts
    <3> QED BY <1>2, <3>1, <3>2
  <2>2. \E j \in 1 .. n[idx.pos[o[1]]] : vtx[idx.pos[o[1]]][j] = o[1]
    BY <1>1, <2>1 DEF Describes, OnlyRecordsOf
  <2> QED BY <1>3, <2>2
<1> QED BY <1>5, <1>6, <1>7 DEF idx

(* A coin that was spent on a chain is mature at its tip.                  *)
LEMMA SpentMature ==
  ASSUME NEW c \in Block, ChainOk[c], NEW a \in Anc[c] \ {Genesis},
         NEW i0 \in 1 .. Len(vtx[a]), NEW o \in vin[vtx[a][i0]]
  PROVE  ~Immature(IndexOf[c], o[1], c)
<1> DEFINE idx == Connecting(IndexOf[Prev[a]], a)[i0 - 1]
           n == Connected(Prev[a], a, i0 - 1)
<1>1. /\ a \in Block \ {Genesis} /\ Prev[a] \in Block /\ Prev[a] \in Anc[a]
      /\ a \notin Anc[Prev[a]] /\ Anc[a] = Anc[Prev[a]] \cup {a}
      /\ Anc[a] \subseteq Anc[c] /\ Anc[a] \subseteq Block
  BY AncFacts, TreeAssumption
<1>2. ChainOk[a] /\ ChainOk[Prev[a]]
  BY <1>1, ChainOkBelow
<1>3. Len(vtx[a]) \in Nat /\ i0 - 1 \in 0 .. Len(vtx[a])
  BY <1>1, VtxType
<1>4. Describes(idx, n)
  BY <1>1, <1>2, <1>3, IndexDescribes, DescribesWithin
<1>5. InputOk(idx, o, a)
  <2>1. i0 \in DOMAIN vtx[a]
    BY <1>1, TxAssumption
  <2> QED BY <1>1, <1>2, <2>1, ChainOkSteps DEF BlockConnects
<1>6. \A d \in Block : n[d] # 0 => d \in Anc[a] \ {Genesis} /\ n[d] \in Nat /\ n[d] <= Len(vtx[d])
  BY <1>1, <1>3, VtxType DEF Connected
<1>7. idx \in TxIndexType
  BY <1>1, <1>3, IndexOfSteps, ConnectingSteps
<1> HIDE DEF idx, n
<1> DEFINE p == idx.pos[o[1]]
<1>8. o[1] \in Tx /\ p # None /\ p \in Block /\ ~Immature(idx, o[1], a)
  <2>1. o \in Tx \X Nat
    BY <1>5, TxAssumption DEF InputOk
  <2> QED BY <1>5, <1>7, <2>1 DEF InputOk, TxIndexType
<1>9. PICK j \in 1 .. n[p] : vtx[p][j] = o[1]
  BY <1>4, <1>8 DEF Describes, OnlyRecordsOf
<1>10. p \in Anc[a] \ {Genesis} /\ j \in 1 .. Len(vtx[p])
  <2>1. n[p] # 0
    <3> HIDE DEF p
    <3> QED BY <1>9
  <2> QED BY <1>6, <1>8, <1>9, <2>1, VtxType
<1> HIDE DEF p
<1>11. IndexOf[c].pos[o[1]] = p
  BY <1>1, <1>9, <1>10, ChainFacts
<1>12. o[1] \in Generated => Height[a] - Height[p] >= Maturity
  <2>1. p \in Anc[a]
    BY <1>10
  <2>2. o[1] \in Generated => ~(Height[a] - Height[p] < Maturity)
    BY <1>8, <2>1, Zenon DEF Immature, p
  <2>3. Height[a] \in Nat /\ Height[p] \in Nat /\ Maturity \in Nat
    BY <1>1, <1>8, TreeAssumption, TxAssumption
  <2> QED BY <2>2, <2>3
<1>13. Height[c] >= Height[a] /\ Height[c] \in Nat /\ Height[a] \in Nat /\ Height[p] \in Nat
  BY SMTT(40), <1>1, <1>8, TreeAssumption
<1>14. Maturity \in Nat
  BY TxAssumption
<1>15. o[1] \in Generated => ~(Height[c] - Height[p] < Maturity)
  BY <1>12, <1>13, <1>14
<1> HIDE DEF p
<1> QED BY <1>11, <1>15, Zenon DEF Immature

-----------------------------------------------------------------------------
(* What a reorganization brings back *)

(* The transactions of a branch are in the order of the chain.             *)
InOrder(s, k, j, ds) ==
  \E a1, a2 \in ds : \E i1 \in 1 .. Len(vtx[a1]), i2 \in 1 .. Len(vtx[a2]) :
    /\ s[k] = vtx[a1][i1] /\ s[j] = vtx[a2][i2]
    /\ a1 \in Anc[a2]
    /\ a1 = a2 => i1 <= i2

LEMMA BranchOrder ==
  ASSUME NEW from \in Block, NEW to \in Block
  PROVE  \A j \in 1 .. Len(BranchTxs(from, to)) : \A k \in 1 .. j :
           InOrder(BranchTxs(from, to), k, j, Anc[from] \ Anc[to])
<1> DEFINE w == TxsAbove(to)
           Ord(b) == \A j \in 1 .. Len(w[b]) : \A k \in 1 .. j : InOrder(w[b], k, j, Anc[b] \ Anc[to])
           S == {b \in Block : w[b] \in Seq(Tx) /\ Ord(b)}
<1>1. \A b \in Block : w[b] = IF b \in Anc[to] THEN <<>> ELSE w[Prev[b]] \o vtx[b]
  BY TxsAboveSteps
<1> HIDE DEF w
<1>2. ASSUME NEW b \in Block, b \in Anc[to] PROVE b \in S
  <2>1. w[b] = <<>>
    BY <1>1, <1>2
  <2>2. w[b] \in Seq(Tx) /\ Len(w[b]) = 0
    BY <2>1
  <2>3. Ord(b)
    BY <2>2
  <2> QED BY <2>2, <2>3
<1>3. Genesis \in S
  BY <1>2, TreeAssumption
<1>4. ASSUME NEW b \in Block \ {Genesis}, Prev[b] \in S PROVE b \in S
  <2>1. CASE b \in Anc[to]
    BY <1>2, <2>1
  <2>2. CASE b \notin Anc[to]
    <3>1. /\ Anc[b] \ Anc[to] = (Anc[Prev[b]] \ Anc[to]) \cup {b}
          /\ Anc[Prev[b]] \subseteq Anc[b] /\ b \notin Anc[Prev[b]] /\ b \in Anc[b]
      BY <2>2, AncFacts
    <3> DEFINE s == w[Prev[b]]
               v == vtx[b]
               m == Len(s)
               n == Len(v)
    <3>2. s \in Seq(Tx) /\ v \in Seq(Tx) /\ m \in Nat /\ n \in Nat
      BY <1>4, TxAssumption
    <3>3. /\ w[b] \in Seq(Tx)
          /\ Len(w[b]) = m + n
          /\ \A k \in 1 .. m + n : w[b][k] = IF k <= m THEN s[k] ELSE v[k - m]
      <4>1. w[b] = s \o v
        BY <1>1, <2>2
      <4> HIDE DEF s, v
      <4> QED BY <3>2, <4>1
    <3>4. Ord(Prev[b])
      BY <1>4
    <3>5. ASSUME NEW j \in 1 .. Len(w[b]), NEW k \in 1 .. j
          PROVE  InOrder(w[b], k, j, Anc[b] \ Anc[to])
      <4> HIDE DEF m, n, s, v
      <4>0. j \in 1 .. m + n /\ k \in 1 .. m + n /\ k <= j
        BY <3>2, <3>3
      <4>1. CASE j <= m
        <5>1. j \in 1 .. m /\ k \in 1 .. m /\ w[b][j] = s[j] /\ w[b][k] = s[k]
          BY <3>2, <3>3, <4>0, <4>1, SMTT(40)
        <5>2. InOrder(s, k, j, Anc[Prev[b]] \ Anc[to])
          BY <3>4, <4>0, <5>1 DEF m, s
        <5> QED BY <3>1, <5>1, <5>2 DEF InOrder
      <4>2. CASE j > m /\ k <= m
        <5>1. k \in 1 .. m /\ w[b][j] = v[j - m] /\ j - m \in 1 .. n /\ w[b][k] = s[k]
          BY <3>2, <3>3, <4>0, <4>2, SMTT(40)
        <5>2. InOrder(s, k, k, Anc[Prev[b]] \ Anc[to])
          <6>1. k \in 1 .. k
            BY <3>2, <5>1
          <6> QED BY <3>4, <5>1, <6>1 DEF m, s
        <5>3. PICK a \in Anc[Prev[b]] \ Anc[to] : \E i1 \in 1 .. Len(vtx[a]) : s[k] = vtx[a][i1]
          BY <5>2 DEF InOrder
        <5>4. PICK i1 \in 1 .. Len(vtx[a]) : s[k] = vtx[a][i1]
          BY <5>3
        <5>5. a \in Anc[b] \ Anc[to] /\ b \in Anc[b] \ Anc[to] /\ a # b
          BY <3>1
        <5>6. j - m \in 1 .. Len(vtx[b]) /\ w[b][j] = vtx[b][j - m] /\ w[b][k] = vtx[a][i1]
          BY <5>1, <5>4 DEF n, v
        <5> QED BY <5>5, <5>6 DEF InOrder
      <4>3. CASE j > m /\ k > m
        <5>1. /\ j - m \in 1 .. n /\ w[b][j] = v[j - m]
              /\ k - m \in 1 .. n /\ w[b][k] = v[k - m]
              /\ k - m <= j - m
          BY <3>2, <3>3, <4>0, <4>3
        <5>2. b \in Anc[b] \ Anc[to]
          BY <3>1
        <5> QED BY <5>1, <5>2 DEF InOrder, n, v
      <4> QED BY <3>2, <4>0, <4>1, <4>2, <4>3
    <3> QED BY <3>3, <3>5
  <2> QED BY <2>1, <2>2
<1>5. Block \subseteq S
  <2> HIDE DEF S
  <2> QED BY <1>3, <1>4, BlockInduction
<1> QED BY <1>5 DEF BranchTxs, w

(* A transaction with a record is in the block that the record names.      *)
LEMMA OnRecord ==
  ASSUME NEW c \in Block, ChainOk[c], NEW x \in Tx, IndexOf[c].pos[x] # None
  PROVE  /\ IndexOf[c].pos[x] \in Anc[c] \ {Genesis}
         /\ \E j \in 1 .. Len(vtx[IndexOf[c].pos[x]]) : vtx[IndexOf[c].pos[x]][j] = x
<1> DEFINE n == Connected(c, None, 0)
           idx == IndexOf[c]
<1>1. Describes(idx, n)
  BY IndexDescribes DEF IsIndexOf
<1>2. idx \in TxIndexType
  BY IndexOfSteps
<1>3. \A d \in Block : n[d] # 0 => d \in Anc[c] \ {Genesis} /\ n[d] = Len(vtx[d])
  BY TreeAssumption DEF Connected
<1> HIDE DEF n, idx
<1> DEFINE p == idx.pos[x]
<1>4. p \in Block /\ p # None
  BY <1>2 DEF TxIndexType, idx
<1>5. \E j \in 1 .. n[p] : vtx[p][j] = x
  BY <1>1, <1>4 DEF Describes, OnlyRecordsOf
<1> HIDE DEF p
<1>6. n[p] # 0
  BY <1>5
<1> QED BY <1>3, <1>4, <1>5, <1>6 DEF p, idx

(* The rounds of the loop over vResurrect only add, and what they add is   *)
(* the transaction of the round.                                           *)
LEMMA ResurrectingAdds ==
  ASSUME pool \in OkPools, NEW from \in Block, NEW to \in Block,
         NEW n, n = Len(BranchTxs(from, to)), NEW r, r = Resurrecting(from, to),
         NEW s, s = BranchTxs(from, to)
  PROVE  \A k \in 0 .. n :
           /\ r[k] \in OkPools
           /\ \A j \in 0 .. k : r[j].mapTx \subseteq r[k].mapTx
           /\ \A u \in r[k].mapTx : u \in pool.mapTx \/ \E j \in 1 .. k : s[j] = u /\ u \in r[j].mapTx
<1> DEFINE Added(k) == \A u \in r[k].mapTx :
                         u \in pool.mapTx \/ \E j \in 1 .. k : s[j] = u /\ u \in r[j].mapTx
           S == {k \in 0 .. n : /\ r[k] \in OkPools
                                /\ \A j \in 0 .. k : r[j].mapTx \subseteq r[k].mapTx
                                /\ Added(k)}
<1>1. n \in Nat /\ \A k \in 1 .. n : s[k] \in Tx
  <2>1. s \in Seq(Tx)
    BY BranchTxsAre
  <2> QED BY <2>1
<1>2. r[0] = pool /\ \A k \in 1 .. n : r[k] = ResurrectOne(r[k - 1], from, to, s[k])
  BY ResurrectingSteps
<1>3. 0 \in S
  BY <1>1, <1>2
<1>4. ASSUME NEW k \in 1 .. n, k - 1 \in S PROVE k \in S
  <2>1. r[k - 1] \in OkPools /\ s[k] \in Tx
    BY <1>1, <1>4
  <2>2. /\ r[k] \in OkPools
        /\ r[k - 1].mapTx \subseteq r[k].mapTx
        /\ \A u \in r[k].mapTx : u \in r[k - 1].mapTx \/ u = s[k]
    BY <1>2, <2>1, ResurrectOneOk
  <2>3. \A j \in 0 .. k : r[j].mapTx \subseteq r[k].mapTx
    <3>1. \A j \in 0 .. k : j = k \/ j \in 0 .. k - 1
      BY <1>1
    <3>2. \A j \in 0 .. k - 1 : r[j].mapTx \subseteq r[k - 1].mapTx
      BY <1>4
    <3> QED BY <2>2, <3>1, <3>2
  <2>4. Added(k)
    <3>1. \A j \in 1 .. k - 1 : j \in 1 .. k
      BY <1>1
    <3>2. k \in 1 .. k
      BY <1>1
    <3>3. Added(k - 1)
      BY <1>4
    <3> QED BY <2>2, <3>1, <3>2, <3>3
  <2> QED BY <2>2, <2>3, <2>4
<1>5. \A k \in 0 .. n : k \in S
  <2> HIDE DEF S
  <2> QED BY <1>1, <1>3, <1>4, UpTo
<1> QED BY <1>5

(* A transaction of the disconnected blocks comes back if the new chain    *)
(* and what has come back leave it its inputs, and the pool did not spend  *)
(* them before.  The order of the chain is what makes its parents come     *)
(* back before it; that pindexBest is the old tip does no harm, since it   *)
(* has spent its inputs there.                                             *)
LEMMA ComesBack ==
  ASSUME PoolInv, ChainOk[best], NEW b \in Block, ChainOk[b],
         NEW p, p = Resurrecting(best, b)[Len(BranchTxs(best, b))],
         NEW t \in ChainTxs(best), IndexOf[b].pos[t] = None,
         t \notin NonStandard, t \notin LowFee \cup BadTx,
         \A o \in vin[t] : /\ pool.mapNextTx[o] = None
                           /\ HasInput(p, b, o)
                           /\ IndexOf[b].vSpent[o] = None
  PROVE  t \in p.mapTx
<1> DEFINE s == BranchTxs(best, b)
           n == Len(s)
           r == Resurrecting(best, b)
           a == IndexOf[best].pos[t]
<1>1. best \in Block /\ pool \in OkPools /\ PoolOk(pool) /\ t \in Tx /\ a # None
  BY DEF PoolInv, PoolTypeOK, OkPools, PoolOk, ChainTxs
<1>2. a \in Anc[best] \ {Genesis} /\ \E j \in 1 .. Len(vtx[a]) : vtx[a][j] = t
  BY <1>1, OnRecord
<1>3. PICK i0 \in 1 .. Len(vtx[a]) : vtx[a][i0] = t
  BY <1>2
<1> HIDE DEF a
<1>4. a \in Block /\ a # None
  BY <1>1, <1>2, AncFacts, TreeAssumption
<1>5. a \in Anc[best] \ Anc[b]
  BY <1>2, <1>3, <1>4, ChainFacts
<1>6. s \in Seq(Tx) /\ ToSet(s) = UNION {TxsOf(d) : d \in Anc[best] \ Anc[b]}
  BY <1>1, BranchTxsAre
<1>7. n \in Nat /\ DOMAIN s = 1 .. n
  BY <1>6
<1>8. PICK k \in 1 .. n : s[k] = t
  <2>1. t \in TxsOf(a)
    BY <1>3, <1>4, TxAssumption DEF TxsOf
  <2>2. t \in ToSet(s)
    BY <1>5, <1>6, <2>1
  <2> QED BY <1>7, <2>2 DEF ToSet
<1>9. \A m \in 0 .. n :
        /\ r[m] \in OkPools
        /\ \A j \in 0 .. m : r[j].mapTx \subseteq r[m].mapTx
        /\ \A u \in r[m].mapTx : u \in pool.mapTx \/ \E j \in 1 .. m : s[j] = u /\ u \in r[j].mapTx
  BY <1>1, ResurrectingAdds
<1>10. r[k] = ResurrectOne(r[k - 1], best, b, t) /\ p = r[n]
  BY <1>1, <1>8, ResurrectingSteps
<1>11. \A j \in 1 .. n : \A m \in 1 .. j : InOrder(s, m, j, Anc[best] \ Anc[b])
  BY <1>1, BranchOrder
<1> HIDE DEF s, n, r
<1>12. k - 1 \in 0 .. n /\ k \in 0 .. n /\ n \in 0 .. n /\ k \in 0 .. n
  BY <1>7
<1> DEFINE q == r[k - 1]
<1>13. q \in OkPools /\ PoolOk(q)
  BY <1>9, <1>12 DEF OkPools
<1>14. \A o \in vin[t] : /\ o \in OutPoint
                         /\ IndexOf[best].vSpent[o] = t
                         /\ IndexOf[best].pos[o[1]] \in Anc[a] \ {Genesis}
  BY <1>1, <1>2, <1>3, ChainFacts
<1>15. SUFFICES ASSUME t \notin q.mapTx PROVE Accepts(q, b, best, t)
  <2>1. r[k].mapTx \subseteq p.mapTx /\ q.mapTx \subseteq p.mapTx
    BY <1>9, <1>10, <1>12
  <2>2. CASE t \in q.mapTx
    BY <2>1, <2>2
  <2>3. CASE t \notin q.mapTx
    <3>1. Accepts(q, b, best, t)
      BY <1>15, <2>3
    <3>2. t \notin Generated
      BY PoolAssumption
    <3>3. r[k] = addUnchecked(q, t)
      BY <1>10, <3>1, <3>2 DEF ResurrectOne, AcceptToMemoryPool
    <3>4. t \in addUnchecked(q, t).mapTx
      BY <1>1, <1>13, <3>1, AddOk
    <3> QED BY <2>1, <3>3, <3>4
  <2> QED BY <2>2, <2>3
<1>16. ~Known(q, b, t)
  <2>1. ASSUME NEW o \in vin[t] \cap OutPoint, q.mapNextTx[o] # None PROVE FALSE
    <3> DEFINE u == q.mapNextTx[o]
    <3>1. u \in Tx /\ u \in q.mapTx /\ o \in vin[u]
      <4>1. u \in Tx
        BY <1>13, <2>1 DEF PoolOk, PoolType
      <4> QED BY <1>13, <4>1 DEF PoolOk
    <3> HIDE DEF u
    <3>2. u \notin pool.mapTx
      <4>1. u # None /\ o \in OutPoint /\ pool.mapNextTx[o] = None
        BY <2>1, <3>1, TxAssumption
      <4>2. u \in pool.mapTx => pool.mapNextTx[o] = u
        BY <1>1, <2>1, <3>1 DEF PoolOk
      <4> QED BY <4>1, <4>2
    <3>3. PICK j \in 1 .. k - 1 : s[j] = u
      BY <1>9, <1>12, <3>1, <3>2
    <3>4. j \in 1 .. n /\ j \in 1 .. j
      BY <1>7
    <3>5. InOrder(s, j, j, Anc[best] \ Anc[b])
      BY <1>11, <3>4
    <3>6. PICK d \in Anc[best] \ Anc[b] : \E i1 \in 1 .. Len(vtx[d]) : s[j] = vtx[d][i1]
      BY <3>5 DEF InOrder
    <3>7. PICK i1 \in 1 .. Len(vtx[d]) : u = vtx[d][i1]
      BY <3>3, <3>6
    <3>8. d # Genesis
      BY <3>6, TreeAssumption
    <3>9. IndexOf[best].vSpent[o] = u
      BY <1>1, <3>1, <3>7, <3>8, ChainFacts
    <3>10. u = t
      BY <1>14, <3>9
    <3> QED BY <1>15, <3>1, <3>10
  <2> QED BY <1>15, <2>1 DEF Known
<1>17. ASSUME NEW o \in vin[t] PROVE HasInput(q, b, o)
  <2>1. SUFFICES ASSUME IndexOf[b].pos[o[1]] = None PROVE o[1] \in q.mapTx
    BY DEF HasInput
  <2> DEFINE x == o[1]
  <2>2. x \in p.mapTx
    BY <2>1 DEF HasInput
  <2>3. x \notin pool.mapTx
    <3>1. x \in Tx /\ IndexOf[best].pos[x] # None
      <4>1. o \in Tx \X Nat
        BY <1>14, TxAssumption
      <4>2. IndexOf[best].pos[x] \in Block /\ None \notin Block
        BY <1>4, <1>14, AncFacts, TreeAssumption
      <4> QED BY <4>1, <4>2
    <3> QED BY <3>1 DEF PoolInv, PoolNotInChain, ChainTxs
  <2> HIDE DEF x
  <2>4. PICK j \in 1 .. n : s[j] = x /\ x \in r[j].mapTx
    BY <1>9, <1>10, <1>12, <2>2, <2>3
  <2>5. CASE j <= k - 1
    <3>1. j \in 0 .. k - 1
      BY <1>7, <2>5
    <3> QED BY <1>9, <1>12, <2>4, <3>1 DEF x
  <2>6. CASE j >= k
    <3>1. k \in 1 .. j
      BY <1>7, <2>6
    <3>2. InOrder(s, k, j, Anc[best] \ Anc[b])
      BY <1>11, <3>1
    <3>3. PICK a1 \in Anc[best] \ Anc[b], a2 \in Anc[best] \ Anc[b] :
             \E i1 \in 1 .. Len(vtx[a1]), i2 \in 1 .. Len(vtx[a2]) :
               /\ s[k] = vtx[a1][i1] /\ s[j] = vtx[a2][i2]
               /\ a1 \in Anc[a2]
               /\ a1 = a2 => i1 <= i2
      BY <3>2 DEF InOrder
    <3>4. PICK i1 \in 1 .. Len(vtx[a1]), i2 \in 1 .. Len(vtx[a2]) :
               /\ t = vtx[a1][i1] /\ x = vtx[a2][i2]
               /\ a1 \in Anc[a2]
               /\ a1 = a2 => i1 <= i2
      BY <1>8, <2>4, <3>3
    <3>5. a1 # Genesis /\ a2 # Genesis /\ a1 \in Block /\ a2 \in Block
      BY <1>1, <3>3, AncFacts, TreeAssumption
    <3>6. IndexOf[best].pos[x] = a2
      BY <1>1, <3>4, <3>5, ChainFacts
    <3>7. a2 \in Anc[a1] /\ (a2 = a1 => \E m \in 1 .. i1 - 1 : vtx[a1][m] = x)
      BY <1>1, <3>4, <3>5, <3>6, ChainFacts DEF x
    <3>8. a1 = a2
      BY <3>4, <3>5, <3>7, TreeAssumption
    <3>9. PICK m \in 1 .. i1 - 1 : vtx[a1][m] = vtx[a1][i2]
      BY <3>4, <3>7, <3>8
    <3>10. Len(vtx[a1]) \in Nat /\ m \in 1 .. Len(vtx[a1]) /\ i2 \in 1 .. Len(vtx[a1])
      BY <3>5, <3>8, VtxType
    <3>11. m = i2
      BY <3>5, <3>9, <3>10, VtxType
    <3> QED BY <3>4, <3>8, <3>10, <3>11
  <2> QED BY <1>7, <2>5, <2>6
<1>18. ASSUME NEW o \in vin[t] PROVE PoolInputOk(q, b, best, o)
  <2> SUFFICES ASSUME Immature(IndexOf[b], o[1], best) PROVE FALSE
    BY <1>14 DEF PoolInputOk
  <2> DEFINE x == o[1]
             d == IndexOf[b].pos[x]
  <2>1. x \in Generated /\ d \in Anc[best] /\ x \in Tx
    BY TxAssumption DEF Immature
  <2>2. d # None
    BY <1>1, <2>1, AncFacts, TreeAssumption
  <2>3. d # Genesis /\ \E m \in 1 .. Len(vtx[d]) : vtx[d][m] = x
    BY <2>1, <2>2, OnRecord
  <2>4. PICK m \in 1 .. Len(vtx[d]) : vtx[d][m] = x
    BY <2>3
  <2> HIDE DEF d
  <2>5. IndexOf[best].pos[x] = d
    BY <1>1, <2>1, <2>3, <2>4, ChainFacts
  <2>6. ~Immature(IndexOf[best], x, best)
    BY <1>1, <1>2, <1>3, SpentMature
  <2> QED BY <2>5, <2>6 DEF Immature, d
<1> QED BY <1>16, <1>17, <1>18 DEF Accepts

(* The transactions of C spend only from C, and no transaction of the pool *)
(* that conflicts with u is one of them.                                   *)
SpendsWithin(C) == \A x \in C \cap Tx : \A o \in vin[x] : o[1] \in C

ConflictsOutside(p, u, C) ==
  \A x \in p.mapTx : x # u /\ vin[x] \cap vin[u] # {} => x \notin C

(* Why a round of the loop over vDelete evicts t, if t neither is the      *)
(* connected transaction u nor spends what u spends: it spends from one    *)
(* that this round evicts, and that is not one of the new chain C.         *)
LEMMA EvictedWith ==
  ASSUME NEW p, PoolOk(p), NEW u, NEW e, e = EvictOne(p, u),
         NEW t \in p.mapTx, t \notin e.mapTx, t # u, vin[t] \cap vin[u] = {},
         NEW C, SpendsWithin(C), ConflictsOutside(p, u, C)
  PROVE  \E o \in vin[t] : o[1] \notin e.mapTx /\ o[1] \notin C
<1> DEFINE q == remove(p, {u})
<1>1. PoolOk(q) /\ q.mapTx = p.mapTx \ {u}
  BY RemoveOk
<1> HIDE DEF q
<1> DEFINE cs == {q.mapNextTx[o] : o \in vin[u] \cap OutPoint} \ {u, None}
           D == UNION {WithDependants(q, c) : c \in cs}
<1>2. e = remove(q, D)
  BY DEF EvictOne, removeConflicts, q
<1>3. ASSUME NEW c \in cs PROVE c \in q.mapTx /\ vin[c] \cap vin[u] # {}
  <2>1. PICK o \in vin[u] \cap OutPoint : c = q.mapNextTx[o] /\ c # None
    OBVIOUS
  <2>2. c \in Tx
    BY <1>1, <2>1 DEF PoolOk, PoolType
  <2>3. c \in q.mapTx /\ o \in vin[c]
    BY <1>1, <2>1, <2>2 DEF PoolOk
  <2> QED BY <2>1, <2>3
<1> HIDE DEF cs
<1>4. e.mapTx = q.mapTx \ D
  <2> HIDE DEF D
  <2>1. remove(q, D).mapTx = q.mapTx \ D
    BY <1>1, RemoveOk
  <2> QED BY <1>2, <2>1
<1>5. PICK c \in cs : t \in WithDependants(q, c)
  BY <1>1, <1>4
<1> DEFINE W == WithDependants(q, c)
<1>6. c \in q.mapTx /\ c \in p.mapTx /\ c # u /\ c \notin C /\ c # t
  BY <1>1, <1>3 DEF ConflictsOutside
<1>7. c \in W /\ W \subseteq q.mapTx /\ W \subseteq D
  BY <1>1, <1>6, DependantsClosed DEF WithDependants
<1>8. ASSUME NEW s \in SUBSET q.mapTx, c \in s,
             \A o \in OutPoint : o[1] \in s /\ q.mapNextTx[o] # None => q.mapNextTx[o] \in s
      PROVE  W \subseteq s
  BY <1>8 DEF WithDependants
<1>9. ASSUME NEW o \in OutPoint, q.mapNextTx[o] # None
      PROVE  /\ q.mapNextTx[o] \in q.mapTx /\ q.mapNextTx[o] \in Tx
             /\ o \in vin[q.mapNextTx[o]]
  <2>1. q.mapNextTx[o] \in Tx
    BY <1>1, <1>9 DEF PoolOk, PoolType
  <2> QED BY <1>1, <2>1 DEF PoolOk
<1>10. W \cap C = {}
  <2> DEFINE s == q.mapTx \ C
  <2>1. s \in SUBSET q.mapTx /\ c \in s
    BY <1>6
  <2>2. ASSUME NEW o \in OutPoint, o[1] \in s, q.mapNextTx[o] # None
        PROVE  q.mapNextTx[o] \in s
    BY <1>9, <2>2 DEF SpendsWithin
  <2> HIDE DEF s
  <2>3. W \subseteq s
    <3> HIDE DEF W
    <3> QED BY <1>8, <2>1, <2>2
  <2> QED BY <2>3 DEF s
<1>11. PICK o \in OutPoint : o[1] \in W /\ q.mapNextTx[o] = t
  <2> SUFFICES ASSUME \A o \in OutPoint : o[1] \in W => q.mapNextTx[o] # t PROVE FALSE
    OBVIOUS
  <2> DEFINE s == W \ {t}
  <2> HIDE DEF W
  <2>1. s \in SUBSET q.mapTx /\ c \in s
    BY <1>6, <1>7
  <2>2. ASSUME NEW o \in OutPoint, o[1] \in s, q.mapNextTx[o] # None
        PROVE  q.mapNextTx[o] \in s
    <3>1. q.mapNextTx[o] \in q.mapTx /\ o \in vin[q.mapNextTx[o]] /\ q.mapNextTx[o] # t
      BY <1>9, <2>2
    <3>2. q.mapNextTx[o] \in W
      BY <1>1, <1>6, <2>2, <3>1, DependantsClosed DEF W
    <3> QED BY <3>1, <3>2
  <2> HIDE DEF s
  <2>3. W \subseteq s
    BY <1>8, <2>1, <2>2
  <2> QED BY <1>5, <2>3 DEF s, W
<1> HIDE DEF W, D
<1>12. o \in vin[t] /\ o[1] \notin e.mapTx /\ o[1] \notin C
  <2>1. t # None
    <3>1. t \in Tx
      BY DEF PoolOk, PoolType
    <3> QED BY <3>1, TxAssumption
  <2> QED BY <1>4, <1>7, <1>9, <1>10, <1>11, <2>1
<1> QED BY <1>12

(* What has come back stays, if its inputs stay and the new chain does not *)
(* spend them.                                                             *)
LEMMA StaysBack ==
  ASSUME NEW p \in OkPools, NEW from \in Block, NEW to \in Block, ChainOk[to],
         NEW q, q = Evicting(p, from, to)[Len(BranchTxs(to, from))],
         NEW t \in p.mapTx, IndexOf[to].pos[t] = None,
         \A o \in vin[t] : HasInput(q, to, o) /\ IndexOf[to].vSpent[o] = None
  PROVE  t \in q.mapTx
<1> DEFINE s == BranchTxs(to, from)
           n == Len(s)
           e == Evicting(p, from, to)
           C == ChainTxs(to)
           S == {k \in 0 .. n : t \in e[k].mapTx}
<1>1. /\ n \in Nat
      /\ e[0] = p
      /\ \A k \in 1 .. n : e[k] = EvictOne(e[k - 1], s[k])
      /\ \A k \in 0 .. n : e[k] \in OkPools
  BY EvictingSteps
<1>2. s \in Seq(Tx) /\ ToSet(s) = UNION {TxsOf(a) : a \in Anc[to] \ Anc[from]}
  BY BranchTxsAre
<1>3. q = e[n] /\ DOMAIN s = 1 .. n
  BY <1>2
<1> HIDE DEF s, n, e
<1>4. ASSUME NEW x \in C, NEW o \in vin[x]
      PROVE  IndexOf[to].vSpent[o] = x /\ o[1] \in C
  <2>1. x \in Tx /\ IndexOf[to].pos[x] # None
    BY DEF ChainTxs
  <2> DEFINE a == IndexOf[to].pos[x]
  <2>2. a \in Anc[to] \ {Genesis} /\ \E j \in 1 .. Len(vtx[a]) : vtx[a][j] = x
    BY <2>1, OnRecord
  <2>3. PICK j \in 1 .. Len(vtx[a]) : vtx[a][j] = x
    BY <2>2
  <2> HIDE DEF a
  <2>4. /\ o \in OutPoint
        /\ IndexOf[to].vSpent[o] = x
        /\ IndexOf[to].pos[o[1]] \in Anc[a]
    BY <2>2, <2>3, ChainFacts
  <2>5. o[1] \in Tx
    BY <2>4, TxAssumption
  <2>6. IndexOf[to].pos[o[1]] # None
    BY SMTT(40), <2>2, <2>4, AncFacts, TreeAssumption
  <2> QED BY <2>4, <2>5, <2>6 DEF ChainTxs
<1>5. ASSUME NEW k \in 1 .. n PROVE s[k] \in C
  <2>1. s[k] \in ToSet(s) /\ s[k] \in Tx
    <3>1. s[k] \in ToSet(s)
      BY <1>3 DEF ToSet
    <3>2. s[k] \in Tx
      BY <1>2 DEF n
    <3> QED BY <3>1, <3>2
  <2>2. PICK a \in Anc[to] \ Anc[from] : s[k] \in TxsOf(a)
    BY <1>2, <2>1
  <2>3. a # Genesis
    BY TreeAssumption
  <2> QED BY <2>1, <2>2, <2>3, ChainTxsAre
<1>6. t \notin C
  BY DEF ChainTxs
<1>7. \A o \in vin[t] : o[1] \in C \/ o[1] \in q.mapTx
  <2>1. ASSUME NEW o \in vin[t], IndexOf[to].pos[o[1]] # None PROVE o[1] \in C
    <3>1. o \in Tx \X Nat
      <4>1. t \in Tx
        BY DEF OkPools, PoolOk, PoolType
      <4> QED BY <4>1, TxAssumption
    <3> QED BY <2>1, <3>1 DEF ChainTxs
  <2> QED BY <2>1 DEF HasInput
<1> HIDE DEF C
<1>8. ASSUME NEW k \in 1 .. n, NEW x \in e[k].mapTx PROVE x \in e[k - 1].mapTx
  <2>1. k - 1 \in 0 .. n
    BY <1>1
  <2>2. PoolOk(e[k - 1])
    BY <1>1, <2>1 DEF OkPools
  <2>3. LeftOf(e[k - 1], {s[k]}, e[k])
    BY <1>1, <2>2, EvictOk DEF EvictOne
  <2> QED BY <2>3 DEF LeftOf
<1>9. \A k \in 0 .. n : e[n].mapTx \subseteq e[k].mapTx
  <2> DEFINE T == {m \in 0 .. n : e[n].mapTx \subseteq e[n - m].mapTx}
  <2>1. 0 \in T
    BY <1>1
  <2>2. ASSUME NEW m \in 1 .. n, m - 1 \in T PROVE m \in T
    <3>1. n - m + 1 \in 1 .. n /\ n - (m - 1) = n - m + 1 /\ (n - m + 1) - 1 = n - m
      BY <1>1
    <3>2. e[n].mapTx \subseteq e[n - m + 1].mapTx
      BY <2>2, <3>1
    <3>3. e[n - m + 1].mapTx \subseteq e[n - m].mapTx
      BY <1>8, <3>1
    <3> QED BY <3>2, <3>3
  <2>3. \A m \in 0 .. n : m \in T
    <3> HIDE DEF T
    <3> QED BY <1>1, <2>1, <2>2, UpTo
  <2>4. ASSUME NEW k \in 0 .. n PROVE e[n].mapTx \subseteq e[k].mapTx
    <3>1. n - k \in 0 .. n /\ n - (n - k) = k
      BY <1>1
    <3>2. n - k \in T
      BY <2>3, <3>1
    <3> QED BY <3>1, <3>2
  <2> QED BY <2>4
<1>10. 0 \in S
  BY <1>1
<1>11. ASSUME NEW k \in 1 .. n, k - 1 \in S PROVE k \in S
  <2>1. SUFFICES ASSUME t \notin e[k].mapTx PROVE FALSE
    OBVIOUS
  <2>2. k - 1 \in 0 .. n /\ k \in 0 .. n /\ t \in e[k - 1].mapTx
    BY <1>1, <1>11
  <2>3. PoolOk(e[k - 1]) /\ e[k] = EvictOne(e[k - 1], s[k])
    BY <1>1, <2>2 DEF OkPools
  <2>4. t # s[k] /\ vin[t] \cap vin[s[k]] = {}
    <3>1. t # s[k] /\ s[k] # None
      BY <1>5, <1>6, TxAssumption DEF C, ChainTxs
    <3>2. ASSUME NEW o \in vin[t], o \in vin[s[k]] PROVE FALSE
      <4>1. IndexOf[to].vSpent[o] = s[k]
        BY <1>4, <1>5, <3>2
      <4> QED BY <3>1, <4>1
    <3> QED BY <3>1, <3>2
  <2>5. SpendsWithin(C)
    BY <1>4 DEF SpendsWithin
  <2>6. ConflictsOutside(e[k - 1], s[k], C)
    BY <1>4, <1>5 DEF ConflictsOutside
  <2>7. \E o \in vin[t] : o[1] \notin e[k].mapTx /\ o[1] \notin C
    <3> DEFINE p0 == e[k - 1]
               e0 == e[k]
               u == s[k]
    <3>1. /\ PoolOk(p0) /\ e0 = EvictOne(p0, u)
          /\ t \in p0.mapTx /\ t \notin e0.mapTx /\ t # u /\ vin[t] \cap vin[u] = {}
          /\ ConflictsOutside(p0, u, C)
      BY <2>1, <2>2, <2>3, <2>4, <2>6
    <3> HIDE DEF p0, e0, u
    <3>2. \E o \in vin[t] : o[1] \notin e0.mapTx /\ o[1] \notin C
      BY <2>5, <3>1, EvictedWith
    <3> QED BY <3>2 DEF e0
  <2> QED BY <1>3, <1>7, <1>9, <2>2, <2>7
<1>12. \A k \in 0 .. n : k \in S
  <2> HIDE DEF S
  <2> QED BY <1>1, <1>10, <1>11, UpTo
<1>13. n \in S
  BY <1>1, <1>12
<1> QED BY <1>3, <1>13

-----------------------------------------------------------------------------
(* The best chain is one that connects.                                    *)
BestOk == ChainOk[best]

(* Only a chain that connects becomes the best.                            *)
LEMMA BestOkStep ==
  ASSUME BestOk, [PoolNext]_poolVars
  PROVE  BestOk'
<1>1. CASE best' = best
  BY <1>1 DEF BestOk
<1>2. ASSUME NEW b \in Block, SetBestChainInner(b) \/ Reorganize(b) PROVE BestOk'
  BY <1>2 DEF SetBestChainInner, Reorganize, BestOk
<1>3. CASE \E t \in Tx : ReceiveTx(t) \/ ReceiveOrphanTx(t) \/ TryOrphan(t)
  BY <1>1, <1>3 DEF ReceiveTx, ReceiveOrphanTx, TryOrphan
<1>4. CASE LimitOrphanTxSize \/ NextInQueue
  BY <1>1, <1>4 DEF LimitOrphanTxSize, NextInQueue
<1>5. CASE UNCHANGED poolVars
  BY <1>1, <1>5 DEF poolVars
<1> QED BY <1>2, <1>3, <1>4, <1>5 DEF PoolNext

(* What a reorganization takes off the best chain is in the pool, unless   *)
(* it could not be accepted or the pool had spent its inputs.              *)
LEMMA ReorganizeKeeps ==
  ASSUME PoolInv, BestOk, NEW b \in Block \ {Genesis}, Reorganize(b),
         NEW t \in ChainTxs(best) \ ChainTxs(b), Accepts(pool', b, b, t),
         \A o \in vin[t] : pool.mapNextTx[o] = None
  PROVE  t \in pool'.mapTx
<1> DEFINE p == Resurrecting(best, b)[Len(BranchTxs(best, b))]
           q == Evicting(p, best, b)[Len(BranchTxs(b, best))]
<1>1. best' = b /\ pool' = q /\ best \in Block /\ ChainOk[b] /\ ChainOk[best]
  BY DEF Reorganize, Reorganized, PoolInv, PoolTypeOK, BestOk
<1>2. pool \in OkPools
  BY DEF PoolInv, OkPools, PoolOk
<1>3. p \in OkPools
  BY <1>1, <1>2, ResurrectedOk
<1>4. /\ IndexOf[b].pos[t] = None
      /\ t \notin NonStandard /\ t \notin LowFee \cup BadTx
      /\ \A o \in vin[t] : HasInput(pool', b, o) /\ IndexOf[b].vSpent[o] = None
  BY DEF Accepts, Known, PoolInputOk
<1>5. LeftOf(p, ToSet(BranchTxs(b, best)), q)
  <2> HIDE DEF p
  <2> QED BY <1>1, <1>3, EvictedOk
<1>6. \A o \in vin[t] : HasInput(p, b, o)
  <2> HIDE DEF p, q
  <2>1. q.mapTx \subseteq p.mapTx
    BY <1>5 DEF LeftOf
  <2> QED BY <1>1, <1>4, <2>1 DEF HasInput
<1>7. t \in p.mapTx
  BY <1>1, <1>4, <1>6, ComesBack
<1> HIDE DEF p
<1>8. t \in q.mapTx
  BY <1>1, <1>3, <1>4, <1>7, StaysBack
<1> QED BY <1>1, <1>8

(* For every tree of blocks and set of transactions: a reorganization      *)
(* loses no transaction.  What was on the old chain and is not on the new  *)
(* one is in the pool, unless it could not be accepted there, or the pool  *)
(* already held a conflict with the old chain.                             *)
THEOREM NothingEverLost == PoolSpec => NothingLost
<1> DEFINE A == \A t \in ChainTxs(best) \ ChainTxs(best') :
                  \/ t \in pool'.mapTx
                  \/ ~Accepts(pool', best', best', t)
                  \/ \E o \in vin[t] : pool.mapNextTx[o] # None
<1>1. PoolInit => PoolInv /\ BestOk
  BY PoolInvInit, ChainOkSteps DEF PoolInit, BestOk
<1>2. PoolInv /\ BestOk /\ [PoolNext]_poolVars => PoolInv' /\ BestOk'
  BY PoolStep, TypeStep, BestOkStep DEF PoolInv
<1>3. ASSUME PoolInv, BestOk, [PoolNext]_poolVars PROVE [A]_poolVars
  <2>1. CASE best' = best
    <3>1. ChainTxs(best) = ChainTxs(best')
      BY <2>1
    <3> QED BY <3>1
  <2>2. ASSUME NEW b \in Block \ {Genesis}, SetBestChainInner(b) PROVE A
    <3>1. best' = b /\ Prev[b] = best /\ best \in Block
      BY <1>3, <2>2 DEF SetBestChainInner, PoolInv, PoolTypeOK
    <3>2. Anc[best] \subseteq Anc[b]
      BY <3>1, TreeAssumption
    <3>3. ChainTxs(best) \subseteq ChainTxs(b)
      BY <3>1, <3>2, ChainTxsAre
    <3> QED BY <3>1, <3>3
  <2>3. ASSUME NEW b \in Block \ {Genesis}, Reorganize(b) PROVE A
    <3>1. best' = b
      BY <2>3 DEF Reorganize
    <3>2. ASSUME NEW t \in ChainTxs(best) \ ChainTxs(b), Accepts(pool', b, b, t),
                 ~\E o \in vin[t] : pool.mapNextTx[o] # None
          PROVE  t \in pool'.mapTx
      BY <1>3, <2>3, <3>2, ReorganizeKeeps
    <3> QED BY <3>1, <3>2
  <2>4. CASE \E t \in Tx : ReceiveTx(t) \/ ReceiveOrphanTx(t) \/ TryOrphan(t)
    BY <2>1, <2>4 DEF ReceiveTx, ReceiveOrphanTx, TryOrphan
  <2>5. CASE LimitOrphanTxSize \/ NextInQueue
    BY <2>1, <2>5 DEF LimitOrphanTxSize, NextInQueue
  <2>6. CASE UNCHANGED poolVars
    BY <2>6
  <2> QED BY <1>3, <2>2, <2>3, <2>4, <2>5, <2>6 DEF PoolNext
<1> QED BY <1>1, <1>2, <1>3, PTL DEF PoolSpec, NothingLost
=============================================================================
