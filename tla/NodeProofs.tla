----------------------------- MODULE NodeProofs -----------------------------
(***************************************************************************)
(* Proofs about BlockChain, for every block tree and every number of       *)
(* crashes, and about the two components that work on its best chain:      *)
(* BlockProcessing, for every assignment of stakes and sizes to its        *)
(* blocks, and Wallet, for every choice of outputs as its own.             *)
(*                                                                         *)
(* The inductive invariant of BlockChain has four parts: the types, where  *)
(* the handler stands in its branch (Control), how heavy the blocks it     *)
(* handles are (Trust), and what the database, the batch and the queued    *)
(* changes describe meanwhile (Database), the last as long as ~broke.      *)
(*                                                                         *)
(* On top of it, ReplayInv compares each of them with a replay from the    *)
(* genesis block, which knows of no index: Replayed for the coins,         *)
(* Supplies for nMoneySupply, and Heaviest for the choice of the best      *)
(* block.  LedgerProofs has the lemmas that say what a replay is.          *)
(*                                                                         *)
(* A step of ProcessBlock, or of the node with its wallet, is a step of    *)
(* BlockChain or leaves the chain alone, so that the theorems of           *)
(* BlockChain hold of the node with its orphans and of the node with its   *)
(* wallet.  For the first the argument is an induction over the types of   *)
(* the chain and ProcInv: LoadBlockIndex makes orphans from what the       *)
(* database holds.                                                         *)
(*                                                                         *)
(* The holding area is an induction over AreaInv: its two maps differ by   *)
(* the blocks of the parent that ProcessBlock is working on, the size      *)
(* counter by the orphan in hand, and the limit by the block just added.   *)
(* Awaits adds what may be said of the parents of orphans: that an         *)
(* accepted block whose orphans were not looked at is invalid comes from   *)
(* BestIsHeaviestValid.                                                    *)
(*                                                                         *)
(* The wallet is an induction over WalletInv: it follows not the committed *)
(* index but Synced, the index of the blocks that SyncWithWallets has been *)
(* called for while the batch is open.                                     *)
(***************************************************************************)
EXTENDS BlockProcessing, Wallet, LedgerProofs

-----------------------------------------------------------------------------
(* The best chain.                                                         *)

InTxn == pc \in {"disconnect", "connect", "commit"}

(* Where the handler stands in the branch.                                 *)
Control ==
  /\ pc = "set" => target # Genesis
  /\ InTxn => goal \in Anc[target] \ {Genesis}
  /\ pc = "disconnect" => /\ cur \in Anc[pindexBest] \ Anc[goal]
                          /\ ntx <= Len(vtx[cur])
                          /\ stage = "reorg"
  /\ pc = "connect" => cur \in Anc[goal] \ {goal}
  /\ pc = "commit" => cur = goal
  /\ InTxn /\ stage = "inner" => goal = target /\ Prev[goal] = pindexBest
  /\ InTxn /\ stage = "second" => Prev[goal] = dbBest
  /\ pc = "connect" /\ stage # "reorg" => cur = Prev[goal]

(* The committed best block is never heavier than the one in memory, but   *)
(* for the time that the postponed blocks are being connected.             *)
Trust ==
  /\ ~(InTxn /\ stage = "second") => ChainTrust[dbBest] <= ChainTrust[pindexBest]
  /\ InTxn /\ stage # "second" => ChainTrust[goal] > ChainTrust[pindexBest]

TypeInv == TypeOK /\ Control /\ Trust

(* The empty node satisfies the types and the control invariant.           *)
LEMMA InitType == Init => TypeInv
<1> SUFFICES ASSUME Init PROVE TypeInv
  OBVIOUS
<1> USE DEF Init, NewIndexEntry, EmptyTxIndex
<1>1. TypeOK
  <2>1. NewIndexEntry \in IndexEntryType /\ EmptyTxIndex \in TxIndexType
    BY DEF IndexEntryType, TxIndexType
  <2> HIDE DEF NewIndexEntry, EmptyTxIndex
  <2>2. pindex \in [Block -> IndexEntryType] /\ dbIndex \in [Block -> IndexEntryType]
    BY <2>1
  <2>3. nCrash \in 0 .. MaxCrash
    BY CrashAssumption
  <2>4. Genesis \in Block
    BY TreeAssumption
  <2> QED BY <2>1, <2>2, <2>3, <2>4 DEF TypeOK
<1>2. Control /\ Trust
  BY TreeAssumption DEF Control, Trust, InTxn
<1> QED BY <1>1, <1>2 DEF TypeInv

(* Every step keeps the types and where the handler stands, action by action. *)
LEMMA NextType == TypeInv /\ [Next]_vars => TypeInv'
<1> SUFFICES ASSUME TypeInv, [Next]_vars PROVE TypeInv'
  OBVIOUS
<1> USE DEF TypeInv
<1>1. ASSUME NEW b \in Block \ {Genesis}, AddToBlockIndex(b) PROVE TypeInv'
  <2> USE <1>1 DEF AddToBlockIndex, NewIndexEntry, batchVars
  <2>1. TypeOK'
    BY DEF TypeOK, IndexEntryType
  <2>2. Control' /\ Trust'
    BY DEF Control, Trust, InTxn
  <2> QED BY <2>1, <2>2
<1>2. ASSUME SetBestChain PROVE TypeInv'
  <2> USE <1>2 DEF SetBestChain, memVars, dbVars, TxnBegin
  <2>0. target \in Block \ {Genesis} /\ pindexBest \in Block
    BY DEF TypeOK, Control
  <2>1. goal' \in Anc[target] \ {Genesis} /\ goal' \in Block
    BY <2>0, AncFacts DEF IsIntermediate
  <2>2. TypeOK'
    BY <2>1, VtxType DEF TypeOK
  <2>3. Control'
    <3>1. /\ stage' = "inner" => goal' = target /\ Prev[goal'] = pindexBest
          /\ stage' \in {"inner", "reorg"}
          /\ pc' \in {"connect", "disconnect"}
      OBVIOUS
    <3>2. stage' = "inner" => pc' = "connect"
      BY <2>0, AncFacts
    <3>3. pc' = "connect" => cur' \in Anc[goal'] \ {goal'}
      <4>1. ASSUME pc' = "connect", cur' = goal' PROVE FALSE
        BY <4>1, <2>0, AncFacts, TreeAssumption DEF IsIntermediate
      <4> QED BY <4>1
    <3>4. pc' = "disconnect" => /\ cur' \in Anc[pindexBest'] \ Anc[goal']
                                /\ ntx' <= Len(vtx[cur'])
      BY <2>0, VtxType, AncFacts
    <3> QED BY <2>1, <3>1, <3>2, <3>3, <3>4 DEF Control, InTxn
  <2>4. Trust'
    <3>1. ChainTrust[dbBest] <= ChainTrust[pindexBest]
      BY DEF Trust, InTxn
    <3>2. ChainTrust[goal'] > ChainTrust[pindexBest]
      <4>1. CASE stage' = "inner"
        <5>1. Prev[target] = pindexBest /\ goal' = target
          BY <4>1
        <5>2. pindexBest \in Anc[target] /\ pindexBest # target
          BY <5>1, <2>0, AncFacts
        <5> QED BY <5>1, <5>2, <2>0, TreeAssumption
      <4>2. CASE stage' = "reorg"
        BY <4>2 DEF IsIntermediate
      <4> QED BY <4>1, <4>2
    <3> QED BY <3>1, <3>2 DEF Trust, InTxn
  <2> QED BY <2>2, <2>3, <2>4
<1>3. ASSUME DisconnectTx PROVE TypeInv'
  <2> USE <1>3 DEF DisconnectTx, memVars, dbVars
  <2>1. cur \in Block /\ ntx \in 1 .. Len(vtx[cur])
    BY VtxType DEF TypeOK, Control
  <2>2. TypeOK'
    BY <2>1, VtxType, DisconnectType DEF TypeOK
  <2>3. Control' /\ Trust'
    BY <2>1, VtxType DEF Control, Trust, InTxn
  <2> QED BY <2>2, <2>3
<1>4. ASSUME DisconnectBlock PROVE TypeInv'
  <2> USE <1>4 DEF DisconnectBlock, memVars, dbVars
  <2>1. cur \in Block /\ goal \in Block /\ cur # Genesis
    BY AncFacts DEF TypeOK, Control
  <2>2. Prev[cur] \in Block
    BY <2>1, AncFacts
  <2>3. TypeOK'
    <3>1. baIndex' \in [Block -> IndexEntryType]
      BY <2>2 DEF TypeOK, IndexEntryType
    <3> QED BY <2>2, <3>1, VtxType DEF TypeOK
  <2>4. Control'
    <3>1. stage = "reorg"
      BY DEF Control
    <3>2. Prev[cur] \in Anc[pindexBest]
      BY SMTT(40), <2>1, AncFacts, TreeAssumption DEF Control, TypeOK
    <3>3. Prev[cur] # goal
      <4>1. ChainTrust[goal] > ChainTrust[pindexBest]
        BY <3>1 DEF Trust, InTxn
      <4>2. ChainTrust[Prev[cur]] <= ChainTrust[pindexBest]
        BY <3>2, TrustGrows DEF TypeOK
      <4>3. ChainTrust[goal] \in Nat /\ ChainTrust[pindexBest] \in Nat
        BY TreeAssumption DEF TypeOK
      <4> QED BY <4>1, <4>2, <4>3
    <3> QED BY <2>1, <2>2, <3>1, <3>2, <3>3, VtxType DEF Control, InTxn
  <2>5. Trust'
    BY DEF Control, Trust, InTxn
  <2> QED BY <2>3, <2>4, <2>5
<1>5. ASSUME NEW b \in Block \ {Genesis}, ConnectTx(b) PROVE TypeInv'
  <2> USE <1>5 DEF ConnectTx, memVars, dbVars
  <2>1. ntx + 1 \in 1 .. Len(vtx[b])
    BY VtxType DEF TypeOK
  <2>2. TypeOK'
    BY <2>1, VtxType, ConnectType DEF TypeOK
  <2>3. Control' /\ Trust'
    BY DEF Control, Trust, InTxn, Connecting
  <2> QED BY <2>2, <2>3
<1>6. ASSUME NEW b \in Block \ {Genesis}, ConnectBlock(b) PROVE TypeInv'
  <2> USE <1>6 DEF ConnectBlock, dbVars
  <2>1. pindex[cur].supply + SupplyChange(b) \in Int
    <3>1. pindex[cur].supply \in Int
      BY DEF TypeOK, IndexEntryType
    <3>2. SupplyChange(b) \in Int
      BY SupplySteps
    <3> QED BY <3>1, <3>2
  <2>2. pindex' \in [Block -> IndexEntryType] /\ baIndex' \in [Block -> IndexEntryType]
    BY <2>1 DEF TypeOK, IndexEntryType
  <2>3. TypeOK'
    BY <2>2 DEF TypeOK
  <2>4. Control'
    <3>1. b \in Anc[goal] /\ Prev[b] = cur /\ pc = "connect"
      BY DEF Connecting
    <3>2. stage # "reorg" => b = goal
      <4>1. ASSUME stage # "reorg" PROVE b = goal
        BY <4>1, <3>1, OneChild, AncFacts DEF Control, InTxn, TypeOK
      <4> QED BY <4>1
    <3> QED BY <3>1, <3>2 DEF Control, InTxn
  <2>5. Trust'
    BY DEF Trust, InTxn, Connecting
  <2> QED BY <2>3, <2>4, <2>5
<1>7. ASSUME NEW b \in Block \ {Genesis}, ConnectFails(b) PROVE TypeInv'
  <2> USE <1>7 DEF ConnectFails, dbVars, batchVars
  <2>1. TypeOK'
    BY TreeAssumption DEF TypeOK
  <2>2. Control'
    BY DEF Control, InTxn
  <2>3. Trust'
    <3>1. CASE stage = "second"
      <4>1. goal \in Anc[target] \ {Genesis} /\ Prev[goal] = dbBest /\ goal \in Block
        BY <3>1, AncFacts DEF Control, InTxn, Connecting, TypeOK
      <4>2. dbBest \in Anc[target]
        BY <4>1, AncFacts, TreeAssumption DEF TypeOK
      <4>3. ChainTrust[dbBest] <= ChainTrust[target]
        BY <4>2, TrustGrows DEF TypeOK
      <4> QED BY <3>1, <4>3 DEF Trust, InTxn
    <3>2. CASE stage # "second"
      BY <3>2 DEF Trust, InTxn
    <3> QED BY <3>1, <3>2
  <2> QED BY <2>1, <2>2, <2>3
<1>8. ASSUME Commit PROVE TypeInv'
  <2> USE <1>8 DEF Commit
  <2>1. pindex' \in [Block -> IndexEntryType]
    <3> DEFINE from == IF stage = "reorg" THEN pindexBest ELSE Prev[goal]
               on(a) == {x \in Anc[goal] \ Anc[from] : Prev[x] = a}
    <3>1. \A a \in Block : on(a) # {} => (CHOOSE x \in on(a) : TRUE) \in Block
      BY AncFacts DEF TypeOK
    <3>2. \A a \in Block : pindex[a] \in IndexEntryType
      BY DEF TypeOK
    <3> QED BY <3>1, <3>2 DEF Relink, IndexEntryType
  <2>2. goal' \in Block
    BY AncFacts DEF TypeOK
  <2>3. TypeOK'
    BY <2>1, <2>2 DEF TypeOK
  <2>4. Control'
    BY <2>2, AncFacts DEF Control, InTxn, TypeOK
  <2>5. Trust'
    BY TreeAssumption DEF Control, Trust, InTxn, TypeOK
  <2> QED BY <2>3, <2>4, <2>5
<1>9. ASSUME CrashAndLoadBlockIndex PROVE TypeInv'
  <2> USE <1>9 DEF CrashAndLoadBlockIndex, dbVars, batchVars
  <2>1. TypeOK'
    BY CrashAssumption DEF TypeOK
  <2>2. Control' /\ Trust'
    BY TreeAssumption DEF Control, Trust, InTxn, TypeOK
  <2> QED BY <2>1, <2>2
<1>10. ASSUME UNCHANGED vars PROVE TypeInv'
  <2> USE <1>10 DEF vars, memVars, dbVars, batchVars, ctlVars
  <2>1. TypeOK'
    BY DEF TypeOK
  <2>2. Control' /\ Trust'
    BY DEF Control, Trust, InTxn
  <2> QED BY <2>1, <2>2
<1> QED BY <1>1, <1>2, <1>3, <1>4, <1>5, <1>6, <1>7, <1>8, <1>9, <1>10 DEF Next

-----------------------------------------------------------------------------
(* The block index holds whole branches, in memory and on disk, and the    *)
(* blocks that the handler works on are among them.                        *)
Index ==
  /\ \A b \in mapBlockIndex : Anc[b] \subseteq mapBlockIndex
  /\ \A b \in dbBlocks : Anc[b] \subseteq dbBlocks
  /\ mapBlockIndex \subseteq dbBlocks
  /\ pindexBest \in mapBlockIndex
  /\ dbBest \in mapBlockIndex
  /\ pc # "idle" => target \in mapBlockIndex

(* Every step keeps the relation between the block index in memory and on disk. *)
LEMMA NextIndex == TypeInv /\ Index /\ [Next]_vars => Index'
<1> SUFFICES ASSUME TypeInv, Index, [Next]_vars PROVE Index'
  OBVIOUS
<1> USE DEF TypeInv
<1>1. ASSUME NEW b \in Block \ {Genesis}, AddToBlockIndex(b) PROVE Index'
  <2>1. Anc[b] = Anc[Prev[b]] \cup {b}
    BY AncFacts
  <2> QED BY <1>1, <2>1 DEF AddToBlockIndex, Index
<1>2. ASSUME SetBestChain PROVE Index'
  BY <1>2 DEF SetBestChain, memVars, dbVars, Index
<1>3. ASSUME DisconnectTx PROVE Index'
  BY <1>3 DEF DisconnectTx, memVars, dbVars, Index
<1>4. ASSUME DisconnectBlock PROVE Index'
  BY <1>4 DEF DisconnectBlock, memVars, dbVars, Index
<1>5. ASSUME NEW b \in Block \ {Genesis}, ConnectTx(b) PROVE Index'
  BY <1>5 DEF ConnectTx, memVars, dbVars, Index
<1>6. ASSUME NEW b \in Block \ {Genesis}, ConnectBlock(b) PROVE Index'
  BY <1>6 DEF ConnectBlock, Connecting, dbVars, Index
<1>7. ASSUME NEW b \in Block \ {Genesis}, ConnectFails(b) PROVE Index'
  BY <1>7 DEF ConnectFails, Connecting, dbVars, Index
<1>8. ASSUME Commit PROVE Index'
  BY <1>8 DEF Commit, Index, Control, InTxn
<1>9. ASSUME CrashAndLoadBlockIndex PROVE Index'
  <2>1. \A b \in dbBlocks : b \in Block /\ Anc[b] \subseteq dbBlocks
    BY DEF Index, TypeOK
  <2>2. \A b \in dbBlocks : \A a \in Anc[b] : Height[a] <= Height[b]
    BY <2>1, TreeAssumption
  <2>3. \A b \in dbBlocks : Height[b] \in Nat
    BY <2>1, TreeAssumption
  <2>4. dbBest \in dbBlocks
    BY DEF Index
  <2> DEFINE S == {b \in dbBlocks : Height[b] <= Height[dbBest]}
  <2>5. \A b \in S : Anc[b] \subseteq S
    <3> SUFFICES ASSUME NEW b \in S, NEW a \in Anc[b] PROVE a \in S
      OBVIOUS
    <3>1. a \in dbBlocks /\ Height[a] <= Height[b] /\ Height[b] <= Height[dbBest]
      BY <2>1, <2>2
    <3> QED BY <3>1, <2>3, <2>4
  <2>6. dbBest \in S
    BY <2>3, <2>4
  <2>7. mapBlockIndex' = S /\ UNCHANGED <<dbBlocks, dbBest>> /\ pindexBest' = dbBest
        /\ pc' = "idle"
    BY <1>9 DEF CrashAndLoadBlockIndex, dbVars
  <2> HIDE DEF S
  <2>8. S \subseteq dbBlocks
    BY DEF S
  <2> QED BY <2>1, <2>5, <2>6, <2>7, <2>8 DEF Index
<1>10. ASSUME UNCHANGED vars PROVE Index'
  BY <1>10 DEF vars, memVars, dbVars, ctlVars, Index
<1> QED BY <1>1, <1>2, <1>3, <1>4, <1>5, <1>6, <1>7, <1>8, <1>9, <1>10 DEF Next

-----------------------------------------------------------------------------
(* Links.                                                                  *)

(* Relink turns the links of one chain into the links of the other.        *)
LEMMA RelinkLinks ==
  ASSUME TypeOK, NEW from \in Block, NEW to \in Block, LinksOf(pindex, from)
  PROVE  LinksOf(Relink(from, to), to)
<1> SUFFICES ASSUME NEW a \in Block, NEW x \in Block
             PROVE  Relink(from, to)[a].next = x
                      <=> x \in Anc[to] \ {Genesis} /\ Prev[x] = a
  BY DEF LinksOf
<1> DEFINE on == {y \in Anc[to] \ Anc[from] : Prev[y] = a}
           off == {y \in Anc[from] \ Anc[to] : Prev[y] = a}
<1>1. Relink(from, to)[a].next =
        IF on # {} THEN CHOOSE y \in on : TRUE
        ELSE IF off # {} THEN None
        ELSE pindex[a].next
  BY DEF Relink, TypeOK, IndexEntryType
<1>2. Genesis \in Anc[from] /\ Genesis \in Anc[to]
  BY AncFacts
<1>3. CASE on # {}
  <2> DEFINE y == CHOOSE y \in on : TRUE
  <2>1. y \in on
    BY <1>3
  <2> HIDE DEF y
  <2>2. y \in Anc[to] \ {Genesis} /\ Prev[y] = a
    BY <2>1, <1>2
  <2>3. Relink(from, to)[a].next = y
    BY <1>1, <1>3 DEF y
  <2> QED BY <2>2, <2>3, OneChild
<1>4. CASE on = {} /\ off # {}
  <2>1. PICK y \in off : TRUE
    BY <1>4
  <2>2. y \in Anc[from] \ {Genesis} /\ y \notin Anc[to] /\ Prev[y] = a
    BY <2>1, <1>2
  <2>3. ASSUME x \in Anc[to] \ {Genesis}, Prev[x] = a PROVE FALSE
    <3>1. x \in Anc[from] \ {Genesis}
      BY <1>4, <2>3
    <3> QED BY <3>1, <2>2, <2>3, OneChild
  <2> QED BY <1>1, <1>4, <2>3, TreeAssumption
<1>5. CASE on = {} /\ off = {}
  <2>1. pindex[a].next = x <=> x \in Anc[from] \ {Genesis} /\ Prev[x] = a
    BY DEF LinksOf
  <2> QED BY <1>1, <1>5, <2>1
<1> QED BY <1>3, <1>4, <1>5

(* A batch that unlinks the tip c of a chain.                              *)
LEMMA UnlinkTip ==
  ASSUME TypeOK, NEW c \in Block \ {Genesis}, LinksOf(baIndex, c),
         NEW e \in [Block -> IndexEntryType],
         e = [baIndex EXCEPT ![Prev[c]] = [pindex[Prev[c]] EXCEPT !.next = None]]
  PROVE  LinksOf(e, Prev[c])
<1> SUFFICES ASSUME NEW a \in Block, NEW x \in Block
             PROVE  e[a].next = x <=> x \in Anc[Prev[c]] \ {Genesis} /\ Prev[x] = a
  BY DEF LinksOf
<1>1. baIndex[a].next = x <=> x \in Anc[c] \ {Genesis} /\ Prev[x] = a
  BY DEF LinksOf
<1>2. Anc[c] = Anc[Prev[c]] \cup {c} /\ c \in Anc[c] /\ c \notin Anc[Prev[c]]
      /\ Prev[c] \in Block
  BY AncFacts
<1>3. CASE a = Prev[c]
  <2>1. e[a].next = None
    BY <1>2, <1>3 DEF TypeOK, IndexEntryType
  <2>2. x \in Anc[Prev[c]] \ {Genesis} => Prev[x] # a
    BY <1>2, <1>3, OneChild
  <2> QED BY <2>1, <2>2, TreeAssumption
<1>4. CASE a # Prev[c]
  <2>1. e[a] = baIndex[a]
    BY <1>4 DEF TypeOK
  <2> QED BY <1>1, <1>2, <1>4, <2>1
<1> QED BY <1>3, <1>4

(* A batch that links block b, which is not on the old best chain, to the  *)
(* tip.                                                                    *)
LEMMA LinkTip ==
  ASSUME TypeOK, NEW b \in Block \ {Genesis}, NEW old \in Block, NEW s \in Int,
         LinksOf(baIndex, Prev[b]), LinksOf(pindex, old), b \notin Anc[old],
         NEW e \in [Block -> IndexEntryType],
         e = [baIndex EXCEPT ![b] = [pindex[b] EXCEPT !.supply = s],
                             ![Prev[b]] = [pindex[Prev[b]] EXCEPT !.next = b]]
  PROVE  LinksOf(e, b)
<1> SUFFICES ASSUME NEW a \in Block, NEW x \in Block
             PROVE  e[a].next = x <=> x \in Anc[b] \ {Genesis} /\ Prev[x] = a
  BY DEF LinksOf
<1>1. Anc[b] = Anc[Prev[b]] \cup {b} /\ b \in Anc[b] /\ b \notin Anc[Prev[b]]
      /\ Prev[b] \in Block
  BY AncFacts
<1>2. Prev[b] # b
  BY <1>1, AncFacts
<1>3. CASE a = Prev[b]
  <2>1. e[a].next = b
    BY <1>1, <1>2, <1>3 DEF TypeOK, IndexEntryType
  <2> QED BY <1>1, <1>3, <2>1, OneChild
<1>4. CASE a = b
  <2>1. e[a].next = pindex[b].next
    BY <1>1, <1>2, <1>4 DEF TypeOK, IndexEntryType
  <2>2. pindex[b].next # x
    <3> SUFFICES ASSUME pindex[b].next = x PROVE FALSE
      OBVIOUS
    <3>1. x \in Anc[old] \ {Genesis} /\ Prev[x] = b
      BY DEF LinksOf
    <3>2. b \in Anc[x]
      BY <3>1, AncFacts
    <3> QED BY <3>1, <3>2, TreeAssumption
  <2>3. x \in Anc[b] \ {Genesis} => Prev[x] # b
    <3> SUFFICES ASSUME x \in Anc[b] \ {Genesis}, Prev[x] = b PROVE FALSE
      OBVIOUS
    <3>1. ChainTrust[x] <= ChainTrust[b] /\ ChainTrust[x] \in Nat
      BY TrustGrows
    <3>2. ChainTrust[b] < ChainTrust[x] /\ ChainTrust[b] \in Nat
      <4>1. b \in Anc[x] /\ b # x
        BY AncFacts
      <4> QED BY <4>1, TrustGrows
    <3> QED BY <3>1, <3>2
  <2> QED BY <1>4, <2>1, <2>2, <2>3
<1>5. CASE a # Prev[b] /\ a # b
  <2>1. e[a] = baIndex[a]
    BY <1>5 DEF TypeOK
  <2>2. baIndex[a].next = x <=> x \in Anc[Prev[b]] \ {Genesis} /\ Prev[x] = a
    BY DEF LinksOf
  <2> QED BY <1>1, <1>5, <2>1, <2>2
<1> QED BY <1>3, <1>4, <1>5

-----------------------------------------------------------------------------
(* What the database, the batch and mapQueuedChanges describe.             *)

CommittedInv ==
  /\ IsIndexOf(dbTx, dbBest)
  /\ LinksOf(pindex, dbBest)
  /\ LinksOf(dbIndex, dbBest)
  /\ ~(InTxn /\ stage = "second") => pindexBest = dbBest

BatchInv ==
  /\ InTxn => Anc[goal] \cap Anc[dbBest] \subseteq Anc[cur]
  /\ pc = "disconnect" => Describes(baTx, Connected(cur, cur, ntx))
  /\ pc \in {"connect", "commit"} => IsIndexOf(baTx, cur)
  /\ InTxn => LinksOf(baIndex, cur)
  /\ pc = "commit" => ntx = 0
  /\ pc = "connect" =>
       \A b \in Anc[goal] \ {Genesis} : Prev[b] = cur =>
         /\ ntx <= Len(vtx[b])
         /\ Describes(queued, Connected(cur, b, ntx))

Database == ~broke => CommittedInv /\ BatchInv

Inv == TypeInv /\ Index /\ Database

(* The empty database describes the chain of the genesis block alone.      *)
LEMMA InitDatabase == Init => Index /\ Database
<1> SUFFICES ASSUME Init PROVE Index /\ Database
  OBVIOUS
<1> USE DEF Init
<1>1. Anc[Genesis] = {Genesis} /\ Genesis \in Block /\ None \notin Block
  BY TreeAssumption
<1>2. Index
  BY <1>1 DEF Index
<1>3. Connected(Genesis, None, 0) = [b \in Block |-> 0]
  BY <1>1 DEF Connected
<1>4. IsIndexOf(dbTx, dbBest)
  <2>1. dbTx.pos = [t \in Tx |-> None] /\ dbTx.vSpent = [o \in OutPoint |-> None]
    BY DEF EmptyTxIndex
  <2>2. \A b \in Block : 1 .. [x \in Block |-> 0][b] = {}
    OBVIOUS
  <2> QED BY <2>1, <2>2, <1>3
          DEF IsIndexOf, Describes, RecordsOf, OnlyRecordsOf, InputsOf, OnlyInputsOf
<1>5. LinksOf(pindex, dbBest) /\ LinksOf(dbIndex, dbBest)
  BY <1>1 DEF LinksOf, NewIndexEntry
<1>6. Database
  BY <1>4, <1>5 DEF Database, CommittedInv, BatchInv, InTxn
<1> QED BY <1>2, <1>6

(* The committed part outside of Commit: nothing in the database and no    *)
(* link changes.                                                           *)
LEMMA CommittedUnchanged ==
  ASSUME CommittedInv, UNCHANGED <<dbTx, dbBest, dbIndex>>,
         \A a \in Block : pindex'[a].next = pindex[a].next,
         ~(InTxn /\ stage = "second")' => pindexBest' = dbBest
  PROVE  CommittedInv'
BY DEF CommittedInv, LinksOf

(* AddToBlockIndex leaves what the database describes.                     *)
LEMMA AddDatabase ==
  ASSUME Inv, NEW b \in Block \ {Genesis}, AddToBlockIndex(b)
  PROVE  Database'
<1> SUFFICES ASSUME ~broke PROVE CommittedInv' /\ BatchInv'
  BY DEF Database, AddToBlockIndex
<1> USE DEF Inv, TypeInv
<1>0. CommittedInv /\ pindexBest = dbBest
  BY DEF Database, CommittedInv, AddToBlockIndex, InTxn
<1>1. b \notin Anc[dbBest]
  BY DEF Index, AddToBlockIndex
<1>2. ASSUME NEW x \in Block PROVE ~(x \in Anc[dbBest] \ {Genesis} /\ Prev[x] = b)
  <2> SUFFICES ASSUME x \in Anc[dbBest] \ {Genesis}, Prev[x] = b PROVE FALSE
    OBVIOUS
  <2>1. b \in Anc[x]
    BY AncFacts
  <2> QED BY <1>1, <2>1, TreeAssumption DEF TypeOK
<1>3. ASSUME NEW e, NEW f, e \in [Block -> IndexEntryType], LinksOf(e, dbBest),
             f = [e EXCEPT ![b] = NewIndexEntry]
      PROVE  LinksOf(f, dbBest)
  <2> SUFFICES ASSUME NEW a \in Block, NEW x \in Block
               PROVE  f[a].next = x <=> x \in Anc[dbBest] \ {Genesis} /\ Prev[x] = a
    BY DEF LinksOf
  <2>1. CASE a = b
    <3>1. f[a].next = None
      BY <1>3, <2>1 DEF NewIndexEntry
    <3> QED BY <2>1, <3>1, <1>2, TreeAssumption
  <2>2. CASE a # b
    <3>1. f[a] = e[a]
      BY <1>3, <2>2
    <3> QED BY <3>1, <1>3 DEF LinksOf
  <2> QED BY <2>1, <2>2
<1>4. LinksOf(pindex', dbBest) /\ LinksOf(dbIndex', dbBest)
  BY <1>0, <1>3 DEF CommittedInv, AddToBlockIndex, TypeOK
<1>5. CommittedInv'
  <2>1. UNCHANGED <<dbTx, dbBest, pindexBest>>
    BY DEF AddToBlockIndex
  <2> QED BY <1>0, <1>4, <2>1 DEF CommittedInv
<1>6. BatchInv'
  BY DEF BatchInv, AddToBlockIndex, InTxn
<1> QED BY <1>5, <1>6

(* SetBestChain opens a batch that describes the committed chain.          *)
LEMMA SetBestDatabase ==
  ASSUME Inv, SetBestChain
  PROVE  Database'
<1> SUFFICES ASSUME ~broke PROVE CommittedInv' /\ BatchInv'
  BY DEF Database, SetBestChain
<1> USE DEF Inv, TypeInv
<1>0. CommittedInv /\ pindexBest = dbBest
  BY DEF Database, CommittedInv, SetBestChain, InTxn
<1>1. UNCHANGED <<dbTx, dbBest, dbIndex, pindex, pindexBest, target>>
      /\ baIndex' = dbIndex /\ baTx' = dbTx /\ queued' = dbTx /\ cur' = dbBest
  BY <1>0 DEF SetBestChain, memVars, dbVars, TxnBegin
<1>2. stage' # "second"
  BY DEF SetBestChain
<1>3. CommittedInv'
  BY <1>0, <1>1, <1>2 DEF CommittedInv
<1>4. BatchInv'
  <2>1. /\ pc' = IF dbBest \in Anc[goal'] THEN "connect" ELSE "disconnect"
        /\ ntx' = IF dbBest \in Anc[goal'] THEN 0 ELSE Len(vtx[dbBest])
    BY <1>0 DEF SetBestChain
  <2>2. dbBest \in Block /\ IsIndexOf(dbTx, dbBest) /\ LinksOf(dbIndex, dbBest)
    BY <1>0 DEF CommittedInv, TypeOK
  <2>3. goal' \in Block
    BY AncFacts DEF SetBestChain, TypeOK
  <2>4. pc' = "disconnect" => Describes(baTx', Connected(cur', cur', ntx'))
    <3>1. ASSUME pc' = "disconnect" PROVE dbBest # Genesis /\ ntx' = Len(vtx[dbBest])
      BY <3>1, <2>1, <2>3, AncFacts
    <3> QED BY <3>1, <1>1, <2>2, ConnectedTip DEF IsIndexOf
  <2>5. ASSUME pc' = "connect", NEW b \in Anc[goal'] \ {Genesis}, Prev[b] = cur'
        PROVE  ntx' <= Len(vtx[b]) /\ Describes(queued', Connected(cur', b, ntx'))
    <3>1. b \in Block /\ ntx' = 0
      BY <2>1, <2>3, <2>5, AncFacts
    <3> QED BY <3>1, <1>1, <2>2, <2>5, ConnectedChild, VtxType DEF IsIndexOf
  <2> QED BY <1>1, <2>1, <2>2, <2>4, <2>5 DEF BatchInv, InTxn
<1> QED BY <1>3, <1>4

(* DisconnectInputs leaves a batch that describes one transaction less.    *)
LEMMA DisconnectTxDatabase ==
  ASSUME Inv, DisconnectTx
  PROVE  Database'
<1> SUFFICES ASSUME ~broke PROVE CommittedInv' /\ BatchInv'
  BY DEF Database, DisconnectTx
<1> USE DEF Inv, TypeInv
<1>0. CommittedInv /\ BatchInv
  BY DEF Database
<1>1. UNCHANGED <<dbTx, dbBest, dbIndex, pindex, pindexBest, pc, stage, goal,
                  cur, baIndex>>
      /\ pc = "disconnect" /\ ntx > 0 /\ ntx' = ntx - 1
      /\ baTx' = DisconnectInputs(baTx, vtx[cur][ntx])
  BY DEF DisconnectTx, memVars, dbVars
<1>2. CommittedInv'
  BY <1>0, <1>1 DEF CommittedInv, InTxn
<1>3. cur \in Block \ {Genesis} /\ ntx \in 1 .. Len(vtx[cur]) /\ baTx \in TxIndexType
  BY <1>1, VtxType, AncFacts DEF Control, TypeOK
<1>4. Describes(baTx', Connected(cur, cur, ntx'))
  <2> DEFINE n == Connected(cur, cur, ntx)
  <2>0. ntx \in Nat /\ ntx \in 0 .. Len(vtx[cur]) /\ ntx - 1 \in Nat
    BY <1>3, VtxType
  <2>1. n \in Counts /\ n[cur] = ntx /\ [n EXCEPT ![cur] = ntx - 1] = Connected(cur, cur, ntx - 1)
    BY <1>3, <2>0, ConnectedCounts
  <2>2. TipIs(n, cur)
    BY <1>3, <2>0, ConnectedTip
  <2>3. Describes(baTx, n)
    BY <1>0, <1>1 DEF BatchInv
  <2> HIDE DEF n
  <2>4. Describes(DisconnectInputs(baTx, vtx[cur][n[cur]]), [n EXCEPT ![cur] = n[cur] - 1])
    BY <1>1, <1>3, <2>1, <2>2, <2>3, DisconnectDescribes
  <2> QED BY <2>1, <2>4, <1>1
<1>5. BatchInv'
  BY <1>0, <1>1, <1>4 DEF BatchInv, InTxn
<1> QED BY <1>2, <1>5

(* The end of DisconnectBlock leaves a batch that describes one block less. *)
LEMMA DisconnectBlockDatabase ==
  ASSUME Inv, TypeOK', DisconnectBlock
  PROVE  Database'
<1> SUFFICES ASSUME ~broke PROVE CommittedInv' /\ BatchInv'
  BY DEF Database, DisconnectBlock
<1> USE DEF Inv, TypeInv
<1>0. CommittedInv /\ BatchInv
  BY DEF Database
<1> DEFINE p == Prev[cur]
<1>1. /\ UNCHANGED <<dbTx, dbBest, dbIndex, pindex, pindexBest, stage, goal, baTx>>
      /\ pc = "disconnect" /\ ntx = 0 /\ cur' = p /\ queued' = baTx
      /\ baIndex' = [baIndex EXCEPT ![p] = [pindex[p] EXCEPT !.next = None]]
      /\ pc' = IF p \in Anc[goal] THEN "connect" ELSE "disconnect"
      /\ ntx' = IF p \in Anc[goal] THEN 0 ELSE Len(vtx[p])
  BY DEF DisconnectBlock, memVars, dbVars
<1>2. cur \in Block \ {Genesis} /\ cur \notin Anc[goal] /\ goal \in Block
      /\ stage = "reorg" /\ p \in Block
  BY <1>1, AncFacts DEF Control, TypeOK
<1>3. CommittedInv'
  BY <1>0, <1>1, <1>2 DEF CommittedInv, InTxn
<1>4. IsIndexOf(baTx, p)
  BY <1>0, <1>1, <1>2, ConnectedTip DEF BatchInv, IsIndexOf
<1>5. LinksOf(baIndex', p)
  <2>1. LinksOf(baIndex, cur)
    BY <1>0, <1>1 DEF BatchInv, InTxn
  <2>2. baIndex' \in [Block -> IndexEntryType]
    BY DEF TypeOK
  <2> QED BY <1>1, <1>2, <2>1, <2>2, UnlinkTip
<1>6. Anc[goal] \cap Anc[dbBest] \subseteq Anc[p]
  <2>1. Anc[goal] \cap Anc[dbBest] \subseteq Anc[cur]
    BY <1>0, <1>1 DEF BatchInv, InTxn
  <2>2. Anc[cur] = Anc[p] \cup {cur}
    BY <1>2, AncFacts
  <2> QED BY <1>2, <2>1, <2>2
<1> HIDE DEF p
<1>7. pc' = "disconnect" => Describes(baTx', Connected(cur', cur', ntx'))
  <2>1. ASSUME pc' = "disconnect" PROVE p # Genesis /\ ntx' = Len(vtx[p])
    BY <2>1, <1>1, <1>2, AncFacts
  <2> QED BY <2>1, <1>1, <1>2, <1>4, ConnectedTip DEF IsIndexOf
<1>8. ASSUME pc' = "connect", NEW b \in Anc[goal] \ {Genesis}, Prev[b] = p
      PROVE  ntx' <= Len(vtx[b]) /\ Describes(queued', Connected(p, b, ntx'))
  <2>1. b \in Block /\ ntx' = 0
    BY <1>1, <1>2, <1>8, AncFacts
  <2> QED BY <2>1, <1>1, <1>4, <1>8, ConnectedChild, VtxType DEF IsIndexOf
<1>9. BatchInv'
  BY <1>1, <1>4, <1>5, <1>6, <1>7, <1>8 DEF BatchInv, InTxn
<1> QED BY <1>3, <1>9

(* A round of ConnectBlock queues what describes one transaction more.     *)
LEMMA ConnectTxDatabase ==
  ASSUME Inv, NEW b \in Block \ {Genesis}, ConnectTx(b)
  PROVE  Database'
<1> SUFFICES ASSUME ~broke PROVE CommittedInv' /\ BatchInv'
  BY DEF Database, ConnectTx
<1> USE DEF Inv, TypeInv
<1>0. CommittedInv /\ BatchInv
  BY DEF Database
<1> DEFINE t == vtx[b][ntx + 1]
<1>1. /\ UNCHANGED <<dbTx, dbBest, dbIndex, pindex, pindexBest, stage, goal, baTx,
                     baIndex, pc, cur>>
      /\ pc = "connect" /\ b \in Anc[goal] \ {Genesis} /\ Prev[b] = cur
      /\ ntx < Len(vtx[b]) /\ ntx' = ntx + 1
      /\ queued' = ConnectInputs(queued, t, b)
  BY DEF ConnectTx, Connecting, memVars, dbVars
<1>2. \A o \in vin[t] : InputOk(queued, o, b)
  BY DEF ConnectTx, TxConnects
<1>3. CommittedInv'
  BY <1>0, <1>1 DEF CommittedInv, InTxn
<1>4. Describes(queued', Connected(cur, b, ntx + 1))
  <2> DEFINE n == Connected(cur, b, ntx)
  <2>0. ntx \in 0 .. Len(vtx[b]) /\ ntx \in Nat /\ ntx + 1 \in Nat /\ cur \in Block
        /\ queued \in TxIndexType
    BY <1>1, VtxType DEF TypeOK
  <2>1. n \in Counts /\ n[b] = ntx /\ [n EXCEPT ![b] = ntx + 1] = Connected(cur, b, ntx + 1)
    BY <2>0, ConnectedCounts
  <2>2. TipIs(n, b)
    BY <1>1, <2>0, ConnectedChild
  <2>3. Describes(queued, n)
    BY <1>0, <1>1 DEF BatchInv
  <2> HIDE DEF n
  <2>4. \A o \in vin[vtx[b][n[b] + 1]] : InputOk(queued, o, b)
    BY <1>2, <2>1
  <2>5. n[b] < Len(vtx[b])
    BY <1>1, <2>1
  <2>6. Describes(ConnectInputs(queued, vtx[b][n[b] + 1], b), [n EXCEPT ![b] = n[b] + 1])
    BY <2>0, <2>1, <2>2, <2>3, <2>4, <2>5, ConnectDescribes
  <2> QED BY <1>1, <2>1, <2>6
<1>5. ASSUME NEW x \in Anc[goal] \ {Genesis}, Prev[x] = cur PROVE x = b
  BY <1>1, <1>5, OneChild DEF TypeOK
<1>6. ntx + 1 <= Len(vtx[b])
  BY <1>1, VtxType DEF TypeOK
<1>7. BatchInv'
  BY <1>0, <1>1, <1>4, <1>5, <1>6 DEF BatchInv, InTxn
<1> QED BY <1>3, <1>7

(* The end of ConnectBlock leaves a batch that describes one block more.   *)
LEMMA ConnectBlockDatabase ==
  ASSUME Inv, TypeOK', NEW b \in Block \ {Genesis}, ConnectBlock(b)
  PROVE  Database'
<1> SUFFICES ASSUME ~broke PROVE CommittedInv' /\ BatchInv'
  BY DEF Database, ConnectBlock
<1> USE DEF Inv, TypeInv
<1>0. CommittedInv /\ BatchInv
  BY DEF Database
<1> DEFINE s == pindex[cur].supply + SupplyChange(b)
<1>1. /\ UNCHANGED <<dbTx, dbBest, dbIndex, pindexBest, stage, goal, queued>>
      /\ pc = "connect" /\ b \in Anc[goal] \ {Genesis} /\ Prev[b] = cur
      /\ ntx = Len(vtx[b]) /\ ntx' = 0 /\ cur' = b /\ baTx' = queued
      /\ pc' = IF b = goal THEN "commit" ELSE "connect"
      /\ pindex' = [pindex EXCEPT ![b].supply = s]
      /\ baIndex' = [baIndex EXCEPT ![b] = [pindex[b] EXCEPT !.supply = s],
                                    ![Prev[b]] = [pindex[Prev[b]] EXCEPT !.next = b]]
  BY DEF ConnectBlock, Connecting, dbVars
<1>2. \A a \in Block : pindex'[a].next = pindex[a].next
  BY <1>1 DEF TypeOK, IndexEntryType
<1>3. CommittedInv'
  <2>1. ~(InTxn /\ stage = "second")' => pindexBest' = dbBest
    BY <1>0, <1>1 DEF CommittedInv, InTxn
  <2> QED BY <1>0, <1>1, <1>2, <2>1, CommittedUnchanged
<1>4. IsIndexOf(baTx', b)
  BY <1>0, <1>1, ConnectedChild DEF BatchInv, IsIndexOf
<1>5. LinksOf(baIndex', b)
  <2>1. LinksOf(baIndex, Prev[b]) /\ LinksOf(pindex, dbBest)
    BY <1>0, <1>1 DEF BatchInv, CommittedInv, InTxn
  <2>2. b \notin Anc[dbBest]
    <3>1. Anc[goal] \cap Anc[dbBest] \subseteq Anc[cur]
      BY <1>0, <1>1 DEF BatchInv, InTxn
    <3>2. b \notin Anc[cur]
      BY <1>1, AncFacts
    <3> QED BY <1>1, <3>1, <3>2
  <2>3. s \in Int
    <3>1. pindex[cur].supply \in Int
      BY DEF TypeOK, IndexEntryType
    <3>2. SupplyChange(b) \in Int
      BY SupplySteps
    <3> QED BY <3>1, <3>2
  <2>4. baIndex' \in [Block -> IndexEntryType] /\ dbBest \in Block
    BY DEF TypeOK
  <2> HIDE DEF s
  <2> QED BY <1>1, <2>1, <2>2, <2>3, <2>4, LinkTip
<1>6. Anc[goal] \cap Anc[dbBest] \subseteq Anc[b]
  <2>1. Anc[cur] \subseteq Anc[b]
    BY <1>1, AncFacts
  <2> QED BY <1>0, <1>1, <2>1 DEF BatchInv, InTxn
<1>7. ASSUME NEW x \in Anc[goal] \ {Genesis}, Prev[x] = b
      PROVE  0 <= Len(vtx[x]) /\ Describes(queued, Connected(b, x, 0))
  <2>1. x \in Block
    BY AncFacts DEF TypeOK
  <2> QED BY <2>1, <1>1, <1>4, <1>7, ConnectedChild, VtxType DEF IsIndexOf
<1>8. BatchInv'
  BY <1>1, <1>4, <1>5, <1>6, <1>7 DEF BatchInv, InTxn
<1> QED BY <1>3, <1>8

(* TxnCommit makes the database describe the new best chain.               *)
LEMMA CommitDatabase ==
  ASSUME Inv, Commit
  PROVE  Database'
<1> SUFFICES ASSUME ~broke PROVE CommittedInv' /\ BatchInv'
  BY DEF Database, Commit
<1> USE DEF Inv, TypeInv
<1>0. CommittedInv /\ BatchInv
  BY DEF Database
<1> DEFINE from == IF stage = "reorg" THEN pindexBest ELSE Prev[goal]
<1>1. /\ pc = "commit" /\ cur = goal /\ UNCHANGED <<baTx, baIndex, cur, ntx, target>>
      /\ dbIndex' = baIndex /\ dbTx' = baTx /\ dbBest' = goal /\ queued' = baTx
      /\ pindex' = Relink(from, goal)
      /\ goal \in Block
  BY DEF Commit, Control, TypeOK
<1>2. from = dbBest
  BY <1>0, <1>1 DEF CommittedInv, Control, InTxn, TypeOK
<1>3. LinksOf(pindex', goal)
  BY <1>0, <1>1, <1>2, RelinkLinks DEF CommittedInv, TypeOK
<1>4. IsIndexOf(baTx, goal) /\ LinksOf(baIndex, goal)
  BY <1>0, <1>1 DEF BatchInv, InTxn
<1>5. CASE goal = target
  <2>1. pindexBest' = goal /\ pc' = "idle"
    BY <1>5 DEF Commit
  <2> QED BY <1>1, <1>3, <1>4, <2>1 DEF CommittedInv, BatchInv, InTxn
<1>6. CASE goal # target
  <2>1. /\ pc' = "connect" /\ stage' = "second" /\ ntx' = ntx
        /\ goal' \in Anc[target] \ {Genesis} /\ Prev[goal'] = goal
    BY <1>6 DEF Commit
  <2>2. goal' \in Block
    BY <2>1, AncFacts DEF TypeOK
  <2>3. ASSUME NEW b \in Anc[goal'] \ {Genesis}, Prev[b] = goal
        PROVE  ntx <= Len(vtx[b]) /\ Describes(baTx, Connected(goal, b, ntx))
    <3>1. b \in Block /\ ntx = 0
      BY <1>0, <1>1, <2>2, AncFacts DEF BatchInv
    <3> QED BY <3>1, <1>4, <2>3, ConnectedChild, VtxType DEF IsIndexOf
  <2>4. CommittedInv'
    BY <1>1, <1>3, <1>4, <2>1 DEF CommittedInv, InTxn
  <2>5. BatchInv'
    BY <1>1, <1>4, <2>1, <2>3 DEF BatchInv, InTxn
  <2> QED BY <2>4, <2>5
<1> QED BY <1>5, <1>6

(* A failed ConnectBlock and a crash leave what was committed.             *)
LEMMA OtherDatabase ==
  ASSUME Inv,
         \/ \E b \in Block \ {Genesis} : ConnectFails(b)
         \/ CrashAndLoadBlockIndex
         \/ UNCHANGED vars
  PROVE  Database'
<1> SUFFICES ASSUME ~broke' PROVE CommittedInv' /\ BatchInv'
  BY DEF Database
<1> USE DEF Inv, TypeInv
<1>1. ASSUME NEW b \in Block \ {Genesis}, ConnectFails(b)
      PROVE  CommittedInv' /\ BatchInv'
  <2>1. ~broke /\ stage # "second" /\ pc' = "idle" /\ stage' = stage
        /\ UNCHANGED <<dbTx, dbBest, dbIndex, pindex, pindexBest>>
    BY <1>1 DEF ConnectFails, dbVars
  <2>2. CommittedInv
    BY <2>1 DEF Database
  <2> QED BY <2>1, <2>2 DEF CommittedInv, BatchInv, InTxn
<1>2. ASSUME CrashAndLoadBlockIndex
      PROVE  CommittedInv' /\ BatchInv'
  <2>1. ~broke /\ pc' = "idle" /\ pindexBest' = dbBest /\ pindex' = dbIndex
        /\ UNCHANGED <<dbTx, dbBest, dbIndex>>
    BY <1>2 DEF CrashAndLoadBlockIndex, dbVars
  <2>2. CommittedInv
    BY <2>1 DEF Database
  <2> QED BY <2>1, <2>2 DEF CommittedInv, BatchInv, InTxn
<1>3. ASSUME UNCHANGED vars
      PROVE  CommittedInv' /\ BatchInv'
  <2>1. CommittedInv /\ BatchInv
    BY <1>3 DEF Database, vars
  <2> QED BY <1>3, <2>1 DEF CommittedInv, BatchInv, InTxn, LinksOf, vars, memVars,
                            dbVars, batchVars, ctlVars
<1> QED BY <1>1, <1>2, <1>3

(* The invariant is inductive.                                             *)
LEMMA NextInv == Inv /\ [Next]_vars => Inv'
<1> SUFFICES ASSUME Inv, [Next]_vars PROVE Inv'
  OBVIOUS
<1>1. TypeInv' /\ Index'
  BY NextType, NextIndex DEF Inv
<1>2. TypeOK'
  BY <1>1 DEF TypeInv
<1>3. Database'
  BY <1>2, AddDatabase, SetBestDatabase, DisconnectTxDatabase,
     DisconnectBlockDatabase, ConnectTxDatabase, ConnectBlockDatabase,
     CommitDatabase, OtherDatabase DEF Next
<1> QED BY <1>1, <1>3 DEF Inv

(* The invariant holds in every state of the node.                         *)
LEMMA AlwaysInv == Spec => []Inv
<1>1. Init => Inv
  BY InitType, InitDatabase DEF Inv
<1> QED BY <1>1, NextInv, PTL DEF Spec

-----------------------------------------------------------------------------
(* The replay.  Whatever part of a chain the database, the batch and the   *)
(* queued changes describe, a replay of that part has no error and leaves  *)
(* the same coins.                                                         *)
Replayed ==
  ~broke =>
    /\ Matches(Replay[dbBest], dbTx)
    /\ pc = "disconnect" => Matches(ReplayTo(cur, ntx), baTx)
    /\ pc \in {"connect", "commit"} => Matches(Replay[cur], baTx)
    /\ pc = "connect" =>
         \A b \in Anc[goal] \ {Genesis} : Prev[b] = cur => Matches(ReplayTo(b, ntx), queued)

(* The whole of a block that has been replayed without an error.           *)
LEMMA WholeBlockMatches ==
  ASSUME NEW b \in Block \ {Genesis}, NEW idx
  PROVE  /\ Matches(Replay[b], idx) => Matches(ReplayTo(b, Len(vtx[b])), idx)
         /\ Matches(ReplayTo(b, Len(vtx[b])), idx) /\ b \notin BadBlock => Matches(Replay[b], idx)
         /\ Matches(Replay[Prev[b]], idx) <=> Matches(ReplayTo(b, 0), idx)
<1>1. /\ Replay[b].coins = ReplayTo(b, Len(vtx[b])).coins
      /\ Replay[b].ok <=> ReplayTo(b, Len(vtx[b])).ok /\ b \notin BadBlock
      /\ ReplayTo(b, 0) = Replay[Prev[b]]
      /\ ReplayTo(b, Len(vtx[b])) \in ReplayType
  BY ReplayToSteps
<1>2. Replay[b] \in ReplayType
  BY ReplaySteps
<1> QED BY <1>1, <1>2 DEF Matches

(* The empty database has no coins.                                        *)
LEMMA InitReplayed == Init => Replayed
<1> SUFFICES ASSUME Init PROVE Matches(Replay[dbBest], dbTx)
  BY DEF Init, Replayed
<1>1. Replay[dbBest] = NoCoins /\ Replay[dbBest] \in ReplayType
  BY ReplaySteps, TreeAssumption DEF Init
<1>2. CoinsIn(EmptyTxIndex) = [o \in OutPoint |-> Gone]
  BY TxAssumption DEF CoinsIn, EmptyTxIndex
<1> QED BY <1>1, <1>2 DEF Init, NoCoins, Matches

(* DisconnectInputs takes the batch one transaction back on the replay.    *)
LEMMA DisconnectTxReplayed ==
  ASSUME Inv, Replayed, DisconnectTx
  PROVE  Replayed'
<1> SUFFICES ASSUME ~broke PROVE Replayed'
  BY DEF Replayed, DisconnectTx
<1> USE DEF Inv, TypeInv
<1>1. UNCHANGED <<dbTx, dbBest, pc, goal, cur, broke>>
      /\ pc = "disconnect" /\ ntx > 0 /\ ntx' = ntx - 1
      /\ baTx' = DisconnectInputs(baTx, vtx[cur][ntx])
  BY DEF DisconnectTx, memVars, dbVars
<1>2. cur \in Block \ {Genesis} /\ ntx \in 1 .. Len(vtx[cur]) /\ baTx \in TxIndexType
  BY <1>1, VtxType, AncFacts DEF Control, TypeOK
<1> DEFINE n == Connected(cur, cur, ntx)
           u == ReplayTo(cur, ntx - 1)
           t == vtx[cur][ntx]
<1>3. /\ ntx \in Nat /\ ntx \in 0 .. Len(vtx[cur]) /\ ntx - 1 \in 0 .. Len(vtx[cur])
      /\ Prev[cur] \in Block
  BY <1>2, VtxType, AncFacts
<1>4. n \in Counts /\ n[cur] = ntx
  BY <1>2, <1>3, ConnectedCounts
<1>5. Describes(baTx, n)
  BY <1>1 DEF Database, BatchInv
<1>6. Matches(ReplayTx(u, t, cur), baTx)
  <2>1. Matches(ReplayTo(cur, ntx), baTx)
    BY <1>1 DEF Replayed
  <2> QED BY <1>2, <2>1, ReplayToSteps
<1>7. CoinsFrom(u, n)
  <2>1. CoinsFrom(u, Connected(Prev[cur], cur, ntx - 1))
    BY <1>2, <1>3, CoinsWithinBlock, CoinsOfChain
  <2>2. Connected(Prev[cur], cur, ntx - 1) \in Counts
    BY <1>2, <1>3, ConnectedCounts
  <2>3. \A a \in Block : Connected(Prev[cur], cur, ntx - 1)[a] <= n[a]
    BY <1>2, <1>3, AncFacts, VtxType DEF Connected
  <2> HIDE DEF n, u
  <2> QED BY <1>4, <2>1, <2>2, <2>3, CoinsFromMore
<1>8. u \in ReplayType
  BY <1>2, <1>3, ReplayToSteps
<1> HIDE DEF n, u
<1>9. t = vtx[cur][n[cur]] /\ n[cur] > 0
  BY <1>1, <1>4
<1> HIDE DEF t
<1>10. Matches(u, DisconnectInputs(baTx, t))
  BY <1>2, <1>4, <1>5, <1>6, <1>7, <1>8, <1>9, ReplayDisconnects
<1>11. Matches(ReplayTo(cur, ntx'), baTx')
  BY <1>1, <1>10 DEF u, t
<1> QED BY <1>1, <1>11 DEF Replayed

(* The end of DisconnectBlock is the end of the block before.              *)
LEMMA DisconnectBlockReplayed ==
  ASSUME Inv, Replayed, DisconnectBlock
  PROVE  Replayed'
<1> SUFFICES ASSUME ~broke PROVE Replayed'
  BY DEF Replayed, DisconnectBlock
<1> USE DEF Inv, TypeInv
<1> DEFINE p == Prev[cur]
<1>1. /\ UNCHANGED <<dbTx, dbBest, goal, baTx, broke>>
      /\ pc = "disconnect" /\ ntx = 0 /\ cur' = p /\ queued' = baTx
      /\ pc' = IF p \in Anc[goal] THEN "connect" ELSE "disconnect"
      /\ ntx' = IF p \in Anc[goal] THEN 0 ELSE Len(vtx[p])
  BY DEF DisconnectBlock, memVars, dbVars
<1>2. cur \in Block \ {Genesis} /\ goal \in Block /\ p \in Block
  BY <1>1, AncFacts DEF Control, TypeOK
<1>3. Matches(Replay[p], baTx)
  BY <1>1, <1>2, WholeBlockMatches DEF Replayed
<1> HIDE DEF p
<1>4. pc' = "disconnect" => Matches(ReplayTo(p, ntx'), baTx)
  <2>1. ASSUME pc' = "disconnect" PROVE p # Genesis /\ ntx' = Len(vtx[p])
    BY <2>1, <1>1, <1>2, AncFacts
  <2> QED BY <1>2, <1>3, <2>1, WholeBlockMatches
<1>5. ASSUME pc' = "connect", NEW b \in Anc[goal] \ {Genesis}, Prev[b] = p
      PROVE  Matches(ReplayTo(b, ntx'), baTx)
  <2>1. b \in Block /\ ntx' = 0
    BY <1>1, <1>2, <1>5, AncFacts
  <2> QED BY <1>3, <1>5, <2>1, WholeBlockMatches
<1> QED BY <1>1, <1>3, <1>4, <1>5 DEF Replayed

(* A round of ConnectBlock takes the queued changes one transaction on.    *)
LEMMA ConnectTxReplayed ==
  ASSUME Inv, Replayed, NEW b \in Block \ {Genesis}, ConnectTx(b)
  PROVE  Replayed'
<1> SUFFICES ASSUME ~broke PROVE Replayed'
  BY DEF Replayed, ConnectTx
<1> USE DEF Inv, TypeInv
<1> DEFINE t == vtx[b][ntx + 1]
           n == Connected(cur, b, ntx)
           u == ReplayTo(b, ntx)
<1>1. /\ UNCHANGED <<dbTx, dbBest, goal, baTx, pc, cur, broke>>
      /\ pc = "connect" /\ b \in Anc[goal] \ {Genesis} /\ Prev[b] = cur
      /\ ntx < Len(vtx[b]) /\ ntx' = ntx + 1
      /\ queued' = ConnectInputs(queued, t, b)
  BY DEF ConnectTx, Connecting, memVars, dbVars
<1>2. t \notin BadTx /\ \A o \in vin[t] : InputOk(queued, o, b)
  BY DEF ConnectTx, TxConnects
<1>3. ntx \in 0 .. Len(vtx[b]) /\ ntx \in Nat /\ ntx + 1 \in 1 .. Len(vtx[b]) /\ cur \in Block
      /\ queued \in TxIndexType
  BY <1>1, VtxType DEF TypeOK
<1>4. n \in Counts /\ n[b] = ntx
  BY <1>3, ConnectedCounts
<1>5. TipIs(n, b)
  BY <1>1, <1>3, ConnectedChild
<1>6. Describes(queued, n)
  BY <1>1 DEF Database, BatchInv
<1>7. Matches(u, queued)
  BY <1>1 DEF Replayed
<1>8. ReplayTo(b, ntx + 1) = ReplayTx(u, t, b)
  <2>1. \A k \in 1 .. Len(vtx[b]) :
          ReplayTo(b, k) = ReplayTx(ReplayTo(b, k - 1), vtx[b][k], b)
    BY ReplayToSteps
  <2>2. (ntx + 1) - 1 = ntx
    BY <1>3
  <2> QED BY <1>3, <2>1, <2>2
<1> HIDE DEF n, u
<1>9. t = vtx[b][n[b] + 1] /\ n[b] < Len(vtx[b])
  BY <1>1, <1>4
<1> HIDE DEF t
<1>10. Matches(ReplayTx(u, t, b), ConnectInputs(queued, t, b))
  BY <1>2, <1>3, <1>4, <1>5, <1>6, <1>7, <1>9, ReplayConnects
<1>11. Matches(ReplayTo(b, ntx'), queued')
  BY <1>1, <1>8, <1>10
<1>12. ASSUME NEW x \in Anc[goal] \ {Genesis}, Prev[x] = cur PROVE x = b
  BY <1>1, <1>12, OneChild DEF TypeOK
<1> QED BY <1>1, <1>11, <1>12 DEF Replayed

(* The end of ConnectBlock: the block is valid and the batch has its       *)
(* coins.                                                                  *)
LEMMA ConnectBlockMatches ==
  ASSUME Inv, Replayed, NEW b \in Block \ {Genesis}, ConnectBlock(b), ~broke
  PROVE  Matches(Replay[b], queued)
<1>1. pc = "connect" /\ b \in Anc[goal] \ {Genesis} /\ Prev[b] = cur /\ ntx = Len(vtx[b])
      /\ b \notin BadBlock
  BY DEF ConnectBlock, Connecting
<1>2. Matches(ReplayTo(b, Len(vtx[b])), queued)
  BY <1>1 DEF Replayed
<1> QED BY <1>1, <1>2, WholeBlockMatches

(* What the next block begins with.                                        *)
LEMMA ConnectBlockReplayed ==
  ASSUME Inv, Replayed, NEW b \in Block \ {Genesis}, ConnectBlock(b)
  PROVE  Replayed'
<1> SUFFICES ASSUME ~broke PROVE Replayed'
  BY DEF Replayed, ConnectBlock
<1> USE DEF Inv, TypeInv
<1>1. /\ UNCHANGED <<dbTx, dbBest, goal, queued, broke>>
      /\ pc = "connect" /\ ntx' = 0 /\ cur' = b /\ baTx' = queued
      /\ pc' = IF b = goal THEN "commit" ELSE "connect"
  BY DEF ConnectBlock, Connecting, dbVars
<1>2. Matches(Replay[b], queued)
  BY ConnectBlockMatches
<1>3. ASSUME NEW x \in Anc[goal] \ {Genesis}, Prev[x] = b
      PROVE  Matches(ReplayTo(x, 0), queued)
  <2>1. x \in Block
    BY AncFacts DEF TypeOK
  <2> QED BY <1>2, <1>3, <2>1, WholeBlockMatches
<1> QED BY <1>1, <1>2, <1>3 DEF Replayed

(* TxnCommit commits the coins of the new best chain.                      *)
LEMMA CommitReplayed ==
  ASSUME Inv, Replayed, Commit
  PROVE  Replayed'
<1> SUFFICES ASSUME ~broke PROVE Replayed'
  BY DEF Replayed, Commit
<1> USE DEF Inv, TypeInv
<1>1. /\ pc = "commit" /\ cur = goal /\ UNCHANGED <<baTx, cur, ntx, broke>>
      /\ dbTx' = baTx /\ dbBest' = goal /\ queued' = baTx
      /\ goal \in Block /\ pc' \in {"idle", "connect"} /\ ntx = 0
  BY DEF Commit, Control, TypeOK, Database, BatchInv
<1>2. Matches(Replay[goal], baTx)
  BY <1>1 DEF Replayed
<1>3. ASSUME pc' = "connect", NEW b \in Anc[goal'] \ {Genesis}, Prev[b] = goal
      PROVE  Matches(ReplayTo(b, 0), baTx)
  <2>1. goal' \in Block
    BY <1>3, AncFacts DEF Commit, TypeOK
  <2>2. b \in Block
    BY <2>1, AncFacts
  <2> QED BY <1>2, <1>3, <2>2, WholeBlockMatches
<1> QED BY <1>1, <1>2, <1>3 DEF Replayed

(* SetBestChain begins with the coins of the committed chain.              *)
LEMMA SetBestReplayed ==
  ASSUME Inv, Replayed, SetBestChain
  PROVE  Replayed'
<1> SUFFICES ASSUME ~broke PROVE Replayed'
  BY DEF Replayed, SetBestChain
<1> USE DEF Inv, TypeInv
<1>0. pindexBest = dbBest
  BY DEF Database, CommittedInv, SetBestChain, InTxn
<1>1. /\ UNCHANGED <<dbTx, dbBest, broke>>
      /\ baTx' = dbTx /\ queued' = dbTx /\ cur' = dbBest
      /\ pc' = IF dbBest \in Anc[goal'] THEN "connect" ELSE "disconnect"
      /\ ntx' = IF dbBest \in Anc[goal'] THEN 0 ELSE Len(vtx[dbBest])
  BY <1>0 DEF SetBestChain, memVars, dbVars, TxnBegin
<1>2. Matches(Replay[dbBest], dbTx) /\ dbBest \in Block
  BY DEF Replayed, TypeOK
<1>3. goal' \in Block
  BY AncFacts DEF SetBestChain, TypeOK
<1>4. pc' = "disconnect" => Matches(ReplayTo(dbBest, ntx'), dbTx)
  <2>1. ASSUME pc' = "disconnect" PROVE dbBest # Genesis /\ ntx' = Len(vtx[dbBest])
    BY <2>1, <1>1, <1>3, AncFacts
  <2> QED BY <1>2, <2>1, WholeBlockMatches
<1>5. ASSUME pc' = "connect", NEW b \in Anc[goal'] \ {Genesis}, Prev[b] = dbBest
      PROVE  Matches(ReplayTo(b, ntx'), dbTx)
  <2>1. b \in Block /\ ntx' = 0
    BY <1>1, <1>3, <1>5, AncFacts
  <2> QED BY <1>2, <1>5, <2>1, WholeBlockMatches
<1> QED BY <1>1, <1>2, <1>4, <1>5 DEF Replayed

(* The replay and the index agree at every step.                           *)
LEMMA NextReplayed == Inv /\ Replayed /\ [Next]_vars => Replayed'
<1> SUFFICES ASSUME Inv, Replayed, [Next]_vars PROVE Replayed'
  OBVIOUS
<1>1. ASSUME NEW b \in Block \ {Genesis}, AddToBlockIndex(b) PROVE Replayed'
  BY <1>1 DEF AddToBlockIndex, Replayed
<1>2. ASSUME NEW b \in Block \ {Genesis}, ConnectFails(b) PROVE Replayed'
  BY <1>2 DEF ConnectFails, dbVars, Replayed
<1>3. ASSUME CrashAndLoadBlockIndex PROVE Replayed'
  BY <1>3 DEF CrashAndLoadBlockIndex, dbVars, Replayed
<1>4. ASSUME UNCHANGED vars PROVE Replayed'
  BY <1>4 DEF vars, dbVars, batchVars, ctlVars, Replayed
<1> QED BY <1>1, <1>2, <1>3, <1>4, SetBestReplayed, DisconnectTxReplayed,
           DisconnectBlockReplayed, ConnectTxReplayed, ConnectBlockReplayed,
           CommitReplayed DEF Next

-----------------------------------------------------------------------------
(* The money supply.  index records on all of the chain to c the value of  *)
(* the coins there were.                                                   *)
SuppliesOf(index, c) == \A a \in Anc[c] : index[a].supply = SupplyAt(a)

Supplies ==
  ~broke =>
    /\ SuppliesOf(pindex, dbBest)
    /\ SuppliesOf(dbIndex, dbBest)
    /\ InTxn => SuppliesOf(pindex, cur) /\ SuppliesOf(baIndex, cur)

(* Every step keeps nMoneySupply right on the committed chain and on the   *)
(* one the batch describes.                                                *)
LEMMA NextSupplies == Inv /\ Replayed /\ Supplies /\ [Next]_vars => Supplies'
<1> SUFFICES ASSUME Inv, Replayed, Supplies, [Next]_vars, ~broke' PROVE Supplies'
  BY DEF Supplies
<1> USE DEF Inv, TypeInv
<1>1. ASSUME NEW b \in Block \ {Genesis}, AddToBlockIndex(b) PROVE Supplies'
  <2>1. b \notin Anc[dbBest] /\ Anc[dbBest] \subseteq Block
    BY <1>1, AncFacts DEF Index, AddToBlockIndex, TypeOK
  <2>2. \A a \in Anc[dbBest] : pindex'[a] = pindex[a] /\ dbIndex'[a] = dbIndex[a]
    BY <1>1, <2>1 DEF AddToBlockIndex, TypeOK
  <2> QED BY <1>1, <2>2 DEF AddToBlockIndex, Supplies, SuppliesOf, InTxn
<1>2. ASSUME SetBestChain PROVE Supplies'
  <2>1. ~broke /\ UNCHANGED <<pindex, dbIndex, dbBest>> /\ baIndex' = dbIndex /\ cur' = pindexBest
    BY <1>2 DEF SetBestChain, memVars, dbVars, TxnBegin
  <2>2. pindexBest = dbBest
    BY <1>2, <2>1 DEF Database, CommittedInv, SetBestChain, InTxn
  <2> QED BY <2>1, <2>2 DEF Supplies, SuppliesOf
<1>3. ASSUME DisconnectTx PROVE Supplies'
  BY <1>3 DEF DisconnectTx, memVars, dbVars, Supplies, SuppliesOf, InTxn
<1>4. ASSUME DisconnectBlock PROVE Supplies'
  <2> DEFINE p == Prev[cur]
  <2>1. /\ ~broke /\ UNCHANGED <<pindex, dbIndex, dbBest>> /\ pc = "disconnect" /\ cur' = p
        /\ baIndex' = [baIndex EXCEPT ![p] = [pindex[p] EXCEPT !.next = None]]
    BY <1>4 DEF DisconnectBlock, memVars, dbVars
  <2>2. cur \in Block \ {Genesis}
    BY <2>1, AncFacts DEF Control, TypeOK
  <2>3. p \in Anc[cur] /\ Anc[p] \subseteq Anc[cur] /\ Anc[cur] \subseteq Block
    BY <2>2, AncFacts
  <2>4. SuppliesOf(pindex, cur) /\ SuppliesOf(baIndex, cur)
    BY <2>1 DEF Supplies, InTxn
  <2> HIDE DEF p
  <2>5. \A a \in Anc[cur] : baIndex'[a].supply = IF a = p THEN pindex[p].supply ELSE baIndex[a].supply
    BY <2>1, <2>3 DEF TypeOK, IndexEntryType
  <2> QED BY <2>1, <2>3, <2>4, <2>5 DEF Supplies, SuppliesOf
<1>5. ASSUME NEW b \in Block \ {Genesis}, ConnectTx(b) PROVE Supplies'
  BY <1>5 DEF ConnectTx, Connecting, memVars, dbVars, Supplies, SuppliesOf, InTxn
<1>6. ASSUME NEW b \in Block \ {Genesis}, ConnectBlock(b) PROVE Supplies'
  <2> DEFINE s == pindex[cur].supply + SupplyChange(b)
  <2>1. /\ ~broke /\ UNCHANGED <<dbIndex, dbBest>>
        /\ pc = "connect" /\ Prev[b] = cur /\ cur' = b
        /\ pindex' = [pindex EXCEPT ![b].supply = s]
        /\ baIndex' = [baIndex EXCEPT ![b] = [pindex[b] EXCEPT !.supply = s],
                                      ![cur] = [pindex[cur] EXCEPT !.next = b]]
    BY <1>6 DEF ConnectBlock, Connecting, dbVars
  <2>2. /\ cur \in Anc[cur] /\ Anc[b] = Anc[cur] \cup {b} /\ b # cur
        /\ Anc[cur] \subseteq Block /\ Anc[dbBest] \subseteq Block
    BY <2>1, AncFacts DEF TypeOK
  <2>3. SuppliesOf(pindex, cur) /\ SuppliesOf(baIndex, cur) /\ SuppliesOf(pindex, dbBest)
        /\ SuppliesOf(dbIndex, dbBest)
    BY <2>1 DEF Supplies, InTxn
  <2>4. s = SupplyAt(b)
    <3>1. Replay[b].ok
      BY <1>6, <2>1, ConnectBlockMatches DEF Matches
    <3>2. pindex[cur].supply = SupplyAt(cur)
      BY <2>2, <2>3 DEF SuppliesOf
    <3> QED BY <2>1, <3>1, <3>2, SupplyOfChain
  <2>5. s \in Int
    <3>1. pindex[cur].supply \in Int /\ SupplyChange(b) \in Int
      BY SupplySteps DEF TypeOK, IndexEntryType
    <3> QED BY <3>1
  <2> HIDE DEF s
  <2>6. \A a \in Block : pindex'[a].supply = IF a = b THEN s ELSE pindex[a].supply
    BY <2>1, <2>5 DEF TypeOK, IndexEntryType
  <2>7. \A a \in Block : baIndex'[a].supply = IF a = b THEN s
                                              ELSE IF a = cur THEN pindex[cur].supply
                                              ELSE baIndex[a].supply
    <3>1. [pindex[b] EXCEPT !.supply = s].supply = s
      BY <2>5 DEF TypeOK, IndexEntryType
    <3>2. [pindex[cur] EXCEPT !.next = b].supply = pindex[cur].supply
      BY DEF TypeOK, IndexEntryType
    <3>3. \A a \in Block : baIndex'[a] = IF a = cur THEN [pindex[cur] EXCEPT !.next = b]
                                         ELSE IF a = b THEN [pindex[b] EXCEPT !.supply = s]
                                         ELSE baIndex[a]
      BY <2>1, <2>2 DEF TypeOK
    <3> QED BY <2>2, <3>1, <3>2, <3>3
  <2>8. SuppliesOf(pindex', dbBest) /\ SuppliesOf(pindex', b)
    BY <2>2, <2>3, <2>4, <2>6 DEF SuppliesOf
  <2>9. SuppliesOf(baIndex', b)
    BY <2>2, <2>3, <2>4, <2>7 DEF SuppliesOf
  <2> QED BY <2>1, <2>3, <2>8, <2>9 DEF Supplies, SuppliesOf
<1>7. ASSUME NEW b \in Block \ {Genesis}, ConnectFails(b) PROVE Supplies'
  BY <1>7 DEF ConnectFails, dbVars, Supplies, SuppliesOf, InTxn
<1>8. ASSUME Commit PROVE Supplies'
  <2> DEFINE from == IF stage = "reorg" THEN pindexBest ELSE Prev[goal]
  <2>1. /\ ~broke /\ pc = "commit" /\ cur = goal /\ cur' = cur /\ baIndex' = baIndex
        /\ dbIndex' = baIndex /\ dbBest' = goal /\ pindex' = Relink(from, goal)
    BY <1>8 DEF Commit, Control
  <2>2. SuppliesOf(pindex, cur) /\ SuppliesOf(baIndex, cur) /\ Anc[cur] \subseteq Block
    BY <2>1, AncFacts DEF Supplies, InTxn, TypeOK
  <2>3. \A a \in Block : Relink(from, goal)[a].supply = pindex[a].supply
    <3>1. \A a \in Block : pindex[a] \in IndexEntryType
      BY DEF TypeOK
    <3> QED BY <3>1 DEF Relink, IndexEntryType
  <2> HIDE DEF from
  <2> QED BY <2>1, <2>2, <2>3 DEF Supplies, SuppliesOf
<1>9. ASSUME CrashAndLoadBlockIndex PROVE Supplies'
  BY <1>9 DEF CrashAndLoadBlockIndex, dbVars, Supplies, SuppliesOf, InTxn
<1>10. ASSUME UNCHANGED vars PROVE Supplies'
  BY <1>10 DEF vars, memVars, dbVars, batchVars, ctlVars, Supplies, SuppliesOf, InTxn
<1> QED BY <1>1, <1>2, <1>3, <1>4, <1>5, <1>6, <1>7, <1>8, <1>9, <1>10 DEF Next

-----------------------------------------------------------------------------
(* Until the first crash the best block is the heaviest valid one, but for *)
(* the block that SetBestChain is about to try; in particular a branch is  *)
(* always connected to its end in one transaction.                         *)
Heaviest ==
  nCrash = 0 =>
    /\ ~broke
    /\ stage # "second"
    /\ \A b \in mapBlockIndex :
         Replay[b].ok => ChainTrust[b] <= ChainTrust[pindexBest] \/ (pc # "idle" /\ b = target)

(* What ConnectBlock refuses, the replay refuses.                          *)
LEMMA ConnectFailsInvalid ==
  ASSUME Inv, Replayed, NEW b \in Block \ {Genesis}, ConnectFails(b), ~broke
  PROVE  ~Replay[b].ok
<1> USE DEF Inv, TypeInv
<1>1. /\ pc = "connect" /\ b \in Anc[goal] \ {Genesis} /\ Prev[b] = cur
      /\ \/ ntx < Len(vtx[b]) /\ ~TxConnects(vtx[b][ntx + 1], b)
         \/ ntx = Len(vtx[b]) /\ b \in BadBlock
  BY DEF ConnectFails, Connecting
<1>2. CASE b \in BadBlock
  BY <1>2, ReplayToSteps
<1>3. CASE ntx < Len(vtx[b]) /\ ~TxConnects(vtx[b][ntx + 1], b)
  <2> SUFFICES ASSUME Replay[b].ok PROVE FALSE
    OBVIOUS
  <2> DEFINE t == vtx[b][ntx + 1]
             n == Connected(cur, b, ntx)
             u == ReplayTo(b, ntx)
  <2>1. ntx \in 0 .. Len(vtx[b]) /\ ntx \in Nat /\ ntx + 1 \in 1 .. Len(vtx[b])
        /\ ntx + 1 \in 0 .. Len(vtx[b]) /\ cur \in Block
        /\ queued \in TxIndexType /\ baTx \in TxIndexType
    BY <1>3, VtxType DEF TypeOK
  <2>2. n \in Counts /\ n[b] = ntx
    BY <2>1, ConnectedCounts
  <2>3. TipIs(n, b)
    BY <1>1, <2>1, ConnectedChild
  <2>4. Describes(queued, n)
    BY <1>1 DEF Database, BatchInv
  <2>5. Matches(u, queued)
    BY <1>1 DEF Replayed
  <2>6. ReplayTx(u, t, b).ok
    <3>1. ReplayTo(b, ntx + 1).ok
      BY <2>1, ReplayFailed
    <3>2. \A k \in 1 .. Len(vtx[b]) :
            ReplayTo(b, k) = ReplayTx(ReplayTo(b, k - 1), vtx[b][k], b)
      BY ReplayToSteps
    <3>3. (ntx + 1) - 1 = ntx
      BY <2>1
    <3> QED BY <2>1, <3>1, <3>2, <3>3
  <2>7. t \in Tx
    BY <2>1, VtxType
  <2> HIDE DEF n, u
  <2>8. t = vtx[b][n[b] + 1] /\ n[b] < Len(vtx[b])
    BY <1>3, <2>2
  <2> HIDE DEF t
  <2>9. t \notin BadTx /\ (\A o \in vin[t] : InputOk(queued, o, b)) /\ queued.pos[t] = None
    BY <2>1, <2>2, <2>3, <2>4, <2>5, <2>6, <2>8, ReplayAccepts
  <2>10. ASSUME baTx.pos[t] # None PROVE FALSE
    <3> DEFINE m == Connected(cur, None, 0)
               a == baTx.pos[t]
    <3>1. Describes(baTx, m)
      BY <1>1 DEF Database, BatchInv, IsIndexOf
    <3>2. PICK i \in 1 .. m[a] : vtx[a][i] = t
      BY <2>7, <2>10, <3>1 DEF Describes, OnlyRecordsOf
    <3>3. a \in Block
      BY <2>1, <2>7, <2>10 DEF TxIndexType
    <3> HIDE DEF a
    <3>4. a \in Anc[cur] \ {Genesis} /\ m[a] = Len(vtx[a])
      BY <3>2, <3>3, TreeAssumption DEF Connected
    <3>5. a # b
      BY <1>1, <3>4, AncFacts
    <3>6. n[a] = Len(vtx[a])
      BY <3>3, <3>4, <3>5 DEF n, Connected
    <3>7. queued.pos[t] = a
      BY <2>4, <3>2, <3>3, <3>4, <3>6 DEF Describes, RecordsOf
    <3> QED BY <2>9, <3>3, <3>7, TreeAssumption
  <2> QED BY <1>3, <2>9, <2>10 DEF TxConnects, Overwrites, t
<1> QED BY <1>1, <1>2, <1>3

(* Every step but a crash keeps the best block the heaviest valid one.     *)
LEMMA NextHeaviest == Inv /\ Replayed /\ Heaviest /\ [Next]_vars => Heaviest'
<1> SUFFICES ASSUME Inv, Replayed, Heaviest, [Next]_vars, nCrash' = 0 PROVE Heaviest'
  BY DEF Heaviest
<1> USE DEF Inv, TypeInv
<1>0. /\ mapBlockIndex \subseteq Block /\ pindexBest \in Block /\ target \in Block
      /\ \A x \in Block : ChainTrust[x] \in Nat
  BY TreeAssumption DEF TypeOK
<1>1. ASSUME NEW b \in Block \ {Genesis}, AddToBlockIndex(b) PROVE Heaviest'
  <2>1. /\ nCrash = 0 /\ pc = "idle" /\ target' = b /\ mapBlockIndex' = mapBlockIndex \cup {b}
        /\ pc' = IF ChainTrust[b] > ChainTrust[pindexBest] THEN "set" ELSE "idle"
        /\ UNCHANGED <<pindexBest, stage, nCrash, broke>>
    BY <1>1 DEF AddToBlockIndex
  <2> QED BY <1>0, <2>1 DEF Heaviest
<1>2. ASSUME SetBestChain PROVE Heaviest'
  BY <1>2 DEF SetBestChain, memVars, Heaviest
<1>3. ASSUME DisconnectTx PROVE Heaviest'
  BY <1>3 DEF DisconnectTx, memVars, Heaviest
<1>4. ASSUME DisconnectBlock PROVE Heaviest'
  BY <1>4 DEF DisconnectBlock, memVars, Heaviest
<1>5. ASSUME NEW b \in Block \ {Genesis}, ConnectTx(b) PROVE Heaviest'
  BY <1>5 DEF ConnectTx, memVars, Heaviest
<1>6. ASSUME NEW b \in Block \ {Genesis}, ConnectBlock(b) PROVE Heaviest'
  BY <1>6 DEF ConnectBlock, Connecting, Heaviest
<1>7. ASSUME NEW b \in Block \ {Genesis}, ConnectFails(b) PROVE Heaviest'
  <2>0. nCrash = 0 /\ ~broke /\ stage # "second"
    BY <1>7 DEF ConnectFails, Heaviest
  <2>1. nCrash = 0 /\ ~broke /\ stage # "second" /\ pc = "connect" /\ ~broke'
        /\ UNCHANGED <<mapBlockIndex, pindexBest, stage>>
    BY <1>7, <2>0 DEF ConnectFails, Connecting
  <2>2. ~Replay[b].ok
    BY <1>7, <2>1, ConnectFailsInvalid
  <2>3. b \in Anc[target]
    <3>1. b \in Anc[goal] /\ goal \in Anc[target]
      BY <1>7, <2>1 DEF ConnectFails, Connecting, Control, InTxn
    <3> QED BY <1>0, <3>1, TreeAssumption
  <2>4. ~Replay[target].ok
    BY <1>0, <2>2, <2>3, ReplayOkBelow
  <2> QED BY <2>1, <2>4 DEF Heaviest
<1>8. ASSUME Commit PROVE Heaviest'
  <2>1. nCrash = 0 /\ ~broke /\ stage # "second" /\ pc = "commit" /\ cur = goal
        /\ UNCHANGED <<mapBlockIndex, broke>>
    BY <1>8 DEF Commit, Heaviest, Control
  <2>2. ChainTrust[goal] > ChainTrust[pindexBest] /\ goal \in Block
    BY <2>1 DEF Trust, InTxn, TypeOK
  <2>3. Replay[goal].ok
    BY <2>1 DEF Replayed, Matches
  <2>4. goal \in mapBlockIndex
    BY <2>1 DEF Index, Control, InTxn
  <2>5. goal = target
    BY <1>0, <2>1, <2>2, <2>3, <2>4 DEF Heaviest
  <2>6. pindexBest' = target /\ pc' = "idle" /\ stage' = stage
    BY <1>8, <2>5 DEF Commit
  <2>7. ASSUME NEW b \in mapBlockIndex, Replay[b].ok PROVE ChainTrust[b] <= ChainTrust[target]
    <3>1. ChainTrust[b] <= ChainTrust[pindexBest] \/ b = target
      BY <2>1, <2>7 DEF Heaviest
    <3> QED BY <1>0, <2>2, <2>5, <3>1
  <2> QED BY <2>1, <2>6, <2>7 DEF Heaviest
<1>9. ASSUME CrashAndLoadBlockIndex PROVE Heaviest'
  BY <1>9 DEF CrashAndLoadBlockIndex, TypeOK
<1>10. ASSUME UNCHANGED vars PROVE Heaviest'
  BY <1>10 DEF vars, memVars, ctlVars, Heaviest
<1> QED BY <1>1, <1>2, <1>3, <1>4, <1>5, <1>6, <1>7, <1>8, <1>9, <1>10 DEF Next

ReplayInv == Inv /\ Replayed /\ Supplies /\ Heaviest

(* The agreement with the replay, and the choice of the best block, hold   *)
(* in every state of the node.                                             *)
LEMMA AlwaysReplayInv == Spec => []ReplayInv
<1>1. Init => ReplayInv
  <2> SUFFICES ASSUME Init PROVE ReplayInv
    OBVIOUS
  <2>1. Inv /\ Replayed
    BY InitType, InitDatabase, InitReplayed DEF Inv
  <2>2. Supplies
    BY SupplyOfChain, TreeAssumption DEF Init, NewIndexEntry, Supplies, SuppliesOf, InTxn
  <2>3. Heaviest
    BY TreeAssumption DEF Init, Heaviest
  <2> QED BY <2>1, <2>2, <2>3 DEF ReplayInv
<1>2. ReplayInv /\ [Next]_vars => ReplayInv'
  BY NextInv, NextReplayed, NextSupplies, NextHeaviest DEF ReplayInv
<1> QED BY <1>1, <1>2, PTL DEF Spec

-----------------------------------------------------------------------------
(* The theorems.                                                           *)

(* Every variable of the chain code keeps its type.                        *)
THEOREM TypeCorrect == Spec => []TypeOK
<1>1. Inv => TypeOK
  BY DEF Inv, TypeInv
<1> QED BY <1>1, AlwaysInv, PTL

(* Whatever the branches, the failing blocks and the crashes, the index    *)
(* that ConnectBlock and DisconnectBlock leave in the database is the one  *)
(* of the committed best chain.                                            *)
THEOREM LedgerCorrect == Spec => []LedgerExact
<1>1. Inv => LedgerExact
  BY DEF Inv, Database, CommittedInv, LedgerExact
<1> QED BY <1>1, AlwaysInv, PTL

(* pnext and hashNext, which Reorganize and SetBestChainInner maintain in  *)
(* memory and on disk, trace the committed best chain.                     *)
THEOREM LinksCorrect == Spec => []LinksExact
<1>1. Inv => LinksExact
  BY DEF Inv, Database, CommittedInv, LinksExact
<1> QED BY <1>1, AlwaysInv, PTL

(* Between two calls of SetBestChain memory and database agree on the best *)
(* block, unless the loop over vpindexSecondary has broken off.            *)
THEOREM BestAgrees == Spec => []BestOnDiskUnlessBroke
<1>1. Inv => BestOnDiskUnlessBroke
  BY DEF Inv, Database, CommittedInv, InTxn, BestOnDisk, BestOnDiskUnlessBroke
<1> QED BY <1>1, AlwaysInv, PTL

(* ConnectInputs admits no double spend to the best chain, and no spend of *)
(* an output before its creation.                                          *)
THEOREM SpentOnceCorrect == Spec => []SpentOnce
<1>1. ASSUME Inv PROVE SpentOnce
  <2> SUFFICES ASSUME ~broke,
                      NEW b1 \in Anc[dbBest] \ {Genesis}, NEW b2 \in Anc[dbBest] \ {Genesis},
                      NEW i \in 1 .. Len(vtx[b1]), NEW j \in 1 .. Len(vtx[b2])
               PROVE  /\ <<b1, i>> # <<b2, j>> => vin[vtx[b1][i]] \cap vin[vtx[b2][j]] = {}
                      /\ (\E o \in vin[vtx[b2][j]] : o[1] = vtx[b1][i]) =>
                           Height[b1] < Height[b2] \/ (b1 = b2 /\ i < j)
    BY DEF SpentOnce
  <2> DEFINE n == Connected(dbBest, None, 0)
  <2>1. dbBest \in Block /\ dbTx \in TxIndexType /\ Describes(dbTx, n)
    BY <1>1 DEF Inv, TypeInv, TypeOK, Database, CommittedInv, IsIndexOf
  <2>2. b1 \in Block /\ b2 \in Block
    BY <2>1, AncFacts
  <2>3. n[b1] = Len(vtx[b1]) /\ n[b2] = Len(vtx[b2])
    BY <2>2, TreeAssumption DEF Connected
  <2> HIDE DEF n
  <2>4. dbTx.pos[vtx[b1][i]] = b1 /\ dbTx.pos[vtx[b2][j]] = b2
    BY <2>1, <2>2, <2>3 DEF Describes, RecordsOf
  <2>5. \A o \in vin[vtx[b1][i]] : dbTx.vSpent[o] = vtx[b1][i]
    BY <2>1, <2>2, <2>3 DEF Describes, InputsOf
  <2>6. \A o \in vin[vtx[b2][j]] :
          /\ dbTx.vSpent[o] = vtx[b2][j]
          /\ dbTx.pos[o[1]] \in Anc[b2]
          /\ dbTx.pos[o[1]] = b2 => \E k \in 1 .. j - 1 : vtx[b2][k] = o[1]
    BY <2>1, <2>2, <2>3 DEF Describes, InputsOf
  <2>7. ASSUME NEW o \in vin[vtx[b1][i]] \cap vin[vtx[b2][j]]
        PROVE  <<b1, i>> = <<b2, j>>
    <3>1. vtx[b1][i] = vtx[b2][j]
      BY <2>5, <2>6
    <3>2. b1 = b2
      BY <2>4, <3>1
    <3> QED BY <2>2, <3>1, <3>2, VtxType
  <2>8. ASSUME NEW o \in vin[vtx[b2][j]], o[1] = vtx[b1][i]
        PROVE  Height[b1] < Height[b2] \/ (b1 = b2 /\ i < j)
    <3>1. b1 \in Anc[b2]
      BY <2>4, <2>6, <2>8
    <3>2. b1 = b2 \/ Height[b1] < Height[b2]
      BY <2>2, <3>1, TreeAssumption
    <3>3. ASSUME b1 = b2 PROVE i < j
      <4>1. PICK k \in 1 .. j - 1 : vtx[b2][k] = vtx[b1][i]
        BY <2>4, <2>6, <2>8, <3>3
      <4>2. k = i
        BY <2>2, <3>3, <4>1, VtxType
      <4> QED BY <4>1, <4>2
    <3> QED BY <3>2, <3>3
  <2> QED BY <2>7, <2>8
<1> QED BY <1>1, AlwaysInv, PTL

(* A commit of SetBestChain moves the database to a heavier chain.         *)
LEMMA CommitHeavier ==
  ASSUME Inv, Commit
  PROVE  ChainTrust[goal] > ChainTrust[dbBest]
<1> USE DEF Inv, TypeInv
<1>1. pc = "commit" /\ goal \in Block \ {Genesis} /\ dbBest \in Block /\ pindexBest \in Block
  BY AncFacts DEF Commit, Control, InTxn, TypeOK
<1>2. CASE stage = "second"
  <2>1. dbBest \in Anc[goal] /\ dbBest # goal
    BY <1>1, <1>2, AncFacts DEF Control, InTxn
  <2> QED BY <1>1, <2>1, TrustGrows
<1>3. CASE stage # "second"
  <2>1. ChainTrust[goal] > ChainTrust[pindexBest] /\ ChainTrust[dbBest] <= ChainTrust[pindexBest]
    BY <1>1, <1>3 DEF Trust, InTxn
  <2>2. ChainTrust[goal] \in Nat /\ ChainTrust[pindexBest] \in Nat /\ ChainTrust[dbBest] \in Nat
    BY <1>1, TreeAssumption
  <2> QED BY <2>1, <2>2
<1> QED BY <1>2, <1>3

(* No other step changes what the ledger is.                               *)
LEMMA OnlyCommit ==
  ASSUME [Next]_vars, ~Commit
  PROVE  UNCHANGED <<dbBest, dbTx>>
BY DEF Next, AddToBlockIndex, SetBestChain, DisconnectTx, DisconnectBlock, ConnectTx,
       ConnectBlock, ConnectFails, CrashAndLoadBlockIndex, vars, dbVars

(* The committed best chain is never replaced by a lighter one, not even   *)
(* after the loop over vpindexSecondary has broken off.                    *)
THEOREM NeverLighterCorrect == Spec => NeverLighter
<1>1. ASSUME Inv, [Next]_vars
      PROVE  [dbBest' # dbBest => ChainTrust[dbBest'] > ChainTrust[dbBest]]_vars
  <2>1. CASE Commit
    <3>1. dbBest' = goal
      BY <2>1 DEF Commit
    <3> QED BY <1>1, <2>1, <3>1, CommitHeavier
  <2>2. CASE ~Commit
    BY <1>1, <2>2, OnlyCommit
  <2> QED BY <2>1, <2>2
<1> QED BY <1>1, AlwaysInv, PTL DEF Spec, NeverLighter

(* The database implements the ledger as long as every postponed block     *)
(* connects: chains replace each other whole.                              *)
THEOREM LedgerRefinement == Spec /\ []~broke => ImplementsLedger
<1>1. Init => Abs!LedgerInit
  BY DEF Init, Abs!LedgerInit, EmptyTxIndex, Abs!EmptyTxIndex
<1>2. ASSUME Inv, ~broke, [Next]_vars
      PROVE  [Abs!LedgerNext]_<<dbBest, dbTx>>
  <2>1. CASE Commit
    <3>1. dbBest' = goal /\ dbTx' = baTx /\ pc = "commit" /\ goal \in Block
      BY <1>2, <2>1 DEF Commit, Inv, TypeInv, TypeOK
    <3>2. ChainTrust[goal] > ChainTrust[dbBest]
      BY <1>2, <2>1, CommitHeavier
    <3>3. baTx \in TxIndexType /\ IsIndexOf(baTx, goal)
      BY <1>2, <3>1 DEF Inv, TypeInv, TypeOK, Control, Database, BatchInv
    <3>4. Abs!Advance(goal)
      BY <3>1, <3>2, <3>3 DEF Abs!Advance, Abs!TxIndexType, TxIndexType, Abs!IsIndexOf,
         IsIndexOf, Abs!Describes, Describes, Abs!RecordsOf, RecordsOf, Abs!OnlyRecordsOf,
         OnlyRecordsOf, Abs!InputsOf, InputsOf, Abs!OnlyInputsOf, OnlyInputsOf,
         Abs!Connected, Connected
    <3> QED BY <3>1, <3>4 DEF Abs!LedgerNext
  <2>2. CASE ~Commit
    BY <1>2, <2>2, OnlyCommit
  <2> QED BY <2>1, <2>2
<1> QED BY <1>1, <1>2, AlwaysInv, PTL DEF Spec, ImplementsLedger, Abs!LedgerSpec

(* DisconnectBlock and ConnectBlock leave in the database the coins that a *)
(* replay of the best chain from the genesis block leaves, and             *)
(* nMoneySupply is their value: validity and supply do not depend on how   *)
(* the node got to its best chain, through which reorganizations, failed   *)
(* branches and crashes.                                                   *)
THEOREM ReplayCorrect == Spec => []IndexMatchesReplay
<1>1. ASSUME ReplayInv PROVE IndexMatchesReplay
  <2> SUFFICES ASSUME ~broke PROVE IndexMatchesReplay
    BY DEF IndexMatchesReplay, CoinsMatchReplay, SupplyIsUnspent
  <2>1. Matches(Replay[dbBest], dbTx)
    BY <1>1 DEF ReplayInv, Replayed
  <2>2. Replay[dbBest] = [ok |-> TRUE, coins |-> CoinsIn(dbTx)]
    <3>1. ASSUME NEW u \in ReplayType, u.ok
          PROVE  u = [ok |-> TRUE, coins |-> u.coins]
      <4>1. u.ok = TRUE
        BY <3>1, Zenon DEF ReplayType
      <4> QED BY <4>1 DEF ReplayType
    <3> QED BY <2>1, <3>1 DEF Matches
  <2>3. dbBest \in Anc[dbBest]
    BY <1>1, AncFacts DEF ReplayInv, Inv, TypeInv, TypeOK
  <2>4. SupplyIsUnspent
    BY <1>1, <2>3 DEF ReplayInv, Supplies, SuppliesOf, SupplyIsUnspent
  <2> QED BY <2>2, <2>4 DEF IndexMatchesReplay, CoinsMatchReplay
<1> QED BY <1>1, AlwaysReplayInv, PTL

(* A node that has not crashed has the heaviest valid block it knows of    *)
(* for its best block whenever AddToBlockIndex has returned, although a    *)
(* failed branch is never tried again, and it has connected every branch   *)
(* in one transaction.                                                     *)
THEOREM HeaviestValidCorrect == Spec => []BestIsHeaviestValid
<1>1. ASSUME ReplayInv PROVE BestIsHeaviestValid
  BY <1>1 DEF ReplayInv, Heaviest, BestIsHeaviestValid, BreaksOnlyAfterCrash, Inv, TypeInv, TypeOK
<1> QED BY <1>1, AlwaysReplayInv, PTL

-----------------------------------------------------------------------------
(* The holding area for orphans.                                           *)

(* Any block but the genesis block may come as an orphan.                  *)
Orphanable == Block \ {Genesis}

(* What ProcessBlock works on is never the genesis block, and no stake is  *)
(* remembered for an orphan that is gone.                                  *)
ProcInv ==
  /\ mapOrphanBlocks \subseteq Orphanable
  /\ mapOrphanBlocksByPrev \subseteq Orphanable
  /\ pblock \in Block
  /\ ppc # "idle" => pblock \in Orphanable
  /\ OrphanStakesHeld

(* Every step of ProcessBlock, its orphans included, is a step of          *)
(* BlockChain or a stutter: the holding area never reaches into the chain. *)
LEMMA ProcStep == ProcInv /\ [ProcNext]_allVars => [Next]_vars
<1> SUFFICES ASSUME ProcInv, [ProcNext]_allVars PROVE [Next]_vars
  OBVIOUS
<1>1. ASSUME NEW b \in Block \ {Genesis}, ProcessBlock(b) PROVE [Next]_vars
  BY <1>1 DEF ProcessBlock
<1>2. CASE PruneOrphanBlock
  BY <1>2 DEF PruneOrphanBlock
<1>3. CASE AddOrphanBlock
  BY <1>3 DEF AddOrphanBlock
<1>4. CASE AcceptBlock
  BY <1>4 DEF AcceptBlock, Next, ProcInv, Orphanable
<1>5. CASE AcceptReturns
  BY <1>5 DEF AcceptReturns
<1>6. CASE AcceptOrphan
  BY <1>6 DEF AcceptOrphan
<1>7. CASE NextInQueue
  BY <1>7 DEF NextInQueue
<1>8. CASE ChainStep
  BY <1>8 DEF ChainStep, HandlerStep, Next
<1>9. CASE CrashAndRestart
  BY <1>9 DEF CrashAndRestart, Next
<1>10. CASE UNCHANGED allVars
  BY <1>10 DEF allVars
<1> QED BY <1>1, <1>2, <1>3, <1>4, <1>5, <1>6, <1>7, <1>8, <1>9, <1>10
         DEF ProcNext, ProcessStep

(* No block above the best one is the genesis block.                       *)
LEMMA AboveBest ==
  ASSUME NEW c \in Block, NEW b \in Block, Height[b] > Height[c]
  PROVE  b # Genesis
<1>1. Genesis \in Anc[c] /\ Height[c] \in Nat /\ Height[Genesis] \in Nat
  BY TreeAssumption
<1>2. Height[Genesis] <= Height[c]
  BY <1>1, TreeAssumption
<1> QED BY <1>1, <1>2

(* An orphan that is dropped takes its stake with it and no other orphan's.*)
LEMMA ForgetStake ==
  ASSUME OrphanStakesHeld, NEW o,
         mapOrphanBlocks' = mapOrphanBlocks \ {o},
         setStakeSeenOrphan' = setStakeSeenOrphan \ {Stake[o]}
  PROVE  OrphanStakesHeld'
  BY DEF OrphanStakesHeld, StakesOf

(* ProcessBlock, the orphan loops and a restart keep ProcInv.              *)
LEMMA ProcInvStep == TypeInv /\ ProcInv /\ [ProcNext]_allVars => ProcInv'
<1> SUFFICES ASSUME TypeInv, ProcInv, [ProcNext]_allVars PROVE ProcInv'
  OBVIOUS
<1> USE DEF ProcInv
<1>1. ASSUME NEW b \in Block \ {Genesis}, ProcessBlock(b) PROVE ProcInv'
  BY <1>1 DEF ProcessBlock, orphanVars, Orphanable, OrphanStakesHeld, StakesOf
<1>2. CASE PruneOrphanBlock
  <2>1. OrphanStakesHeld'
    BY <1>2, ForgetStake DEF PruneOrphanBlock
  <2> QED BY <1>2, <2>1 DEF PruneOrphanBlock, procVars
<1>3. CASE AddOrphanBlock
  <2>1. OrphanStakesHeld'
    BY <1>3 DEF AddOrphanBlock, OrphanStakesHeld, StakesOf
  <2> QED BY <1>3, <2>1 DEF AddOrphanBlock
<1>4. CASE AcceptBlock
  <2>1. OrphanStakesHeld'
    BY <1>4 DEF AcceptBlock, orphanVars, OrphanStakesHeld, StakesOf
  <2> QED BY <1>4, <2>1 DEF AcceptBlock, orphanVars
<1>5. CASE AcceptReturns
  <2>1. CASE vWorkQueue = <<>>
    BY <1>5, <2>1 DEF AcceptReturns, orphanVars, OrphanStakesHeld, StakesOf
  <2>2. CASE vWorkQueue # <<>>
    <3>1. ForgetOrphan(pblock) /\ pblock' = pblock /\ ppc # "idle"
      BY <1>5, <2>2 DEF AcceptReturns
    <3>2. OrphanStakesHeld'
      BY <3>1, ForgetStake DEF ForgetOrphan
    <3> QED BY <3>1, <3>2 DEF ForgetOrphan
  <2> QED BY <2>1, <2>2
<1>6. CASE AcceptOrphan
  <2>1. OrphanStakesHeld'
    BY <1>6 DEF AcceptOrphan, orphanVars, OrphanStakesHeld, StakesOf
  <2>2. pblock' \in Orphanable
    BY <1>6 DEF AcceptOrphan
  <2> QED BY <1>6, <2>1, <2>2 DEF AcceptOrphan, orphanVars, Orphanable
<1>7. CASE NextInQueue
  <2>1. OrphanStakesHeld'
    BY <1>7 DEF NextInQueue, OrphanStakesHeld, StakesOf
  <2> QED BY <1>7, <2>1 DEF NextInQueue
<1>8. CASE ChainStep
  BY <1>8 DEF ChainStep, orphanVars, procVars, OrphanStakesHeld, StakesOf
<1>9. CASE CrashAndRestart
  <2>1. dbBest \in Block /\ dbBlocks \subseteq Block
    BY DEF TypeInv, TypeOK
  <2>2. {b \in dbBlocks : Height[b] > Height[dbBest]} \subseteq Orphanable
    BY <2>1, AboveBest DEF Orphanable
  <2>3. OrphanStakesHeld'
    BY <1>9 DEF CrashAndRestart, OrphanStakesHeld, StakesOf
  <2> QED BY <1>9, <2>2, <2>3 DEF CrashAndRestart
<1>10. CASE UNCHANGED allVars
  BY <1>10 DEF allVars, orphanVars, procVars, OrphanStakesHeld, StakesOf
<1> QED BY <1>1, <1>2, <1>3, <1>4, <1>5, <1>6, <1>7, <1>8, <1>9, <1>10
         DEF ProcNext, ProcessStep

(* ProcInv and the types of the chain hold in every state of the node.     *)
LEMMA AlwaysProcInv == ProcSpec => [](TypeInv /\ ProcInv)
<1>1. ProcInit => TypeInv /\ ProcInv
  <2> SUFFICES ASSUME ProcInit PROVE TypeInv /\ ProcInv
    OBVIOUS
  <2>1. TypeInv
    BY InitType DEF ProcInit
  <2>2. ProcInv
    BY TreeAssumption DEF ProcInit, ProcInv, OrphanStakesHeld, StakesOf
  <2> QED BY <2>1, <2>2
<1>2. TypeInv /\ ProcInv /\ [ProcNext]_allVars => (TypeInv /\ ProcInv)'
  BY ProcStep, ProcInvStep, NextType
<1> QED BY <1>1, <1>2, PTL DEF ProcSpec

(* The node with its orphans implements the chain: whatever order blocks   *)
(* arrive in, ProcessBlock drives AddToBlockIndex and SetBestChain only as *)
(* BlockChain allows, and so everything proved there holds.                *)
THEOREM ChainRefinement == ProcSpec => Spec
<1>1. ProcInit => Init
  BY DEF ProcInit
<1>2. ProcInv /\ [ProcNext]_allVars => [Next]_vars
  BY ProcStep
<1> QED BY <1>1, <1>2, AlwaysProcInv, PTL DEF ProcSpec, Spec

(* Corollary for the whole node: the committed transaction index is that   *)
(* of the committed best chain while blocks arrive in any order.           *)
THEOREM NodeLedgerCorrect == ProcSpec => []LedgerExact
  BY ChainRefinement, LedgerCorrect, PTL

(* OrphanStakesHeld: no stake is remembered for an orphan that is gone,    *)
(* although the same stake may have been used by several orphans.          *)
THEOREM OrphanStakesCorrect == ProcSpec => []OrphanStakesHeld
<1>1. ProcInv => OrphanStakesHeld
  BY DEF ProcInv
<1> QED BY <1>1, AlwaysProcInv, PTL

-----------------------------------------------------------------------------
(* The holding area *)

(* What ProcessBlock may rely on at each place.  While it goes through the *)
(* orphans of the block at the head of its queue, entries of orphans that  *)
(* are gone remain under that block and nowhere else.                      *)
Working == ppc \in {"orphan", "accept", "added"}

AreaControl ==
  /\ vWorkQueue \in Seq(Block)
  /\ ppc \in {"idle", "orphan", "accept", "added", "orphans"}
  /\ ppc \in {"idle", "orphan"} => vWorkQueue = <<>>
  /\ ppc = "orphans" => vWorkQueue # <<>>
  /\ ppc = "orphan" => pblock \notin mapBlockIndex
  /\ Working /\ vWorkQueue = <<>> => pblock \notin mapOrphanBlocks
  /\ Working /\ vWorkQueue # <<>> =>
       pblock \in mapOrphanBlocks /\ Prev[pblock] = Head(vWorkQueue)

AreaMaps ==
  /\ mapOrphanBlocks \subseteq mapOrphanBlocksByPrev
  /\ vWorkQueue = <<>> => mapOrphanBlocksByPrev = mapOrphanBlocks
  /\ vWorkQueue # <<>> => \A o \in mapOrphanBlocksByPrev \ mapOrphanBlocks :
                            Prev[o] = Head(vWorkQueue)
  /\ \A o \in mapOrphanBlocks \cap mapBlockIndex : ppc = "added" /\ o = pblock

AreaSize ==
  /\ IsFiniteSet(BytesOf(dbBlocks))
  /\ IsFiniteSet(BytesOf(mapOrphanBlocks))
  /\ nOrphanBlocksSize = SizeOf(mapOrphanBlocks)
  /\ OrphanSizeBounded

AreaStakes ==
  /\ setStakeSeen \subseteq {Stake[b] : b \in Block}
  /\ setStakeSeenOrphan \subseteq {Stake[b] : b \in Block}

AreaInv == AreaControl /\ AreaMaps /\ AreaSize /\ AreaStakes

(* A block more counts for its size.                                       *)
LEMMA SizeAdded ==
  ASSUME NEW bs \in SUBSET Block, IsFiniteSet(BytesOf(bs)), NEW b \in Block, b \notin bs
  PROVE  /\ IsFiniteSet(BytesOf(bs \cup {b}))
         /\ SizeOf(bs \cup {b}) = SizeOf(bs) + Size[b]
         /\ SizeOf(bs) \in Nat
<1> DEFINE X == {b} \X (1 .. Size[b])
<1>1. Size[b] \in Nat
  BY ProcessingAssumption
<1>2. IsFiniteSet(1 .. Size[b]) /\ Cardinality(1 .. Size[b]) = Size[b]
  BY SMTT(40), <1>1, FS_Interval
<1>3. IsFiniteSet({b}) /\ Cardinality({b}) = 1
  BY FS_Singleton
<1>4. IsFiniteSet(X) /\ Cardinality(X) = 1 * Size[b]
  <2>1. IsFiniteSet(X) /\ Cardinality(X) = Cardinality({b}) * Cardinality(1 .. Size[b])
    BY <1>2, <1>3, FS_Product, Zenon
  <2> QED BY <1>2, <1>3, <2>1, Zenon
<1>5. BytesOf(bs \cup {b}) = BytesOf(bs) \cup X
  BY DEF BytesOf
<1>6. BytesOf(bs) \cap X = {}
  BY DEF BytesOf
<1> HIDE DEF X
<1>7. Cardinality({}) = 0
  BY FS_EmptySet
<1>8. Cardinality(BytesOf(bs)) \in Nat
  BY FS_CardinalityType
<1>9. /\ IsFiniteSet(BytesOf(bs) \cup X)
      /\ Cardinality(BytesOf(bs) \cup X) = Cardinality(BytesOf(bs)) + Cardinality(X) - 0
  BY <1>4, <1>6, <1>7, FS_Union
<1>10. Cardinality(BytesOf(bs) \cup X) = Cardinality(BytesOf(bs)) + Size[b]
  BY <1>1, <1>4, <1>8, <1>9
<1> QED BY <1>5, <1>8, <1>9, <1>10, Zenon DEF SizeOf

(* And a block less.                                                       *)
LEMMA SizeRemoved ==
  ASSUME NEW bs \in SUBSET Block, IsFiniteSet(BytesOf(bs)), NEW b \in bs
  PROVE  /\ IsFiniteSet(BytesOf(bs \ {b}))
         /\ SizeOf(bs \ {b}) = SizeOf(bs) - Size[b]
<1>1. BytesOf(bs \ {b}) \subseteq BytesOf(bs)
  BY DEF BytesOf
<1>2. IsFiniteSet(BytesOf(bs \ {b}))
  BY <1>1, FS_Subset
<1>3. bs = (bs \ {b}) \cup {b} /\ bs \ {b} \in SUBSET Block /\ b \notin bs \ {b} /\ b \in Block
  OBVIOUS
<1>4. SizeOf((bs \ {b}) \cup {b}) = SizeOf(bs \ {b}) + Size[b] /\ SizeOf(bs \ {b}) \in Nat
  BY <1>2, <1>3, SizeAdded
<1>5. Size[b] \in Nat
  BY ProcessingAssumption
<1>6. SizeOf(bs) = SizeOf(bs \ {b}) + Size[b]
  BY <1>3, <1>4, Zenon
<1> QED BY <1>2, <1>4, <1>5, <1>6

(* SetBestChain leaves the block index, the stored blocks and the number   *)
(* of crashes alone.                                                       *)
LEMMA HandlerKeeps ==
  ASSUME HandlerStep
  PROVE  UNCHANGED <<mapBlockIndex, dbBlocks, nCrash>>
BY DEF HandlerStep, ConnectTx, ConnectBlock, ConnectFails, SetBestChain, DisconnectTx,
       DisconnectBlock, Commit, memVars, dbVars

(* An orphan leaves the holding area: its size goes with it, and what is   *)
(* left exceeds the limit by less than a block if it did before.           *)
LEMMA ForgetSize ==
  ASSUME ProcInv, AreaSize, NEW o \in mapOrphanBlocks,
         mapOrphanBlocks' = mapOrphanBlocks \ {o},
         nOrphanBlocksSize' = nOrphanBlocksSize - Size[o],
         UNCHANGED <<dbBlocks, nCrash>>
  PROVE  AreaSize'
<1>1. mapOrphanBlocks \in SUBSET Block
  BY DEF ProcInv, Orphanable
<1>2. /\ IsFiniteSet(BytesOf(mapOrphanBlocks \ {o}))
      /\ SizeOf(mapOrphanBlocks \ {o}) = SizeOf(mapOrphanBlocks) - Size[o]
  BY <1>1, SizeRemoved DEF AreaSize
<1>3. IsFiniteSet(BytesOf(mapOrphanBlocks)') /\ IsFiniteSet(BytesOf(dbBlocks)')
  BY <1>2 DEF AreaSize, BytesOf
<1>4. nOrphanBlocksSize' = SizeOf(mapOrphanBlocks)'
  BY <1>2 DEF AreaSize, SizeOf, BytesOf
<1>5. ASSUME nCrash' = 0, mapOrphanBlocks' # {}
      PROVE  \E w \in mapOrphanBlocks' : nOrphanBlocksSize' - Size[w] <= MaxOrphanSize
  <2>1. \A b \in Block : Size[b] \in Nat
    BY ProcessingAssumption
  <2>2. nOrphanBlocksSize \in Nat /\ MaxOrphanSize \in Nat
    BY FS_CardinalityType, ProcessingAssumption DEF AreaSize, SizeOf
  <2>3. PICK w \in mapOrphanBlocks : nOrphanBlocksSize - Size[w] <= MaxOrphanSize
    BY <1>5 DEF AreaSize, OrphanSizeBounded
  <2>4. CASE w # o
    BY <1>1, <2>1, <2>2, <2>3, <2>4
  <2>5. CASE w = o
    <3>1. PICK x \in mapOrphanBlocks' : TRUE
      BY <1>5
    <3> QED BY <1>1, <2>1, <2>2, <2>3, <2>5, <3>1
  <2> QED BY <2>4, <2>5
<1> QED BY <1>3, <1>4, <1>5 DEF AreaSize, OrphanSizeBounded

(* ProcessBlock and AcceptBlock always know whether the block they are     *)
(* working on is an orphan, and where it is in the two maps.               *)
LEMMA ControlStep ==
  ASSUME TypeInv, ProcInv, AreaInv, [ProcNext]_allVars
  PROVE  AreaControl'
<1> USE DEF AreaInv, AreaControl, Working
<1>1. ASSUME NEW b \in Block \ {Genesis}, ProcessBlock(b) PROVE AreaControl'
  BY <1>1 DEF ProcessBlock, orphanVars, vars, memVars
<1>2. CASE PruneOrphanBlock
  BY <1>2 DEF PruneOrphanBlock, procVars, vars, memVars
<1>3. CASE AddOrphanBlock
  BY <1>3 DEF AddOrphanBlock
<1>4. CASE AcceptBlock
  BY <1>4 DEF AcceptBlock, orphanVars
<1>5. CASE AcceptReturns
  <2>1. pblock \in Block /\ vWorkQueue' \in Seq(Block)
    BY <1>5 DEF AcceptReturns, ProcInv
  <2>2. ppc' = IF vWorkQueue' = <<>> THEN "idle" ELSE "orphans"
    BY <1>5 DEF AcceptReturns
  <2> QED BY <2>1, <2>2
<1>6. CASE AcceptOrphan
  BY <1>6 DEF AcceptOrphan, orphanVars, ByPrev
<1>7. CASE NextInQueue
  BY <1>7 DEF NextInQueue
<1>8. CASE ChainStep
  BY <1>8, HandlerKeeps DEF ChainStep, orphanVars, procVars
<1>9. CASE CrashAndRestart
  BY <1>9 DEF CrashAndRestart
<1>10. CASE UNCHANGED allVars
  BY <1>10 DEF allVars, orphanVars, procVars, vars, memVars
<1> QED BY <1>1, <1>2, <1>3, <1>4, <1>5, <1>6, <1>7, <1>8, <1>9, <1>10
         DEF ProcNext, ProcessStep

(* Entries of orphans that are gone remain only under the block at the     *)
(* head of the queue, and go when the loop leaves it.                      *)
LEMMA MapsStep ==
  ASSUME TypeInv, ProcInv, AreaInv, [ProcNext]_allVars
  PROVE  AreaMaps'
<1> USE DEF AreaInv, AreaMaps
<1>1. ASSUME NEW b \in Block \ {Genesis}, ProcessBlock(b) PROVE AreaMaps'
  BY <1>1 DEF ProcessBlock, orphanVars, vars, memVars, AreaControl
<1>2. CASE PruneOrphanBlock
  BY <1>2 DEF PruneOrphanBlock, procVars, vars, memVars, AreaControl
<1>3. CASE AddOrphanBlock
  BY <1>3 DEF AddOrphanBlock, vars, memVars, AreaControl
<1>4. CASE AcceptBlock
  BY <1>4 DEF AcceptBlock, AddToBlockIndex, orphanVars
<1>5. CASE AcceptReturns
  <2>1. UNCHANGED <<mapBlockIndex, pblock>> /\ ppc' # "added" /\ ppc \in {"accept", "added"}
    BY <1>5 DEF AcceptReturns, vars, memVars
  <2>2. CASE vWorkQueue = <<>>
    <3>1. UNCHANGED <<mapOrphanBlocks, mapOrphanBlocksByPrev>>
      BY <1>5, <2>2 DEF AcceptReturns, orphanVars
    <3>2. pblock \notin mapOrphanBlocks
      BY <2>1, <2>2 DEF AreaControl, Working
    <3> QED BY <2>1, <2>2, <3>1, <3>2
  <2>3. CASE vWorkQueue # <<>>
    <3>1. /\ mapOrphanBlocks' = mapOrphanBlocks \ {pblock}
          /\ UNCHANGED mapOrphanBlocksByPrev
      BY <1>5, <2>3 DEF AcceptReturns, ForgetOrphan
    <3>2. pblock \in mapOrphanBlocks /\ Prev[pblock] = Head(vWorkQueue)
      BY <2>1, <2>3 DEF AreaControl, Working
    <3>3. vWorkQueue' # <<>> /\ Head(vWorkQueue') = Head(vWorkQueue)
      <4>1. vWorkQueue \in Seq(Block) /\ pblock \in Block
        BY DEF AreaControl, ProcInv
      <4>2. vWorkQueue' = Append(vWorkQueue, pblock) \/ vWorkQueue' = vWorkQueue
        BY <1>5 DEF AcceptReturns
      <4> QED BY <2>3, <4>1, <4>2
    <3> QED BY <2>1, <2>3, <3>1, <3>2, <3>3
  <2> QED BY <2>2, <2>3
<1>6. CASE AcceptOrphan
  BY <1>6 DEF AcceptOrphan, orphanVars, vars, memVars
<1>7. CASE NextInQueue
  <2>1. /\ UNCHANGED <<mapOrphanBlocks, mapBlockIndex>> /\ ppc = "orphans"
        /\ mapOrphanBlocksByPrev' = {o \in mapOrphanBlocksByPrev : Prev[o] # Head(vWorkQueue)}
        /\ \A o \in mapOrphanBlocksByPrev \cap mapOrphanBlocks : Prev[o] # Head(vWorkQueue)
    BY <1>7 DEF NextInQueue, vars, memVars, ByPrev
  <2>2. vWorkQueue # <<>>
    BY <2>1 DEF AreaControl
  <2>3. mapOrphanBlocksByPrev' = mapOrphanBlocks'
    BY <2>1, <2>2
  <2> QED BY <2>1, <2>3
<1>8. CASE ChainStep
  BY <1>8, HandlerKeeps DEF ChainStep, orphanVars, procVars
<1>9. CASE CrashAndRestart
  <2> DEFINE held == {b \in dbBlocks : Height[b] > Height[dbBest]}
  <2>1. /\ mapOrphanBlocks' = held /\ mapOrphanBlocksByPrev' = held /\ vWorkQueue' = <<>>
        /\ mapBlockIndex' = {b \in dbBlocks : Height[b] <= Height[dbBest]}
    BY <1>9 DEF CrashAndRestart, CrashAndLoadBlockIndex
  <2>2. \A b \in dbBlocks : Height[b] \in Nat /\ Height[dbBest] \in Nat
    BY TreeAssumption DEF TypeInv, TypeOK
  <2> QED BY <2>1, <2>2
<1>10. CASE UNCHANGED allVars
  BY <1>10 DEF allVars, orphanVars, procVars, vars, memVars
<1> QED BY <1>1, <1>2, <1>3, <1>4, <1>5, <1>6, <1>7, <1>8, <1>9, <1>10
         DEF ProcNext, ProcessStep

(* Nothing that the counter depends on has changed.                        *)
LEMMA SameSize ==
  ASSUME AreaSize, UNCHANGED <<mapOrphanBlocks, nOrphanBlocksSize, dbBlocks, nCrash>>
  PROVE  AreaSize'
BY DEF AreaSize, SizeOf, BytesOf, OrphanSizeBounded

(* The counter follows the orphans.                                        *)
LEMMA SizeStep ==
  ASSUME TypeInv, ProcInv, AreaInv, [ProcNext]_allVars
  PROVE  AreaSize'
<1> USE DEF AreaInv
<1>1. ASSUME NEW b \in Block \ {Genesis}, ProcessBlock(b) PROVE AreaSize'
  BY <1>1, SameSize DEF ProcessBlock, orphanVars, vars, dbVars
<1>2. CASE PruneOrphanBlock
  <2>1. PICK o \in mapOrphanBlocksByPrev :
          /\ mapOrphanBlocks' = mapOrphanBlocks \ {o}
          /\ nOrphanBlocksSize' = nOrphanBlocksSize - Size[o]
    BY <1>2 DEF PruneOrphanBlock
  <2>2. o \in mapOrphanBlocks
    BY <1>2 DEF PruneOrphanBlock, AreaControl, AreaMaps
  <2>3. UNCHANGED <<dbBlocks, nCrash>>
    BY <1>2 DEF PruneOrphanBlock, vars, dbVars
  <2> QED BY <2>1, <2>2, <2>3, ForgetSize
<1>3. CASE AddOrphanBlock
  <2>1. /\ pblock \in Block /\ pblock \notin mapOrphanBlocks
        /\ mapOrphanBlocks \in SUBSET Block
    BY <1>3 DEF AddOrphanBlock, ProcInv, Orphanable, AreaControl, Working
  <2>2. /\ IsFiniteSet(BytesOf(mapOrphanBlocks \cup {pblock}))
        /\ SizeOf(mapOrphanBlocks \cup {pblock}) = SizeOf(mapOrphanBlocks) + Size[pblock]
        /\ SizeOf(mapOrphanBlocks) \in Nat
    BY <2>1, SizeAdded DEF AreaSize
  <2>3. /\ mapOrphanBlocks' = mapOrphanBlocks \cup {pblock}
        /\ nOrphanBlocksSize' = nOrphanBlocksSize + Size[pblock]
        /\ nOrphanBlocksSize <= MaxOrphanSize
        /\ UNCHANGED dbBlocks
    BY <1>3 DEF AddOrphanBlock, vars, dbVars
  <2>4. nOrphanBlocksSize' - Size[pblock] <= MaxOrphanSize
    <3>1. Size[pblock] \in Nat /\ nOrphanBlocksSize \in Nat
      BY <2>1, <2>2, ProcessingAssumption DEF AreaSize
    <3> QED BY <2>3, <3>1
  <2>5. IsFiniteSet(BytesOf(mapOrphanBlocks)') /\ IsFiniteSet(BytesOf(dbBlocks)')
    BY <2>2, <2>3 DEF AreaSize, BytesOf
  <2>6. nOrphanBlocksSize' = SizeOf(mapOrphanBlocks)'
    BY <2>2, <2>3 DEF AreaSize, SizeOf, BytesOf
  <2> QED BY <2>3, <2>4, <2>5, <2>6 DEF AreaSize, OrphanSizeBounded
<1>4. CASE AcceptBlock
  <2>1. /\ UNCHANGED <<mapOrphanBlocks, nOrphanBlocksSize, nCrash>>
        /\ dbBlocks' = dbBlocks \cup {pblock}
    BY <1>4 DEF AcceptBlock, AddToBlockIndex, orphanVars
  <2>2. IsFiniteSet(BytesOf(dbBlocks \cup {pblock}))
    <3>1. dbBlocks \in SUBSET Block /\ pblock \in Block
      BY DEF TypeInv, TypeOK, ProcInv
    <3>2. CASE pblock \in dbBlocks
      <4>1. dbBlocks \cup {pblock} = dbBlocks
        BY <3>2
      <4> QED BY <4>1 DEF AreaSize
    <3>3. CASE pblock \notin dbBlocks
      BY <3>1, <3>3, SizeAdded DEF AreaSize
    <3> QED BY <3>2, <3>3
  <2>3. IsFiniteSet(BytesOf(dbBlocks)')
    BY <2>1, <2>2 DEF BytesOf
  <2> QED BY <2>1, <2>3 DEF AreaSize, SizeOf, BytesOf, OrphanSizeBounded
<1>5. CASE AcceptReturns
  <2>1. UNCHANGED <<dbBlocks, nCrash>> /\ ppc \in {"accept", "added"}
    BY <1>5 DEF AcceptReturns, vars, dbVars
  <2>2. CASE vWorkQueue = <<>>
    BY <1>5, <2>1, <2>2, SameSize DEF AcceptReturns, orphanVars
  <2>3. CASE vWorkQueue # <<>>
    <3>1. pblock \in mapOrphanBlocks
      BY <2>1, <2>3 DEF AreaControl, Working
    <3>2. /\ mapOrphanBlocks' = mapOrphanBlocks \ {pblock}
          /\ nOrphanBlocksSize' = nOrphanBlocksSize - Size[pblock]
      BY <1>5, <2>3 DEF AcceptReturns, ForgetOrphan
    <3> QED BY <2>1, <3>1, <3>2, ForgetSize
  <2> QED BY <2>2, <2>3
<1>6. CASE AcceptOrphan
  BY <1>6, SameSize DEF AcceptOrphan, orphanVars, vars, dbVars
<1>7. CASE NextInQueue
  BY <1>7, SameSize DEF NextInQueue, vars, dbVars
<1>8. CASE ChainStep
  BY <1>8, HandlerKeeps, SameSize DEF ChainStep, orphanVars
<1>9. CASE CrashAndRestart
  <2> DEFINE held == {b \in dbBlocks : Height[b] > Height[dbBest]}
  <2>1. /\ mapOrphanBlocks' = held /\ nOrphanBlocksSize' = SizeOf(held)
        /\ dbBlocks' = dbBlocks /\ nCrash' = nCrash + 1
    BY <1>9 DEF CrashAndRestart, CrashAndLoadBlockIndex, dbVars
  <2>2. BytesOf(held) \subseteq BytesOf(dbBlocks)
    BY DEF BytesOf
  <2> HIDE DEF held
  <2>3. IsFiniteSet(BytesOf(held))
    BY <2>2, FS_Subset DEF AreaSize
  <2>4. nCrash' # 0
    BY <2>1 DEF TypeInv, TypeOK
  <2>5. IsFiniteSet(BytesOf(mapOrphanBlocks)') /\ IsFiniteSet(BytesOf(dbBlocks)')
    BY <2>1, <2>3 DEF AreaSize, BytesOf
  <2>6. nOrphanBlocksSize' = SizeOf(mapOrphanBlocks)'
    BY <2>1 DEF SizeOf, BytesOf
  <2> QED BY <2>4, <2>5, <2>6 DEF AreaSize, OrphanSizeBounded
<1>10. CASE UNCHANGED allVars
  BY <1>10, SameSize DEF allVars, orphanVars, vars, dbVars
<1> QED BY <1>1, <1>2, <1>3, <1>4, <1>5, <1>6, <1>7, <1>8, <1>9, <1>10
         DEF ProcNext, ProcessStep

(* Only stakes of blocks are ever seen.                                    *)
LEMMA StakesStep ==
  ASSUME TypeInv, ProcInv, AreaInv, [ProcNext]_allVars
  PROVE  AreaStakes'
<1> USE DEF AreaInv, AreaStakes
<1>1. pblock \in Block /\ dbBlocks \subseteq Block
  BY DEF TypeInv, TypeOK, ProcInv
<1>2. \A bs \in SUBSET Block : StakesOf(bs) \subseteq {Stake[b] : b \in Block}
  BY DEF StakesOf
<1>3. CASE UNCHANGED <<setStakeSeen, setStakeSeenOrphan>>
  BY <1>3
<1>4. ASSUME NEW b \in Block \ {Genesis}, ProcessBlock(b) PROVE AreaStakes'
  BY <1>3, <1>4 DEF ProcessBlock, orphanVars
<1>5. CASE PruneOrphanBlock
  BY <1>5 DEF PruneOrphanBlock
<1>6. CASE AddOrphanBlock
  BY <1>1, <1>2, <1>6 DEF AddOrphanBlock
<1>7. CASE AcceptBlock
  BY <1>1, <1>2, <1>7 DEF AcceptBlock, orphanVars
<1>8. CASE AcceptReturns
  BY <1>8 DEF AcceptReturns, orphanVars, ForgetOrphan
<1>9. CASE AcceptOrphan \/ NextInQueue \/ ChainStep \/ UNCHANGED allVars
  BY <1>3, <1>9 DEF AcceptOrphan, NextInQueue, ChainStep, allVars, orphanVars
<1>10. CASE CrashAndRestart
  <2>1. {b \in dbBlocks : Height[b] > Height[dbBest]} \in SUBSET Block
    BY <1>1
  <2> QED BY <1>1, <1>2, <1>10, <2>1 DEF CrashAndRestart
<1> QED BY <1>4, <1>5, <1>6, <1>7, <1>8, <1>9, <1>10 DEF ProcNext, ProcessStep

(* The empty holding area.                                                 *)
LEMMA AreaInit == ProcInit => AreaInv
<1> SUFFICES ASSUME ProcInit PROVE AreaInv
  OBVIOUS
<1>1. Genesis \in Block /\ dbBlocks = {Genesis}
  BY TreeAssumption DEF ProcInit, Init
<1>2. BytesOf({}) = {} /\ IsFiniteSet({}) /\ Cardinality({}) = 0
  BY FS_EmptySet DEF BytesOf
<1>3. IsFiniteSet(BytesOf({} \cup {Genesis}))
  BY <1>1, <1>2, SizeAdded
<1>4. {} \cup {Genesis} = dbBlocks
  BY <1>1
<1>5. AreaSize
  BY <1>2, <1>3, <1>4 DEF ProcInit, AreaSize, SizeOf, OrphanSizeBounded
<1>6. AreaControl /\ AreaMaps /\ AreaStakes
  BY DEF ProcInit, AreaControl, AreaMaps, AreaStakes, Working
<1> QED BY <1>5, <1>6 DEF AreaInv

(* The holding area is consistent at every step.                           *)
LEMMA AlwaysAreaInv == ProcSpec => []AreaInv
<1>1. AreaInv /\ TypeInv /\ ProcInv /\ [ProcNext]_allVars => AreaInv'
  BY ControlStep, MapsStep, SizeStep, StakesStep DEF AreaInv
<1> QED BY <1>1, AreaInit, AlwaysProcInv, PTL DEF ProcSpec

(* For every block tree, every size of blocks and however often the node   *)
(* crashes: whenever ProcessBlock has returned, both orphan maps hold the  *)
(* same blocks, the size counter is their size and none of them is in the  *)
(* block index, and until a crash the limit is passed by less than a       *)
(* block, however orphans were accepted, refused and pruned.               *)
THEOREM OrphansAlwaysConsistent == ProcSpec => []OrphansConsistent
<1>1. ASSUME AreaInv, ProcInv PROVE OrphansConsistent
  <2>1. nOrphanBlocksSize \in Nat
    BY <1>1, FS_CardinalityType DEF AreaInv, AreaSize, SizeOf
  <2>2. ProcTypeOK
    BY <1>1, <2>1 DEF AreaInv, AreaControl, AreaStakes, ProcInv, Orphanable, ProcTypeOK
  <2>3. OrphanMapsAgree
    BY <1>1 DEF AreaInv, AreaControl, AreaMaps, AreaSize, OrphanMapsAgree, Returned
  <2>4. OrphanSizeBounded
    BY <1>1 DEF AreaInv, AreaSize
  <2> QED BY <2>2, <2>3, <2>4 DEF OrphansConsistent
<1> QED BY <1>1, AlwaysAreaInv, AlwaysProcInv, PTL

-----------------------------------------------------------------------------
(* Orphans wait only for parents that are missing.                         *)

InQueue(h) == \E i \in 1 .. Len(vWorkQueue) : vWorkQueue[i] = h

(* An orphan whose parent is in the block index has an invalid parent, or  *)
(* one whose orphans ProcessBlock is still to look at.                     *)
Awaits ==
  /\ ppc = "orphan" => Prev[pblock] \notin mapBlockIndex
  /\ ppc = "added" => pblock \in mapBlockIndex
  /\ nCrash = 0 =>
       \A o \in mapOrphanBlocks : Prev[o] \in mapBlockIndex =>
         ~Replay[Prev[o]].ok \/ InQueue(Prev[o]) \/ (ppc = "added" /\ Prev[o] = pblock)

(* What is appended to the queue is in it, with all that was there before. *)
LEMMA QueueGrows ==
  ASSUME NEW q \in Seq(Block), NEW b \in Block, NEW r, r = Append(q, b)
  PROVE  /\ \E i \in 1 .. Len(r) : r[i] = b
         /\ \A h : (\E i \in 1 .. Len(q) : q[i] = h) => \E i \in 1 .. Len(r) : r[i] = h
<1>1. Len(r) = Len(q) + 1 /\ Len(q) \in Nat /\ r[Len(q) + 1] = b
      /\ \A i \in 1 .. Len(q) : r[i] = q[i]
  OBVIOUS
<1>2. Len(q) + 1 \in 1 .. Len(r)
  BY <1>1
<1>3. \A i \in 1 .. Len(q) : i \in 1 .. Len(r)
  BY <1>1
<1> QED BY <1>1, <1>2, <1>3

(* All but the head of the queue is in its tail.                           *)
LEMMA QueueShrinks ==
  ASSUME NEW q \in Seq(Block), q # <<>>, NEW h, h # Head(q), \E i \in 1 .. Len(q) : q[i] = h
  PROVE  \E i \in 1 .. Len(Tail(q)) : Tail(q)[i] = h
<1>1. PICK i \in 1 .. Len(q) : q[i] = h
  OBVIOUS
<1>2. i # 1
  BY <1>1
<1>3. Len(Tail(q)) = Len(q) - 1 /\ i - 1 \in 1 .. Len(Tail(q)) /\ Tail(q)[i - 1] = q[i]
  BY <1>2
<1> QED BY <1>1, <1>3

(* Every step of ProcessBlock keeps Awaits: an accepted block whose        *)
(* orphans are not queued has been refused by SetBestChain, and as the     *)
(* best block is the heaviest valid one, it is not valid.                  *)
LEMMA AwaitsStep ==
  ASSUME TypeInv, ProcInv, AreaInv, BestIsHeaviestValid, Awaits, [ProcNext]_allVars
  PROVE  Awaits'
<1> USE DEF Awaits, InQueue
<1>1. ASSUME NEW b \in Block \ {Genesis}, ProcessBlock(b) PROVE Awaits'
  <2>1. /\ UNCHANGED <<mapBlockIndex, mapOrphanBlocks, nCrash>> /\ ppc = "idle"
        /\ ppc' \in {"orphan", "accept"} /\ (ppc' = "orphan" => Prev[b] \notin mapBlockIndex)
        /\ pblock' = b /\ vWorkQueue' = <<>>
    BY <1>1 DEF ProcessBlock, orphanVars, vars, memVars
  <2>2. vWorkQueue = <<>>
    BY <2>1 DEF AreaInv, AreaControl
  <2> QED BY <2>1, <2>2
<1>2. CASE PruneOrphanBlock
  <2>1. /\ UNCHANGED <<mapBlockIndex, nCrash, ppc, pblock, vWorkQueue>>
        /\ mapOrphanBlocks' \subseteq mapOrphanBlocks
    BY <1>2 DEF PruneOrphanBlock, procVars, vars, memVars
  <2> QED BY <2>1
<1>3. CASE AddOrphanBlock
  <2>1. /\ UNCHANGED <<mapBlockIndex, nCrash, pblock, vWorkQueue>>
        /\ ppc = "orphan" /\ ppc' = "idle" /\ mapOrphanBlocks' = mapOrphanBlocks \cup {pblock}
    BY <1>3 DEF AddOrphanBlock, vars, memVars
  <2> QED BY <2>1
<1>4. CASE AcceptBlock
  <2>1. /\ UNCHANGED <<mapOrphanBlocks, nCrash, pblock, vWorkQueue>>
        /\ ppc = "accept" /\ ppc' = "added" /\ mapBlockIndex' = mapBlockIndex \cup {pblock}
    BY <1>4 DEF AcceptBlock, AddToBlockIndex, orphanVars
  <2> QED BY <2>1
<1>5. CASE AcceptReturns
  <2>1. /\ UNCHANGED <<mapBlockIndex, nCrash, pblock>>
        /\ pc = "idle" /\ ppc \in {"accept", "added"}
        /\ vWorkQueue' = IF Added THEN Append(vWorkQueue, pblock) ELSE vWorkQueue
        /\ ppc' \in {"idle", "orphans"}
    BY <1>5 DEF AcceptReturns, vars, memVars
  <2>2. mapOrphanBlocks' \subseteq mapOrphanBlocks
    BY <1>5 DEF AcceptReturns, orphanVars, ForgetOrphan
  <2>3. vWorkQueue \in Seq(Block) /\ pblock \in Block /\ mapBlockIndex \subseteq Block
    BY DEF AreaInv, AreaControl, ProcInv, TypeInv, TypeOK
  <2>4. CASE Added
    <3>1. vWorkQueue' = Append(vWorkQueue, pblock)
      BY <2>1, <2>4
    <3>2. InQueue(pblock)' /\ \A h : InQueue(h) => InQueue(h)'
      <4> DEFINE q == vWorkQueue
                 r == vWorkQueue'
      <4>1. q \in Seq(Block) /\ r = Append(q, pblock)
        BY <2>3, <3>1
      <4> HIDE DEF q, r
      <4>2. /\ \E i \in 1 .. Len(r) : r[i] = pblock
            /\ \A h : (\E i \in 1 .. Len(q) : q[i] = h) => \E i \in 1 .. Len(r) : r[i] = h
        BY <2>3, <4>1, QueueGrows
      <4> QED BY <2>1, <4>2, Zenon DEF q, r
    <3> HIDE DEF InQueue
    <3> QED BY <2>1, <2>2, <3>2
  <2>5. CASE ~Added
    <3>1. vWorkQueue' = vWorkQueue
      BY <2>1, <2>5
    <3>2. ASSUME ppc = "added", nCrash = 0 PROVE ~Replay[pblock].ok
      <4>1. pblock \in mapBlockIndex /\ ~(ChainTrust[pblock] <= ChainTrust[pindexBest])
        BY <2>5, <3>2 DEF Added
      <4> QED BY <2>1, <3>2, <4>1 DEF BestIsHeaviestValid
    <3> QED BY <2>1, <2>2, <3>1, <3>2
  <2> QED BY <2>4, <2>5
<1>6. CASE AcceptOrphan
  <2>1. /\ UNCHANGED <<mapBlockIndex, mapOrphanBlocks, nCrash, vWorkQueue>>
        /\ ppc = "orphans" /\ ppc' = "accept"
    BY <1>6 DEF AcceptOrphan, orphanVars, vars, memVars
  <2> QED BY <2>1
<1>7. CASE NextInQueue
  <2>1. /\ UNCHANGED <<mapBlockIndex, mapOrphanBlocks, nCrash>>
        /\ ppc = "orphans" /\ ppc' \in {"idle", "orphans"} /\ vWorkQueue' = Tail(vWorkQueue)
        /\ ByPrev(Head(vWorkQueue)) \cap mapOrphanBlocks = {}
    BY <1>7 DEF NextInQueue, vars, memVars
  <2>2. vWorkQueue \in Seq(Block) /\ vWorkQueue # <<>>
        /\ mapOrphanBlocks \subseteq mapOrphanBlocksByPrev
    BY <2>1 DEF AreaInv, AreaControl, AreaMaps
  <2>3. \A o \in mapOrphanBlocks : Prev[o] # Head(vWorkQueue)
    BY <2>1, <2>2 DEF ByPrev
  <2>4. \A h : h # Head(vWorkQueue) /\ InQueue(h) => InQueue(h)'
    BY <2>1, <2>2, QueueShrinks
  <2> QED BY <2>1, <2>3, <2>4
<1>8. CASE ChainStep
  BY <1>8, HandlerKeeps DEF ChainStep, orphanVars, procVars
<1>9. CASE CrashAndRestart
  <2>1. nCrash' # 0 /\ ppc' = "idle"
    BY <1>9 DEF CrashAndRestart, CrashAndLoadBlockIndex, TypeInv, TypeOK
  <2> QED BY <2>1
<1>10. CASE UNCHANGED allVars
  BY <1>10 DEF allVars, orphanVars, procVars, vars, memVars
<1> QED BY <1>1, <1>2, <1>3, <1>4, <1>5, <1>6, <1>7, <1>8, <1>9, <1>10
         DEF ProcNext, ProcessStep

(* For every block tree and every order of arrival: a node that has not    *)
(* crashed keeps an orphan only while its parent is missing or turns out   *)
(* to be invalid.  ProcessBlock looks at the orphans of a block only once, *)
(* right after AcceptBlock, and only if that returned true.                *)
THEOREM OrphansAwaitCorrect == ProcSpec => []OrphansAwaitParent
<1>1. ProcInit => Awaits
  BY DEF ProcInit, Awaits
<1>2. TypeInv /\ ProcInv /\ AreaInv /\ BestIsHeaviestValid /\ Awaits /\ [ProcNext]_allVars
        => Awaits'
  BY AwaitsStep
<1>3. ASSUME Awaits, AreaInv PROVE OrphansAwaitParent
  <2> SUFFICES ASSUME nCrash = 0, Returned, NEW o \in mapOrphanBlocks, Prev[o] \in mapBlockIndex
               PROVE  ~Replay[Prev[o]].ok
    BY DEF OrphansAwaitParent
  <2>1. vWorkQueue = <<>> /\ ppc = "idle"
    BY <1>3 DEF Returned, AreaInv, AreaControl
  <2>2. ~InQueue(Prev[o])
    BY <2>1 DEF InQueue
  <2> QED BY <1>3, <2>1, <2>2 DEF Awaits
<1> QED BY <1>1, <1>2, <1>3, AlwaysAreaInv, AlwaysProcInv, ChainRefinement,
           HeaviestValidCorrect, PTL DEF ProcSpec

-----------------------------------------------------------------------------
(* The wallet.                                                             *)

(* What mapWallet can be.                                                  *)
Wallets == [tx : SUBSET Tx, hashBlock : [Tx -> Block \cup {None}], spent : SUBSET Mine]

(* No wallet transaction of the chain that idx describes is missing or out *)
(* of place, what that chain has spent is marked, and what is marked and   *)
(* unspent on it is an input of a transaction that can still be confirmed. *)
KnowsOwn(w, idx) ==
  \A t \in Tx : idx.pos[t] # None /\ (Outputs(t) # {} \/ vin[t] \cap Mine # {}) => t \in w.tx

KnowsPlace(w, idx) ==
  \A t \in w.tx : idx.pos[t] # None => w.hashBlock[t] = idx.pos[t]

FlagsSpent(w, idx) ==
  \A o \in Mine : idx.pos[o[1]] # None /\ idx.vSpent[o] # None => o \in w.spent

LosesNone(w, idx) ==
  \A o \in w.spent : idx.pos[o[1]] # None /\ idx.vSpent[o] = None =>
    \E t \in w.tx \ Generated : o \in vin[t]

Follows(w, idx) ==
  KnowsOwn(w, idx) /\ KnowsPlace(w, idx) /\ FlagsSpent(w, idx) /\ LosesNone(w, idx)

(* The index of the blocks that SyncWithWallets has been called for.       *)
Synced == IF pc = "disconnect" THEN queued
          ELSE IF pc \in {"connect", "commit"} THEN baTx
          ELSE dbTx

Calm == nCrash = 0 /\ nBestInvalidTrust = 0

FollowsSynced ==
  Calm => /\ ~broke
          /\ Follows(mapWallet, Synced)
          /\ pc = "disconnect" => IsIndexOf(queued, cur)

WalletInv == mapWallet \in Wallets /\ bestBlock \in Block /\ FollowsSynced

-----------------------------------------------------------------------------
(* What the functions of CWallet do to the wallet.                         *)

(* AddToWallet, field by field.                                            *)
LEMMA AddToWalletIs ==
  ASSUME NEW w \in Wallets, NEW t \in Tx, NEW b \in Block \cup {None}, NEW v,
         v = AddToWallet(w, t, b)
  PROVE  /\ v \in Wallets
         /\ v.tx = w.tx \cup {t}
         /\ v.hashBlock = [w.hashBlock EXCEPT ![t] = IF b = None THEN @ ELSE b]
         /\ v.spent = (w.spent \cup {o \in vin[t] \cap Mine : o[1] \in v.tx})
                        \ (IF b # None THEN Outputs(t) ELSE {})
<1> DEFINE e == [w EXCEPT !.tx = @ \cup {t}, !.hashBlock[t] = IF b = None THEN @ ELSE b]
<1>1. /\ e.tx = w.tx \cup {t}
      /\ e.hashBlock = [w.hashBlock EXCEPT ![t] = IF b = None THEN @ ELSE b]
      /\ e.spent = w.spent
      /\ e \in Wallets
  BY DEF Wallets
<1>2. v = [e EXCEPT !.spent = (@ \cup OwnInputs(e, t)) \ (IF b # None THEN Outputs(t) ELSE {})]
  BY DEF AddToWallet, WalletUpdateSpent
<1> HIDE DEF e
<1>3. /\ v.tx = e.tx
      /\ v.hashBlock = e.hashBlock
      /\ v.spent = (e.spent \cup OwnInputs(e, t)) \ (IF b # None THEN Outputs(t) ELSE {})
      /\ v \in Wallets
  BY <1>1, <1>2 DEF Wallets, OwnInputs
<1>4. OwnInputs(e, t) = {o \in vin[t] \cap Mine : o[1] \in v.tx}
  BY <1>3 DEF OwnInputs
<1> QED BY <1>1, <1>3, <1>4

(* Of all of that, what it does to the transactions.                       *)
LEMMA AddToWalletTx ==
  ASSUME NEW w \in Wallets, NEW t \in Tx, NEW b \in Block \cup {None}
  PROVE  AddToWallet(w, t, b).tx = w.tx \cup {t}
BY DEF AddToWallet, WalletUpdateSpent, Wallets

(* A transaction is added if it is known and is to be updated, or if it is *)
(* unknown and moves coins of the wallet.  Nothing happens otherwise.      *)
LEMMA InvolvingIs ==
  ASSUME NEW w \in Wallets, NEW t \in Tx, NEW b \in Block \cup {None},
         NEW fUpdate \in BOOLEAN
  PROVE  AddToWalletIfInvolvingMe(w, t, b, fUpdate) =
           IF (t \in w.tx /\ fUpdate) \/ (t \notin w.tx /\ (Outputs(t) # {} \/ IsFromMe(w, t)))
           THEN AddToWallet(w, t, b) ELSE w
<1>1. ASSUME ~IsFromMe(w, t) PROVE WalletUpdateSpent(w, t, FALSE) = w
  <2>1. OwnInputs(w, t) = {}
    BY <1>1 DEF IsFromMe
  <2>2. WalletUpdateSpent(w, t, FALSE) = [w EXCEPT !.spent = w.spent]
    BY <2>1 DEF WalletUpdateSpent
  <2> QED BY <2>2 DEF Wallets
<1> QED BY <1>1 DEF AddToWalletIfInvolvingMe

(* Either way it is a wallet again.                                        *)
LEMMA InvolvingType ==
  ASSUME NEW w \in Wallets, NEW t \in Tx, NEW b \in Block \cup {None},
         NEW fUpdate \in BOOLEAN
  PROVE  AddToWalletIfInvolvingMe(w, t, b, fUpdate) \in Wallets
<1>1. AddToWallet(w, t, b) \in Wallets
  BY AddToWalletIs
<1> QED BY <1>1, InvolvingIs

(* DisableTransaction gives back the inputs of a coinstake.                *)
LEMMA DisableIs ==
  ASSUME NEW w \in Wallets, NEW t \in Tx, NEW v, v = DisableTransaction(w, t)
  PROVE  /\ v \in Wallets
         /\ v.tx = w.tx
         /\ v.hashBlock = w.hashBlock
         /\ v.spent = w.spent \ (IF t \in Generated THEN OwnInputs(w, t) ELSE {})
<1>1. CASE t \in Generated
  BY <1>1 DEF DisableTransaction, Wallets
<1>2. CASE t \notin Generated
  BY <1>2 DEF DisableTransaction, Wallets
<1> QED BY <1>1, <1>2

(* SyncWithWallets for the transactions of a connected block, one by one.  *)
LEMMA SyncingConnectSteps ==
  ASSUME NEW w \in Wallets, NEW b \in Block, NEW fUpdate \in BOOLEAN
  PROVE  /\ Len(vtx[b]) \in Nat
         /\ SyncingConnect(w, b, fUpdate)[0] = w
         /\ \A k \in 1 .. Len(vtx[b]) :
              SyncingConnect(w, b, fUpdate)[k] =
                AddToWalletIfInvolvingMe(SyncingConnect(w, b, fUpdate)[k - 1], vtx[b][k], b, fUpdate)
         /\ \A k \in 0 .. Len(vtx[b]) : SyncingConnect(w, b, fUpdate)[k] \in Wallets
<1> DEFINE n == Len(vtx[b])
           g == [k \in 1 .. n |->
                   [x \in Wallets |-> AddToWalletIfInvolvingMe(x, vtx[b][k], b, fUpdate)]]
<1>1. n \in Nat
  BY VtxType
<1>2. g \in [1 .. n -> [Wallets -> Wallets]]
  BY <1>1, InvolvingType, VtxType
<1>3. \A k \in 1 .. n, x \in Wallets :
        g[k][x] = AddToWalletIfInvolvingMe(x, vtx[b][k], b, fUpdate)
  OBVIOUS
<1> HIDE DEF g
<1>4. PICK f : IsFold(f, n, Wallets, w, g)
  <2> HIDE DEF n
  <2> QED BY <1>1, <1>2, FoldRecursion
<1>5. f = [k \in 0 .. Len(vtx[b]) |->
             IF k = 0 THEN w ELSE AddToWalletIfInvolvingMe(f[k - 1], vtx[b][k], b, fUpdate)]
  <2>1. ASSUME NEW k \in 1 .. n
        PROVE  f[k] = AddToWalletIfInvolvingMe(f[k - 1], vtx[b][k], b, fUpdate)
    <3> HIDE DEF n
    <3>1. f[k - 1] \in Wallets /\ f[k] = g[k][f[k - 1]]
      BY <1>1, <1>4 DEF IsFold
    <3> QED BY <1>3, <3>1
  <2> QED BY <1>4, <2>1 DEF IsFold
<1>6. SyncingConnect(w, b, fUpdate) =
        [k \in 0 .. Len(vtx[b]) |->
           IF k = 0 THEN w
           ELSE AddToWalletIfInvolvingMe(SyncingConnect(w, b, fUpdate)[k - 1], vtx[b][k], b, fUpdate)]
  BY <1>5 DEF SyncingConnect
<1>7. /\ SyncingConnect(w, b, fUpdate)[0] = w
      /\ \A k \in 1 .. n :
           SyncingConnect(w, b, fUpdate)[k] =
             AddToWalletIfInvolvingMe(SyncingConnect(w, b, fUpdate)[k - 1], vtx[b][k], b, fUpdate)
  BY SMTT(40), <1>1, <1>6
<1> DEFINE c == SyncingConnect(w, b, fUpdate)
           S == {k \in 0 .. n : c[k] \in Wallets}
<1> HIDE DEF c, n
<1>8. 0 \in S
  BY <1>1, <1>7 DEF c
<1>9. ASSUME NEW k \in 1 .. n, k - 1 \in S PROVE k \in S
  <2>1. c[k] = AddToWalletIfInvolvingMe(c[k - 1], vtx[b][k], b, fUpdate)
    BY <1>7 DEF c
  <2>2. vtx[b][k] \in Tx
    BY VtxType DEF n
  <2> QED BY <1>1, <1>9, <2>1, <2>2, InvolvingType
<1>10. \A k \in 0 .. n : k \in S
  <2> HIDE DEF S
  <2> QED BY <1>1, <1>8, <1>9, UpTo
<1> QED BY <1>1, <1>7, <1>10 DEF n, c

(* SyncWithWallets for the transactions of a disconnected block.           *)
LEMMA SyncingDisconnectSteps ==
  ASSUME NEW w \in Wallets, NEW b \in Block
  PROVE  /\ Len(vtx[b]) \in Nat
         /\ SyncingDisconnect(w, b)[0] = w
         /\ \A k \in 1 .. Len(vtx[b]) :
              SyncingDisconnect(w, b)[k] =
                DisableTransaction(SyncingDisconnect(w, b)[k - 1], vtx[b][k])
         /\ \A k \in 0 .. Len(vtx[b]) : SyncingDisconnect(w, b)[k] \in Wallets
<1> DEFINE n == Len(vtx[b])
           g == [k \in 1 .. n |-> [x \in Wallets |-> DisableTransaction(x, vtx[b][k])]]
<1>1. n \in Nat
  BY VtxType
<1>2. g \in [1 .. n -> [Wallets -> Wallets]]
  BY <1>1, DisableIs, VtxType
<1>3. \A k \in 1 .. n, x \in Wallets : g[k][x] = DisableTransaction(x, vtx[b][k])
  OBVIOUS
<1> HIDE DEF g
<1>4. PICK f : IsFold(f, n, Wallets, w, g)
  <2> HIDE DEF n
  <2> QED BY <1>1, <1>2, FoldRecursion
<1>5. f = [k \in 0 .. Len(vtx[b]) |->
             IF k = 0 THEN w ELSE DisableTransaction(f[k - 1], vtx[b][k])]
  <2>1. ASSUME NEW k \in 1 .. n PROVE f[k] = DisableTransaction(f[k - 1], vtx[b][k])
    <3> HIDE DEF n
    <3>1. f[k - 1] \in Wallets /\ f[k] = g[k][f[k - 1]]
      BY <1>1, <1>4 DEF IsFold
    <3> QED BY <1>3, <3>1
  <2> QED BY <1>4, <2>1 DEF IsFold
<1>6. SyncingDisconnect(w, b) =
        [k \in 0 .. Len(vtx[b]) |->
           IF k = 0 THEN w ELSE DisableTransaction(SyncingDisconnect(w, b)[k - 1], vtx[b][k])]
  BY <1>5 DEF SyncingDisconnect
<1>7. /\ SyncingDisconnect(w, b)[0] = w
      /\ \A k \in 1 .. n :
           SyncingDisconnect(w, b)[k] =
             DisableTransaction(SyncingDisconnect(w, b)[k - 1], vtx[b][k])
  BY <1>1, <1>6
<1> DEFINE c == SyncingDisconnect(w, b)
           S == {k \in 0 .. n : c[k] \in Wallets}
<1> HIDE DEF c, n
<1>8. 0 \in S
  BY <1>1, <1>7 DEF c
<1>9. ASSUME NEW k \in 1 .. n, k - 1 \in S PROVE k \in S
  <2>1. c[k] = DisableTransaction(c[k - 1], vtx[b][k])
    BY <1>7 DEF c
  <2>2. vtx[b][k] \in Tx
    BY VtxType DEF n
  <2> QED BY <1>1, <1>9, <2>1, <2>2, DisableIs
<1>10. \A k \in 0 .. n : k \in S
  <2> HIDE DEF S
  <2> QED BY <1>1, <1>8, <1>9, UpTo
<1> QED BY <1>1, <1>7, <1>10 DEF n, c

(* A block that is shown to the wallet leaves a wallet.                    *)
LEMMA SyncType ==
  ASSUME NEW w \in Wallets, NEW b \in Block, NEW fUpdate \in BOOLEAN
  PROVE  SyncConnect(w, b, fUpdate) \in Wallets /\ SyncDisconnect(w, b) \in Wallets
<1>1. Len(vtx[b]) \in 0 .. Len(vtx[b])
  BY VtxType
<1> QED BY <1>1, SyncingConnectSteps, SyncingDisconnectSteps DEF SyncConnect, SyncDisconnect

(* A disconnected block gives back the inputs of its coinstakes.           *)
LEMMA SyncDisconnectIs ==
  ASSUME NEW w \in Wallets, NEW b \in Block, NEW v, v = SyncDisconnect(w, b)
  PROVE  /\ v \in Wallets
         /\ v.tx = w.tx
         /\ v.hashBlock = w.hashBlock
         /\ \A o : o \in v.spent <=>
              /\ o \in w.spent
              /\ \A i \in 1 .. Len(vtx[b]) :
                   vtx[b][i] \in Generated => o \notin OwnInputs(w, vtx[b][i])
<1> DEFINE n == Len(vtx[b])
           c == SyncingDisconnect(w, b)
           S == {k \in 0 .. n :
                   /\ c[k].tx = w.tx
                   /\ c[k].hashBlock = w.hashBlock
                   /\ \A o : o \in c[k].spent <=>
                        /\ o \in w.spent
                        /\ \A i \in 1 .. k :
                             vtx[b][i] \in Generated => o \notin OwnInputs(w, vtx[b][i])}
<1>1. /\ n \in Nat
      /\ c[0] = w
      /\ \A k \in 1 .. n : c[k] = DisableTransaction(c[k - 1], vtx[b][k])
      /\ \A k \in 0 .. n : c[k] \in Wallets
  BY SyncingDisconnectSteps
<1> HIDE DEF c
<1>2. \A i \in 1 .. n : vtx[b][i] \in Tx
  BY VtxType
<1> HIDE DEF n
<1>3. 0 \in S
  BY <1>1
<1>4. ASSUME NEW k \in 1 .. n, k - 1 \in S PROVE k \in S
  <2> DEFINE t == vtx[b][k]
             u == c[k - 1]
  <2>1. u \in Wallets /\ t \in Tx /\ c[k] = DisableTransaction(u, t) /\ u.tx = w.tx
    BY <1>1, <1>2, <1>4
  <2>2. OwnInputs(u, t) = OwnInputs(w, t)
    BY <2>1 DEF OwnInputs
  <2>3. /\ c[k].tx = u.tx
        /\ c[k].hashBlock = u.hashBlock
        /\ c[k].spent = u.spent \ (IF t \in Generated THEN OwnInputs(w, t) ELSE {})
    <3> HIDE DEF t, u
    <3> QED BY <2>1, <2>2, DisableIs
  <2>4. \A i \in 1 .. k : i \in 1 .. k - 1 \/ i = k
    BY <1>1
  <2>5. \A i \in 1 .. k - 1 : i \in 1 .. k
    BY <1>1
  <2> QED BY <1>1, <1>4, <2>3, <2>4, <2>5
<1>5. \A k \in 0 .. n : k \in S
  <2> HIDE DEF S
  <2> QED BY <1>1, <1>3, <1>4, UpTo
<1>6. n \in S /\ v = c[n] /\ v \in Wallets
  BY <1>1, <1>5 DEF SyncDisconnect, c, n
<1> QED BY <1>6 DEF n

-----------------------------------------------------------------------------
(* Connecting and disconnecting, seen by the wallet.                       *)

(* The index t leaves, when it is connected next to what idx has.          *)
IsNextIndex(idx, t, b, new) ==
  /\ new.pos = [idx.pos EXCEPT ![t] = b]
  /\ \A o \in OutPoint : new.vSpent[o] = IF o[1] = t THEN None
                                         ELSE IF o \in vin[t] THEN t
                                         ELSE idx.vSpent[o]

(* A wallet that follows an index and is shown the next transaction        *)
(* follows the next index.                                                 *)
LEMMA FollowsNext ==
  ASSUME NEW w \in Wallets, NEW idx \in TxIndexType, NEW new \in TxIndexType,
         NEW t \in Tx, NEW b \in Block, Follows(w, idx), IsNextIndex(idx, t, b, new),
         \A o \in vin[t] : idx.pos[o[1]] # None /\ o[1] # t
  PROVE  Follows(AddToWalletIfInvolvingMe(w, t, b, TRUE), new)
<1> DEFINE v == AddToWalletIfInvolvingMe(w, t, b, TRUE)
           in == t \in w.tx \/ Outputs(t) # {} \/ IsFromMe(w, t)
<1>1. /\ new.pos[t] = b /\ \A s \in Tx : s # t => new.pos[s] = idx.pos[s]
      /\ \A o \in OutPoint : new.vSpent[o] = IF o[1] = t THEN None
                                             ELSE IF o \in vin[t] THEN t
                                             ELSE idx.vSpent[o]
  BY DEF IsNextIndex, TxIndexType
<1>2. b # None /\ t # None /\ Mine \subseteq OutPoint /\ \A o \in OutPoint : o[1] \in Tx
  BY TreeAssumption, TxAssumption, WalletAssumption
<1>3. \A o \in vin[t] \cap Mine : o[1] \in w.tx
  <2> SUFFICES ASSUME NEW o \in vin[t] \cap Mine PROVE o[1] \in w.tx
    OBVIOUS
  <2>1. o \in Outputs(o[1]) /\ o[1] \in Tx /\ idx.pos[o[1]] # None
    BY <1>2 DEF Outputs
  <2> QED BY <2>1 DEF Follows, KnowsOwn
<1>4. v = IF in THEN AddToWallet(w, t, b) ELSE w
  BY InvolvingIs
<1>5. vin[t] \cap Mine # {} => IsFromMe(w, t)
  BY <1>3 DEF IsFromMe, OwnInputs
<1>6. CASE in
  <2>0. v = AddToWallet(w, t, b)
    BY <1>4, <1>6
  <2> HIDE DEF v, in
  <2>1. /\ v.tx = w.tx \cup {t}
        /\ v.hashBlock = [w.hashBlock EXCEPT ![t] = b]
        /\ v.spent = (w.spent \cup {o \in vin[t] \cap Mine : o[1] \in v.tx}) \ Outputs(t)
    BY <1>2, <2>0, AddToWalletIs
  <2>2. KnowsOwn(v, new)
    BY <1>1, <2>1 DEF Follows, KnowsOwn
  <2>3. KnowsPlace(v, new)
    BY <1>1, <2>1 DEF Follows, KnowsPlace, Wallets
  <2>4. FlagsSpent(v, new)
    <3> SUFFICES ASSUME NEW o \in Mine, new.pos[o[1]] # None, new.vSpent[o] # None
                 PROVE  o \in v.spent
      BY DEF FlagsSpent
    <3>1. o \in OutPoint /\ o[1] \in Tx /\ o[1] # t /\ o \notin Outputs(t)
      BY <1>1, <1>2 DEF Outputs
    <3>2. CASE o \in vin[t]
      BY <1>3, <2>1, <3>1, <3>2
    <3>3. CASE o \notin vin[t]
      <4>1. idx.pos[o[1]] # None /\ idx.vSpent[o] # None
        BY <1>1, <3>1, <3>3
      <4> QED BY <2>1, <3>1, <4>1 DEF Follows, FlagsSpent
    <3> QED BY <3>2, <3>3
  <2>5. LosesNone(v, new)
    <3> SUFFICES ASSUME NEW o \in v.spent, new.pos[o[1]] # None, new.vSpent[o] = None
                 PROVE  \E s \in v.tx \ Generated : o \in vin[s]
      BY DEF LosesNone
    <3>1. o \in Mine /\ o \notin Outputs(t)
      BY <2>1 DEF Wallets
    <3>2. o \in OutPoint /\ o[1] \in Tx /\ o[1] # t
      BY <1>2, <3>1 DEF Outputs
    <3>3. o \notin vin[t]
      BY <1>1, <1>2, <3>2
    <3>4. o \in w.spent /\ idx.pos[o[1]] # None /\ idx.vSpent[o] = None
      BY <1>1, <2>1, <3>2, <3>3
    <3> QED BY <2>1, <3>4 DEF Follows, LosesNone
  <2> QED BY <2>2, <2>3, <2>4, <2>5 DEF Follows, v
<1>7. CASE ~in
  <2>0. v = w /\ t \notin w.tx /\ Outputs(t) = {} /\ vin[t] \cap Mine = {}
    BY <1>4, <1>5, <1>7
  <2> HIDE DEF v, in
  <2>1. \A o \in Mine : /\ o \in OutPoint /\ o[1] \in Tx /\ o[1] # t /\ o \notin vin[t]
                        /\ new.pos[o[1]] = idx.pos[o[1]] /\ new.vSpent[o] = idx.vSpent[o]
    BY <1>1, <1>2, <2>0 DEF Outputs
  <2>2. KnowsOwn(v, new) /\ KnowsPlace(v, new)
    BY <1>1, <2>0 DEF Follows, KnowsOwn, KnowsPlace, Wallets
  <2>3. FlagsSpent(v, new)
    BY <2>0, <2>1 DEF Follows, FlagsSpent
  <2>4. LosesNone(v, new)
    <3>1. w.spent \subseteq Mine
      BY DEF Wallets
    <3> QED BY <2>0, <2>1, <3>1 DEF Follows, LosesNone
  <2> QED BY <2>2, <2>3, <2>4 DEF Follows, v
<1> QED BY <1>6, <1>7

(* What the index of a chain says of its blocks, and of no others.         *)
LEMMA IndexFacts ==
  ASSUME NEW idx \in TxIndexType, NEW c \in Block, IsIndexOf(idx, c)
  PROVE  /\ \A a \in Anc[c] \ {Genesis} : \A i \in 1 .. Len(vtx[a]) :
              /\ idx.pos[vtx[a][i]] = a
              /\ \A o \in vin[vtx[a][i]] :
                   /\ o \in OutPoint
                   /\ idx.vSpent[o] = vtx[a][i]
                   /\ idx.pos[o[1]] \in Anc[a]
                   /\ idx.pos[o[1]] = a => \E j \in 1 .. i - 1 : vtx[a][j] = o[1]
         /\ \A t \in Tx : idx.pos[t] # None =>
              /\ idx.pos[t] \in Anc[c] \ {Genesis}
              /\ \E i \in 1 .. Len(vtx[idx.pos[t]]) : vtx[idx.pos[t]][i] = t
         /\ \A o \in OutPoint : idx.vSpent[o] # None =>
              /\ idx.vSpent[o] \in Tx
              /\ idx.pos[idx.vSpent[o]] # None
              /\ o \in vin[idx.vSpent[o]]
<1> DEFINE n == Connected(c, None, 0)
<1>1. /\ \A a \in Anc[c] \ {Genesis} : a \in Block /\ n[a] = Len(vtx[a])
      /\ \A a \in Block : a \notin Anc[c] \ {Genesis} => n[a] = 0
  BY AncFacts, TreeAssumption DEF Connected
<1>2. Describes(idx, n)
  BY DEF IsIndexOf
<1> HIDE DEF n
<1>3. ASSUME NEW a \in Anc[c] \ {Genesis}, NEW i \in 1 .. Len(vtx[a])
      PROVE  /\ idx.pos[vtx[a][i]] = a
             /\ \A o \in vin[vtx[a][i]] :
                  /\ o \in OutPoint
                  /\ idx.vSpent[o] = vtx[a][i]
                  /\ idx.pos[o[1]] \in Anc[a]
                  /\ idx.pos[o[1]] = a => \E j \in 1 .. i - 1 : vtx[a][j] = o[1]
  <2>1. a \in Block /\ i \in 1 .. n[a]
    BY <1>1
  <2> QED BY <1>2, <2>1 DEF Describes, RecordsOf, InputsOf
<1>4. ASSUME NEW t \in Tx, idx.pos[t] # None
      PROVE  /\ idx.pos[t] \in Anc[c] \ {Genesis}
             /\ \E i \in 1 .. Len(vtx[idx.pos[t]]) : vtx[idx.pos[t]][i] = t
  <2>1. idx.pos[t] \in Block
    BY <1>4 DEF TxIndexType
  <2>2. PICK i \in 1 .. n[idx.pos[t]] : vtx[idx.pos[t]][i] = t
    BY <1>2, <1>4 DEF Describes, OnlyRecordsOf
  <2>3. idx.pos[t] \in Anc[c] \ {Genesis}
    BY <1>1, <2>1, <2>2
  <2> QED BY <1>1, <2>2, <2>3
<1>5. ASSUME NEW o \in OutPoint, idx.vSpent[o] # None
      PROVE  /\ idx.vSpent[o] \in Tx
             /\ idx.pos[idx.vSpent[o]] # None
             /\ o \in vin[idx.vSpent[o]]
  BY <1>2, <1>5 DEF Describes, OnlyInputsOf, TxIndexType
<1> QED BY <1>3, <1>4, <1>5

(* An index without some of its transactions.                              *)
Without(idx, ts) ==
  [pos    |-> [t \in Tx |-> IF t \in ts THEN None ELSE idx.pos[t]],
   vSpent |-> [o \in OutPoint |-> IF idx.vSpent[o] \in ts THEN None ELSE idx.vSpent[o]]]

(* The index of a chain without the transactions of its last block is the  *)
(* index of the chain that ends one block earlier.                         *)
LEMMA WithoutTip ==
  ASSUME NEW b \in Block \ {Genesis}, NEW old \in TxIndexType, NEW new \in TxIndexType,
         IsIndexOf(old, Prev[b]), IsIndexOf(new, b)
  PROVE  old = Without(new, TxsOf(b))
<1>0. /\ Prev[b] \in Block /\ b \in Anc[b] /\ b \notin Anc[Prev[b]]
      /\ Anc[b] = Anc[Prev[b]] \cup {b} /\ None \notin Tx /\ None \notin Block
  BY AncFacts, TreeAssumption, TxAssumption
<1>1. TxsOf(b) = {vtx[b][i] : i \in 1 .. Len(vtx[b])} /\ TxsOf(b) \subseteq Tx
  <2>1. DOMAIN vtx[b] = 1 .. Len(vtx[b])
    BY TxAssumption
  <2> QED BY <2>1, VtxType DEF TxsOf
<1>2. \A a \in Anc[Prev[b]] \ {Genesis} : \A i \in 1 .. Len(vtx[a]) :
        /\ old.pos[vtx[a][i]] = a /\ new.pos[vtx[a][i]] = a
        /\ \A o \in vin[vtx[a][i]] :
             o \in OutPoint /\ old.vSpent[o] = vtx[a][i] /\ new.vSpent[o] = vtx[a][i]
  <2>1. \A a \in Anc[Prev[b]] \ {Genesis} : \A i \in 1 .. Len(vtx[a]) :
          old.pos[vtx[a][i]] = a /\ \A o \in vin[vtx[a][i]] : o \in OutPoint /\ old.vSpent[o] = vtx[a][i]
    BY <1>0, IndexFacts
  <2>2. \A a \in Anc[b] \ {Genesis} : \A i \in 1 .. Len(vtx[a]) :
          new.pos[vtx[a][i]] = a /\ \A o \in vin[vtx[a][i]] : new.vSpent[o] = vtx[a][i]
    BY IndexFacts
  <2> QED BY <1>0, <2>1, <2>2
<1>3. \A t \in TxsOf(b) : new.pos[t] = b /\ \A o \in vin[t] : new.vSpent[o] = t
  <2>1. \A i \in 1 .. Len(vtx[b]) :
          new.pos[vtx[b][i]] = b /\ \A o \in vin[vtx[b][i]] : new.vSpent[o] = vtx[b][i]
    BY <1>0, IndexFacts
  <2> QED BY <1>1, <2>1
<1>4. \A t \in Tx : old.pos[t] # None =>
        /\ old.pos[t] \in Anc[Prev[b]] \ {Genesis}
        /\ \E i \in 1 .. Len(vtx[old.pos[t]]) : vtx[old.pos[t]][i] = t
  BY <1>0, IndexFacts
<1>5. \A t \in Tx : new.pos[t] # None =>
        /\ new.pos[t] \in Anc[b] \ {Genesis}
        /\ \E i \in 1 .. Len(vtx[new.pos[t]]) : vtx[new.pos[t]][i] = t
  BY IndexFacts
<1>6. \A o \in OutPoint :
        /\ old.vSpent[o] # None => /\ old.vSpent[o] \in Tx /\ old.pos[old.vSpent[o]] # None
                                   /\ o \in vin[old.vSpent[o]]
        /\ new.vSpent[o] # None => /\ new.vSpent[o] \in Tx /\ new.pos[new.vSpent[o]] # None
                                   /\ o \in vin[new.vSpent[o]]
  BY <1>0, IndexFacts
<1>7. ASSUME NEW t \in Tx, old.pos[t] # None
      PROVE  /\ t \notin TxsOf(b) /\ new.pos[t] = old.pos[t]
             /\ \A o \in vin[t] : old.vSpent[o] = t /\ new.vSpent[o] = t
  BY <1>0, <1>2, <1>3, <1>4, <1>7
<1>8. ASSUME NEW t \in Tx, new.pos[t] # None, t \notin TxsOf(b)
      PROVE  old.pos[t] = new.pos[t] /\ \A o \in vin[t] : old.vSpent[o] = t
  <2>1. new.pos[t] # b
    BY <1>1, <1>5, <1>8
  <2> QED BY <1>0, <1>2, <1>5, <1>8, <2>1
<1>9. \A t \in Tx : old.pos[t] = IF t \in TxsOf(b) THEN None ELSE new.pos[t]
  BY <1>7, <1>8
<1>10. ASSUME NEW o \in OutPoint
       PROVE  old.vSpent[o] = IF new.vSpent[o] \in TxsOf(b) THEN None ELSE new.vSpent[o]
  <2>1. CASE old.vSpent[o] # None
    BY <1>6, <1>7, <2>1
  <2>2. CASE old.vSpent[o] = None
    <3>1. ASSUME new.vSpent[o] # None, new.vSpent[o] \notin TxsOf(b) PROVE FALSE
      BY <1>0, <1>6, <1>8, <2>2, <3>1
    <3> QED BY <2>2, <3>1
  <2> QED BY <2>1, <2>2
<1>11. old.pos = [t \in Tx |-> old.pos[t]] /\ old.vSpent = [o \in OutPoint |-> old.vSpent[o]]
       /\ old = [pos |-> old.pos, vSpent |-> old.vSpent]
  BY DEF TxIndexType
<1>12. old.pos = Without(new, TxsOf(b)).pos
  BY <1>9, <1>11 DEF Without
<1>13. old.vSpent = Without(new, TxsOf(b)).vSpent
  BY <1>10, <1>11 DEF Without
<1>14. Without(new, TxsOf(b)) = [pos |-> Without(new, TxsOf(b)).pos, vSpent |-> Without(new, TxsOf(b)).vSpent]
  BY DEF Without
<1> QED BY <1>11, <1>12, <1>13, <1>14

(* The transactions of a block after the first k.                          *)
After(b, k) == {vtx[b][i] : i \in k + 1 .. Len(vtx[b])}

(* The index of a chain without the transactions of its last block after   *)
(* the k-th, from one k to the next.                                       *)
LEMMA WithoutAfter ==
  ASSUME NEW b \in Block \ {Genesis}, NEW idx \in TxIndexType, IsIndexOf(idx, b)
  PROVE  /\ After(b, 0) = TxsOf(b) /\ After(b, Len(vtx[b])) = {}
         /\ Without(idx, {}) = idx
         /\ \A k \in 0 .. Len(vtx[b]) : Without(idx, After(b, k)) \in TxIndexType
         /\ \A k \in 1 .. Len(vtx[b]) :
              /\ IsNextIndex(Without(idx, After(b, k - 1)), vtx[b][k], b,
                             Without(idx, After(b, k)))
              /\ \A o \in vin[vtx[b][k]] :
                   Without(idx, After(b, k - 1)).pos[o[1]] # None /\ o[1] # vtx[b][k]
<1> DEFINE n == Len(vtx[b])
<1>1. /\ n \in Nat /\ DOMAIN vtx[b] = 1 .. n
      /\ \A i \in 1 .. n : vtx[b][i] \in Tx
      /\ \A i, j \in 1 .. n : vtx[b][i] = vtx[b][j] => i = j
      /\ None \notin Tx /\ None \notin Block /\ Anc[b] \subseteq Block /\ b \in Anc[b]
      /\ \A o \in OutPoint : o[1] \in Tx
  BY VtxType, TxAssumption, TreeAssumption, AncFacts
<1> HIDE DEF n
<1>2. After(b, 0) = TxsOf(b) /\ After(b, n) = {}
  BY <1>1 DEF After, TxsOf, n
<1>3. Without(idx, {}) = idx
  BY DEF Without, TxIndexType
<1>4. \A ts : Without(idx, ts) \in TxIndexType
  BY DEF Without, TxIndexType
<1>5. \A i \in 1 .. n :
        /\ idx.pos[vtx[b][i]] = b
        /\ \A o \in vin[vtx[b][i]] :
             /\ o \in OutPoint
             /\ idx.vSpent[o] = vtx[b][i]
             /\ idx.pos[o[1]] \in Anc[b]
             /\ idx.pos[o[1]] = b => \E j \in 1 .. i - 1 : vtx[b][j] = o[1]
  BY <1>1, IndexFacts DEF n
<1>6. ASSUME NEW k \in 1 .. n
      PROVE  /\ IsNextIndex(Without(idx, After(b, k - 1)), vtx[b][k], b, Without(idx, After(b, k)))
             /\ \A o \in vin[vtx[b][k]] :
                  Without(idx, After(b, k - 1)).pos[o[1]] # None /\ o[1] # vtx[b][k]
  <2> DEFINE t == vtx[b][k]
             p == Without(idx, After(b, k - 1))
             q == Without(idx, After(b, k))
  <2>1. /\ After(b, k - 1) = After(b, k) \cup {t} /\ t \notin After(b, k)
        /\ \A s \in After(b, k - 1) : \E i \in k .. n : s = vtx[b][i]
        /\ \A i \in k + 1 .. n : vtx[b][i] \in After(b, k)
    <3>1. k .. n = (k + 1 .. n) \cup {k} /\ (k - 1) + 1 = k
      BY <1>1
    <3>2. \A i \in k + 1 .. n : i \in 1 .. n /\ i # k
      BY <1>1
    <3> QED BY <1>1, <3>1, <3>2 DEF After, n
  <2>2. t \in Tx /\ idx.pos[t] = b
    BY <1>1, <1>5
  <2>3. /\ \A s \in Tx : p.pos[s] = IF s \in After(b, k - 1) THEN None ELSE idx.pos[s]
        /\ \A s \in Tx : q.pos[s] = IF s \in After(b, k) THEN None ELSE idx.pos[s]
        /\ \A o \in OutPoint : p.vSpent[o] = IF idx.vSpent[o] \in After(b, k - 1) THEN None
                                             ELSE idx.vSpent[o]
        /\ \A o \in OutPoint : q.vSpent[o] = IF idx.vSpent[o] \in After(b, k) THEN None
                                             ELSE idx.vSpent[o]
        /\ p.pos \in [Tx -> Block \cup {None}] /\ q.pos \in [Tx -> Block \cup {None}]
    BY DEF Without, TxIndexType
  <2> HIDE DEF p, q
  <2>4. q.pos = [p.pos EXCEPT ![t] = b]
    BY <2>1, <2>2, <2>3
  <2>5. ASSUME NEW o \in vin[t]
        PROVE  /\ o \in OutPoint /\ o[1] \in Tx /\ o[1] # t /\ p.pos[o[1]] # None
               /\ q.vSpent[o] = t
    <3>1. /\ o \in OutPoint /\ o[1] \in Tx /\ idx.vSpent[o] = t /\ idx.pos[o[1]] \in Anc[b]
          /\ idx.pos[o[1]] = b => \E j \in 1 .. k - 1 : vtx[b][j] = o[1]
      BY <1>1, <1>5, <2>5
    <3>2. o[1] \notin After(b, k - 1)
      <4> SUFFICES ASSUME o[1] \in After(b, k - 1) PROVE FALSE
        OBVIOUS
      <4>1. PICK i \in k .. n : o[1] = vtx[b][i]
        BY <2>1
      <4>2. i \in 1 .. n
        BY <1>1
      <4>3. PICK j \in 1 .. k - 1 : vtx[b][j] = o[1]
        BY <1>5, <3>1, <4>1, <4>2
      <4>4. j \in 1 .. n /\ i # j
        BY <1>1
      <4> QED BY <1>1, <4>1, <4>2, <4>3, <4>4
    <3> QED BY <1>1, <2>1, <2>3, <3>1, <3>2
  <2>6. ASSUME NEW o \in OutPoint
        PROVE  q.vSpent[o] = IF o[1] = t THEN None ELSE IF o \in vin[t] THEN t ELSE p.vSpent[o]
    <3>1. idx.vSpent[o] # None =>
            /\ idx.vSpent[o] \in Tx /\ idx.pos[idx.vSpent[o]] # None /\ o \in vin[idx.vSpent[o]]
      BY IndexFacts
    <3>2. CASE o[1] = t
      <4> SUFFICES ASSUME idx.vSpent[o] # None PROVE idx.vSpent[o] \in After(b, k)
        BY <2>3, <3>2
      <4> DEFINE s == idx.vSpent[o]
                 a == idx.pos[s]
      <4>1. s \in Tx /\ a # None /\ o \in vin[s]
        BY <3>1
      <4> HIDE DEF s
      <4>2. a \in Anc[b] \ {Genesis} /\ \E i \in 1 .. Len(vtx[a]) : vtx[a][i] = s
        BY <4>1, IndexFacts
      <4> HIDE DEF a
      <4>3. PICK i \in 1 .. Len(vtx[a]) : vtx[a][i] = s
        BY <4>2
      <4>4. idx.pos[t] \in Anc[a] /\ (idx.pos[t] = a => \E j \in 1 .. i - 1 : vtx[a][j] = t)
        BY <3>2, <4>1, <4>2, <4>3, IndexFacts
      <4>5. a = b
        BY <1>1, <2>2, <4>2, <4>4, TreeAssumption
      <4>6. PICK j \in 1 .. i - 1 : vtx[b][j] = t
        BY <2>2, <4>4, <4>5
      <4>7. i \in 1 .. n /\ j \in 1 .. n /\ j < i
        BY <1>1, <4>3, <4>5 DEF n
      <4>8. j = k
        BY <1>1, <4>6, <4>7
      <4>9. i \in k + 1 .. n
        BY <1>1, <4>7, <4>8
      <4> QED BY <2>1, <4>3, <4>5, <4>9 DEF s
    <3>3. CASE o[1] # t /\ o \in vin[t]
      BY <2>5, <3>3
    <3>4. CASE o[1] # t /\ o \notin vin[t]
      BY <2>1, <2>3, <3>1, <3>4
    <3> QED BY <3>2, <3>3, <3>4
  <2> QED BY <2>4, <2>5, <2>6 DEF IsNextIndex, p, q
<1> QED BY <1>2, <1>3, <1>4, <1>6 DEF n

(* A wallet that follows the chain up to the previous block follows it to  *)
(* the block that it is shown.                                             *)
LEMMA ConnectFollows ==
  ASSUME NEW w \in Wallets, NEW b \in Block \ {Genesis}, NEW old \in TxIndexType,
         NEW new \in TxIndexType, IsIndexOf(old, Prev[b]), IsIndexOf(new, b), Follows(w, old)
  PROVE  Follows(SyncConnect(w, b, TRUE), new)
<1> DEFINE n == Len(vtx[b])
           c == SyncingConnect(w, b, TRUE)
           idx(k) == Without(new, After(b, k))
           S == {k \in 0 .. n : Follows(c[k], idx(k))}
<1>1. /\ n \in Nat
      /\ c[0] = w
      /\ \A k \in 1 .. n : c[k] = AddToWalletIfInvolvingMe(c[k - 1], vtx[b][k], b, TRUE)
      /\ \A k \in 0 .. n : c[k] \in Wallets
  BY SyncingConnectSteps
<1>2. idx(0) = old /\ idx(n) = new
  BY WithoutTip, WithoutAfter
<1>3. /\ \A k \in 0 .. n : idx(k) \in TxIndexType
      /\ \A k \in 1 .. n :
           /\ IsNextIndex(idx(k - 1), vtx[b][k], b, idx(k))
           /\ \A o \in vin[vtx[b][k]] : idx(k - 1).pos[o[1]] # None /\ o[1] # vtx[b][k]
  BY WithoutAfter
<1>4. \A k \in 1 .. n : vtx[b][k] \in Tx
  BY VtxType
<1> HIDE DEF n, c, idx
<1>5. 0 \in S
  BY <1>1, <1>2
<1>6. ASSUME NEW k \in 1 .. n, k - 1 \in S PROVE k \in S
  <2>1. k - 1 \in 0 .. n /\ k \in 0 .. n /\ Follows(c[k - 1], idx(k - 1))
    BY <1>1, <1>6
  <2>2. Follows(AddToWalletIfInvolvingMe(c[k - 1], vtx[b][k], b, TRUE), idx(k))
    <3> DEFINE x == c[k - 1]
               y == idx(k - 1)
               z == idx(k)
               t == vtx[b][k]
    <3>1. /\ x \in Wallets /\ y \in TxIndexType /\ z \in TxIndexType /\ t \in Tx
          /\ Follows(x, y) /\ IsNextIndex(y, t, b, z)
          /\ \A o \in vin[t] : y.pos[o[1]] # None /\ o[1] # t
      BY <1>1, <1>3, <1>4, <2>1
    <3> HIDE DEF x, y, z, t
    <3>2. Follows(AddToWalletIfInvolvingMe(x, t, b, TRUE), z)
      BY <3>1, FollowsNext
    <3> QED BY <3>2 DEF x, z, t
  <2> QED BY <1>1, <2>1, <2>2
<1>7. \A k \in 0 .. n : k \in S
  <2> HIDE DEF S
  <2> QED BY <1>1, <1>5, <1>6, UpTo
<1>8. n \in S
  BY <1>1, <1>7
<1> QED BY <1>2, <1>8 DEF SyncConnect, c, n

(* A wallet that follows the chain up to the block that is disconnected    *)
(* follows it to the previous block.                                       *)
LEMMA DisconnectFollows ==
  ASSUME NEW w \in Wallets, NEW b \in Block \ {Genesis}, NEW old \in TxIndexType,
         NEW new \in TxIndexType, IsIndexOf(old, b), IsIndexOf(new, Prev[b]), Follows(w, old)
  PROVE  Follows(SyncDisconnect(w, b), new)
<1> DEFINE v == SyncDisconnect(w, b)
<1>1. new = Without(old, TxsOf(b))
  BY WithoutTip
<1>2. /\ \A t \in Tx : new.pos[t] = IF t \in TxsOf(b) THEN None ELSE old.pos[t]
      /\ \A o \in OutPoint : new.vSpent[o] = IF old.vSpent[o] \in TxsOf(b) THEN None
                                             ELSE old.vSpent[o]
  BY <1>1 DEF Without
<1>3. /\ Mine \subseteq OutPoint /\ \A o \in OutPoint : o[1] \in Tx
      /\ w.tx \subseteq Tx /\ w.spent \subseteq Mine /\ None \notin Tx /\ b \in Anc[b]
      /\ TxsOf(b) = {vtx[b][i] : i \in 1 .. Len(vtx[b])} /\ TxsOf(b) \subseteq Tx
  <2>1. DOMAIN vtx[b] = 1 .. Len(vtx[b])
    BY TxAssumption
  <2> QED BY <2>1, VtxType, TxAssumption, WalletAssumption, AncFacts DEF Wallets, TxsOf
<1>4. /\ v.tx = w.tx
      /\ v.hashBlock = w.hashBlock
      /\ \A o : o \in v.spent <=>
           /\ o \in w.spent
           /\ \A i \in 1 .. Len(vtx[b]) :
                vtx[b][i] \in Generated => o \notin OwnInputs(w, vtx[b][i])
  BY SyncDisconnectIs
<1> HIDE DEF v
<1>5. \A o : o \in v.spent <=>
        o \in w.spent /\ \A t \in TxsOf(b) \cap Generated : o \notin OwnInputs(w, t)
  BY <1>3, <1>4
<1>6. \A t \in TxsOf(b) : \A o \in vin[t] : old.vSpent[o] = t
  <2>1. b \in Anc[b] \ {Genesis}
    BY <1>3
  <2>2. \A i \in 1 .. Len(vtx[b]) : \A o \in vin[vtx[b][i]] : old.vSpent[o] = vtx[b][i]
    BY <2>1, IndexFacts
  <2> QED BY <1>3, <2>2
<1>7. KnowsOwn(v, new) /\ KnowsPlace(v, new)
  BY <1>2, <1>3, <1>4 DEF Follows, KnowsOwn, KnowsPlace
<1>8. FlagsSpent(v, new)
  <2> SUFFICES ASSUME NEW o \in Mine, new.pos[o[1]] # None, new.vSpent[o] # None
               PROVE  o \in v.spent
    BY DEF FlagsSpent
  <2>1. old.pos[o[1]] # None /\ old.vSpent[o] # None /\ old.vSpent[o] \notin TxsOf(b)
    BY <1>2, <1>3
  <2>2. o \in w.spent
    BY <2>1 DEF Follows, FlagsSpent
  <2> QED BY <1>5, <1>6, <2>1, <2>2 DEF OwnInputs
<1>9. LosesNone(v, new)
  <2> SUFFICES ASSUME NEW o \in v.spent, new.pos[o[1]] # None, new.vSpent[o] = None
               PROVE  \E t \in v.tx \ Generated : o \in vin[t]
    BY DEF LosesNone
  <2>1. o \in w.spent /\ o \in Mine /\ o \in OutPoint /\ o[1] \in Tx /\ old.pos[o[1]] # None
    BY <1>2, <1>3, <1>5
  <2>2. CASE old.vSpent[o] = None
    BY <1>4, <2>1, <2>2 DEF Follows, LosesNone
  <2>3. CASE old.vSpent[o] # None
    <3> DEFINE t == old.vSpent[o]
    <3>1. t \in TxsOf(b) /\ t \in Tx /\ old.pos[t] # None /\ o \in vin[t]
      BY <1>2, <2>1, <2>3, IndexFacts
    <3>2. o[1] \in w.tx
      BY <2>1 DEF Follows, KnowsOwn, Outputs
    <3>3. t \in w.tx
      BY <2>1, <3>1 DEF Follows, KnowsOwn
    <3>4. t \notin Generated
      BY <1>5, <2>1, <3>1, <3>2 DEF OwnInputs
    <3> QED BY <1>4, <3>1, <3>3, <3>4
  <2> QED BY <2>2, <2>3
<1> QED BY <1>7, <1>8, <1>9 DEF Follows, v

-----------------------------------------------------------------------------
(* Start-up.                                                               *)

(* Either nothing happened or the wallet got to know a transaction.        *)
Learns(w, v) == v = w \/ (w.tx \subseteq v.tx /\ v.tx # w.tx)

(* A block that is scanned without fUpdate changes nothing unless it has a *)
(* transaction the wallet did not know.                                    *)
LEMMA SyncLearns ==
  ASSUME NEW w \in Wallets, NEW b \in Block
  PROVE  Learns(w, SyncConnect(w, b, FALSE))
<1> DEFINE n == Len(vtx[b])
           c == SyncingConnect(w, b, FALSE)
           S == {k \in 0 .. n : Learns(w, c[k])}
<1>1. /\ n \in Nat
      /\ c[0] = w
      /\ \A k \in 1 .. n : c[k] = AddToWalletIfInvolvingMe(c[k - 1], vtx[b][k], b, FALSE)
      /\ \A k \in 0 .. n : c[k] \in Wallets
  BY SyncingConnectSteps
<1>2. \A k \in 1 .. n : vtx[b][k] \in Tx
  BY VtxType
<1> HIDE DEF n, c
<1>3. 0 \in S
  BY <1>1 DEF Learns
<1>4. ASSUME NEW k \in 1 .. n, k - 1 \in S PROVE k \in S
  <2> DEFINE u == c[k - 1]
             t == vtx[b][k]
  <2>0. k - 1 \in 0 .. n /\ k \in 0 .. n
    BY <1>1
  <2>1. u \in Wallets /\ t \in Tx /\ Learns(w, u)
        /\ c[k] = AddToWalletIfInvolvingMe(u, t, b, FALSE)
    BY <1>1, <1>2, <1>4, <2>0
  <2> HIDE DEF u, t
  <2>2. c[k] = u \/ (c[k] = AddToWallet(u, t, b) /\ t \notin u.tx)
    BY <2>1, InvolvingIs
  <2>3. AddToWallet(u, t, b).tx = u.tx \cup {t}
    BY <2>1, AddToWalletTx
  <2>4. Learns(w, c[k])
    BY <2>1, <2>2, <2>3 DEF Learns
  <2> QED BY <2>0, <2>4
<1>5. \A k \in 0 .. n : k \in S
  <2> HIDE DEF S
  <2> QED BY <1>1, <1>3, <1>4, UpTo
<1>6. n \in S
  BY <1>1, <1>5
<1> QED BY <1>6 DEF SyncConnect, c, n

(* A scan, block by block.                                                 *)
LEMMA ScanningSteps ==
  ASSUME NEW w \in Wallets, NEW start \in Block, NEW fUpdate \in BOOLEAN
  PROVE  /\ Scanning(w, start, fUpdate) \in [Block -> Wallets]
         /\ \A b \in Block :
              Scanning(w, start, fUpdate)[b] =
                IF start \notin Anc[b] THEN w
                ELSE SyncConnect(IF b = start THEN w ELSE Scanning(w, start, fUpdate)[Prev[b]],
                                 b, fUpdate)
<1> DEFINE base == IF start = Genesis THEN SyncConnect(w, Genesis, fUpdate) ELSE w
           g == [b \in Block |-> [x \in Wallets |->
                   IF start \notin Anc[b] THEN w
                   ELSE SyncConnect(IF b = start THEN w ELSE x, b, fUpdate)]]
<1>0. /\ Genesis \in Block /\ Anc[Genesis] = {Genesis}
      /\ \A b \in Block \ {Genesis} : Prev[b] \in Block
  BY TreeAssumption
<1>1. base \in Wallets /\ g \in [Block -> [Wallets -> Wallets]]
  BY <1>0, SyncType
<1>2. \A b \in Block, x \in Wallets :
        g[b][x] = IF start \notin Anc[b] THEN w
                  ELSE SyncConnect(IF b = start THEN w ELSE x, b, fUpdate)
  OBVIOUS
<1> HIDE DEF g
<1>3. PICK f : IsBlockFcn(f, {Genesis}, Wallets, base, g)
  <2> HIDE DEF base
  <2> QED BY <1>1, BlockRecursion
<1>4. ASSUME NEW b \in Block
      PROVE  f[b] = IF start \notin Anc[b] THEN w
                    ELSE SyncConnect(IF b = start THEN w ELSE f[Prev[b]], b, fUpdate)
  <2>1. CASE b = Genesis
    BY <1>0, <1>3, <2>1 DEF IsBlockFcn
  <2>2. CASE b # Genesis
    <3> HIDE DEF base
    <3>1. f[Prev[b]] \in Wallets /\ f[b] = g[b][f[Prev[b]]]
      BY <1>0, <1>3, <2>2 DEF IsBlockFcn
    <3> QED BY <1>2, <3>1
  <2> QED BY <2>1, <2>2
<1>5. f = [b \in Block |->
             IF start \notin Anc[b] THEN w
             ELSE SyncConnect(IF b = start THEN w ELSE f[Prev[b]], b, fUpdate)]
  <2> HIDE DEF base
  <2> QED BY <1>3, <1>4 DEF IsBlockFcn
<1>6. Scanning(w, start, fUpdate) =
        [b \in Block |->
           IF start \notin Anc[b] THEN w
           ELSE SyncConnect(IF b = start THEN w ELSE Scanning(w, start, fUpdate)[Prev[b]],
                            b, fUpdate)]
  BY <1>5 DEF Scanning
<1> DEFINE scan == Scanning(w, start, fUpdate)
           S == {b \in Block : scan[b] \in Wallets}
<1>7. \A b \in Block : scan[b] = IF start \notin Anc[b] THEN w
        ELSE SyncConnect(IF b = start THEN w ELSE scan[Prev[b]], b, fUpdate)
  BY <1>6
<1> HIDE DEF scan
<1>8. Genesis \in S
  BY <1>0, <1>7, SyncType
<1>9. ASSUME NEW b \in Block \ {Genesis}, Prev[b] \in S PROVE b \in S
  <2>1. SyncConnect(IF b = start THEN w ELSE scan[Prev[b]], b, fUpdate) \in Wallets
    BY <1>9, SyncType
  <2> QED BY <1>7, <2>1
<1>10. Block \subseteq S
  <2> HIDE DEF S
  <2> QED BY <1>8, <1>9, BlockInduction
<1>11. scan \in [Block -> Wallets]
  BY <1>6, <1>10 DEF scan
<1> QED BY <1>7, <1>11 DEF scan

(* A scan leaves a wallet; one without fUpdate changes nothing unless it   *)
(* finds transactions.                                                     *)
LEMMA ScanIs ==
  ASSUME NEW w \in Wallets, NEW start \in Block, NEW best \in Block, NEW fUpdate \in BOOLEAN
  PROVE  /\ ScanForWalletTransactions(w, start, best, fUpdate) \in Wallets
         /\ ~fUpdate => Learns(w, ScanForWalletTransactions(w, start, best, fUpdate))
<1> DEFINE scan == Scanning(w, start, fUpdate)
           S == {b \in Block : Learns(w, scan[b])}
<1>1. /\ scan \in [Block -> Wallets]
      /\ \A b \in Block : scan[b] = IF start \notin Anc[b] THEN w
           ELSE SyncConnect(IF b = start THEN w ELSE scan[Prev[b]], b, fUpdate)
  BY ScanningSteps
<1> HIDE DEF scan
<1>2. ASSUME ~fUpdate PROVE Learns(w, scan[best])
  <2>0. fUpdate = FALSE /\ Learns(w, w) /\ Genesis \in Block /\ Anc[Genesis] = {Genesis}
    BY <1>2, TreeAssumption DEF Learns
  <2>1. Genesis \in S
    <3>1. CASE start = Genesis
      BY <1>1, <2>0, <3>1, SyncLearns
    <3>2. CASE start # Genesis
      BY <1>1, <2>0, <3>2
    <3> QED BY <3>1, <3>2
  <2>2. ASSUME NEW b \in Block \ {Genesis}, Prev[b] \in S PROVE b \in S
    <3> DEFINE u == IF b = start THEN w ELSE scan[Prev[b]]
    <3>1. u \in Wallets /\ Learns(w, u)
      BY <1>1, <2>0, <2>2
    <3>2. scan[b] = IF start \notin Anc[b] THEN w ELSE SyncConnect(u, b, FALSE)
      BY <1>1, <2>0
    <3> HIDE DEF u
    <3>3. Learns(u, SyncConnect(u, b, FALSE))
      BY <3>1, SyncLearns
    <3>4. Learns(w, SyncConnect(u, b, FALSE))
      BY <3>1, <3>3 DEF Learns
    <3> QED BY <2>0, <3>2, <3>4
  <2>3. Block \subseteq S
    <3> HIDE DEF S
    <3> QED BY <2>1, <2>2, BlockInduction
  <2> QED BY <2>3
<1> QED BY <1>1, <1>2 DEF ScanForWalletTransactions, scan

(* After a pass no spent output is missed, or another transaction is known. *)
LEMMA PassIs ==
  ASSUME NEW w \in Wallets, NEW best \in Block, NEW v, v = ReacceptPass(w, best)
  PROVE  /\ v \in Wallets
         /\ Missed(v) = {} \/ (Missed(w) # {} /\ w.tx \subseteq v.tx /\ v.tx # w.tx)
<1>1. CASE Missed(w) = {}
  BY <1>1 DEF ReacceptPass
<1>2. CASE Missed(w) # {}
  <2> DEFINE m == [w EXCEPT !.spent = @ \cup Missed(w)]
  <2>1. /\ m \in Wallets /\ m.tx = w.tx /\ m.spent = w.spent \cup Missed(w)
        /\ v = ScanForWalletTransactions(m, Genesis, best, FALSE)
    BY <1>2 DEF ReacceptPass, Wallets, Missed, SpentOnChain
  <2> HIDE DEF m
  <2>2. v \in Wallets /\ Learns(m, v)
    <3>1. Genesis \in Block /\ FALSE \in BOOLEAN
      BY TreeAssumption
    <3> DEFINE x == ScanForWalletTransactions(m, Genesis, best, FALSE)
    <3>2. x \in Wallets /\ (~FALSE => Learns(m, x))
      BY <2>1, <3>1, ScanIs
    <3> QED BY <2>1, <3>2
  <2>3. Missed(m) = {}
    <3> SUFFICES ASSUME NEW o \in Missed(m) PROVE FALSE
      OBVIOUS
    <3>1. o \in SpentOnChain(w) /\ o \notin w.spent /\ o \notin Missed(w) /\ ~Skipped(m, o[1])
      BY <2>1 DEF Missed, SpentOnChain
    <3>2. Skipped(w, o[1])
      BY <3>1 DEF Missed
    <3> QED BY <2>1, <3>1, <3>2 DEF Skipped
  <2> QED BY <1>2, <2>1, <2>2, <2>3 DEF Learns
<1> QED BY <1>1, <1>2

(* The passes, one by one.                                                 *)
LEMMA ReacceptingSteps ==
  ASSUME NEW w \in Wallets, NEW best \in Block
  PROVE  /\ Cardinality(Tx) \in Nat
         /\ Reaccepting(w, best)[0] = w
         /\ \A k \in 1 .. Cardinality(Tx) :
              Reaccepting(w, best)[k] = ReacceptPass(Reaccepting(w, best)[k - 1], best)
         /\ \A k \in 0 .. Cardinality(Tx) : Reaccepting(w, best)[k] \in Wallets
<1> DEFINE n == Cardinality(Tx)
           g == [k \in 1 .. n |-> [x \in Wallets |-> ReacceptPass(x, best)]]
<1>1. n \in Nat
  BY FS_CardinalityType, WalletAssumption
<1>2. \A x \in Wallets : ReacceptPass(x, best) \in Wallets
  BY PassIs
<1>3. /\ g \in [1 .. n -> [Wallets -> Wallets]]
      /\ \A k \in 1 .. n, x \in Wallets : g[k][x] = ReacceptPass(x, best)
  BY <1>2
<1> HIDE DEF g
<1>4. PICK f : IsFold(f, n, Wallets, w, g)
  <2> HIDE DEF n
  <2> QED BY <1>1, <1>3, FoldRecursion
<1>5. f = [k \in 0 .. Cardinality(Tx) |->
             IF k = 0 THEN w ELSE ReacceptPass(f[k - 1], best)]
  <2>1. ASSUME NEW k \in 1 .. n PROVE f[k] = ReacceptPass(f[k - 1], best)
    <3> HIDE DEF n
    <3>1. f[k - 1] \in Wallets /\ f[k] = g[k][f[k - 1]]
      BY <1>1, <1>4 DEF IsFold
    <3> QED BY <1>3, <3>1
  <2> QED BY <1>4, <2>1 DEF IsFold
<1>6. Reaccepting(w, best) =
        [k \in 0 .. Cardinality(Tx) |->
           IF k = 0 THEN w ELSE ReacceptPass(Reaccepting(w, best)[k - 1], best)]
  BY <1>5 DEF Reaccepting
<1>7. /\ Reaccepting(w, best)[0] = w
      /\ \A k \in 1 .. n :
           Reaccepting(w, best)[k] = ReacceptPass(Reaccepting(w, best)[k - 1], best)
  BY <1>1, <1>6
<1> DEFINE c == Reaccepting(w, best)
           S == {k \in 0 .. n : c[k] \in Wallets}
<1> HIDE DEF c, n
<1>8. 0 \in S
  BY <1>1, <1>7 DEF c
<1>9. ASSUME NEW k \in 1 .. n, k - 1 \in S PROVE k \in S
  <2>1. c[k] = ReacceptPass(c[k - 1], best)
    BY <1>7 DEF c
  <2> QED BY <1>1, <1>2, <1>9, <2>1
<1>10. \A k \in 0 .. n : k \in S
  <2> HIDE DEF S
  <2> QED BY <1>1, <1>8, <1>9, UpTo
<1> QED BY <1>1, <1>7, <1>10 DEF n, c

(* When they end no spent output is missed: each pass but the last has     *)
(* found a transaction, and there are only so many.                        *)
LEMMA ReacceptIs ==
  ASSUME NEW w \in Wallets, NEW best \in Block
  PROVE  /\ ReacceptWalletTransactions(w, best) \in Wallets
         /\ Missed(ReacceptWalletTransactions(w, best)) = {}
<1> DEFINE n == Cardinality(Tx)
           c == Reaccepting(w, best)
           S == {k \in 0 .. n : Missed(c[k]) = {} \/ Cardinality(c[k].tx) > k}
<1>1. /\ n \in Nat
      /\ c[0] = w
      /\ \A k \in 1 .. n : c[k] = ReacceptPass(c[k - 1], best)
      /\ \A k \in 0 .. n : c[k] \in Wallets
  BY ReacceptingSteps
<1>2. \A x \in Wallets : /\ IsFiniteSet(x.tx) /\ Cardinality(x.tx) \in Nat
                         /\ Cardinality(x.tx) <= n
  <2> SUFFICES ASSUME NEW x \in Wallets
               PROVE  IsFiniteSet(x.tx) /\ Cardinality(x.tx) \in Nat /\ Cardinality(x.tx) <= n
    OBVIOUS
  <2>1. x.tx \in SUBSET Tx /\ IsFiniteSet(Tx)
    BY WalletAssumption DEF Wallets
  <2>2. IsFiniteSet(x.tx) /\ Cardinality(x.tx) <= Cardinality(Tx)
    BY <2>1, FS_Subset
  <2> QED BY <2>2, FS_CardinalityType
<1> HIDE DEF n, c
<1>3. 0 \in S
  <2>1. Missed(w) # {} => w.tx # {}
    BY DEF Missed, SpentOnChain
  <2>2. w.tx # {} => Cardinality(w.tx) # 0
    BY <1>2, FS_EmptySet
  <2>3. Cardinality(w.tx) \in Nat
    BY <1>2
  <2>4. Missed(c[0]) = {} \/ Cardinality(c[0].tx) > 0
    BY <1>1, <2>1, <2>2, <2>3
  <2> QED BY <1>1, <2>4
<1>4. ASSUME NEW k \in 1 .. n, k - 1 \in S PROVE k \in S
  <2>0. k - 1 \in 0 .. n /\ k \in 0 .. n /\ k \in Nat
    BY <1>1
  <2> DEFINE u == c[k - 1]
             v == c[k]
  <2>1. /\ u \in Wallets /\ v \in Wallets /\ v = ReacceptPass(u, best)
        /\ Missed(u) = {} \/ Cardinality(u.tx) > k - 1
    BY <1>1, <1>4, <2>0
  <2>a. k \in S <=> Missed(v) = {} \/ Cardinality(v.tx) > k
    BY <2>0
  <2> HIDE DEF u, v, S
  <2>2. CASE Missed(v) = {}
    BY <2>a, <2>2
  <2>3. CASE Missed(v) # {}
    <3>1. Missed(u) # {} /\ u.tx \subseteq v.tx /\ v.tx # u.tx
      BY <2>1, <2>3, PassIs
    <3>2. IsFiniteSet(v.tx) /\ Cardinality(v.tx) \in Nat /\ Cardinality(u.tx) \in Nat
      BY <1>2, <2>1
    <3>3. Cardinality(u.tx) < Cardinality(v.tx)
      <4>1. u.tx \in SUBSET v.tx
        BY <3>1
      <4>2. /\ Cardinality(u.tx) <= Cardinality(v.tx)
            /\ Cardinality(u.tx) = Cardinality(v.tx) => u.tx = v.tx
        BY <3>2, <4>1, FS_Subset
      <4> QED BY <3>1, <3>2, <4>2
    <3>4. Cardinality(v.tx) > k
      BY <2>0, <2>1, <3>1, <3>2, <3>3
    <3> QED BY <2>a, <3>4
  <2> QED BY <2>2, <2>3
<1>5. \A k \in 0 .. n : k \in S
  <2> HIDE DEF S
  <2> QED BY <1>1, <1>3, <1>4, UpTo
<1>6. n \in S /\ c[n] \in Wallets
  BY <1>1, <1>5
<1>7. Missed(c[n]) = {}
  <2>1. Missed(c[n]) = {} \/ Cardinality(c[n].tx) > n
    BY <1>6
  <2>2. Cardinality(c[n].tx) \in Nat /\ Cardinality(c[n].tx) <= n
    BY <1>2, <1>6
  <2> QED BY <1>1, <2>1, <2>2
<1> QED BY <1>6, <1>7 DEF ReacceptWalletTransactions, c, n

-----------------------------------------------------------------------------
(* The node with its wallet.                                               *)

(* Every step of the node with its wallet is a step of the node, or leaves *)
(* the node alone.                                                         *)
LEMMA WalletStep == [WalletNext]_nodeVars => [Next]_vars
<1> SUFFICES ASSUME WalletNext PROVE [Next]_vars
  BY DEF nodeVars
<1>1. ASSUME NEW b \in Block \ {Genesis}, SyncedConnectBlock(b) PROVE Next
  BY <1>1 DEF SyncedConnectBlock, Next
<1>2. ASSUME NEW b \in Block \ {Genesis}, SyncedConnectFails(b) PROVE Next
  BY <1>2 DEF SyncedConnectFails, Next
<1>3. ASSUME NEW b \in Block \ {Genesis}, AddToBlockIndex(b) \/ ConnectTx(b) PROVE Next
  BY <1>3 DEF Next
<1>4. ASSUME SetBestChain \/ DisconnectTx \/ SyncedDisconnectBlock \/ SyncedCommit \/ Restart
      PROVE  Next
  BY <1>4 DEF SyncedDisconnectBlock, SyncedCommit, Restart, Next
<1>5. ASSUME NEW t \in Tx, CommitTransaction(t) \/ AcceptedToPool(t) PROVE UNCHANGED vars
  BY <1>5 DEF CommitTransaction, AcceptedToPool
<1>6. ASSUME FixSpentCoins PROVE UNCHANGED vars
  BY <1>6 DEF FixSpentCoins
<1> QED BY <1>1, <1>2, <1>3, <1>4, <1>5, <1>6 DEF WalletNext

(* So what holds of the node holds of the node with its wallet.            *)
LEMMA WalletNode == WalletSpec => []Inv
<1>1. WalletInit => Init
  BY DEF WalletInit
<1>2. WalletSpec => Spec
  BY <1>1, WalletStep, PTL DEF WalletSpec, Spec
<1> QED BY <1>2, AlwaysInv, PTL

(* The empty wallet follows the empty chain.                               *)
LEMMA InitWallet == WalletInit => WalletInv
<1> SUFFICES ASSUME WalletInit PROVE WalletInv
  OBVIOUS
<1> USE DEF WalletInit, Init
<1>1. mapWallet \in Wallets /\ bestBlock \in Block
  BY TreeAssumption DEF Wallets
<1>2. Synced = EmptyTxIndex /\ mapWallet.tx = {} /\ mapWallet.spent = {} /\ ~broke
      /\ pc # "disconnect"
  BY DEF Synced
<1>3. \A t \in Tx : EmptyTxIndex.pos[t] = None
  BY DEF EmptyTxIndex
<1>4. \A o \in Mine : o[1] \in Tx
  BY TxAssumption, WalletAssumption
<1>5. Follows(mapWallet, Synced)
  BY <1>2, <1>3, <1>4 DEF Follows, KnowsOwn, KnowsPlace, FlagsSpent, LosesNone
<1> QED BY <1>1, <1>2, <1>5 DEF WalletInv, FollowsSynced

(* The node works on the chain and the wallet is not called.               *)
LEMMA NodeWallet ==
  ASSUME Inv, WalletInv, UNCHANGED walletVars, NEW b \in Block \ {Genesis},
         AddToBlockIndex(b) \/ ConnectTx(b) \/ SetBestChain \/ DisconnectTx
  PROVE  WalletInv'
<1> USE DEF WalletInv
<1>1. /\ mapWallet' = mapWallet /\ bestBlock' = bestBlock
      /\ nCrash' = nCrash /\ nBestInvalidTrust' = nBestInvalidTrust /\ broke' = broke
  BY DEF walletVars, AddToBlockIndex, ConnectTx, SetBestChain, DisconnectTx
<1>2. Synced' = Synced
  <2>1. CASE AddToBlockIndex(b)
    BY <2>1 DEF AddToBlockIndex, Synced
  <2>2. CASE ConnectTx(b)
    BY <2>2 DEF ConnectTx, Connecting, dbVars, Synced
  <2>3. CASE SetBestChain
    BY <2>3 DEF SetBestChain, TxnBegin, Synced
  <2>4. CASE DisconnectTx
    BY <2>4 DEF DisconnectTx, Synced
  <2> QED BY <2>1, <2>2, <2>3, <2>4
<1>3. ASSUME Calm, pc' = "disconnect" PROVE IsIndexOf(queued', cur')
  <2>1. ~broke /\ (pc = "disconnect" => IsIndexOf(queued, cur))
    BY <1>3 DEF FollowsSynced
  <2>2. CASE SetBestChain
    <3>1. CommittedInv
      BY <2>1 DEF Inv, Database
    <3>2. queued' = dbTx /\ cur' = dbBest
      BY <2>2, <3>1 DEF SetBestChain, TxnBegin, CommittedInv, InTxn
    <3> QED BY <3>1, <3>2 DEF CommittedInv
  <2>3. CASE DisconnectTx
    BY <2>1, <2>3 DEF DisconnectTx
  <2> QED BY <1>3, <2>2, <2>3 DEF AddToBlockIndex, ConnectTx, Connecting
<1>4. FollowsSynced'
  <2> SUFFICES ASSUME Calm'
               PROVE  /\ ~broke' /\ Follows(mapWallet', Synced')
                      /\ pc' = "disconnect" => IsIndexOf(queued', cur')
    BY DEF FollowsSynced
  <2>1. Calm
    BY <1>1 DEF Calm
  <2> QED BY <1>1, <1>2, <1>3, <2>1 DEF FollowsSynced
<1> QED BY <1>1, <1>4

(* ConnectBlock shows its block to the wallet.                             *)
LEMMA ConnectBlockWallet ==
  ASSUME Inv, Inv', WalletInv, NEW b \in Block \ {Genesis}, SyncedConnectBlock(b)
  PROVE  WalletInv'
<1> USE DEF WalletInv
<1>1. /\ mapWallet' = SyncConnect(mapWallet, b, TRUE) /\ bestBlock' = bestBlock
      /\ nCrash' = nCrash /\ nBestInvalidTrust' = nBestInvalidTrust /\ broke' = broke
      /\ pc = "connect" /\ Prev[b] = cur /\ pc' \in {"connect", "commit"}
      /\ baTx' = queued /\ cur' = b
  BY DEF SyncedConnectBlock, ConnectBlock, Connecting
<1>2. mapWallet' \in Wallets
  BY <1>1, SyncType
<1>3. ASSUME Calm' PROVE ~broke' /\ Follows(mapWallet', Synced')
  <2>1. Calm
    BY <1>1, <1>3 DEF Calm
  <2>2. ~broke /\ Follows(mapWallet, baTx)
    BY <1>1, <2>1 DEF FollowsSynced, Synced
  <2>3. IsIndexOf(baTx, Prev[b])
    BY <1>1, <2>2 DEF Inv, Database, BatchInv
  <2>4. IsIndexOf(baTx', b)
    BY <1>1, <2>2 DEF Inv, Database, BatchInv
  <2>5. baTx \in TxIndexType /\ baTx' \in TxIndexType
    BY DEF Inv, TypeInv, TypeOK
  <2>6. Follows(SyncConnect(mapWallet, b, TRUE), baTx')
    BY <2>2, <2>3, <2>4, <2>5, ConnectFollows
  <2>7. Synced' = baTx'
    BY <1>1 DEF Synced
  <2> QED BY <1>1, <2>2, <2>6, <2>7
<1> QED BY <1>1, <1>2, <1>3 DEF FollowsSynced

(* DisconnectBlock shows its block to the wallet.                          *)
LEMMA DisconnectBlockWallet ==
  ASSUME Inv, Inv', WalletInv, SyncedDisconnectBlock
  PROVE  WalletInv'
<1> USE DEF WalletInv
<1>1. /\ mapWallet' = SyncDisconnect(mapWallet, cur) /\ bestBlock' = bestBlock
      /\ nCrash' = nCrash /\ nBestInvalidTrust' = nBestInvalidTrust /\ broke' = broke
      /\ pc = "disconnect" /\ cur' = Prev[cur] /\ pc' \in {"connect", "disconnect"}
      /\ baTx' = baTx /\ queued' = baTx /\ ntx = 0
  BY DEF SyncedDisconnectBlock, DisconnectBlock
<1>2. cur \in Block \ {Genesis}
  <2>1. cur \in Anc[pindexBest] \ Anc[goal] /\ goal \in Block /\ cur \in Block
    BY <1>1 DEF Inv, TypeInv, TypeOK, Control
  <2> QED BY <2>1, AncFacts
<1>3. mapWallet' \in Wallets
  BY <1>1, <1>2, SyncType
<1>4. ASSUME Calm'
      PROVE  /\ ~broke' /\ Follows(mapWallet', Synced')
             /\ pc' = "disconnect" => IsIndexOf(queued', cur')
  <2>1. Calm
    BY <1>1, <1>4 DEF Calm
  <2>2. ~broke /\ Follows(mapWallet, queued) /\ IsIndexOf(queued, cur)
    BY <1>1, <2>1 DEF FollowsSynced, Synced
  <2>3. Describes(baTx, Connected(cur, cur, 0))
    BY <1>1, <2>2 DEF Inv, Database, BatchInv
  <2>4. IsIndexOf(baTx, Prev[cur])
    BY <1>2, <2>3, ConnectedTip DEF IsIndexOf
  <2>5. baTx \in TxIndexType /\ queued \in TxIndexType
    BY DEF Inv, TypeInv, TypeOK
  <2>6. Follows(SyncDisconnect(mapWallet, cur), baTx)
    BY <1>2, <2>2, <2>4, <2>5, DisconnectFollows
  <2>7. Synced' = baTx
    BY <1>1 DEF Synced
  <2> QED BY <1>1, <2>2, <2>4, <2>6, <2>7
<1> QED BY <1>1, <1>3, <1>4 DEF FollowsSynced

(* SetBestChain commits, or gives up.                                      *)
LEMMA CommitWallet ==
  ASSUME Inv, WalletInv, SyncedCommit
  PROVE  WalletInv'
<1> USE DEF WalletInv
<1>1. /\ mapWallet' = mapWallet
      /\ nCrash' = nCrash /\ nBestInvalidTrust' = nBestInvalidTrust /\ broke' = broke
      /\ pc = "commit" /\ pc' \in {"connect", "idle"} /\ dbTx' = baTx /\ baTx' = baTx
  BY DEF SyncedCommit, Commit
<1>2. bestBlock' \in Block
  BY DEF SyncedCommit, Inv, TypeInv, TypeOK
<1>3. Synced = baTx /\ Synced' = baTx
  BY <1>1 DEF Synced
<1>4. Calm' => Calm
  BY <1>1 DEF Calm
<1> QED BY <1>1, <1>2, <1>3, <1>4 DEF FollowsSynced

(* A branch that is given up is recorded as invalid.                       *)
LEMMA FailsWallet ==
  ASSUME Inv, WalletInv, NEW b \in Block \ {Genesis}, SyncedConnectFails(b)
  PROVE  WalletInv'
<1> USE DEF WalletInv
<1> DEFINE bad == IF stage = "second" THEN goal ELSE target
<1>1. /\ mapWallet' = mapWallet
      /\ bestBlock' = IF stage = "second" THEN target ELSE bestBlock
      /\ nBestInvalidTrust' = IF ChainTrust[bad] > nBestInvalidTrust
                              THEN ChainTrust[bad] ELSE nBestInvalidTrust
      /\ pc = "connect"
  BY DEF SyncedConnectFails, ConnectFails, Connecting
<1>2. target \in Block /\ goal \in Block /\ goal \in Anc[target] \ {Genesis}
      /\ nBestInvalidTrust \in Nat
  BY <1>1 DEF Inv, TypeInv, TypeOK, Control, InTxn
<1>3. bad \in Block \ {Genesis}
  BY <1>2, TreeAssumption
<1> HIDE DEF bad
<1>4. ChainTrust[bad] \in Nat /\ ChainTrust[bad] > 0
  <2>1. Genesis \in Anc[bad] /\ Genesis # bad
    BY <1>3, AncFacts
  <2> QED BY <1>3, <2>1, TrustGrows
<1>5. nBestInvalidTrust' # 0
  BY <1>1, <1>2, <1>4
<1>6. bestBlock' \in Block
  BY <1>1, <1>2
<1> QED BY <1>1, <1>5, <1>6 DEF FollowsSynced, Calm

(* A restart leaves a wallet that misses no spent output.                  *)
LEMMA RestartWallet ==
  ASSUME Inv, WalletInv, Restart
  PROVE  /\ WalletInv'
         /\ \A o \in SpentOnChain(mapWallet') :
              o \in mapWallet'.spent \/ Skipped(mapWallet', o[1])
<1> DEFINE w == Rescan(mapWallet, dbBest)
<1>1. mapWallet \in Wallets /\ bestBlock \in Block /\ dbBest \in Block
  BY DEF WalletInv, Inv, TypeInv, TypeOK
<1>2. GetBlockIndex(bestBlock, dbBest) \in Block
  <2> DEFINE both == Anc[bestBlock] \cap Anc[dbBest]
             T == {Height[a] : a \in both}
  <2>1. \E a \in both : \A c \in both : c \in Anc[a]
    <3> DEFINE S == {d \in Block : \E a \in Anc[d] \cap Anc[dbBest] :
                       \A c \in Anc[d] \cap Anc[dbBest] : c \in Anc[a]}
    <3>1. Genesis \in S
      BY <1>1, TreeAssumption
    <3>2. ASSUME NEW d \in Block \ {Genesis}, Prev[d] \in S PROVE d \in S
      <4>1. Anc[d] = Anc[Prev[d]] \cup {d} /\ d \in Anc[d]
        BY AncFacts
      <4>2. CASE d \in Anc[dbBest]
        BY <4>1, <4>2
      <4>3. CASE d \notin Anc[dbBest]
        <5>1. Anc[d] \cap Anc[dbBest] = Anc[Prev[d]] \cap Anc[dbBest]
          BY <4>1, <4>3
        <5> QED BY <3>2, <5>1
      <4> QED BY <4>2, <4>3
    <3>3. Block \subseteq S
      <4> HIDE DEF S
      <4> QED BY <3>1, <3>2, BlockInduction
    <3> QED BY <1>1, <3>3
  <2>2. GetBlockIndex(bestBlock, dbBest) \in both
    BY <2>1 DEF GetBlockIndex
  <2> QED BY <1>1, <2>2, AncFacts
<1>3. w \in Wallets
  <2> DEFINE start == GetBlockIndex(bestBlock, dbBest)
  <2>1. w = mapWallet \/ w = ScanForWalletTransactions(mapWallet, start, dbBest, TRUE)
    BY DEF Rescan
  <2>2. start \in Block
    BY <1>2
  <2> HIDE DEF start, w
  <2>3. ScanForWalletTransactions(mapWallet, start, dbBest, TRUE) \in Wallets
    BY <1>1, <2>2, ScanIs
  <2> QED BY <1>1, <2>1, <2>3
<1>4. mapWallet' = ReacceptWalletTransactions(w, dbBest) /\ bestBlock' = bestBlock
      /\ nCrash' = nCrash + 1 /\ nCrash \in Nat
  BY DEF Restart, CrashAndLoadBlockIndex, Inv, TypeInv, TypeOK
<1> HIDE DEF w
<1>5. mapWallet' \in Wallets /\ Missed(mapWallet') = {}
  BY <1>1, <1>3, <1>4, ReacceptIs
<1>6. ~Calm'
  BY <1>4 DEF Calm
<1>7. WalletInv'
  BY <1>1, <1>4, <1>5, <1>6 DEF WalletInv, FollowsSynced
<1>8. \A o \in SpentOnChain(mapWallet') :
        o \in mapWallet'.spent \/ Skipped(mapWallet', o[1])
  BY <1>5 DEF Missed
<1> QED BY <1>7, <1>8

(* A transaction that is not on the chain is added to a wallet, which then *)
(* follows the chain as before.                                            *)
LEMMA FollowsPending ==
  ASSUME NEW w \in Wallets, NEW idx \in TxIndexType, NEW t \in Tx \ Generated, NEW v,
         v = AddToWallet(w, t, None), Follows(w, idx), idx.pos[t] = None
  PROVE  v \in Wallets /\ Follows(v, idx)
<1>1. /\ v \in Wallets
      /\ v.tx = w.tx \cup {t}
      /\ v.hashBlock = [w.hashBlock EXCEPT ![t] = IF None = None THEN @ ELSE None]
      /\ v.spent = (w.spent \cup {o \in vin[t] \cap Mine : o[1] \in v.tx})
                     \ (IF None # None THEN Outputs(t) ELSE {})
  BY AddToWalletIs
<1>2. v.hashBlock = w.hashBlock
  BY <1>1 DEF Wallets
<1>3. v.spent = w.spent \cup {o \in vin[t] \cap Mine : o[1] \in v.tx}
  BY <1>1
<1>4. KnowsOwn(v, idx)
  BY <1>1 DEF Follows, KnowsOwn
<1>5. KnowsPlace(v, idx)
  BY <1>1, <1>2 DEF Follows, KnowsPlace
<1>6. FlagsSpent(v, idx)
  BY <1>3 DEF Follows, FlagsSpent
<1>7. LosesNone(v, idx)
  BY <1>1, <1>3 DEF Follows, LosesNone
<1> QED BY <1>1, <1>4, <1>5, <1>6, <1>7 DEF Follows

(* The wallet makes a transaction or is shown one of the memory pool.      *)
LEMMA PendingWallet ==
  ASSUME Inv, WalletInv, NEW t \in Tx, CommitTransaction(t) \/ AcceptedToPool(t)
  PROVE  WalletInv'
<1> USE DEF WalletInv
<1>1. /\ bestBlock' = bestBlock /\ pc = "idle" /\ pc' = "idle" /\ dbTx' = dbTx
      /\ nCrash' = nCrash /\ nBestInvalidTrust' = nBestInvalidTrust /\ broke' = broke
      /\ mapWallet' = mapWallet \/ mapWallet' = AddToWallet(mapWallet, t, None)
  <2>1. \A fUpdate \in BOOLEAN :
          LET v == AddToWalletIfInvolvingMe(mapWallet, t, None, fUpdate)
          IN  v = mapWallet \/ v = AddToWallet(mapWallet, t, None)
    BY InvolvingIs
  <2> QED BY <2>1 DEF CommitTransaction, AcceptedToPool, vars, dbVars, ctlVars
<1>2. AddToWallet(mapWallet, t, None) \in Wallets
  BY AddToWalletIs
<1>3. t \notin Generated
  BY WalletAssumption DEF CommitTransaction, AcceptedToPool
<1>4. ASSUME Calm' PROVE ~broke' /\ Follows(mapWallet', Synced')
  <2>1. Calm
    BY <1>1, <1>4 DEF Calm
  <2>2. ~broke /\ Follows(mapWallet, dbTx) /\ Synced' = dbTx /\ dbTx \in TxIndexType
    BY <1>1, <2>1 DEF FollowsSynced, Synced, Inv, TypeInv, TypeOK
  <2>3. dbTx.pos[t] = None
    <3>1. CASE AcceptedToPool(t)
      BY <3>1 DEF AcceptedToPool
    <3>2. CASE CommitTransaction(t)
      <4>1. t \in Made /\ t \notin mapWallet.tx /\ vin[t] \subseteq Mine
        BY <3>2 DEF CommitTransaction, AvailableCoins
      <4>2. vin[t] \cap Mine # {}
        BY <4>1, WalletAssumption
      <4> QED BY <2>2, <4>1, <4>2 DEF Follows, KnowsOwn
    <3> QED BY <3>1, <3>2
  <2>4. Follows(AddToWallet(mapWallet, t, None), dbTx)
    BY <1>3, <2>2, <2>3, FollowsPending
  <2> QED BY <1>1, <2>2, <2>4
<1> QED BY <1>1, <1>2, <1>4 DEF FollowsSynced

(* FixSpentCoins sets the flags of the outputs on the chain.               *)
LEMMA FixWallet ==
  ASSUME Inv, WalletInv, FixSpentCoins
  PROVE  WalletInv'
<1> USE DEF WalletInv
<1> DEFINE onChain == {o \in Mine : dbTx.pos[o[1]] # None}
<1>1. /\ bestBlock' = bestBlock /\ pc = "idle" /\ pc' = "idle" /\ dbTx' = dbTx
      /\ nCrash' = nCrash /\ nBestInvalidTrust' = nBestInvalidTrust /\ broke' = broke
      /\ mapWallet' = [mapWallet EXCEPT !.spent = (@ \ onChain) \cup SpentOnChain(mapWallet)]
  BY DEF FixSpentCoins, vars, dbVars, ctlVars
<1>2. /\ mapWallet' \in Wallets
      /\ mapWallet'.tx = mapWallet.tx
      /\ mapWallet'.hashBlock = mapWallet.hashBlock
      /\ mapWallet'.spent = (mapWallet.spent \ onChain) \cup SpentOnChain(mapWallet)
  BY <1>1 DEF Wallets, SpentOnChain
<1>3. ASSUME Calm' PROVE ~broke' /\ Follows(mapWallet', Synced')
  <2>1. Calm
    BY <1>1, <1>3 DEF Calm
  <2>2. ~broke /\ Follows(mapWallet, dbTx) /\ Synced' = dbTx
    BY <1>1, <2>1 DEF FollowsSynced, Synced
  <2> DEFINE v == mapWallet'
  <2>3. KnowsOwn(v, dbTx) /\ KnowsPlace(v, dbTx)
    BY <1>2, <2>2 DEF Follows, KnowsOwn, KnowsPlace
  <2>4. FlagsSpent(v, dbTx)
    <3> SUFFICES ASSUME NEW o \in Mine, dbTx.pos[o[1]] # None, dbTx.vSpent[o] # None
                 PROVE  o \in mapWallet'.spent
      BY DEF FlagsSpent
    <3>1. o \in Outputs(o[1]) /\ o[1] \in Tx
      BY TxAssumption, WalletAssumption DEF Outputs
    <3>2. o[1] \in mapWallet.tx
      BY <2>2, <3>1 DEF Follows, KnowsOwn
    <3> QED BY <1>2, <3>2 DEF SpentOnChain
  <2>5. LosesNone(v, dbTx)
    <3>1. mapWallet.spent \subseteq Mine
      BY DEF Wallets
    <3> QED BY <1>2, <3>1 DEF LosesNone, SpentOnChain
  <2> QED BY <1>1, <2>2, <2>3, <2>4, <2>5 DEF Follows
<1> QED BY <1>1, <1>2, <1>3 DEF FollowsSynced

(* Every step keeps the invariant.                                         *)
LEMMA NextWallet == Inv /\ Inv' /\ WalletInv /\ [WalletNext]_nodeVars => WalletInv'
<1> SUFFICES ASSUME Inv, Inv', WalletInv, [WalletNext]_nodeVars PROVE WalletInv'
  OBVIOUS
<1>1. ASSUME NEW b \in Block \ {Genesis}, SyncedConnectBlock(b) PROVE WalletInv'
  BY <1>1, ConnectBlockWallet
<1>2. ASSUME NEW b \in Block \ {Genesis}, SyncedConnectFails(b) PROVE WalletInv'
  BY <1>2, FailsWallet
<1>3. ASSUME NEW b \in Block \ {Genesis}, AddToBlockIndex(b) \/ ConnectTx(b),
             UNCHANGED walletVars
      PROVE  WalletInv'
  BY <1>3, NodeWallet
<1>4. ASSUME SetBestChain \/ DisconnectTx, UNCHANGED walletVars PROVE WalletInv'
  <2>1. Block \ {Genesis} # {}
    <3>1. CASE SetBestChain
      BY <3>1 DEF SetBestChain, Inv, TypeInv, TypeOK, Control
    <3>2. CASE DisconnectTx
      <4>1. goal \in Anc[target] \ {Genesis} /\ target \in Block
        BY <3>2 DEF DisconnectTx, Inv, TypeInv, TypeOK, Control, InTxn
      <4> QED BY <4>1, AncFacts
    <3> QED BY <1>4, <3>1, <3>2
  <2>2. PICK b \in Block \ {Genesis} : TRUE
    BY <2>1
  <2> QED BY <1>4, <2>2, NodeWallet
<1>5. ASSUME SyncedDisconnectBlock PROVE WalletInv'
  BY <1>5, DisconnectBlockWallet
<1>6. ASSUME SyncedCommit PROVE WalletInv'
  BY <1>6, CommitWallet
<1>7. ASSUME Restart PROVE WalletInv'
  BY <1>7, RestartWallet
<1>8. ASSUME NEW t \in Tx, CommitTransaction(t) \/ AcceptedToPool(t) PROVE WalletInv'
  BY <1>8, PendingWallet
<1>9. ASSUME FixSpentCoins PROVE WalletInv'
  BY <1>9, FixWallet
<1>10. ASSUME UNCHANGED nodeVars PROVE WalletInv'
  BY <1>10 DEF nodeVars, vars, dbVars, batchVars, ctlVars, walletVars, WalletInv,
               FollowsSynced, Synced, Calm
<1> QED BY <1>1, <1>2, <1>3, <1>4, <1>5, <1>6, <1>7, <1>8, <1>9, <1>10 DEF WalletNext

(* The invariants of the node and of its wallet hold at every step.        *)
LEMMA AlwaysWalletInv == WalletSpec => [](Inv /\ WalletInv)
<1>1. WalletSpec => []Inv
  BY WalletNode
<1>2. WalletInit => WalletInv
  BY InitWallet
<1>3. Inv /\ Inv' /\ WalletInv /\ [WalletNext]_nodeVars => WalletInv'
  BY NextWallet
<1> QED BY <1>1, <1>2, <1>3, PTL DEF WalletSpec

(* The wallet follows the best chain, through every reorganization that is *)
(* neither cut nor given up: it knows its transactions and the blocks they *)
(* are in, offers no coin that is spent and loses none (SyncWithWallets).  *)
THEOREM WalletCorrect == WalletSpec => []WalletFollowsChain
<1>1. Inv /\ WalletInv => WalletFollowsChain
  <2> SUFFICES ASSUME Inv, WalletInv PROVE WalletFollowsChain
    OBVIOUS
  <2>1. WalletTypeOK
    BY DEF WalletInv, Wallets, WalletTypeOK
  <2>2. ASSUME Undisturbed PROVE Follows(mapWallet, dbTx)
    BY <2>2 DEF Undisturbed, WalletInv, FollowsSynced, Calm, Synced
  <2>3. ChainSpendsFlagged
    BY <2>2 DEF ChainSpendsFlagged, SpentOnChain, Follows, FlagsSpent
  <2>4. NoLostCoin
    BY <2>2 DEF NoLostCoin, Follows, LosesNone
  <2>5. ConfirmedWhereTheyAre
    BY <2>2 DEF ConfirmedWhereTheyAre, Follows, KnowsPlace
  <2> QED BY <2>1, <2>3, <2>4, <2>5 DEF WalletFollowsChain
<1> QED BY <1>1, AlwaysWalletInv, PTL

(* Wherever a reorganization stopped, a start marks every output that the  *)
(* best chain has spent and that ReacceptWalletTransactions looks at,      *)
(* however many transactions its scans have to find first.                 *)
THEOREM RestartCorrect == WalletSpec => RestartFlags
<1>1. Inv /\ WalletInv /\ [WalletNext]_nodeVars =>
        [Restart => \A o \in SpentOnChain(mapWallet') :
           o \in mapWallet'.spent \/ Skipped(mapWallet', o[1])]_nodeVars
  BY RestartWallet
<1> QED BY <1>1, AlwaysWalletInv, PTL DEF WalletSpec, RestartFlags
=============================================================================
