----------------------------- MODULE BlockChain -----------------------------
(***************************************************************************)
(* The best chain of a full node: CBlock::AddToBlockIndex, SetBestChain,   *)
(* SetBestChainInner, Reorganize, ConnectBlock and DisconnectBlock of      *)
(* main.cpp over the LevelDB database of txdb-leveldb.cpp.                 *)
(*                                                                         *)
(* cs_main is held from AddToBlockIndex to the end of SetBestChain, so     *)
(* one block is handled at a time; what interleaves with the handler is a  *)
(* crash of the process, after which LoadBlockIndex rebuilds the memory    *)
(* from what was committed.  The loops over the transactions of a block    *)
(* and over the blocks of a branch are steps of their own, so that a crash *)
(* or a failing transaction can come between any two of them.              *)
(***************************************************************************)
EXTENDS ChainData

CONSTANT MaxCrash   \* bound on the crashes of a behaviour

ASSUME CrashAssumption == MaxCrash \in Nat

VARIABLES
  mapBlockIndex,      \* the blocks in the in-memory block index
  pindex,             \* their entries: pnext and nMoneySupply
  pindexBest,         \* the block the node takes for the tip of the best chain
  nBestInvalidTrust,  \* trust of the heaviest branch found invalid
  dbBlocks,           \* the blocks with a "bidx" record in the database
  dbIndex,            \* those records: hashNext and nMoneySupply
  dbBest,             \* the "hashBestChain" record
  dbTx,               \* the "tx" records
  baIndex,            \* bidx and tx records as read through the open batch
  baTx,
  queued,             \* tx records as read through mapQueuedChanges
  pc,                 \* where the handler is
  stage,              \* which caller of ConnectBlock is running
  target,             \* pindexNew of SetBestChain
  goal,               \* the block the open transaction is to make best
  cur,                \* the tip of the chain that the batch describes
  ntx,                \* transactions done of the block being (dis)connected
  nCrash,             \* crashes so far
  broke               \* history: a block of vpindexSecondary did not connect

memVars == <<mapBlockIndex, pindex, pindexBest>>
dbVars == <<dbBlocks, dbIndex, dbBest, dbTx>>
batchVars == <<baIndex, baTx, queued>>
ctlVars == <<pc, stage, target, goal, cur, ntx>>
vars == <<memVars, dbVars, batchVars, ctlVars, nBestInvalidTrust, nCrash, broke>>

NewIndexEntry == [next |-> None, supply |-> 0]

(* The node has started on an empty data directory and has accepted the    *)
(* genesis block, whose transactions are never connected.                  *)
Init ==
  /\ mapBlockIndex = {Genesis}
  /\ pindex = [b \in Block |-> NewIndexEntry]
  /\ pindexBest = Genesis
  /\ nBestInvalidTrust = 0
  /\ dbBlocks = {Genesis}
  /\ dbIndex = [b \in Block |-> NewIndexEntry]
  /\ dbBest = Genesis
  /\ dbTx = EmptyTxIndex
  /\ baIndex = dbIndex
  /\ baTx = EmptyTxIndex
  /\ queued = EmptyTxIndex
  /\ pc = "idle"
  /\ stage = "inner"
  /\ target = Genesis
  /\ goal = Genesis
  /\ cur = Genesis
  /\ ntx = 0
  /\ nCrash = 0
  /\ broke = FALSE

-----------------------------------------------------------------------------
(* The checks of ConnectBlock's loop on transaction t of block b.  The     *)
(* BIP 30 rule reads the database, the others read mapQueuedChanges first. *)
TxConnects(t, b) ==
  /\ ~Overwrites(baTx, t)
  /\ t \notin BadTx
  /\ \A o \in vin[t] : InputOk(queued, o, b)

(* Mutant of AddToBlockIndex: the longest chain wins.                      *)
AddToBlockIndexByHeight(b) ==
  /\ pc = "idle"
  /\ b \notin mapBlockIndex
  /\ Prev[b] \in mapBlockIndex
  /\ mapBlockIndex' = mapBlockIndex \cup {b}
  /\ pindex' = [pindex EXCEPT ![b] = NewIndexEntry]
  /\ dbBlocks' = dbBlocks \cup {b}
  /\ dbIndex' = [dbIndex EXCEPT ![b] = NewIndexEntry]
  /\ target' = b
  /\ pc' = IF Height[b] > Height[pindexBest] THEN "set" ELSE "idle"
  /\ UNCHANGED <<pindexBest, dbBest, dbTx, batchVars, stage, goal, cur, ntx,
                 nBestInvalidTrust, nCrash, broke>>

(* CBlock::AddToBlockIndex: the new entry is inserted and committed in a   *)
(* transaction of its own before the best chain is reconsidered.           *)
AddToBlockIndex(b) ==
  /\ pc = "idle"
  /\ b \notin mapBlockIndex
  /\ Prev[b] \in mapBlockIndex
  /\ mapBlockIndex' = mapBlockIndex \cup {b}
  /\ pindex' = [pindex EXCEPT ![b] = NewIndexEntry]
  /\ dbBlocks' = dbBlocks \cup {b}
  /\ dbIndex' = [dbIndex EXCEPT ![b] = NewIndexEntry]
  /\ target' = b
  /\ pc' = IF ChainTrust[b] > ChainTrust[pindexBest] THEN "set" ELSE "idle"
  /\ UNCHANGED <<pindexBest, dbBest, dbTx, batchVars, stage, goal, cur, ntx,
                 nBestInvalidTrust, nCrash, broke>>

(* Mutant of IsIntermediate: the walk goes on to the fork.                 *)
IsIntermediateAtFork(a) ==
  /\ a \in Anc[target] \ Anc[pindexBest]
  /\ Prev[a] \in Anc[pindexBest]

(* The first block of the new branch that outweighs the best chain.        *)
IsIntermediate(a) ==
  /\ a \in Anc[target] \ {Genesis}
  /\ ChainTrust[a] > ChainTrust[pindexBest]
  /\ ChainTrust[Prev[a]] <= ChainTrust[pindexBest]

(* Mutant of TxnBegin: what the last transaction has left is kept.         *)
TxnBeginKeepsBatch == UNCHANGED batchVars

TxnBegin ==
  /\ baIndex' = dbIndex
  /\ baTx' = dbTx
  /\ queued' = dbTx

(* SetBestChain: extend the best chain by one block, or reorganize to      *)
(* pindexIntermediate and leave the rest of the branch for later.          *)
SetBestChain ==
  /\ pc = "set"
  /\ TxnBegin
  /\ cur' = pindexBest
  /\ \/ /\ Prev[target] = pindexBest
        /\ stage' = "inner"
        /\ goal' = target
     \/ /\ Prev[target] # pindexBest
        /\ stage' = "reorg"
        /\ \E a \in Block : IsIntermediate(a) /\ goal' = a
  /\ pc' = IF pindexBest \in Anc[goal'] THEN "connect" ELSE "disconnect"
  /\ ntx' = IF pindexBest \in Anc[goal'] THEN 0 ELSE Len(vtx[pindexBest])
  /\ UNCHANGED <<memVars, dbVars, target, nBestInvalidTrust, nCrash, broke>>

(* Reorganize, shorter branch: the last connected transaction goes first.  *)
DisconnectTx ==
  /\ pc = "disconnect"
  /\ ntx > 0
  /\ baTx' = DisconnectInputs(baTx, vtx[cur][ntx])
  /\ ntx' = ntx - 1
  /\ UNCHANGED <<memVars, dbVars, baIndex, queued, pc, stage, target, goal,
                 cur, nBestInvalidTrust, nCrash, broke>>

(* Mutant of DisconnectBlock: hashNext of the predecessor is kept.         *)
DisconnectBlockKeepsNext ==
  /\ pc = "disconnect"
  /\ ntx = 0
  /\ LET p == Prev[cur] IN
       /\ cur' = p
       /\ IF p \in Anc[goal]
          THEN pc' = "connect" /\ ntx' = 0
          ELSE pc' = "disconnect" /\ ntx' = Len(vtx[p])
  /\ queued' = baTx
  /\ UNCHANGED <<memVars, dbVars, baIndex, baTx, stage, target, goal,
                 nBestInvalidTrust, nCrash, broke>>

(* The end of DisconnectBlock; pfork is the first block on goal's branch.  *)
DisconnectBlock ==
  /\ pc = "disconnect"
  /\ ntx = 0
  /\ LET p == Prev[cur] IN
       /\ baIndex' = [baIndex EXCEPT ![p] = [pindex[p] EXCEPT !.next = None]]
       /\ cur' = p
       /\ IF p \in Anc[goal]
          THEN pc' = "connect" /\ ntx' = 0
          ELSE pc' = "disconnect" /\ ntx' = Len(vtx[p])
  /\ queued' = baTx
  /\ UNCHANGED <<memVars, dbVars, baTx, stage, target, goal,
                 nBestInvalidTrust, nCrash, broke>>

(* The block that ConnectBlock is working on.                              *)
Connecting(b) ==
  /\ pc = "connect"
  /\ b \in Anc[goal] \ {Genesis}
  /\ Prev[b] = cur

(* One round of ConnectBlock's loop over vtx.                              *)
ConnectTx(b) ==
  /\ Connecting(b)
  /\ ntx < Len(vtx[b])
  /\ TxConnects(vtx[b][ntx + 1], b)
  /\ queued' = ConnectInputs(queued, vtx[b][ntx + 1], b)
  /\ ntx' = ntx + 1
  /\ UNCHANGED <<memVars, dbVars, baIndex, baTx, pc, stage, target, goal, cur,
                 nBestInvalidTrust, nCrash, broke>>

(* Mutant of ConnectBlock: the supply is added to that of the best block.  *)
ConnectBlockOnBest(b) ==
  /\ Connecting(b)
  /\ ntx = Len(vtx[b])
  /\ b \notin BadBlock
  /\ LET s == pindex[pindexBest].supply + SupplyChange(b) IN
       /\ pindex' = [pindex EXCEPT ![b].supply = s]
       /\ baIndex' = [baIndex EXCEPT
                        ![b] = [pindex[b] EXCEPT !.supply = s],
                        ![cur] = [pindex[cur] EXCEPT !.next = b]]
  /\ baTx' = queued
  /\ cur' = b
  /\ ntx' = 0
  /\ pc' = IF b = goal THEN "commit" ELSE "connect"
  /\ UNCHANGED <<mapBlockIndex, pindexBest, dbVars, queued, stage, target,
                 goal, nBestInvalidTrust, nCrash, broke>>

(* The end of ConnectBlock: the money supply, the queued records and the   *)
(* index entries of the block and of its predecessor go to the batch.      *)
ConnectBlock(b) ==
  /\ Connecting(b)
  /\ ntx = Len(vtx[b])
  /\ b \notin BadBlock
  /\ LET s == pindex[cur].supply + SupplyChange(b) IN
       /\ pindex' = [pindex EXCEPT ![b].supply = s]
       /\ baIndex' = [baIndex EXCEPT
                        ![b] = [pindex[b] EXCEPT !.supply = s],
                        ![cur] = [pindex[cur] EXCEPT !.next = b]]
  /\ baTx' = queued
  /\ cur' = b
  /\ ntx' = 0
  /\ pc' = IF b = goal THEN "commit" ELSE "connect"
  /\ UNCHANGED <<mapBlockIndex, pindexBest, dbVars, queued, stage, target,
                 goal, nBestInvalidTrust, nCrash, broke>>

(* Mutant of ConnectFails: nothing returns when the block is over a limit. *)
ConnectFailsOnTx(b) ==
  /\ Connecting(b)
  /\ ntx < Len(vtx[b])
  /\ ~TxConnects(vtx[b][ntx + 1], b)
  /\ LET bad == IF stage = "second" THEN goal ELSE target IN
       nBestInvalidTrust' = IF ChainTrust[bad] > nBestInvalidTrust
                            THEN ChainTrust[bad] ELSE nBestInvalidTrust
  /\ pc' = "idle"
  /\ pindexBest' = IF stage = "second" THEN target ELSE pindexBest
  /\ broke' = (broke \/ stage = "second")
  /\ UNCHANGED <<mapBlockIndex, pindex, dbVars, batchVars, stage, target, goal,
                 cur, ntx, nCrash>>

(* Mutant of ConnectFails: SetBestChain ignores what Reorganize returns.   *)
ConnectFailsIgnored(b) ==
  /\ Connecting(b)
  /\ \/ ntx < Len(vtx[b]) /\ ~TxConnects(vtx[b][ntx + 1], b)
     \/ ntx = Len(vtx[b]) /\ b \in BadBlock
  /\ LET bad == IF stage = "second" THEN goal ELSE target IN
       nBestInvalidTrust' = IF ChainTrust[bad] > nBestInvalidTrust
                            THEN ChainTrust[bad] ELSE nBestInvalidTrust
  /\ pc' = "idle"
  /\ pindexBest' = IF stage # "inner" THEN target ELSE pindexBest
  /\ broke' = (broke \/ stage = "second")
  /\ UNCHANGED <<mapBlockIndex, pindex, dbVars, batchVars, stage, target, goal,
                 cur, ntx, nCrash>>

(* ConnectBlock returned false.  TxnAbort drops the batch and              *)
(* InvalidChainFound records the branch.  Inside vpindexSecondary the loop *)
(* breaks, and SetBestChain goes on to make the target the best block.     *)
ConnectFails(b) ==
  /\ Connecting(b)
  /\ \/ ntx < Len(vtx[b]) /\ ~TxConnects(vtx[b][ntx + 1], b)
     \/ ntx = Len(vtx[b]) /\ b \in BadBlock
  /\ LET bad == IF stage = "second" THEN goal ELSE target IN
       nBestInvalidTrust' = IF ChainTrust[bad] > nBestInvalidTrust
                            THEN ChainTrust[bad] ELSE nBestInvalidTrust
  /\ pc' = "idle"
  /\ pindexBest' = IF stage = "second" THEN target ELSE pindexBest
  /\ broke' = (broke \/ stage = "second")
  /\ UNCHANGED <<mapBlockIndex, pindex, dbVars, batchVars, stage, target, goal,
                 cur, ntx, nCrash>>

(* The entries after vDisconnect has been unlinked and vConnect linked:    *)
(* the chain from `from' has been replaced by the chain to `to'.           *)
Relink(from, to) ==
  [a \in Block |->
     LET on == {x \in Anc[to] \ Anc[from] : Prev[x] = a}
         off == {x \in Anc[from] \ Anc[to] : Prev[x] = a}
     IN IF on # {} THEN [pindex[a] EXCEPT !.next = CHOOSE x \in on : TRUE]
        ELSE IF off # {} THEN [pindex[a] EXCEPT !.next = None]
        ELSE pindex[a]]

(* WriteHashBestChain, TxnCommit and the links in memory.  If the branch   *)
(* goes on beyond goal, its next block is attached by SetBestChainInner in *)
(* a transaction of its own; at its end the target becomes the best block. *)
Commit ==
  /\ pc = "commit"
  /\ dbIndex' = baIndex
  /\ dbTx' = baTx
  /\ dbBest' = goal
  /\ pindex' = Relink(IF stage = "reorg" THEN pindexBest ELSE Prev[goal], goal)
  /\ \/ /\ goal # target
        /\ \E b \in Anc[target] \ {Genesis} : Prev[b] = goal /\ goal' = b
        /\ stage' = "second"
        /\ pc' = "connect"
        /\ UNCHANGED pindexBest
     \/ /\ goal = target
        /\ pindexBest' = target
        /\ pc' = "idle"
        /\ UNCHANGED <<stage, goal>>
  /\ queued' = baTx
  /\ UNCHANGED <<mapBlockIndex, dbBlocks, baIndex, baTx, target, cur, ntx,
                 nBestInvalidTrust, nCrash, broke>>

(* Mutant of CrashAndLoadBlockIndex: the block after the best is loaded.   *)
CrashAndLoadNext ==
  /\ nCrash < MaxCrash
  /\ nCrash' = nCrash + 1
  /\ pindexBest' = dbIndex[dbBest].next
  /\ mapBlockIndex' = {b \in dbBlocks : Height[b] <= Height[dbBest]}
  /\ pindex' = dbIndex
  /\ pc' = "idle"
  /\ UNCHANGED <<dbVars, batchVars, stage, target, goal, cur, ntx,
                 nBestInvalidTrust, broke>>

(* The process dies and starts again.  LoadBlockIndex rebuilds the memory  *)
(* from the committed records and drops every block above the best one.    *)
CrashAndLoadBlockIndex ==
  /\ nCrash < MaxCrash
  /\ nCrash' = nCrash + 1
  /\ pindexBest' = dbBest
  /\ mapBlockIndex' = {b \in dbBlocks : Height[b] <= Height[dbBest]}
  /\ pindex' = dbIndex
  /\ pc' = "idle"
  /\ UNCHANGED <<dbVars, batchVars, stage, target, goal, cur, ntx,
                 nBestInvalidTrust, broke>>

Next ==
  \/ \E b \in Block \ {Genesis} :
       \/ AddToBlockIndex(b)
       \/ ConnectTx(b)
       \/ ConnectBlock(b)
       \/ ConnectFails(b)
  \/ SetBestChain
  \/ DisconnectTx
  \/ DisconnectBlock
  \/ Commit
  \/ CrashAndLoadBlockIndex

Spec == Init /\ [][Next]_vars

(* The handler runs to its end once it has been entered: nothing in it     *)
(* waits.  Blocks need not arrive, and the process need not crash.         *)
HandlerStep ==
  \/ \E b \in Block \ {Genesis} : ConnectTx(b) \/ ConnectBlock(b) \/ ConnectFails(b)
  \/ SetBestChain
  \/ DisconnectTx
  \/ DisconnectBlock
  \/ Commit

FairSpec == Spec /\ WF_vars(HandlerStep)

-----------------------------------------------------------------------------
(* Properties.  All but two assume ~broke: after a block of                *)
(* vpindexSecondary has failed to connect, SetBestChain names that block   *)
(* the best one although the database does not hold it (BestOnDisk).       *)

IndexEntryType == [next : Block \cup {None}, supply : Int]

(* The type of every variable.                                             *)
TypeOK ==
  /\ mapBlockIndex \subseteq Block
  /\ pindex \in [Block -> IndexEntryType]
  /\ pindexBest \in Block
  /\ nBestInvalidTrust \in Nat
  /\ dbBlocks \subseteq Block
  /\ dbIndex \in [Block -> IndexEntryType]
  /\ dbBest \in Block
  /\ dbTx \in TxIndexType
  /\ baIndex \in [Block -> IndexEntryType]
  /\ baTx \in TxIndexType
  /\ queued \in TxIndexType
  /\ pc \in {"idle", "set", "disconnect", "connect", "commit"}
  /\ stage \in {"inner", "reorg", "second"}
  /\ target \in Block
  /\ goal \in Block
  /\ cur \in Block
  /\ ntx \in Nat
  /\ nCrash \in 0 .. MaxCrash
  /\ broke \in BOOLEAN

(* The committed transaction index is exactly the index of the committed   *)
(* best chain, at every step of a reorganization and after every crash:    *)
(* DisconnectBlock undoes ConnectBlock to the last record.                 *)
LedgerExact == ~broke => IsIndexOf(dbTx, dbBest)

(* The links are exactly the child links of the chain that ends in c.      *)
LinksOf(index, c) ==
  \A a, x \in Block :
    index[a].next = x <=> x \in Anc[c] \ {Genesis} /\ Prev[x] = a

(* pnext in memory and hashNext on disk follow the committed best chain    *)
(* and nothing else, so that CBlockIndex::IsInMainChain, and the walks     *)
(* along pnext that answer getblocks, see the best chain.                  *)
LinksExact == ~broke => LinksOf(pindex, dbBest) /\ LinksOf(dbIndex, dbBest)

(* What the node takes for its best block is what the database records     *)
(* whenever no block is being handled.                                     *)
BestOnDisk == pc = "idle" => pindexBest = dbBest

(* BestOnDisk, as long as every postponed block has connected.             *)
BestOnDiskUnlessBroke == ~broke => BestOnDisk

(* The branch is connected in more than one transaction only after a crash *)
(* has lost a call of SetBestChain, and so only then can it break off.     *)
BreaksOnlyAfterCrash == broke => nCrash > 0

(* On the committed best chain no output is spent by two transactions, and *)
(* every output is spent after the transaction that creates it.            *)
SpentOnce ==
  ~broke =>
    \A b1, b2 \in Anc[dbBest] \ {Genesis} :
      \A i \in 1 .. Len(vtx[b1]), j \in 1 .. Len(vtx[b2]) :
        /\ <<b1, i>> # <<b2, j>> => vin[vtx[b1][i]] \cap vin[vtx[b2][j]] = {}
        /\ (\E o \in vin[vtx[b2][j]] : o[1] = vtx[b1][i]) =>
             Height[b1] < Height[b2] \/ (b1 = b2 /\ i < j)

(* The committed index has the coins that a replay of the committed best   *)
(* chain from the genesis block leaves, each at the height at which it was *)
(* created, and that replay has no error.                                  *)
CoinsMatchReplay == ~broke => Replay[dbBest] = [ok |-> TRUE, coins |-> CoinsIn(dbTx)]

(* nMoneySupply of the best block, as getinfo reports it, is the value of  *)
(* all unspent outputs, in memory and on disk.                             *)
SupplyIsUnspent ==
  ~broke => /\ pindex[dbBest].supply = SupplyAt(dbBest)
            /\ dbIndex[dbBest].supply = SupplyAt(dbBest)

(* The committed index and the money supply are those of a replay of the   *)
(* committed best chain from the genesis block.                            *)
IndexMatchesReplay == CoinsMatchReplay /\ SupplyIsUnspent

(* As long as the node has not crashed, no block it has accepted and that  *)
(* would be valid is heavier than its best block, and no postponed block   *)
(* fails.                                                                  *)
BestIsHeaviestValid ==
  /\ nCrash = 0 /\ pc = "idle" =>
       \A b \in mapBlockIndex : Replay[b].ok => ChainTrust[b] <= ChainTrust[pindexBest]
  /\ BreaksOnlyAfterCrash

(* The committed best chain is only ever replaced by a heavier one: no     *)
(* crash, failed reorganization or broken branch makes it lighter.         *)
NeverLighter ==
  [][dbBest' # dbBest => ChainTrust[dbBest'] > ChainTrust[dbBest]]_vars

(* The database implements the ledger: whole chains replace each other.    *)
Abs == INSTANCE Ledger WITH best <- dbBest, txindex <- dbTx
ImplementsLedger == Abs!LedgerSpec

(* Every call of SetBestChain returns.                                     *)
HandlerReturns == pc # "idle" ~> pc = "idle"
=============================================================================
