-------------------------- MODULE BlockProcessing --------------------------
(***************************************************************************)
(* How blocks reach the best chain of a full node: ProcessBlock and        *)
(* CBlock::AcceptBlock of main.cpp with the holding area for orphans, on   *)
(* top of BlockChain.  A block may arrive before its parent, again and     *)
(* again, and from any peer; CheckBlock, which refuses a block without a   *)
(* trace, has passed all of them.  What AcceptBlock finds out from the     *)
(* block and its branch alone is in Unacceptable; the automatic checkpoint *)
(* and the proof of stake are looked up in the best chain of the moment.   *)
(*                                                                         *)
(* cs_main is held from ProcessBlock's entry to its return, so ppc moves   *)
(* only while pc is idle, and back.                                        *)
(***************************************************************************)
EXTENDS BlockChain, SequencesExt

CONSTANTS
  Stake,           \* GetProofOfStake, <<kernel, time>>; None for proof of work
  Size,            \* serialized size of a block
  MaxOrphanSize,   \* -maxorphanblocksmib
  Unacceptable,    \* blocks that AcceptBlock refuses on any best chain
  nTime,           \* GetBlockTime
  GoodKernel,      \* <<b, from, best>>: the signature, age and hash of b's
                   \* kernel are right if it is in block `from` and the
                   \* modifier is looked for on the chain to `best`
  nFirstPosv3Block,
  nStakeMinConfirmations,
  nCheckpointSpan

ASSUME ProcessingAssumption ==
  /\ Size \in [Block -> Nat \ {0}]
  /\ MaxOrphanSize \in Nat
  /\ Unacceptable \subseteq Block
  /\ DOMAIN Stake = Block
  /\ \A b \in Block : Stake[b] # None =>
       Len(vtx[b]) > 1 /\ Stake[b][1] \in vin[vtx[b][2]]
  /\ nTime \in [Block -> Nat]
  /\ GoodKernel \subseteq Block \X Block \X Block
  /\ nFirstPosv3Block \in Int
  /\ nStakeMinConfirmations \in Nat
  /\ nCheckpointSpan \in Nat

VARIABLES
  mapOrphanBlocks,        \* the orphans
  mapOrphanBlocksByPrev,  \* the same, as found under their hashPrevBlock
  nOrphanBlocksSize,      \* what they add up to
  setStakeSeen,           \* stakes of the blocks in the index
  setStakeSeenOrphan,     \* stakes of orphans
  ppc,                    \* where ProcessBlock is
  pblock,                 \* the block it is working on
  vWorkQueue              \* accepted blocks whose orphans are to be looked at

orphanVars == <<mapOrphanBlocks, mapOrphanBlocksByPrev, nOrphanBlocksSize,
                setStakeSeenOrphan>>
procVars == <<ppc, pblock, vWorkQueue>>
allVars == <<vars, orphanVars, setStakeSeen, procVars>>

ProcInit ==
  /\ Init
  /\ mapOrphanBlocks = {}
  /\ mapOrphanBlocksByPrev = {}
  /\ nOrphanBlocksSize = 0
  /\ setStakeSeen = {}
  /\ setStakeSeenOrphan = {}
  /\ ppc = "idle"
  /\ pblock = Genesis
  /\ vWorkQueue = <<>>

-----------------------------------------------------------------------------
StakesOf(bs) == {Stake[b] : b \in bs} \ {None}

(* The bytes of the blocks, and their number.                              *)
BytesOf(bs) == UNION {{b} \X (1 .. Size[b]) : b \in bs}

SizeOf(bs) == Cardinality(BytesOf(bs))

ByPrev(h) == {o \in mapOrphanBlocksByPrev : Prev[o] = h}

(* Mutant of DuplicateStake: an orphan child does not help.                *)
DuplicateStakeAlways(b, seen) == Stake[b] \in seen

(* Limited duplicity on stake: only for a block with an orphan child.      *)
DuplicateStake(b, seen) == Stake[b] \in seen /\ ByPrev(b) = {}

(* The walk of AutoSelectSyncCheckpoint stops at the last of these.        *)
Settled == {a \in Anc[pindexBest] :
              a = Genesis \/ Height[a] + nCheckpointSpan <= Height[pindexBest]}

(* A block that does not extend the best chain is not older than that.     *)
AfterCheckpoint(b) ==
  Prev[b] = pindexBest \/
    \E a \in Settled : /\ \A s \in Settled : Height[s] <= Height[a]
                        /\ nTime[a] <= nTime[b]

(* ProcessBlock: a block that is not known yet is shunted off to the       *)
(* holding area if its parent is missing and is accepted otherwise.        *)
ProcessBlock(b) ==
  /\ pc = "idle" /\ ppc = "idle"
  /\ b \notin mapBlockIndex
  /\ b \notin mapOrphanBlocks
  /\ ~DuplicateStake(b, setStakeSeen)
  /\ AfterCheckpoint(b)
  /\ \/ /\ Prev[b] \notin mapBlockIndex
        /\ ~DuplicateStake(b, setStakeSeenOrphan)
        /\ ppc' = "orphan"
     \/ /\ Prev[b] \in mapBlockIndex
        /\ ppc' = "accept"
  /\ pblock' = b
  /\ vWorkQueue' = <<>>
  /\ UNCHANGED <<vars, orphanVars, setStakeSeen>>

(* A round of PruneOrphanBlocks.  From an orphan chosen at random it walks *)
(* to one that no other depends on: any of those can be the victim.        *)
PruneOrphanBlock ==
  /\ ppc = "orphan"
  /\ nOrphanBlocksSize > MaxOrphanSize
  /\ \E o \in mapOrphanBlocksByPrev :
       /\ ByPrev(o) = {}
       /\ mapOrphanBlocks' = mapOrphanBlocks \ {o}
       /\ mapOrphanBlocksByPrev' = mapOrphanBlocksByPrev \ {o}
       /\ nOrphanBlocksSize' = nOrphanBlocksSize - Size[o]
       /\ setStakeSeenOrphan' = setStakeSeenOrphan \ {Stake[o]}
  /\ UNCHANGED <<vars, setStakeSeen, procVars>>

(* AddOrphanBlock, once enough has been pruned.                            *)
AddOrphanBlock ==
  /\ ppc = "orphan"
  /\ nOrphanBlocksSize <= MaxOrphanSize
  /\ mapOrphanBlocks' = mapOrphanBlocks \cup {pblock}
  /\ mapOrphanBlocksByPrev' = mapOrphanBlocksByPrev \cup {pblock}
  /\ nOrphanBlocksSize' = nOrphanBlocksSize + Size[pblock]
  /\ setStakeSeenOrphan' = setStakeSeenOrphan \cup StakesOf({pblock})
  /\ ppc' = "idle"
  /\ UNCHANGED <<vars, setStakeSeen, pblock, vWorkQueue>>

-----------------------------------------------------------------------------
(* AcceptBlock.                                                            *)

(* CheckSync: nothing is accepted at the checkpoint's height or below.     *)
CheckSync(b) == \A a \in Settled : Height[a] < Height[b]

(* IsProtocolV3 of the block that b follows.                               *)
IsProtocolV3(b) == Height[Prev[b]] > nFirstPosv3Block

(* From the kernel's block to the one that b follows it takes too few.     *)
TooRecent(b, from) ==
  /\ from \in Anc[Prev[b]]
  /\ Height[Prev[b]] - Height[from] < nStakeMinConfirmations - 1

(* CheckProofOfStake looks the kernel up in the committed index, which is  *)
(* that of the best chain, whatever branch the block is on.                *)
CheckProofOfStake(b) ==
  Stake[b] # None =>
    /\ Stake[b][1] \in OutPoint
    /\ LET from == dbTx.pos[Stake[b][1][1]] IN
         /\ <<b, from, dbBest>> \in GoodKernel
         /\ IsProtocolV3(b) => ~TooRecent(b, from)

CanAccept(b) ==
  /\ b \notin mapBlockIndex
  /\ Prev[b] \in mapBlockIndex
  /\ b \notin Unacceptable
  /\ CheckProofOfStake(b)
  /\ CheckSync(b)

(* AcceptBlock up to the call of AddToBlockIndex.                          *)
AcceptBlock ==
  /\ ppc = "accept"
  /\ CanAccept(pblock)
  /\ AddToBlockIndex(pblock)
  /\ setStakeSeen' = setStakeSeen \cup StakesOf({pblock})
  /\ ppc' = "added"
  /\ UNCHANGED <<orphanVars, pblock, vWorkQueue>>

(* AddToBlockIndex has returned true unless SetBestChain was called, for a *)
(* block heavier than the best one, and has left the best block alone.     *)
Added == ppc = "added" /\ ChainTrust[pblock] <= ChainTrust[pindexBest]

(* Mutant of ForgetOrphan: the size of an orphan is never given back.      *)
ForgetOrphanKeepsSize(o) ==
  /\ mapOrphanBlocks' = mapOrphanBlocks \ {o}
  /\ setStakeSeenOrphan' = setStakeSeenOrphan \ {Stake[o]}
  /\ UNCHANGED <<nOrphanBlocksSize, mapOrphanBlocksByPrev>>

(* Mutant of ForgetOrphan: the stake of an orphan remains seen.            *)
ForgetOrphanKeepsStake(o) ==
  /\ mapOrphanBlocks' = mapOrphanBlocks \ {o}
  /\ nOrphanBlocksSize' = nOrphanBlocksSize - Size[o]
  /\ UNCHANGED <<setStakeSeenOrphan, mapOrphanBlocksByPrev>>

(* An orphan that has been tried is dropped, accepted or not; its entry    *)
(* under its parent goes with those of its siblings.                       *)
ForgetOrphan(o) ==
  /\ mapOrphanBlocks' = mapOrphanBlocks \ {o}
  /\ nOrphanBlocksSize' = nOrphanBlocksSize - Size[o]
  /\ setStakeSeenOrphan' = setStakeSeenOrphan \ {Stake[o]}
  /\ UNCHANGED mapOrphanBlocksByPrev

(* Mutant of AcceptReturns: an accepted orphan is not queued itself.       *)
AcceptReturnsUnqueued ==
  /\ pc = "idle"
  /\ ppc = "added" \/ (ppc = "accept" /\ ~CanAccept(pblock))
  /\ IF vWorkQueue = <<>>
     THEN /\ vWorkQueue' = IF Added THEN <<pblock>> ELSE <<>>
          /\ ppc' = IF Added THEN "orphans" ELSE "idle"
          /\ UNCHANGED orphanVars
     ELSE /\ UNCHANGED vWorkQueue
          /\ ppc' = "orphans"
          /\ ForgetOrphan(pblock)
  /\ UNCHANGED <<vars, setStakeSeen, pblock>>

(* AcceptBlock returns to ProcessBlock, to the call for the block that has *)
(* arrived or to one for an orphan.                                        *)
AcceptReturns ==
  /\ pc = "idle"
  /\ ppc = "added" \/ (ppc = "accept" /\ ~CanAccept(pblock))
  /\ vWorkQueue' = IF Added THEN Append(vWorkQueue, pblock) ELSE vWorkQueue
  /\ ppc' = IF vWorkQueue' = <<>> THEN "idle" ELSE "orphans"
  /\ IF vWorkQueue = <<>> THEN UNCHANGED orphanVars ELSE ForgetOrphan(pblock)
  /\ UNCHANGED <<vars, setStakeSeen, pblock>>

(* The next orphan of the block at the head of the queue.                  *)
AcceptOrphan ==
  /\ ppc = "orphans"
  /\ \E o \in ByPrev(Head(vWorkQueue)) \cap mapOrphanBlocks : pblock' = o
  /\ ppc' = "accept"
  /\ UNCHANGED <<vars, orphanVars, setStakeSeen, vWorkQueue>>

(* mapOrphanBlocksByPrev.erase(hashPrev), and on to the next in the queue. *)
NextInQueue ==
  /\ ppc = "orphans"
  /\ ByPrev(Head(vWorkQueue)) \cap mapOrphanBlocks = {}
  /\ mapOrphanBlocksByPrev' =
       {o \in mapOrphanBlocksByPrev : Prev[o] # Head(vWorkQueue)}
  /\ vWorkQueue' = Tail(vWorkQueue)
  /\ ppc' = IF Tail(vWorkQueue) = <<>> THEN "idle" ELSE "orphans"
  /\ UNCHANGED <<vars, mapOrphanBlocks, nOrphanBlocksSize, setStakeSeenOrphan,
                 setStakeSeen, pblock>>

-----------------------------------------------------------------------------
(* SetBestChain at work inside AddToBlockIndex.                            *)
ChainStep == HandlerStep /\ UNCHANGED <<orphanVars, setStakeSeen, procVars>>

(* The orphans are lost in a crash, but LoadBlockIndex makes orphans of    *)
(* the blocks that are above the best one; it has seen all their stakes.   *)
CrashAndRestart ==
  /\ CrashAndLoadBlockIndex
  /\ setStakeSeen' = StakesOf(dbBlocks)
  /\ LET held == {b \in dbBlocks : Height[b] > Height[dbBest]} IN
       /\ mapOrphanBlocks' = held
       /\ mapOrphanBlocksByPrev' = held
       /\ nOrphanBlocksSize' = SizeOf(held)
       /\ setStakeSeenOrphan' = StakesOf(held)
  /\ ppc' = "idle"
  /\ vWorkQueue' = <<>>
  /\ UNCHANGED pblock

ProcessStep ==
  \/ PruneOrphanBlock
  \/ AddOrphanBlock
  \/ AcceptBlock
  \/ AcceptReturns
  \/ AcceptOrphan
  \/ NextInQueue
  \/ ChainStep

ProcNext ==
  \/ \E b \in Block \ {Genesis} : ProcessBlock(b)
  \/ ProcessStep
  \/ CrashAndRestart

ProcSpec == ProcInit /\ [][ProcNext]_allVars

(* Nothing in ProcessBlock waits.  The network is assumed to deliver again *)
(* and again a block that the node would take: peers announce it, an inv   *)
(* for a block that is not held is answered by AskFor, and every orphan    *)
(* asks its peer for the blocks below the root of its branch.              *)
ProcFairSpec ==
  /\ ProcSpec
  /\ WF_allVars(ProcessStep)
  /\ \A b \in Block \ {Genesis} : SF_allVars(ProcessBlock(b))

-----------------------------------------------------------------------------
Returned == pc = "idle" /\ ppc = "idle"

(* The type of every variable of this module.                              *)
ProcTypeOK ==
  /\ mapOrphanBlocks \subseteq Block
  /\ mapOrphanBlocksByPrev \subseteq Block
  /\ nOrphanBlocksSize \in Nat
  /\ setStakeSeen \subseteq {Stake[b] : b \in Block}
  /\ setStakeSeenOrphan \subseteq {Stake[b] : b \in Block}
  /\ ppc \in {"idle", "orphan", "accept", "added", "orphans"}
  /\ pblock \in Block
  /\ vWorkQueue \in Seq(Block)

(* Between two calls of ProcessBlock, and in spite of the loop that visits *)
(* entries whose blocks it deletes, both maps hold the same orphans, the   *)
(* size counter is their size and none of them is in the block index.      *)
OrphanMapsAgree ==
  Returned =>
    /\ mapOrphanBlocksByPrev = mapOrphanBlocks
    /\ nOrphanBlocksSize = SizeOf(mapOrphanBlocks)
    /\ mapOrphanBlocks \cap mapBlockIndex = {}

(* No stake is remembered for an orphan that is gone: it would have other  *)
(* orphans refused for good.                                               *)
OrphanStakesHeld == setStakeSeenOrphan \subseteq StakesOf(mapOrphanBlocks)

(* PruneOrphanBlocks runs before an orphan is added, so the holding area   *)
(* exceeds its limit by less than a block; LoadBlockIndex does not ask.    *)
OrphanSizeBounded ==
  nCrash = 0 /\ mapOrphanBlocks # {} =>
    \E o \in mapOrphanBlocks : nOrphanBlocksSize - Size[o] <= MaxOrphanSize

(* The holding area for orphan blocks as a whole: its two maps, its size   *)
(* counter and its limit.                                                  *)
OrphansConsistent == ProcTypeOK /\ OrphanMapsAgree /\ OrphanSizeBounded

(* The comment of ProcessBlock: "If don't already have its previous block, *)
(* shunt it off to holding area until we get it".  A block stays in the    *)
(* holding area only as long as its parent is missing, unless that parent  *)
(* turned out to be invalid or LoadBlockIndex put it there after a crash.  *)
OrphansAwaitParent ==
  nCrash = 0 /\ Returned =>
    \A o \in mapOrphanBlocks : Prev[o] \in mapBlockIndex => ~Replay[Prev[o]].ok

(* The kernel of a block is right as seen from its own branch: an output   *)
(* of a block below it, deep enough.                                       *)
StakeValid(b) ==
  Stake[b] # None =>
    \E from \in Anc[Prev[b]] :
      /\ Stake[b][1][1] \in TxsOf(from)
      /\ \A c \in Block : from \in Anc[c] => <<b, from, c>> \in GoodKernel
      /\ IsProtocolV3(b) => ~TooRecent(b, from)

(* Every rule is kept on the branch up to b, the best chain left aside.    *)
Valid(b) ==
  /\ Replay[b].ok
  /\ Anc[b] \cap Unacceptable = {}
  /\ \A a \in Anc[b] \ {Genesis} : StakeValid(a)

(* The branch to b leaves the chain to c no more than nCheckpointSpan      *)
(* blocks below c, and its stakes are all older than the fork: with        *)
(* protocol V3 that is so for nStakeMinConfirmations blocks after it.      *)
Near(b, c) ==
  \E f \in Anc[b] \cap Anc[c] :
    /\ Height[c] - Height[f] <= nCheckpointSpan
    /\ \A a \in Anc[b] \ Anc[f] : Stake[a] # None =>
         \E from \in Anc[f] : Stake[a][1][1] \in TxsOf(from)

(* In whatever order and however often the blocks arrive, with a stake     *)
(* used twice, with orphans of invalid blocks and with orphans pruned, a   *)
(* node that does not crash ends up on a chain that no valid branch near   *)
(* it outweighs.  It may well stay on it when a heavier one forks deeper:  *)
(* CheckSync or CheckProofOfStake refuse that, while a node that saw the   *)
(* heavier branch first is on it for good.                                 *)
CatchesUp ==
  <>[](nCrash > 0 \/
         \A b \in Block : Valid(b) /\ Near(b, pindexBest) =>
           ChainTrust[b] <= ChainTrust[pindexBest])
=============================================================================
