------------------------------- MODULE Wallet -------------------------------
(***************************************************************************)
(* The wallet's view of the best chain: mapWallet and the spent flags of   *)
(* CWallet under SyncWithWallets, which ConnectBlock and DisconnectBlock   *)
(* call while their batch is still open, under transactions that the       *)
(* wallet makes or the node relays, under the rescan at start-up and under *)
(* FixSpentCoins.                                                          *)
(*                                                                         *)
(* Every change to mapWallet is written to wallet.dat at once, so memory   *)
(* and file are one variable and survive a crash; the batch of the chain   *)
(* does not.  The node is past the initial download.  A transaction of the *)
(* wallet that is in no block counts as being in the memory pool, which    *)
(* TxPool is about.                                                        *)
(***************************************************************************)
EXTENDS BlockChain

CONSTANTS
  Mine,  \* IsMine: the outputs with a key of the wallet
  Made,  \* transactions the wallet may make
  WalletMaturity,  \* depth at which it spends generated coins, nCoinbaseMaturity + 5
  Repair \* TRUE if the user may call FixSpentCoins

ASSUME WalletAssumption ==
  /\ Mine \subseteq OutPoint
  /\ Made \subseteq Tx \ Generated
  /\ \A t \in Made : vin[t] # {}
  /\ IsFiniteSet(Tx)
  /\ WalletMaturity \in Nat /\ WalletMaturity > Maturity
  /\ Repair \in BOOLEAN

VARIABLES
  mapWallet,  \* transactions, their hashBlock, and the outputs with vfSpent set
  bestBlock   \* the "bestblock" record, a locator

walletVars == <<mapWallet, bestBlock>>
nodeVars == <<vars, walletVars>>

WalletInit ==
  /\ Init
  /\ mapWallet = [tx |-> {}, hashBlock |-> [t \in Tx |-> None], spent |-> {}]
  /\ bestBlock = Genesis

-----------------------------------------------------------------------------
(* CWallet                                                                 *)

Outputs(t) == {o \in Mine : o[1] = t}

(* The inputs of t that are outputs of the wallet.                         *)
OwnInputs(w, t) == {o \in vin[t] \cap Mine : o[1] \in w.tx}

IsFromMe(w, t) == OwnInputs(w, t) # {}

(* The inputs are spent; in a block, the outputs are not.                  *)
WalletUpdateSpent(w, t, fBlock) ==
  [w EXCEPT !.spent = (@ \cup OwnInputs(w, t)) \ (IF fBlock THEN Outputs(t) ELSE {})]

(* b is None for a transaction that is in no block.                        *)
AddToWallet(w, t, b) ==
  WalletUpdateSpent([w EXCEPT !.tx = @ \cup {t},
                              !.hashBlock[t] = IF b = None THEN @ ELSE b],
                    t, b # None)

AddToWalletIfInvolvingMe(w, t, b, fUpdate) ==
  IF t \in w.tx /\ ~fUpdate THEN w
  ELSE IF t \in w.tx \/ Outputs(t) # {} \/ IsFromMe(w, t) THEN AddToWallet(w, t, b)
  ELSE WalletUpdateSpent(w, t, FALSE)

(* Mutant of DisableTransaction: the coins stay spent.                     *)
DisableTransactionNever(w, t) == w

(* Only a coinstake: the other transactions return to the memory pool.     *)
DisableTransaction(w, t) ==
  IF t \in Generated THEN [w EXCEPT !.spent = @ \ OwnInputs(w, t)] ELSE w

(* SyncWithWallets for the transactions of a block, fConnect or not: what  *)
(* the wallet is after each of them.                                       *)
SyncingConnect(w, b, fUpdate) ==
  LET after[k \in 0 .. Len(vtx[b])] ==
        IF k = 0 THEN w
        ELSE AddToWalletIfInvolvingMe(after[k - 1], vtx[b][k], b, fUpdate)
  IN  after

SyncingDisconnect(w, b) ==
  LET after[k \in 0 .. Len(vtx[b])] ==
        IF k = 0 THEN w ELSE DisableTransaction(after[k - 1], vtx[b][k])
  IN  after

SyncConnect(w, b, fUpdate) == SyncingConnect(w, b, fUpdate)[Len(vtx[b])]

SyncDisconnect(w, b) == SyncingDisconnect(w, b)[Len(vtx[b])]

-----------------------------------------------------------------------------
(* Start-up                                                                *)

(* From block start on, up to every block.                                 *)
Scanning(w, start, fUpdate) ==
  LET scan[b \in Block] ==
        IF start \notin Anc[b] THEN w
        ELSE SyncConnect(IF b = start THEN w ELSE scan[Prev[b]], b, fUpdate)
  IN  scan

ScanForWalletTransactions(w, start, best, fUpdate) == Scanning(w, start, fUpdate)[best]

(* CBlockLocator::GetBlockIndex: where the locator's branch leaves `best'. *)
GetBlockIndex(b, best) ==
  CHOOSE a \in Anc[b] \cap Anc[best] : \A c \in Anc[b] \cap Anc[best] : c \in Anc[a]

Rescan(w, best) ==
  LET pindexRescan == GetBlockIndex(bestBlock, best)
  IN  IF Height[best] > Height[pindexRescan]
      THEN ScanForWalletTransactions(w, pindexRescan, best, TRUE) ELSE w

(* ReacceptWalletTransactions does not look at these.                      *)
Skipped(w, t) ==
  t \in Generated /\ <<t, IF vin[t] = {} THEN 0 ELSE 1>> \in w.spent

(* Known outputs that the chain has spent.                                 *)
SpentOnChain(w) ==
  {o \in Mine : o[1] \in w.tx /\ dbTx.pos[o[1]] # None /\ dbTx.vSpent[o] # None}

Missed(w) == {o \in SpentOnChain(w) \ w.spent : ~Skipped(w, o[1])}

(* Outputs that the chain has spent are marked.  If there are any, missing *)
(* transactions are looked for from the genesis block on.                  *)
ReacceptPass(w, best) ==
  IF Missed(w) = {} THEN w
  ELSE ScanForWalletTransactions([w EXCEPT !.spent = @ \cup Missed(w)], Genesis, best, FALSE)

(* Mutant: only the pool is filled again.                                  *)
ReacceptWalletTransactionsPool(w, best) == w

(* Repeated while the scan finds transactions; a pass that follows the     *)
(* last one changes nothing.                                               *)
Reaccepting(w, best) ==
  LET pass[n \in 0 .. Cardinality(Tx)] ==
        IF n = 0 THEN w ELSE ReacceptPass(pass[n - 1], best)
  IN  pass

ReacceptWalletTransactions(w, best) == Reaccepting(w, best)[Cardinality(Tx)]

-----------------------------------------------------------------------------
(* The chain with the wallet                                               *)

(* ConnectBlock and DisconnectBlock end with the calls of SyncWithWallets; *)
(* SetBestChain writes the locator before it names the new best block.     *)
SyncedConnectBlock(b) ==
  /\ ConnectBlock(b)
  /\ mapWallet' = SyncConnect(mapWallet, b, TRUE)
  /\ UNCHANGED bestBlock

SyncedDisconnectBlock ==
  /\ DisconnectBlock
  /\ mapWallet' = SyncDisconnect(mapWallet, cur)
  /\ UNCHANGED bestBlock

SyncedCommit ==
  /\ Commit
  /\ bestBlock' = IF goal = target THEN target ELSE bestBlock
  /\ UNCHANGED mapWallet

SyncedConnectFails(b) ==
  /\ ConnectFails(b)
  /\ bestBlock' = IF stage = "second" THEN target ELSE bestBlock
  /\ UNCHANGED mapWallet

Restart ==
  /\ CrashAndLoadBlockIndex
  /\ mapWallet' = ReacceptWalletTransactions(Rescan(mapWallet, dbBest), dbBest)
  /\ UNCHANGED bestBlock

(* The wallet's transaction t is in the block it names, or pending.        *)
Confirmed(t) ==
  mapWallet.hashBlock[t] # None /\ mapWallet.hashBlock[t] \in Anc[pindexBest]

(* CWalletTx::IsTrusted: change of the wallet itself need not be confirmed *)
(* if what it comes from is.  The copies in vtxPrev that it reads are      *)
(* taken to be complete.                                                   *)
IsTrusted[t \in Tx] ==
  \/ Confirmed(t)
  \/ /\ t \in mapWallet.tx \ Generated
     /\ IsFromMe(mapWallet, t)
     /\ \A o \in vin[t] : IsTrusted[o[1]]

(* AvailableCoins for a new transaction.                                   *)
AvailableCoins ==
  {o \in Mine \ mapWallet.spent :
     /\ o[1] \in mapWallet.tx
     /\ IsTrusted[o[1]]
     /\ o[1] \in Generated =>
          Height[pindexBest] - Height[mapWallet.hashBlock[o[1]]] + 1 >= WalletMaturity}

(* The wallet makes a transaction.                                         *)
CommitTransaction(t) ==
  /\ pc = "idle"
  /\ t \in Made \ mapWallet.tx
  /\ vin[t] \subseteq AvailableCoins
  /\ mapWallet' = AddToWallet(mapWallet, t, None)
  /\ UNCHANGED <<vars, bestBlock>>

(* A transaction of the wallet that waits in the memory pool.              *)
Pending(t) == t \in mapWallet.tx \ Generated /\ dbTx.pos[t] = None

(* A transaction comes into the memory pool and is shown to the wallet.    *)
AcceptedToPool(t) ==
  /\ pc = "idle"
  /\ t \notin Generated \cup BadTx
  /\ dbTx.pos[t] = None
  /\ \A o \in vin[t] : InputOk(dbTx, o, pindexBest) \/ Pending(o[1])
  /\ mapWallet' = AddToWalletIfInvolvingMe(mapWallet, t, None, TRUE)
  /\ mapWallet' # mapWallet
  /\ UNCHANGED <<vars, bestBlock>>

(* FixSpentCoins, on request of the user.                                  *)
FixSpentCoins ==
  /\ Repair
  /\ pc = "idle"
  /\ LET onChain == {o \in Mine : dbTx.pos[o[1]] # None}
     IN  mapWallet' = [mapWallet EXCEPT !.spent =
                         (@ \ onChain) \cup SpentOnChain(mapWallet)]
  /\ mapWallet' # mapWallet
  /\ UNCHANGED <<vars, bestBlock>>

WalletNext ==
  \/ \E b \in Block \ {Genesis} :
       \/ SyncedConnectBlock(b)
       \/ SyncedConnectFails(b)
       \/ (AddToBlockIndex(b) \/ ConnectTx(b)) /\ UNCHANGED walletVars
  \/ (SetBestChain \/ DisconnectTx) /\ UNCHANGED walletVars
  \/ SyncedDisconnectBlock
  \/ SyncedCommit
  \/ Restart
  \/ \E t \in Tx : CommitTransaction(t) \/ AcceptedToPool(t)
  \/ FixSpentCoins

WalletSpec == WalletInit /\ [][WalletNext]_nodeVars

-----------------------------------------------------------------------------
(* Properties                                                              *)

(* The type of the wallet's variables.                                     *)
WalletTypeOK ==
  /\ mapWallet.tx \subseteq Tx
  /\ mapWallet.hashBlock \in [Tx -> Block \cup {None}]
  /\ mapWallet.spent \subseteq Mine
  /\ bestBlock \in Block

(* Between two blocks, in a process that has not been cut in a             *)
(* reorganization and has given up none.                                   *)
Undisturbed == pc = "idle" /\ nCrash = 0 /\ nBestInvalidTrust = 0

(* The wallet offers no coin that the best chain has spent.  "Make sure    *)
(* it's successfully written to disk before changing memory structure"     *)
(* (Reorganize); the flags change before, in ConnectBlock and in           *)
(* DisconnectBlock.                                                        *)
ChainSpendsFlagged == Undisturbed => SpentOnChain(mapWallet) \subseteq mapWallet.spent

(* Wherever a reorganization stopped, a start finds the coins that the     *)
(* best chain has spent: "Update fSpent if a tx got spent somewhere else   *)
(* by a copy of wallet.dat" (ReacceptWalletTransactions).  Transactions it *)
(* skips are excepted.                                                     *)
RestartFlags ==
  [][Restart => \A o \in SpentOnChain(mapWallet') :
       o \in mapWallet'.spent \/ Skipped(mapWallet', o[1])]_nodeVars

(* No coin is lost: one that is marked as spent is spent on the chain, or  *)
(* by a transaction that can still be confirmed.  "wallets need to refund  *)
(* inputs when disconnecting coinstake" (SyncWithWallets).                 *)
NoLostCoin ==
  Undisturbed => \A o \in mapWallet.spent :
    dbTx.pos[o[1]] # None /\ dbTx.vSpent[o] = None =>
      \E t \in mapWallet.tx \ Generated : o \in vin[t]

(* "make sure all wallets know about the given transaction, in the given   *)
(* block" (SyncWithWallets): transactions of the wallet on the best chain  *)
(* name the block they are in, so that they count as confirmed.            *)
ConfirmedWhereTheyAre ==
  Undisturbed => \A t \in mapWallet.tx :
    dbTx.pos[t] # None => mapWallet.hashBlock[t] = dbTx.pos[t]

(* The wallet follows the best chain: as long as no reorganization was cut *)
(* or given up, it knows where its transactions are, offers nothing that   *)
(* the chain has spent and loses nothing that it has not.                  *)
WalletFollowsChain ==
  WalletTypeOK /\ ChainSpendsFlagged /\ NoLostCoin /\ ConfirmedWhereTheyAre
=============================================================================
