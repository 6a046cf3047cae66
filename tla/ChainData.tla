------------------------------ MODULE ChainData ------------------------------
(***************************************************************************)
(* Blocks and transactions, and the transaction index of the database:     *)
(* CTxIndex of main.h and the operations that main.cpp performs on it.     *)
(* A transaction index holds, for every transaction of the best chain, the *)
(* block it is in (CTxIndex::pos) and the spender of each of its outputs   *)
(* (CTxIndex::vSpent); a transaction without a record has pos None.        *)
(***************************************************************************)
EXTENDS Integers, Sequences, FiniteSets

CONSTANTS
  Block,       \* blocks, named by their hashes
  Genesis,     \* Params().HashGenesisBlock()
  Prev,        \* hashPrevBlock of every block but the genesis block
  Anc,         \* a block together with all its ancestors
  Height,      \* nHeight
  ChainTrust,  \* nChainTrust, the sum of GetBlockTrust along the branch
  Tx,          \* transactions, named by their hashes
  vtx,         \* the transactions of a block, in order
  vin,         \* the prevouts of a transaction, none for a coinbase
  OutPoint,    \* every output <<tx, n>> there is
  nValue,      \* the value of an output
  Generated,   \* the coinbase and coinstake transactions
  BadTx,       \* transactions whose scripts, times, values or fees are wrong
  BadBlock,    \* blocks over the sigop limit, or paying too high a reward
  Maturity,    \* nCoinbaseMaturity
  None         \* the null hash, pointer or disk position

(* The outputs of a transaction.                                           *)
OutputsOf(t) == {o \in OutPoint : o[1] = t}

TxsOf(b) == {vtx[b][i] : i \in DOMAIN vtx[b]}

(* What AcceptBlock, CheckBlock and CheckTransaction have established of   *)
(* every block that reaches AddToBlockIndex.  A coinbase starts with its   *)
(* block's height, so that no branch holds it twice.                       *)
ASSUME TreeAssumption ==
  /\ Genesis \in Block
  /\ None \notin Block
  /\ Prev \in [Block \ {Genesis} -> Block]
  /\ Anc \in [Block -> SUBSET Block]
  /\ Anc[Genesis] = {Genesis}
  /\ \A b \in Block \ {Genesis} : Anc[b] = Anc[Prev[b]] \cup {b}
  /\ \A b \in Block : Genesis \in Anc[b]
  /\ \A b \in Block : \A a \in Anc[b] : Anc[a] \subseteq Anc[b]
  /\ \A b \in Block : \A a1, a2 \in Anc[b] : a1 \in Anc[a2] \/ a2 \in Anc[a1]
  /\ Height \in [Block -> Nat]
  /\ \A b \in Block \ {Genesis} : Height[b] = Height[Prev[b]] + 1
  /\ ChainTrust \in [Block -> Nat]
  /\ \A b \in Block : \A a \in Anc[b] :
       a = b \/ (Height[a] < Height[b] /\ ChainTrust[a] < ChainTrust[b])

ASSUME TxAssumption ==
  /\ None \notin Tx
  /\ OutPoint \subseteq Tx \X Nat
  /\ vin \in [Tx -> SUBSET (Tx \X Nat)]
  /\ vtx \in [Block -> Seq(Tx)]
  /\ \A b \in Block : \A i, j \in 1 .. Len(vtx[b]) :
       vtx[b][i] = vtx[b][j] => i = j
  /\ \A b \in Block : \A a \in Anc[b] : \A t \in TxsOf(a) \cap TxsOf(b) :
       vin[t] = {} => a = b
  /\ Generated \subseteq Tx
  /\ BadTx \subseteq Tx
  /\ BadBlock \subseteq Block
  /\ nValue \in [OutPoint -> Nat]
  /\ \A t \in Tx : IsFiniteSet(OutputsOf(t)) /\ IsFiniteSet(vin[t])
  /\ Maturity \in Nat

TxIndexType == [pos    : [Tx -> Block \cup {None}],
                vSpent : [OutPoint -> Tx \cup {None}]]

EmptyTxIndex == [pos |-> [t \in Tx |-> None], vSpent |-> [o \in OutPoint |-> None]]

-----------------------------------------------------------------------------
(* The transaction index.                                                  *)

(* Mutant of DisconnectInputs: the record is not erased.                   *)
DisconnectInputsKeepsRecord(idx, t) ==
  [idx EXCEPT !.vSpent = [o \in OutPoint |->
     IF o \in vin[t] /\ idx.pos[o[1]] # None THEN None ELSE idx.vSpent[o]]]

(* CTransaction::DisconnectInputs: the prevouts become unspent, unless the *)
(* transaction they belong to has no record, and the record is erased.     *)
DisconnectInputs(idx, t) ==
  [pos    |-> [idx.pos EXCEPT ![t] = None],
   vSpent |-> [o \in OutPoint |->
                 IF o[1] = t \/ (o \in vin[t] /\ idx.pos[o[1]] # None)
                 THEN None ELSE idx.vSpent[o]]]

(* CTransaction::ConnectInputs with fBlock, then the new record of t.      *)
ConnectInputs(idx, t, b) ==
  [pos    |-> [idx.pos EXCEPT ![t] = b],
   vSpent |-> [o \in OutPoint |->
                 IF o[1] = t THEN None
                 ELSE IF o \in vin[t] THEN t
                 ELSE idx.vSpent[o]]]

(* A record of the transaction with an unspent output (BIP 30).            *)
Overwrites(idx, t) ==
  /\ idx.pos[t] # None
  /\ \E o \in OutPoint : o[1] = t /\ idx.vSpent[o] = None

(* IsConfirmedInNPrevBlocks of a coinbase or coinstake, seen from block b. *)
Immature(idx, t, b) ==
  /\ t \in Generated
  /\ idx.pos[t] \in Anc[b]
  /\ Height[b] - Height[idx.pos[t]] < Maturity

(* Mutant of InputOk: vSpent is not looked at.                             *)
InputOkIfSpent(idx, o, b) ==
  /\ idx.pos[o[1]] # None
  /\ o \in OutPoint
  /\ ~Immature(idx, o[1], b)

(* What FetchInputs and ConnectInputs demand of one input.                 *)
InputOk(idx, o, b) ==
  /\ idx.pos[o[1]] # None
  /\ o \in OutPoint
  /\ ~Immature(idx, o[1], b)
  /\ idx.vSpent[o] = None

(* The value of a set of outputs: how many units there are.                *)
UnitsOf(os) == UNION {{o} \X (1 .. nValue[o]) : o \in os \cap OutPoint}
ValueOf(os) == Cardinality(UnitsOf(os))

(* nValueOut - nValueIn of the first k transactions of a block, as         *)
(* ConnectBlock adds it up.                                                *)
SupplyChanging(b) ==
  LET sum[k \in 0 .. Len(vtx[b])] ==
        IF k = 0 THEN 0
        ELSE sum[k - 1] + ValueOf(OutputsOf(vtx[b][k])) - ValueOf(vin[vtx[b][k]])
  IN sum

SupplyChange(b) == SupplyChanging(b)[Len(vtx[b])]

-----------------------------------------------------------------------------
(* What an index must say.  n gives for every block how many of its        *)
(* transactions are connected.                                             *)

(* The blocks up to c are connected, all but p, of which k are.            *)
Connected(c, p, k) ==
  [b \in Block |-> IF b = p THEN k
                   ELSE IF b \in Anc[c] \ {Genesis} THEN Len(vtx[b])
                   ELSE 0]

(* Every connected transaction has a record naming its block, ...          *)
RecordsOf(idx, n) ==
  \A b \in Block : \A i \in 1 .. n[b] : idx.pos[vtx[b][i]] = b

(* ... no other transaction has a record, ...                              *)
OnlyRecordsOf(idx, n) ==
  \A t \in Tx : idx.pos[t] # None =>
    \E i \in 1 .. n[idx.pos[t]] : vtx[idx.pos[t]][i] = t

(* ... every input of a connected transaction is an output of an earlier   *)
(* one and is marked as spent by this transaction, ...                     *)
InputsOf(idx, n) ==
  \A b \in Block : \A i \in 1 .. n[b] : \A o \in vin[vtx[b][i]] :
    /\ o \in OutPoint
    /\ idx.vSpent[o] = vtx[b][i]
    /\ idx.pos[o[1]] \in Anc[b]
    /\ idx.pos[o[1]] = b => \E j \in 1 .. i - 1 : vtx[b][j] = o[1]

(* ... and every mark is by a connected transaction with that input.       *)
OnlyInputsOf(idx, n) ==
  \A o \in OutPoint : idx.vSpent[o] # None =>
    /\ idx.pos[idx.vSpent[o]] # None
    /\ o \in vin[idx.vSpent[o]]

Describes(idx, n) ==
  /\ RecordsOf(idx, n)
  /\ OnlyRecordsOf(idx, n)
  /\ InputsOf(idx, n)
  /\ OnlyInputsOf(idx, n)

(* The index of the chain that ends in block c.                            *)
IsIndexOf(idx, c) == Describes(idx, Connected(c, None, 0))

-----------------------------------------------------------------------------
(* A reference definition of validity, which knows of no index: blocks are *)
(* replayed from the genesis block on.  A replay has a coin for every      *)
(* unspent output, with the height of its block, and is ok as long as no   *)
(* rule has been broken.                                                   *)
Gone == -1

NoCoins == [ok |-> TRUE, coins |-> [o \in OutPoint |-> Gone]]

(* An input is a coin that is old enough.                                  *)
Spendable(u, o, b) ==
  /\ o \in OutPoint
  /\ u.coins[o] # Gone
  /\ o[1] \in Generated => Height[b] - u.coins[o] >= Maturity

(* A transaction turns its inputs into its outputs; it may not create      *)
(* coins that are there already.                                           *)
ReplayTx(u, t, b) ==
  [ok    |-> /\ u.ok
             /\ t \notin BadTx
             /\ \A o \in OutputsOf(t) : u.coins[o] = Gone
             /\ \A o \in vin[t] : Spendable(u, o, b),
   coins |-> [o \in OutPoint |-> IF o[1] = t THEN Height[b]
                                 ELSE IF o \in vin[t] THEN Gone
                                 ELSE u.coins[o]]]

(* The first k transactions of block b, from the coins u on.               *)
Replaying(u, b) ==
  LET after[k \in 0 .. Len(vtx[b])] ==
        IF k = 0 THEN u ELSE ReplayTx(after[k - 1], vtx[b][k], b)
  IN after

(* The limits on the whole block come last.                                *)
ReplayBlock(u, b) ==
  [Replaying(u, b)[Len(vtx[b])] EXCEPT !.ok = @ /\ b \notin BadBlock]

Replay[b \in Block] ==
  IF b = Genesis THEN NoCoins ELSE ReplayBlock(Replay[Prev[b]], b)

(* The coins that an index has.                                            *)
CoinsIn(idx) ==
  [o \in OutPoint |-> IF idx.pos[o[1]] # None /\ idx.vSpent[o] = None
                      THEN Height[idx.pos[o[1]]] ELSE Gone]

(* The money supply after a block.                                         *)
SupplyAt(b) == ValueOf({o \in OutPoint : Replay[b].coins[o] # Gone})
=============================================================================
