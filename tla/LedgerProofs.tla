---------------------------- MODULE LedgerProofs ----------------------------
(***************************************************************************)
(* Facts about block trees and about the two operations on a transaction   *)
(* index: connecting the next transaction of a chain extends what the      *)
(* index describes by one, disconnecting the last one takes it back.       *)
(*                                                                         *)
(* SetInduction, FoldRecursion and BlockRecursion state induction and      *)
(* recursion, over numbers and over the block tree, for sets in place of   *)
(* predicates.  They say what the recursive definitions of ChainData and   *)
(* TxPool compute, here that a replay from the genesis block and the two   *)
(* operations on the index agree on every transaction.                     *)
(***************************************************************************)
EXTENDS ChainData, FiniteSetTheorems, WellFoundedInduction, TLAPS

(* A block's ancestors, and who they are.                                  *)
LEMMA AncFacts ==
  ASSUME NEW b \in Block
  PROVE  /\ b \in Anc[b]
         /\ Anc[b] \subseteq Block
         /\ Genesis \in Anc[b]
         /\ b # Genesis => /\ Prev[b] \in Block
                           /\ Prev[b] \in Anc[b]
                           /\ b \notin Anc[Prev[b]]
                           /\ Anc[b] = Anc[Prev[b]] \cup {b}
<1>1. b = Genesis \/ Anc[b] = Anc[Prev[b]] \cup {b}
  BY TreeAssumption
<1>2. b \in Anc[b] /\ Anc[b] \subseteq Block /\ Genesis \in Anc[b]
  BY <1>1, TreeAssumption
<1>3. ASSUME b # Genesis
      PROVE  Prev[b] \in Block /\ Prev[b] \in Anc[b] /\ b \notin Anc[Prev[b]]
  <2>1. Prev[b] \in Block
    BY <1>3, TreeAssumption
  <2>2. Prev[b] \in Anc[Prev[b]]
    BY <2>1, TreeAssumption
  <2>3. b \notin Anc[Prev[b]]
    <3>1. Height[b] = Height[Prev[b]] + 1
      BY <1>3, TreeAssumption
    <3>2. Height[b] \in Nat /\ Height[Prev[b]] \in Nat
      BY <2>1, TreeAssumption
    <3>3. \A a \in Anc[Prev[b]] : a = Prev[b] \/ Height[a] < Height[Prev[b]]
      BY <2>1, TreeAssumption
    <3> QED BY <3>1, <3>2, <3>3
  <2> QED BY <1>1, <1>3, <2>1, <2>2, <2>3
<1> QED BY <1>1, <1>2, <1>3

(* Trust grows along a chain.                                              *)
LEMMA TrustGrows ==
  ASSUME NEW b \in Block, NEW a \in Anc[b]
  PROVE  /\ ChainTrust[a] \in Nat
         /\ ChainTrust[b] \in Nat
         /\ ChainTrust[a] <= ChainTrust[b]
         /\ a # b => ChainTrust[a] < ChainTrust[b]
<1>1. a \in Block
  BY AncFacts
<1>2. ChainTrust[a] \in Nat /\ ChainTrust[b] \in Nat
  BY <1>1, TreeAssumption
<1>3. a = b \/ ChainTrust[a] < ChainTrust[b]
  BY TreeAssumption
<1> QED BY <1>2, <1>3

(* A block has at most one child on any chain.                             *)
LEMMA OneChild ==
  ASSUME NEW c \in Block, NEW x \in Anc[c] \ {Genesis}, NEW y \in Anc[c] \ {Genesis},
         Prev[x] = Prev[y]
  PROVE  x = y
<1>1. x \in Block /\ y \in Block
  BY AncFacts
<1>2. x \in Anc[y] \/ y \in Anc[x]
  BY TreeAssumption
<1>3. x \notin Anc[Prev[x]] /\ y \notin Anc[Prev[y]]
  BY <1>1, AncFacts
<1>4. Anc[x] = Anc[Prev[x]] \cup {x} /\ Anc[y] = Anc[Prev[y]] \cup {y}
  BY <1>1, AncFacts
<1> QED BY <1>2, <1>3, <1>4

-----------------------------------------------------------------------------
(* Induction and recursion, over the transactions of a sequence and over   *)
(* the blocks of the tree *)

(* Induction, for a set of numbers: the least one outside it would follow  *)
(* one inside.                                                             *)
LEMMA SetInduction ==
  ASSUME NEW S, S \subseteq Nat, 0 \in S, \A n \in S : n + 1 \in S
  PROVE  S = Nat
<1> DEFINE R == {ss \in Nat \X Nat : ss[1] < ss[2]}
<1>1. OpToRel(<, Nat) = R
  BY Zenon DEF OpToRel
<1>2. SUFFICES ASSUME Nat \ S # {} PROVE FALSE
  OBVIOUS
<1>3. PICK x \in Nat \ S : \A y \in Nat \ S : ~(<<y, x>> \in R)
  <2>1. IsWellFoundedOn(R, Nat)
    <3> HIDE DEF R
    <3> QED BY <1>1, NatLessThanWellFounded
  <2>2. Nat \ S \subseteq Nat
    OBVIOUS
  <2> HIDE DEF R
  <2> QED BY <1>2, <2>1, <2>2, WFMin
<1>4. x # 0 /\ x - 1 \in Nat
  OBVIOUS
<1>5. <<x - 1, x>> \in R
  BY <1>4
<1>6. x - 1 \in S
  BY <1>3, <1>4, <1>5
<1> QED BY <1>4, <1>6

(* What holds of no transaction and of one more holds of all of them.      *)
LEMMA UpTo ==
  ASSUME NEW n \in Nat, NEW S, 0 \in S, \A k \in 1 .. n : k - 1 \in S => k \in S
  PROVE  \A k \in 0 .. n : k \in S
<1> DEFINE U == {k \in Nat : k <= n => k \in S}
<1>1. 0 \in U
  OBVIOUS
<1>2. ASSUME NEW k \in U PROVE k + 1 \in U
  <2>1. k \in Nat /\ (k + 1 <= n => k + 1 \in 1 .. n /\ (k + 1) - 1 \in S)
    BY <1>2
  <2> QED BY <2>1
<1>3. U = Nat
  <2> HIDE DEF U
  <2>1. U \subseteq Nat
    BY DEF U
  <2> QED BY <1>1, <1>2, <2>1, SetInduction
<1> QED BY <1>3

(* f takes the first n steps of g from a.                                  *)
IsFold(f, n, X, a, g) ==
  /\ f \in [0 .. n -> X]
  /\ f[0] = a
  /\ \A k \in 1 .. n : f[k] = g[k][f[k - 1]]

(* A loop over n transactions has a value at every step.                   *)
LEMMA FoldRecursion ==
  ASSUME NEW n \in Nat, NEW X, NEW a \in X, NEW g \in [1 .. n -> [X -> X]]
  PROVE  \E f : IsFold(f, n, X, a, g)
<1> DEFINE S == {m \in Nat : m <= n => \E f : IsFold(f, m, X, a, g)}
<1>1. 0 \in S
  <2> DEFINE f == [k \in 0 .. 0 |-> a]
  <2>1. IsFold(f, 0, X, a, g)
    BY DEF IsFold
  <2> QED BY <2>1
<1>2. ASSUME NEW m \in S PROVE m + 1 \in S
  <2>1. CASE ~(m + 1 <= n)
    BY <1>2, <2>1
  <2>2. CASE m + 1 <= n
    <3>1. PICK f : IsFold(f, m, X, a, g)
      BY <1>2, <2>2
    <3> DEFINE h == [k \in 0 .. m + 1 |-> IF k = m + 1 THEN g[m + 1][f[m]] ELSE f[k]]
    <3>2. m \in Nat /\ m + 1 \in 1 .. n /\ f[m] \in X
      BY <1>2, <2>2, <3>1 DEF IsFold
    <3>3. g[m + 1][f[m]] \in X
      BY <3>2
    <3>4. h \in [0 .. m + 1 -> X] /\ h[0] = a
      BY <3>1, <3>2, <3>3 DEF IsFold
    <3>5. ASSUME NEW k \in 1 .. m + 1 PROVE h[k] = g[k][h[k - 1]]
      <4>1. h[k - 1] = f[k - 1]
        BY <3>2
      <4>2. CASE k = m + 1
        BY <3>2, <4>1, <4>2
      <4>3. CASE k # m + 1
        BY <3>1, <3>2, <4>1, <4>3 DEF IsFold
      <4> QED BY <4>2, <4>3
    <3>6. IsFold(h, m + 1, X, a, g)
      <4> HIDE DEF h
      <4> QED BY <3>4, <3>5 DEF IsFold
    <3> QED BY <3>2, <3>6
  <2> QED BY <2>1, <2>2
<1>3. S = Nat
  <2> HIDE DEF S
  <2>1. S \subseteq Nat
    BY DEF S
  <2> QED BY <1>1, <1>2, <2>1, SetInduction
<1> QED BY <1>3

(* What holds of the genesis block, and of a block if of the previous one, *)
(* holds of every block.                                                   *)
LEMMA BlockInduction ==
  ASSUME NEW S, Genesis \in S, \A b \in Block \ {Genesis} : Prev[b] \in S => b \in S
  PROVE  Block \subseteq S
<1> DEFINE U == {n \in Nat : \A b \in Block : Height[b] <= n => b \in S}
<1>0. /\ Height \in [Block -> Nat]
      /\ \A b \in Block \ {Genesis} : Prev[b] \in Block /\ Height[Prev[b]] < Height[b]
  BY TreeAssumption
<1>1. 0 \in U
  <2>1. ASSUME NEW b \in Block, Height[b] <= 0 PROVE b \in S
    BY <1>0, <2>1
  <2> QED BY <2>1
<1>2. ASSUME NEW n \in U PROVE n + 1 \in U
  <2>1. ASSUME NEW b \in Block, Height[b] <= n + 1 PROVE b \in S
    <3>1. CASE b = Genesis
      BY <3>1
    <3>2. CASE b # Genesis
      <4>1. Prev[b] \in Block /\ Height[Prev[b]] <= n
        BY <1>0, <1>2, <2>1, <3>2
      <4> QED BY <1>2, <3>2, <4>1
    <3> QED BY <3>1, <3>2
  <2> QED BY <1>2, <2>1
<1>3. U = Nat
  <2> HIDE DEF U
  <2>1. U \subseteq Nat
    BY DEF U
  <2> QED BY <1>1, <1>2, <2>1, SetInduction
<1> QED BY <1>0, <1>3

(* f is base where walks along pprev stop, and a step of g from the        *)
(* previous block elsewhere.                                               *)
IsBlockFcn(f, R, X, base, g) ==
  /\ f \in [Block -> X]
  /\ \A d \in Block : f[d] = IF d \in R THEN base ELSE g[d][f[Prev[d]]]

(* A function on the blocks may be defined from its value at the previous  *)
(* block, down to a set of blocks that stops every walk along pprev.       *)
LEMMA BlockRecursion ==
  ASSUME NEW R, Genesis \in R, NEW X, NEW base \in X, NEW g \in [Block -> [X -> X]]
  PROVE  \E f : IsBlockFcn(f, R, X, base, g)
<1>0. /\ Height \in [Block -> Nat]
      /\ \A d \in Block \ R : Prev[d] \in Block /\ Height[Prev[d]] < Height[d]
  BY TreeAssumption
<1> USE <1>0
<1> DEFINE Sol(f, n) == \A d \in Block : Height[d] <= n =>
              f[d] = IF d \in R THEN base ELSE g[d][f[Prev[d]]]
<1>1. \A n \in Nat : \E f \in [Block -> X] : Sol(f, n)
  <2> DEFINE S == {n \in Nat : \E f \in [Block -> X] : Sol(f, n)}
  <2>1. 0 \in S
    <3>1. \A d \in Block : Height[d] <= 0 => d \in R
      OBVIOUS
    <3>2. Sol([d \in Block |-> base], 0)
      BY <3>1
    <3> QED BY <3>2
  <2>2. ASSUME NEW n \in S PROVE n + 1 \in S
    <3>1. PICK f \in [Block -> X] : Sol(f, n)
      BY <2>2
    <3> DEFINE h == [d \in Block |-> IF d \in R THEN base ELSE g[d][f[Prev[d]]]]
    <3>2. h \in [Block -> X]
      OBVIOUS
    <3>3. ASSUME NEW d \in Block, Height[d] <= n + 1, d \notin R
          PROVE  h[d] = g[d][h[Prev[d]]]
      <4>1. Prev[d] \in Block /\ Height[Prev[d]] <= n
        BY <2>2, <3>3
      <4>2. h[Prev[d]] = f[Prev[d]]
        BY <3>1, <4>1
      <4> QED BY <3>3, <4>2
    <3>4. Sol(h, n + 1)
      BY <3>3
    <3> HIDE DEF h, Sol
    <3> QED BY <3>2, <3>4
  <2> HIDE DEF Sol
  <2>3. S = Nat
    <3> HIDE DEF S
    <3>1. S \subseteq Nat
      BY DEF S
    <3> QED BY <2>1, <2>2, <3>1, SetInduction
  <2> QED BY <2>3
<1>2. ASSUME NEW f1 \in [Block -> X], NEW f2 \in [Block -> X], NEW n \in Nat, Sol(f1, n), Sol(f2, n)
      PROVE  \A d \in Block : Height[d] <= n => f1[d] = f2[d]
  <2> DEFINE S == {k \in Nat : \A d \in Block : Height[d] <= n /\ Height[d] <= k => f1[d] = f2[d]}
  <2>1. 0 \in S
    <3>1. \A d \in Block : Height[d] <= 0 => d \in R
      OBVIOUS
    <3> QED BY <1>2, <3>1
  <2>2. ASSUME NEW k \in S PROVE k + 1 \in S
    <3>1. ASSUME NEW d \in Block, Height[d] <= n, Height[d] <= k + 1 PROVE f1[d] = f2[d]
      <4>1. CASE d \in R
        BY <1>2, <3>1, <4>1
      <4>2. CASE d \notin R
        <5>1. Prev[d] \in Block /\ Height[Prev[d]] <= n /\ Height[Prev[d]] <= k
          BY <2>2, <3>1, <4>2
        <5>2. f1[Prev[d]] = f2[Prev[d]]
          BY <2>2, <5>1
        <5> QED BY <1>2, <3>1, <4>2, <5>2
      <4> QED BY <4>1, <4>2
    <3> QED BY <2>2, <3>1
  <2>3. S = Nat
    <3> HIDE DEF S
    <3>1. S \subseteq Nat
      BY DEF S
    <3> QED BY <2>1, <2>2, <3>1, SetInduction
  <2> QED BY <2>3
<1> DEFINE F == [n \in Nat |-> CHOOSE f \in [Block -> X] : Sol(f, n)]
<1>3. \A n \in Nat : F[n] \in [Block -> X] /\ Sol(F[n], n)
  <2> HIDE DEF Sol
  <2> QED BY <1>1
<1> DEFINE f == [d \in Block |-> F[Height[d]][d]]
<1> HIDE DEF F
<1>4. f \in [Block -> X]
  BY <1>3
<1>5. ASSUME NEW d \in Block PROVE f[d] = IF d \in R THEN base ELSE g[d][f[Prev[d]]]
  <2>1. f[d] = F[Height[d]][d]
    OBVIOUS
  <2>2. F[Height[d]][d] = IF d \in R THEN base ELSE g[d][F[Height[d]][Prev[d]]]
    BY <1>3
  <2>3. ASSUME d \notin R PROVE F[Height[d]][Prev[d]] = f[Prev[d]]
    <3>1. Prev[d] \in Block /\ Height[Prev[d]] \in Nat /\ Height[Prev[d]] <= Height[d] /\ Height[d] \in Nat
      BY <2>3
    <3>2. Sol(F[Height[d]], Height[Prev[d]])
      BY <1>3, <3>1
    <3>3. Sol(F[Height[Prev[d]]], Height[Prev[d]])
      BY <1>3, <3>1
    <3>4. F[Height[d]] \in [Block -> X] /\ F[Height[Prev[d]]] \in [Block -> X]
      BY <1>3, <3>1
    <3>5. \A e \in Block : Height[e] <= Height[Prev[d]] => F[Height[d]][e] = F[Height[Prev[d]]][e]
      <4> HIDE DEF Sol
      <4> QED BY <1>2, <3>1, <3>2, <3>3, <3>4
    <3> QED BY <3>1, <3>5
  <2> QED BY <2>1, <2>2, <2>3
<1> HIDE DEF f
<1> QED BY <1>4, <1>5 DEF IsBlockFcn

-----------------------------------------------------------------------------
(* How many transactions of each block an index accounts for.              *)

Counts == {n \in [Block -> Nat] : \A b \in Block : n[b] <= Len(vtx[b])}

(* All connected blocks are b and ancestors of b.                          *)
TipIs(n, b) == \A a \in Block : n[a] > 0 => a \in Anc[b]

(* The members of a block are transactions, at every position of vtx.      *)
LEMMA VtxType ==
  ASSUME NEW b \in Block
  PROVE  /\ Len(vtx[b]) \in Nat
         /\ \A i \in 1 .. Len(vtx[b]) : vtx[b][i] \in Tx
         /\ \A i, j \in 1 .. Len(vtx[b]) : vtx[b][i] = vtx[b][j] => i = j
BY TxAssumption

(* ConnectInputs keeps the type of a transaction index.                    *)
LEMMA ConnectType ==
  ASSUME NEW idx \in TxIndexType, NEW t \in Tx, NEW b \in Block
  PROVE  ConnectInputs(idx, t, b) \in TxIndexType
BY DEF ConnectInputs, TxIndexType

(* DisconnectInputs keeps the type of a transaction index.                 *)
LEMMA DisconnectType ==
  ASSUME NEW idx \in TxIndexType, NEW t \in Tx
  PROVE  DisconnectInputs(idx, t) \in TxIndexType
BY DEF DisconnectInputs, TxIndexType

(* A transaction that can be connected next has no record yet.             *)
LEMMA NotYetConnected ==
  ASSUME NEW idx \in TxIndexType, NEW n \in Counts, NEW b \in Block,
         n[b] < Len(vtx[b]), TipIs(n, b), Describes(idx, n),
         \A o \in vin[vtx[b][n[b] + 1]] : InputOk(idx, o, b)
  PROVE  idx.pos[vtx[b][n[b] + 1]] = None
<1> DEFINE t == vtx[b][n[b] + 1]
<1>0. n[b] \in Nat /\ n[b] + 1 \in 1 .. Len(vtx[b])
  BY VtxType DEF Counts
<1>1. t \in Tx
  BY <1>0, VtxType
<1> SUFFICES ASSUME idx.pos[t] # None PROVE FALSE
  OBVIOUS
<1> DEFINE a == idx.pos[t]
<1>2. a \in Block
  BY <1>1 DEF TxIndexType
<1>3. PICK i \in 1 .. n[a] : vtx[a][i] = t
  BY <1>1 DEF Describes, OnlyRecordsOf
<1>4. n[a] \in Nat /\ n[a] <= Len(vtx[a]) /\ i \in 1 .. Len(vtx[a])
  BY <1>2, VtxType DEF Counts
<1>5. CASE vin[t] = {}
  <2>1. a \in Anc[b]
    BY SMTT(40), <1>2, <1>3, <1>4 DEF TipIs
  <2>2. t \in TxsOf(a) \cap TxsOf(b)
    <3>1. DOMAIN vtx[a] = 1 .. Len(vtx[a]) /\ DOMAIN vtx[b] = 1 .. Len(vtx[b])
      BY <1>2, TxAssumption
    <3> QED BY <3>1, <1>0, <1>3, <1>4 DEF TxsOf
  <2>3. a = b
    BY <1>5, <2>1, <2>2, TxAssumption
  <2> HIDE DEF a
  <2>4. i = n[b] + 1
    BY <1>0, <1>3, <1>4, <2>3, VtxType
  <2> QED BY <2>3, <2>4, <1>0
<1>6. CASE vin[t] # {}
  <2>1. PICK o \in vin[t] : TRUE
    BY <1>6
  <2>2. idx.vSpent[o] = vtx[a][i]
    BY <1>2, <1>3, <2>1 DEF Describes, InputsOf
  <2>3. idx.vSpent[o] = None
    BY <2>1 DEF InputOk
  <2> QED BY <1>1, <1>3, <2>2, <2>3, TxAssumption
<1> QED BY <1>5, <1>6

(* Connecting the next transaction of block b.                             *)
LEMMA ConnectDescribes ==
  ASSUME NEW idx \in TxIndexType, NEW n \in Counts, NEW b \in Block,
         n[b] < Len(vtx[b]), TipIs(n, b), Describes(idx, n),
         \A o \in vin[vtx[b][n[b] + 1]] : InputOk(idx, o, b)
  PROVE  Describes(ConnectInputs(idx, vtx[b][n[b] + 1], b),
                   [n EXCEPT ![b] = n[b] + 1])
<1> DEFINE k == n[b] + 1
           t == vtx[b][k]
           new == ConnectInputs(idx, t, b)
           m == [n EXCEPT ![b] = k]
<1>0. n[b] \in Nat /\ k \in 1 .. Len(vtx[b])
  BY VtxType DEF Counts
<1>1. t \in Tx
  BY <1>0, VtxType
<1>2. idx.pos[t] = None
  BY NotYetConnected
<1>3. /\ new.pos[t] = b
      /\ \A s \in Tx : s # t => new.pos[s] = idx.pos[s]
  BY <1>1 DEF ConnectInputs, TxIndexType
<1>4. \A o \in OutPoint :
        new.vSpent[o] = IF o[1] = t THEN None
                        ELSE IF o \in vin[t] THEN t ELSE idx.vSpent[o]
  BY DEF ConnectInputs
<1>5. \A a \in Block : n[a] \in Nat /\ n[a] <= Len(vtx[a])
  BY DEF Counts
<1>6. \A a \in Block : m[a] = IF a = b THEN k ELSE n[a]
  BY DEF Counts
<1>7. \A a \in Block : \A i \in 1 .. n[a] :
        vtx[a][i] \in Tx /\ vtx[a][i] # t /\ idx.pos[vtx[a][i]] = a
  <2> SUFFICES ASSUME NEW a \in Block, NEW i \in 1 .. n[a]
               PROVE  vtx[a][i] \in Tx /\ vtx[a][i] # t /\ idx.pos[vtx[a][i]] = a
    OBVIOUS
  <2> HIDE DEF t
  <2>1. i \in 1 .. Len(vtx[a])
    BY <1>5, VtxType
  <2>2. idx.pos[vtx[a][i]] = a
    BY DEF Describes, RecordsOf
  <2> QED BY <2>1, <2>2, <1>2, VtxType, TreeAssumption
<1>8. \A a \in Block : \A i \in 1 .. m[a] :
        i \in 1 .. n[a] \/ (a = b /\ i = k)
  BY <1>0, <1>5, <1>6
<1>9. b # None /\ t # None
  BY <1>1, TreeAssumption, TxAssumption
<1>10. \A o \in OutPoint : o[1] \in Tx
  BY TxAssumption
<1> HIDE DEF new, m, t, k
<1>a. RecordsOf(new, m)
  BY <1>1, <1>3, <1>7, <1>8 DEF RecordsOf, t
<1>b. OnlyRecordsOf(new, m)
  <2> SUFFICES ASSUME NEW s \in Tx, new.pos[s] # None
               PROVE  \E i \in 1 .. m[new.pos[s]] : vtx[new.pos[s]][i] = s
    BY DEF OnlyRecordsOf
  <2>1. CASE s = t
    BY <2>1, <1>0, <1>3, <1>6 DEF t
  <2>2. CASE s # t
    <3>1. new.pos[s] = idx.pos[s]
      BY <2>2, <1>3
    <3>2. PICK i \in 1 .. n[idx.pos[s]] : vtx[idx.pos[s]][i] = s
      BY <3>1 DEF Describes, OnlyRecordsOf
    <3>3. idx.pos[s] \in Block
      BY <3>1 DEF TxIndexType
    <3>4. i \in 1 .. m[idx.pos[s]]
      BY <3>2, <3>3, <1>0, <1>5, <1>6 DEF k
    <3> QED BY <3>1, <3>2, <3>4
  <2> QED BY <2>1, <2>2
<1>c. InputsOf(new, m)
  <2> SUFFICES ASSUME NEW a \in Block, NEW i \in 1 .. m[a], NEW o \in vin[vtx[a][i]]
               PROVE  /\ o \in OutPoint
                      /\ new.vSpent[o] = vtx[a][i]
                      /\ new.pos[o[1]] \in Anc[a]
                      /\ new.pos[o[1]] = a => \E j \in 1 .. i - 1 : vtx[a][j] = o[1]
    BY DEF InputsOf
  <2>1. CASE i \in 1 .. n[a]
    <3>1. /\ o \in OutPoint
          /\ idx.vSpent[o] = vtx[a][i]
          /\ idx.pos[o[1]] \in Anc[a]
          /\ idx.pos[o[1]] = a => \E j \in 1 .. i - 1 : vtx[a][j] = o[1]
      BY <2>1 DEF Describes, InputsOf
    <3>2. Anc[a] \subseteq Block
      BY AncFacts
    <3>3. o[1] # t
      BY <3>1, <3>2, <1>2, TreeAssumption
    <3>4. vtx[a][i] # None
      BY <1>7, <2>1, TxAssumption
    <3>5. o \notin vin[t]
      BY <3>1, <3>4 DEF InputOk, t, k
    <3> QED BY <3>1, <3>3, <3>5, <1>3, <1>4, <1>10
  <2>2. CASE a = b /\ i = k
    <3>1. o \in vin[t]
      BY <2>2 DEF t
    <3>2. o \in OutPoint /\ idx.pos[o[1]] # None
      BY <3>1 DEF InputOk, t, k
    <3>3. o[1] \in Tx /\ o[1] # t
      BY <3>2, <1>2, <1>10
    <3>4. new.vSpent[o] = vtx[a][i]
      BY <2>2, <3>1, <3>2, <3>3, <1>4 DEF t
    <3>5. new.pos[o[1]] = idx.pos[o[1]] /\ idx.pos[o[1]] \in Block
      BY <3>2, <3>3, <1>3 DEF TxIndexType
    <3>6. PICK j \in 1 .. n[idx.pos[o[1]]] : vtx[idx.pos[o[1]]][j] = o[1]
      BY <3>2, <3>3 DEF Describes, OnlyRecordsOf
    <3>7. idx.pos[o[1]] \in Anc[b]
      BY <3>5, <3>6, <1>5 DEF TipIs
    <3>8. ASSUME idx.pos[o[1]] = b PROVE j \in 1 .. i - 1 /\ vtx[a][j] = o[1]
      BY <3>6, <3>8, <2>2, <1>0 DEF k
    <3> QED BY <2>2, <3>2, <3>4, <3>5, <3>7, <3>8
  <2> QED BY <2>1, <2>2, <1>8
<1>d. OnlyInputsOf(new, m)
  <2> SUFFICES ASSUME NEW o \in OutPoint, new.vSpent[o] # None
               PROVE  /\ new.pos[new.vSpent[o]] # None
                      /\ o \in vin[new.vSpent[o]]
    BY DEF OnlyInputsOf
  <2>1. CASE o \in vin[t] /\ o[1] # t
    BY <2>1, <1>3, <1>4, <1>9
  <2>2. CASE o \notin vin[t] /\ o[1] # t
    <3>1. new.vSpent[o] = idx.vSpent[o]
      BY <2>2, <1>4
    <3>2. idx.vSpent[o] \in Tx
      BY <3>1 DEF TxIndexType
    <3>3. idx.pos[idx.vSpent[o]] # None /\ o \in vin[idx.vSpent[o]]
      BY <3>1 DEF Describes, OnlyInputsOf
    <3> QED BY <3>1, <3>2, <3>3, <1>3, <1>9
  <2>3. o[1] # t
    BY <1>4
  <2> QED BY <2>1, <2>2, <2>3
<1> QED BY <1>a, <1>b, <1>c, <1>d DEF Describes, new, m, t, k

(* Disconnecting the last connected transaction of the tip.                *)
LEMMA DisconnectDescribes ==
  ASSUME NEW idx \in TxIndexType, NEW n \in Counts, NEW b \in Block,
         n[b] > 0, TipIs(n, b), Describes(idx, n)
  PROVE  Describes(DisconnectInputs(idx, vtx[b][n[b]]),
                   [n EXCEPT ![b] = n[b] - 1])
<1> DEFINE k == n[b]
           t == vtx[b][k]
           new == DisconnectInputs(idx, t)
           m == [n EXCEPT ![b] = k - 1]
<1>0. k \in Nat \ {0} /\ k \in 1 .. Len(vtx[b]) /\ k \in 1 .. n[b]
  BY VtxType DEF Counts
<1>1. t \in Tx
  BY <1>0, VtxType
<1>2. idx.pos[t] = b
  BY <1>0 DEF Describes, RecordsOf
<1>3. /\ new.pos[t] = None
      /\ \A s \in Tx : s # t => new.pos[s] = idx.pos[s]
  BY <1>1 DEF DisconnectInputs, TxIndexType
<1>4. \A o \in OutPoint :
        new.vSpent[o] = IF o[1] = t \/ (o \in vin[t] /\ idx.pos[o[1]] # None)
                        THEN None ELSE idx.vSpent[o]
  BY DEF DisconnectInputs
<1>5. \A a \in Block : n[a] \in Nat /\ n[a] <= Len(vtx[a])
  BY DEF Counts
<1>6. \A a \in Block : m[a] = IF a = b THEN k - 1 ELSE n[a]
  BY DEF Counts
<1> HIDE DEF new, m, t, k
<1>7. ASSUME NEW a \in Block, NEW i \in 1 .. m[a]
      PROVE  /\ i \in 1 .. n[a]
             /\ a = b => i < k
             /\ vtx[a][i] \in Tx
             /\ vtx[a][i] # t
             /\ idx.pos[vtx[a][i]] = a
  <2>1. i \in 1 .. n[a] /\ (a = b => i < k) /\ i \in 1 .. Len(vtx[a])
    BY <1>0, <1>5, <1>6, VtxType DEF k
  <2>2. vtx[a][i] \in Tx
    BY <2>1, VtxType
  <2>3. idx.pos[vtx[a][i]] = a
    BY <2>1 DEF Describes, RecordsOf
  <2>4. a = b => vtx[a][i] # t
    BY <2>1, <1>0, VtxType DEF t
  <2> QED BY <2>1, <2>2, <2>3, <2>4, <1>2
<1>8. \A o \in OutPoint : o[1] \in Tx
  BY TxAssumption
<1>a. RecordsOf(new, m)
  BY <1>3, <1>7 DEF RecordsOf
<1>b. OnlyRecordsOf(new, m)
  <2> SUFFICES ASSUME NEW s \in Tx, new.pos[s] # None
               PROVE  \E i \in 1 .. m[new.pos[s]] : vtx[new.pos[s]][i] = s
    BY DEF OnlyRecordsOf
  <2>1. s # t /\ new.pos[s] = idx.pos[s]
    BY <1>3
  <2>2. PICK i \in 1 .. n[idx.pos[s]] : vtx[idx.pos[s]][i] = s
    BY <2>1 DEF Describes, OnlyRecordsOf
  <2>3. idx.pos[s] \in Block
    BY <2>1 DEF TxIndexType
  <2>4. idx.pos[s] = b => i # k
    BY <2>1, <2>2 DEF t
  <2>5. i \in 1 .. m[idx.pos[s]]
    BY <2>3, <2>4, <1>0, <1>5, <1>6 DEF k
  <2> QED BY <2>1, <2>2, <2>5
<1>c. InputsOf(new, m)
  <2> SUFFICES ASSUME NEW a \in Block, NEW i \in 1 .. m[a], NEW o \in vin[vtx[a][i]]
               PROVE  /\ o \in OutPoint
                      /\ new.vSpent[o] = vtx[a][i]
                      /\ new.pos[o[1]] \in Anc[a]
                      /\ new.pos[o[1]] = a => \E j \in 1 .. i - 1 : vtx[a][j] = o[1]
    BY DEF InputsOf
  <2>1. /\ o \in OutPoint
        /\ idx.vSpent[o] = vtx[a][i]
        /\ idx.pos[o[1]] \in Anc[a]
        /\ idx.pos[o[1]] = a => \E j \in 1 .. i - 1 : vtx[a][j] = o[1]
    BY <1>7 DEF Describes, InputsOf
  <2>2. o[1] # t
    <3> SUFFICES ASSUME o[1] = t PROVE FALSE
      OBVIOUS
    <3>1. b \in Anc[a]
      BY <2>1, <1>2
    <3>2. a \in Anc[b]
      BY <1>5, <1>7 DEF TipIs
    <3>3. Height[a] \in Nat /\ Height[b] \in Nat
      BY TreeAssumption
    <3>4. a = b
      BY <3>1, <3>2, <3>3, TreeAssumption
    <3>5. PICK j \in 1 .. i - 1 : vtx[b][j] = t
      BY <2>1, <1>2, <3>4
    <3>6. j \in 1 .. Len(vtx[b]) /\ j # k
      BY <1>0, <1>7, <3>4
    <3> QED BY <3>5, <3>6, <1>0, VtxType DEF t
  <2>3. o \notin vin[t]
    <3>1. o \in vin[t] => idx.vSpent[o] = t
      BY <1>0 DEF Describes, InputsOf, t
    <3> QED BY <3>1, <2>1, <1>7
  <2> QED BY <2>1, <2>2, <2>3, <1>3, <1>4, <1>8
<1>d. OnlyInputsOf(new, m)
  <2> SUFFICES ASSUME NEW o \in OutPoint, new.vSpent[o] # None
               PROVE  /\ new.pos[new.vSpent[o]] # None
                      /\ o \in vin[new.vSpent[o]]
    BY DEF OnlyInputsOf
  <2>1. new.vSpent[o] = idx.vSpent[o]
    BY <1>4
  <2>2. idx.vSpent[o] \in Tx
    BY <2>1 DEF TxIndexType
  <2>3. idx.pos[idx.vSpent[o]] # None /\ o \in vin[idx.vSpent[o]]
    BY <2>1 DEF Describes, OnlyInputsOf
  <2>4. idx.vSpent[o] # t
    <3> SUFFICES ASSUME idx.vSpent[o] = t PROVE FALSE
      OBVIOUS
    <3>1. o \in vin[t]
      BY <2>3
    <3>2. idx.pos[o[1]] \in Anc[b]
      BY <1>0, <3>1 DEF Describes, InputsOf, t
    <3>3. idx.pos[o[1]] # None
      BY <3>2, AncFacts, TreeAssumption
    <3> QED BY <3>1, <3>3, <1>4
  <2> QED BY <2>1, <2>2, <2>3, <2>4, <1>3
<1> QED BY <1>a, <1>b, <1>c, <1>d DEF Describes, new, m, t, k

-----------------------------------------------------------------------------
(* The counts of a chain that is connected up to a block.                  *)

(* Connected, when it counts one more transaction of the same block.       *)
LEMMA ConnectedCounts ==
  ASSUME NEW c \in Block, NEW p \in Block, NEW k \in 0 .. Len(vtx[p])
  PROVE  /\ Connected(c, p, k) \in Counts
         /\ Connected(c, p, k)[p] = k
         /\ \A j \in Nat : [Connected(c, p, k) EXCEPT ![p] = j] = Connected(c, p, j)
<1>1. \A b \in Block : Len(vtx[b]) \in Nat
  BY VtxType
<1>2. k \in Nat /\ k <= Len(vtx[p])
  BY <1>1
<1>3. Connected(c, p, k) \in [Block -> Nat]
  BY <1>1, <1>2 DEF Connected
<1>4. \A b \in Block : Connected(c, p, k)[b] <= Len(vtx[b])
  BY <1>1, <1>2 DEF Connected
<1>5. Connected(c, p, k)[p] = k
  BY DEF Connected
<1>6. \A j \in Nat : [Connected(c, p, k) EXCEPT ![p] = j] = Connected(c, p, j)
  BY DEF Connected
<1> QED BY <1>3, <1>4, <1>5, <1>6 DEF Counts

(* The counts of a whole chain, which ends in c.                           *)
LEMMA WholeCounts ==
  ASSUME NEW c \in Block
  PROVE  /\ Connected(c, None, 0) \in Counts
         /\ TipIs(Connected(c, None, 0), c)
<1>1. \A b \in Block : Len(vtx[b]) \in Nat
  BY VtxType
<1>2. None \notin Block
  BY TreeAssumption
<1> QED BY <1>1, <1>2 DEF Connected, Counts, TipIs

(* The tip is the block being disconnected.                                *)
LEMMA ConnectedTip ==
  ASSUME NEW c \in Block \ {Genesis}
  PROVE  /\ Connected(c, c, Len(vtx[c])) = Connected(c, None, 0)
         /\ Connected(c, c, 0) = Connected(Prev[c], None, 0)
         /\ \A k \in Nat : TipIs(Connected(c, c, k), c)
<1>1. None \notin Block
  BY TreeAssumption
<1>2. c \in Anc[c] /\ Anc[c] = Anc[Prev[c]] \cup {c} /\ c \notin Anc[Prev[c]]
  BY AncFacts
<1> QED BY <1>1, <1>2 DEF Connected, TipIs

(* The block being connected is a child of the tip.                        *)
LEMMA ConnectedChild ==
  ASSUME NEW b \in Block \ {Genesis}
  PROVE  /\ Connected(Prev[b], b, 0) = Connected(Prev[b], None, 0)
         /\ Connected(Prev[b], b, Len(vtx[b])) = Connected(b, None, 0)
         /\ \A k \in Nat : TipIs(Connected(Prev[b], b, k), b)
<1>1. None \notin Block
  BY TreeAssumption
<1>2. b \in Anc[b] /\ Anc[b] = Anc[Prev[b]] \cup {b} /\ b \notin Anc[Prev[b]]
  BY AncFacts
<1>3. Connected(Prev[b], b, 0) = Connected(Prev[b], None, 0)
  BY <1>1, <1>2 DEF Connected
<1>4. Connected(Prev[b], b, Len(vtx[b])) = Connected(b, None, 0)
  BY <1>1, <1>2 DEF Connected
<1>5. \A k \in Nat : TipIs(Connected(Prev[b], b, k), b)
  BY <1>1, <1>2 DEF Connected, TipIs
<1> QED BY <1>3, <1>4, <1>5

-----------------------------------------------------------------------------
(* The replay of a chain.                                                  *)

ReplayType == [ok : BOOLEAN, coins : [OutPoint -> Int]]

(* One more transaction makes a replay of a replay.                        *)
LEMMA ReplayTxType ==
  ASSUME NEW u \in ReplayType, NEW t, NEW b \in Block
  PROVE  ReplayTx(u, t, b) \in ReplayType
<1>1. Height[b] \in Int
  BY TreeAssumption
<1> DEFINE c == [o \in OutPoint |-> IF o[1] = t THEN Height[b]
                                    ELSE IF o \in vin[t] THEN Gone ELSE u.coins[o]]
           k == /\ u.ok
                /\ t \notin BadTx
                /\ \A o \in OutputsOf(t) : u.coins[o] = Gone
                /\ \A o \in vin[t] : Spendable(u, o, b)
<1>2. c \in [OutPoint -> Int]
  BY <1>1 DEF ReplayType, Gone
<1>3. k \in BOOLEAN
  OBVIOUS
<1>4. ReplayTx(u, t, b) = [ok |-> k, coins |-> c]
  BY DEF ReplayTx
<1> HIDE DEF k, c
<1> QED BY <1>2, <1>3, <1>4 DEF ReplayType

(* The replay of a block, transaction by transaction.                      *)
LEMMA ReplayingSteps ==
  ASSUME NEW u \in ReplayType, NEW b \in Block
  PROVE  /\ Len(vtx[b]) \in Nat
         /\ Replaying(u, b)[0] = u
         /\ \A k \in 1 .. Len(vtx[b]) :
              Replaying(u, b)[k] = ReplayTx(Replaying(u, b)[k - 1], vtx[b][k], b)
         /\ \A k \in 0 .. Len(vtx[b]) : Replaying(u, b)[k] \in ReplayType
<1> DEFINE n == Len(vtx[b])
           g == [k \in 1 .. n |-> [x \in ReplayType |-> ReplayTx(x, vtx[b][k], b)]]
<1>1. n \in Nat
  BY VtxType
<1>2. g \in [1 .. n -> [ReplayType -> ReplayType]]
  BY <1>1, ReplayTxType
<1>3. \A k \in 1 .. n, x \in ReplayType : g[k][x] = ReplayTx(x, vtx[b][k], b)
  OBVIOUS
<1> HIDE DEF g
<1>4. PICK f : IsFold(f, n, ReplayType, u, g)
  <2> HIDE DEF n
  <2> QED BY <1>1, <1>2, FoldRecursion
<1>5. f = [k \in 0 .. Len(vtx[b]) |->
             IF k = 0 THEN u ELSE ReplayTx(f[k - 1], vtx[b][k], b)]
  <2>1. ASSUME NEW k \in 1 .. n PROVE f[k] = ReplayTx(f[k - 1], vtx[b][k], b)
    <3> HIDE DEF n
    <3>1. f[k - 1] \in ReplayType /\ f[k] = g[k][f[k - 1]]
      BY <1>1, <1>4 DEF IsFold
    <3> QED BY <1>3, <3>1
  <2> QED BY <1>4, <2>1 DEF IsFold
<1>6. Replaying(u, b) =
        [k \in 0 .. Len(vtx[b]) |->
           IF k = 0 THEN u ELSE ReplayTx(Replaying(u, b)[k - 1], vtx[b][k], b)]
  BY <1>5 DEF Replaying
<1>7. /\ Replaying(u, b)[0] = u
      /\ \A k \in 1 .. n :
           Replaying(u, b)[k] = ReplayTx(Replaying(u, b)[k - 1], vtx[b][k], b)
  BY <1>1, <1>6
<1> DEFINE c == Replaying(u, b)
           S == {k \in 0 .. n : c[k] \in ReplayType}
<1> HIDE DEF c, n
<1>8. 0 \in S
  BY <1>1, <1>7 DEF c
<1>9. ASSUME NEW k \in 1 .. n, k - 1 \in S PROVE k \in S
  <2>1. c[k] = ReplayTx(c[k - 1], vtx[b][k], b)
    BY <1>7 DEF c
  <2> QED BY <1>1, <1>9, <2>1, ReplayTxType
<1>10. \A k \in 0 .. n : k \in S
  <2> HIDE DEF S
  <2> QED BY <1>1, <1>8, <1>9, UpTo
<1> QED BY <1>1, <1>7, <1>10 DEF n, c

(* The end of a block adds the limits on all of it.                        *)
LEMMA ReplayBlockIs ==
  ASSUME NEW u \in ReplayType, NEW b \in Block
  PROVE  /\ ReplayBlock(u, b) \in ReplayType
         /\ ReplayBlock(u, b).coins = Replaying(u, b)[Len(vtx[b])].coins
         /\ ReplayBlock(u, b).ok <=> Replaying(u, b)[Len(vtx[b])].ok /\ b \notin BadBlock
<1> DEFINE r == Replaying(u, b)[Len(vtx[b])]
<1>1. r \in ReplayType
  BY ReplayingSteps
<1>2. ReplayBlock(u, b) = [r EXCEPT !.ok = r.ok /\ b \notin BadBlock]
  BY DEF ReplayBlock
<1> DEFINE k == r.ok /\ b \notin BadBlock
<1>3. k \in BOOLEAN
  OBVIOUS
<1> HIDE DEF r
<1>4. ASSUME NEW x \in BOOLEAN
      PROVE  /\ [r EXCEPT !.ok = x] \in ReplayType
             /\ [r EXCEPT !.ok = x].coins = r.coins
             /\ [r EXCEPT !.ok = x].ok = x
  BY <1>1 DEF ReplayType
<1>5. /\ [r EXCEPT !.ok = k] \in ReplayType
      /\ [r EXCEPT !.ok = k].coins = r.coins
      /\ [r EXCEPT !.ok = k].ok = k
  <2> HIDE DEF k
  <2> QED BY <1>3, <1>4
<1> QED BY <1>2, <1>5, Zenon DEF r

(* The replay of every chain is that of the previous block and this one.   *)
LEMMA ReplaySteps ==
  /\ Replay \in [Block -> ReplayType]
  /\ Replay[Genesis] = NoCoins
  /\ \A b \in Block \ {Genesis} : Replay[b] = ReplayBlock(Replay[Prev[b]], b)
<1> DEFINE g == [b \in Block |-> [x \in ReplayType |-> ReplayBlock(x, b)]]
<1>1. g \in [Block -> [ReplayType -> ReplayType]]
  BY ReplayBlockIs
<1>2. \A b \in Block, x \in ReplayType : g[b][x] = ReplayBlock(x, b)
  OBVIOUS
<1>3. NoCoins \in ReplayType
  BY DEF NoCoins, ReplayType, Gone
<1> HIDE DEF g
<1>4. PICK f : IsBlockFcn(f, {Genesis}, ReplayType, NoCoins, g)
  BY <1>1, <1>3, BlockRecursion
<1>5. f = [b \in Block |-> IF b = Genesis THEN NoCoins ELSE ReplayBlock(f[Prev[b]], b)]
  <2>1. ASSUME NEW b \in Block, b # Genesis PROVE f[b] = ReplayBlock(f[Prev[b]], b)
    <3>1. Prev[b] \in Block
      BY <2>1, TreeAssumption
    <3>2. f[Prev[b]] \in ReplayType /\ f[b] = g[b][f[Prev[b]]]
      BY <1>4, <2>1, <3>1 DEF IsBlockFcn
    <3> QED BY <1>2, <3>2
  <2> QED BY <1>4, <2>1 DEF IsBlockFcn
<1>6. Replay = [b \in Block |-> IF b = Genesis THEN NoCoins ELSE ReplayBlock(Replay[Prev[b]], b)]
  BY <1>5 DEF Replay
<1>7. /\ Genesis \in Block
      /\ \A b \in Block \ {Genesis} : Prev[b] \in Block
  BY TreeAssumption
<1>8. /\ Replay[Genesis] = NoCoins
      /\ \A b \in Block \ {Genesis} : Replay[b] = ReplayBlock(Replay[Prev[b]], b)
  BY <1>6, <1>7
<1> DEFINE S == {b \in Block : Replay[b] \in ReplayType}
<1>9. Genesis \in S
  BY <1>3, <1>7, <1>8
<1>10. ASSUME NEW b \in Block \ {Genesis}, Prev[b] \in S PROVE b \in S
  BY <1>8, <1>10, ReplayBlockIs
<1>11. Block \subseteq S
  <2> HIDE DEF S
  <2> QED BY <1>9, <1>10, BlockInduction
<1>12. Replay \in [Block -> ReplayType]
  BY <1>6, <1>11
<1> QED BY <1>8, <1>12

(* The replay up to transaction k of block b.                              *)
ReplayTo(b, k) == Replaying(Replay[Prev[b]], b)[k]

(* From one block to the next.                                             *)
LEMMA ReplayToSteps ==
  ASSUME NEW b \in Block \ {Genesis}
  PROVE  /\ Len(vtx[b]) \in Nat
         /\ ReplayTo(b, 0) = Replay[Prev[b]]
         /\ \A k \in 1 .. Len(vtx[b]) :
              ReplayTo(b, k) = ReplayTx(ReplayTo(b, k - 1), vtx[b][k], b)
         /\ \A k \in 0 .. Len(vtx[b]) : ReplayTo(b, k) \in ReplayType
         /\ Replay[b].coins = ReplayTo(b, Len(vtx[b])).coins
         /\ Replay[b].ok <=> ReplayTo(b, Len(vtx[b])).ok /\ b \notin BadBlock
<1>1. Prev[b] \in Block /\ Replay[Prev[b]] \in ReplayType
  BY ReplaySteps, TreeAssumption
<1>2. Replay[b] = ReplayBlock(Replay[Prev[b]], b)
  BY ReplaySteps
<1>3. /\ Replay[b].coins = ReplayTo(b, Len(vtx[b])).coins
      /\ Replay[b].ok <=> ReplayTo(b, Len(vtx[b])).ok /\ b \notin BadBlock
  BY <1>1, <1>2, ReplayBlockIs DEF ReplayTo
<1> QED BY <1>1, <1>3, ReplayingSteps DEF ReplayTo

(* What has gone wrong stays wrong to the end of the block ...             *)
LEMMA ReplayFailed ==
  ASSUME NEW b \in Block \ {Genesis}, NEW k \in 0 .. Len(vtx[b]), ~ReplayTo(b, k).ok
  PROVE  ~Replay[b].ok
<1> DEFINE n == Len(vtx[b])
           S == {j \in 0 .. n : j >= k => ~ReplayTo(b, j).ok}
<1>1. /\ n \in Nat
      /\ \A j \in 1 .. n : ReplayTo(b, j) = ReplayTx(ReplayTo(b, j - 1), vtx[b][j], b)
  BY ReplayToSteps
<1>2. 0 \in S
  BY <1>1
<1>3. ASSUME NEW j \in 1 .. n, j - 1 \in S PROVE j \in S
  <2>1. CASE j = k
    BY <2>1
  <2>2. CASE j # k
    <3>1. j >= k => ~ReplayTo(b, j - 1).ok
      BY <1>1, <1>3, <2>2
    <3>2. ReplayTo(b, j).ok => ReplayTo(b, j - 1).ok
      BY <1>1 DEF ReplayTx
    <3> QED BY <3>1, <3>2
  <2> QED BY <2>1, <2>2
<1>4. \A j \in 0 .. n : j \in S
  <2> HIDE DEF S, n
  <2> QED BY <1>1, <1>2, <1>3, UpTo
<1>5. ~ReplayTo(b, n).ok
  BY <1>1, <1>4
<1> QED BY <1>5, ReplayToSteps

(* ... and to the end of the chain.                                        *)
LEMMA ReplayOkBelow ==
  ASSUME NEW b \in Block, Replay[b].ok, NEW a \in Anc[b]
  PROVE  Replay[a].ok
<1> DEFINE S == {c \in Block : Replay[c].ok => \A d \in Anc[c] : Replay[d].ok}
<1>1. Genesis \in S
  BY TreeAssumption
<1>2. ASSUME NEW c \in Block \ {Genesis}, Prev[c] \in S PROVE c \in S
  <2>1. Anc[c] = Anc[Prev[c]] \cup {c}
    BY TreeAssumption
  <2>2. Replay[c].ok => Replay[Prev[c]].ok
    <3>1. ReplayTo(c, 0) = Replay[Prev[c]] /\ 0 \in 0 .. Len(vtx[c])
      BY ReplayToSteps
    <3> QED BY <3>1, ReplayFailed
  <2> QED BY <1>2, <2>1, <2>2
<1>3. Block \subseteq S
  <2> HIDE DEF S
  <2> QED BY <1>1, <1>2, BlockInduction
<1> QED BY <1>3

(* A coin is an output of one of the counted transactions, as old as the   *)
(* block of that transaction.                                              *)
CoinsFrom(u, n) ==
  \A o \in OutPoint : u.coins[o] # Gone =>
    \E a \in Block : \E i \in 1 .. n[a] : vtx[a][i] = o[1] /\ u.coins[o] = Height[a]

(* More transactions, the same coins.                                      *)
LEMMA CoinsFromMore ==
  ASSUME NEW u, NEW n \in Counts, NEW m \in Counts, CoinsFrom(u, n),
         \A a \in Block : n[a] <= m[a]
  PROVE  CoinsFrom(u, m)
<1> SUFFICES ASSUME NEW o \in OutPoint, u.coins[o] # Gone
             PROVE  \E a \in Block : \E i \in 1 .. m[a] :
                      vtx[a][i] = o[1] /\ u.coins[o] = Height[a]
  BY DEF CoinsFrom
<1>1. PICK a \in Block : \E i \in 1 .. n[a] : vtx[a][i] = o[1] /\ u.coins[o] = Height[a]
  BY DEF CoinsFrom
<1>2. PICK i \in 1 .. n[a] : vtx[a][i] = o[1] /\ u.coins[o] = Height[a]
  BY <1>1
<1>3. i \in 1 .. m[a]
  BY DEF Counts
<1> QED BY <1>2, <1>3

(* The coins within a block come from it and the blocks below.             *)
LEMMA CoinsWithinBlock ==
  ASSUME NEW b \in Block \ {Genesis}, CoinsFrom(Replay[Prev[b]], Connected(Prev[b], None, 0))
  PROVE  \A k \in 0 .. Len(vtx[b]) : CoinsFrom(ReplayTo(b, k), Connected(Prev[b], b, k))
<1> DEFINE n == Len(vtx[b])
           c(k) == Connected(Prev[b], b, k)
           S == {k \in 0 .. n : CoinsFrom(ReplayTo(b, k), c(k))}
<1>1. /\ n \in Nat
      /\ ReplayTo(b, 0) = Replay[Prev[b]]
      /\ \A k \in 1 .. n : ReplayTo(b, k) = ReplayTx(ReplayTo(b, k - 1), vtx[b][k], b)
      /\ \A k \in 0 .. n : ReplayTo(b, k) \in ReplayType
  BY ReplayToSteps
<1>2. Prev[b] \in Block
  BY TreeAssumption
<1>3. \A k \in 0 .. n : c(k) \in Counts /\ c(k)[b] = k
  BY <1>2, ConnectedCounts
<1>4. \A k \in 1 .. n : \A a \in Block : c(k - 1)[a] <= c(k)[a]
  BY <1>1, VtxType DEF Connected
<1>5. 0 \in S
  BY <1>1, ConnectedChild
<1>6. ASSUME NEW k \in 1 .. n, k - 1 \in S PROVE k \in S
  <2>1. k - 1 \in 0 .. n /\ k \in 0 .. n
    BY <1>1
  <2>2. CoinsFrom(ReplayTo(b, k - 1), c(k))
    <3> HIDE DEF c
    <3> QED BY <1>3, <1>4, <1>6, <2>1, CoinsFromMore
  <2>3. ASSUME NEW o \in OutPoint
        PROVE  ReplayTo(b, k).coins[o] = IF o[1] = vtx[b][k] THEN Height[b]
                                         ELSE IF o \in vin[vtx[b][k]] THEN Gone
                                         ELSE ReplayTo(b, k - 1).coins[o]
    BY <1>1 DEF ReplayTx
  <2>4. k \in 1 .. c(k)[b]
    BY <1>3, <2>1
  <2> HIDE DEF c
  <2>5. CoinsFrom(ReplayTo(b, k), c(k))
    BY <2>2, <2>3, <2>4 DEF CoinsFrom
  <2> QED BY <2>1, <2>5
<1>7. \A k \in 0 .. n : k \in S
  <2> HIDE DEF S, n, c
  <2> QED BY <1>1, <1>5, <1>6, UpTo
<1> QED BY <1>7

(* The coins of a chain come from its blocks.                              *)
LEMMA CoinsOfChain ==
  ASSUME NEW b \in Block
  PROVE  CoinsFrom(Replay[b], Connected(b, None, 0))
<1> DEFINE S == {c \in Block : CoinsFrom(Replay[c], Connected(c, None, 0))}
<1>1. Genesis \in S
  BY ReplaySteps, TreeAssumption DEF NoCoins, CoinsFrom
<1>2. ASSUME NEW c \in Block \ {Genesis}, Prev[c] \in S PROVE c \in S
  <2>1. CoinsFrom(ReplayTo(c, Len(vtx[c])), Connected(Prev[c], c, Len(vtx[c])))
    BY <1>2, CoinsWithinBlock, VtxType
  <2>2. Replay[c].coins = ReplayTo(c, Len(vtx[c])).coins
    BY ReplayToSteps
  <2>3. Connected(Prev[c], c, Len(vtx[c])) = Connected(c, None, 0)
    BY ConnectedChild
  <2> QED BY <2>1, <2>2, <2>3 DEF CoinsFrom
<1>3. Block \subseteq S
  <2> HIDE DEF S
  <2> QED BY <1>1, <1>2, BlockInduction
<1> QED BY <1>3

-----------------------------------------------------------------------------
(* The replay and the index.                                               *)

(* The replay has no error and the coins that the index has.               *)
Matches(u, idx) == u \in ReplayType /\ u.ok /\ u.coins = CoinsIn(idx)

(* What ConnectBlock accepts next, the replay accepts.                     *)
LEMMA ReplayConnects ==
  ASSUME NEW idx \in TxIndexType, NEW n \in Counts, NEW b \in Block,
         n[b] < Len(vtx[b]), TipIs(n, b), Describes(idx, n),
         NEW u, Matches(u, idx), NEW t, t = vtx[b][n[b] + 1], t \notin BadTx,
         \A o \in vin[t] : InputOk(idx, o, b)
  PROVE  Matches(ReplayTx(u, t, b), ConnectInputs(idx, t, b))
<1> DEFINE new == ConnectInputs(idx, t, b)
<1>1. idx.pos[t] = None
  BY NotYetConnected
<1>2. t \in Tx /\ b # None /\ t # None /\ \A o \in OutPoint : o[1] \in Tx
  <2>1. n[b] + 1 \in 1 .. Len(vtx[b])
    BY VtxType DEF Counts
  <2> QED BY <2>1, VtxType, TreeAssumption, TxAssumption
<1>3. \A o \in OutPoint : u.coins[o] = IF idx.pos[o[1]] # None /\ idx.vSpent[o] = None
                                       THEN Height[idx.pos[o[1]]] ELSE Gone
  BY DEF Matches, CoinsIn
<1>4. ASSUME NEW o \in vin[t] PROVE Spendable(u, o, b)
  <2>1. /\ idx.pos[o[1]] # None /\ o \in OutPoint /\ idx.vSpent[o] = None
        /\ ~Immature(idx, o[1], b)
    BY <1>4 DEF InputOk
  <2>2. idx.pos[o[1]] \in Block
    BY <1>2, <2>1 DEF TxIndexType
  <2>3. u.coins[o] = Height[idx.pos[o[1]]] /\ Height[idx.pos[o[1]]] \in Nat
    BY <1>3, <2>1, <2>2, TreeAssumption
  <2>4. PICK i \in 1 .. n[idx.pos[o[1]]] : vtx[idx.pos[o[1]]][i] = o[1]
    BY <1>2, <2>1 DEF Describes, OnlyRecordsOf
  <2>5. idx.pos[o[1]] \in Anc[b]
    <3>1. n[idx.pos[o[1]]] \in Nat
      BY <2>2 DEF Counts
    <3> QED BY <2>2, <2>4, <3>1 DEF TipIs
  <2>6. Height[b] \in Nat /\ Maturity \in Nat
    BY TreeAssumption, TxAssumption
  <2>7. o[1] \in Generated => Height[b] - Height[idx.pos[o[1]]] >= Maturity
    BY <2>1, <2>3, <2>5, <2>6 DEF Immature
  <2>8. u.coins[o] # Gone
    BY <2>3 DEF Gone
  <2> QED BY <2>1, <2>3, <2>7, <2>8 DEF Spendable
<1>5. \A o \in OutputsOf(t) : u.coins[o] = Gone
  BY <1>1, <1>3 DEF OutputsOf
<1>6. ReplayTx(u, t, b).ok
  BY <1>4, <1>5 DEF ReplayTx, Matches
<1>7. ASSUME NEW o \in OutPoint
      PROVE  ReplayTx(u, t, b).coins[o] = CoinsIn(new)[o]
  <2>1. ReplayTx(u, t, b).coins[o] = IF o[1] = t THEN Height[b]
                                     ELSE IF o \in vin[t] THEN Gone ELSE u.coins[o]
    BY DEF ReplayTx
  <2>2. /\ new.pos[o[1]] = IF o[1] = t THEN b ELSE idx.pos[o[1]]
        /\ new.vSpent[o] = IF o[1] = t THEN None ELSE IF o \in vin[t] THEN t ELSE idx.vSpent[o]
    BY <1>2 DEF ConnectInputs, TxIndexType
  <2>3. CoinsIn(new)[o] = IF new.pos[o[1]] # None /\ new.vSpent[o] = None
                          THEN Height[new.pos[o[1]]] ELSE Gone
    BY DEF CoinsIn
  <2> HIDE DEF new
  <2> QED BY <1>2, <1>3, <2>1, <2>2, <2>3
<1>8. ReplayTx(u, t, b).coins = CoinsIn(new)
  <2>1. ReplayTx(u, t, b).coins = [o \in OutPoint |-> ReplayTx(u, t, b).coins[o]]
    BY DEF ReplayTx
  <2>2. CoinsIn(new) = [o \in OutPoint |-> CoinsIn(new)[o]]
    BY DEF CoinsIn
  <2> QED BY <1>7, <2>1, <2>2
<1>9. ReplayTx(u, t, b) \in ReplayType
  BY ReplayTxType DEF Matches
<1> QED BY <1>6, <1>8, <1>9 DEF Matches

(* What the replay accepts next, ConnectBlock accepts.                     *)
LEMMA ReplayAccepts ==
  ASSUME NEW idx \in TxIndexType, NEW n \in Counts, NEW b \in Block,
         n[b] < Len(vtx[b]), TipIs(n, b), Describes(idx, n),
         NEW u, Matches(u, idx), NEW t, t = vtx[b][n[b] + 1],
         ReplayTx(u, t, b).ok
  PROVE  /\ t \notin BadTx
         /\ \A o \in vin[t] : InputOk(idx, o, b)
         /\ idx.pos[t] = None
<1>1. t \notin BadTx /\ \A o \in vin[t] : Spendable(u, o, b)
  BY DEF ReplayTx
<1>2. \A o \in OutPoint : o[1] \in Tx
  BY TxAssumption
<1>3. ASSUME NEW o \in vin[t] PROVE InputOk(idx, o, b)
  <2>1. /\ o \in OutPoint /\ u.coins[o] # Gone
        /\ o[1] \in Generated => Height[b] - u.coins[o] >= Maturity
    BY <1>1, <1>3 DEF Spendable
  <2>2. u.coins[o] = IF idx.pos[o[1]] # None /\ idx.vSpent[o] = None
                     THEN Height[idx.pos[o[1]]] ELSE Gone
    BY <2>1 DEF Matches, CoinsIn
  <2>3. idx.pos[o[1]] # None /\ idx.vSpent[o] = None /\ u.coins[o] = Height[idx.pos[o[1]]]
    BY <2>1, <2>2
  <2>4. idx.pos[o[1]] \in Block
    BY <1>2, <2>1, <2>3 DEF TxIndexType
  <2>5. Height[idx.pos[o[1]]] \in Nat /\ Height[b] \in Nat /\ Maturity \in Nat
    BY <2>4, TreeAssumption, TxAssumption
  <2> QED BY <2>1, <2>3, <2>5 DEF InputOk, Immature
<1>4. idx.pos[vtx[b][n[b] + 1]] = None
  BY <1>3, NotYetConnected
<1> QED BY <1>1, <1>3, <1>4

(* DisconnectInputs takes the replay one transaction back.                 *)
LEMMA ReplayDisconnects ==
  ASSUME NEW idx \in TxIndexType, NEW n \in Counts, NEW b \in Block,
         n[b] > 0, Describes(idx, n), NEW t, t = vtx[b][n[b]],
         NEW u \in ReplayType, CoinsFrom(u, n), Matches(ReplayTx(u, t, b), idx)
  PROVE  Matches(u, DisconnectInputs(idx, t))
<1> DEFINE new == DisconnectInputs(idx, t)
<1>1. n[b] \in 1 .. n[b] /\ n[b] \in 1 .. Len(vtx[b])
  BY VtxType DEF Counts
<1>2. t \in Tx /\ \A o \in OutPoint : o[1] \in Tx
  BY <1>1, VtxType, TxAssumption
<1>3. /\ u.ok
      /\ \A o \in OutputsOf(t) : u.coins[o] = Gone
      /\ \A o \in vin[t] : Spendable(u, o, b)
  BY DEF Matches, ReplayTx
<1>4. ASSUME NEW o \in OutPoint
      PROVE  u.coins[o] = CoinsIn(new)[o]
  <2>1. /\ new.pos[o[1]] = IF o[1] = t THEN None ELSE idx.pos[o[1]]
        /\ new.vSpent[o] = IF o[1] = t \/ (o \in vin[t] /\ idx.pos[o[1]] # None)
                           THEN None ELSE idx.vSpent[o]
    BY <1>2 DEF DisconnectInputs, TxIndexType
  <2>2. CoinsIn(new)[o] = IF new.pos[o[1]] # None /\ new.vSpent[o] = None
                          THEN Height[new.pos[o[1]]] ELSE Gone
    BY DEF CoinsIn
  <2> HIDE DEF new
  <2>3. CASE o[1] = t
    BY <1>3, <2>1, <2>2, <2>3 DEF OutputsOf
  <2>4. CASE o[1] # t /\ o \in vin[t]
    <3>1. u.coins[o] # Gone
      BY <1>3, <2>4 DEF Spendable
    <3>2. PICK a \in Block : \E i \in 1 .. n[a] : vtx[a][i] = o[1] /\ u.coins[o] = Height[a]
      BY <3>1 DEF CoinsFrom
    <3>3. PICK i \in 1 .. n[a] : vtx[a][i] = o[1] /\ u.coins[o] = Height[a]
      BY <3>2
    <3>4. idx.pos[o[1]] = a /\ a # None
      BY <3>3, TreeAssumption DEF Describes, RecordsOf
    <3> QED BY <2>1, <2>2, <2>4, <3>3, <3>4
  <2>5. CASE o[1] # t /\ o \notin vin[t]
    <3>1. ReplayTx(u, t, b).coins[o] = u.coins[o]
      BY <2>5 DEF ReplayTx
    <3>2. CoinsIn(idx)[o] = u.coins[o]
      BY <3>1 DEF Matches
    <3>3. CoinsIn(idx)[o] = IF idx.pos[o[1]] # None /\ idx.vSpent[o] = None
                            THEN Height[idx.pos[o[1]]] ELSE Gone
      BY DEF CoinsIn
    <3> QED BY <2>1, <2>2, <2>5, <3>2, <3>3
  <2> QED BY <2>3, <2>4, <2>5
<1>5. u.coins = CoinsIn(new)
  <2>1. u.coins = [o \in OutPoint |-> u.coins[o]]
    BY DEF ReplayType
  <2>2. CoinsIn(new) = [o \in OutPoint |-> CoinsIn(new)[o]]
    BY DEF CoinsIn
  <2> QED BY <1>4, <2>1, <2>2
<1> QED BY <1>3, <1>5 DEF Matches

-----------------------------------------------------------------------------
(* Value.                                                                  *)

(* Finitely many outputs have finitely many units.                         *)
LEMMA FiniteUnits ==
  ASSUME NEW A, IsFiniteSet(A)
  PROVE  IsFiniteSet(UnitsOf(A)) /\ ValueOf(A) \in Nat
<1> DEFINE S == A \cap OutPoint
           f == [o \in S |-> {o} \X (1 .. nValue[o])]
           T == {{o} \X (1 .. nValue[o]) : o \in S}
<1>1. IsFiniteSet(S)
  BY FS_Intersection
<1>2. f \in Surjection(S, T)
  BY DEF Surjection
<1>3. IsFiniteSet(T)
  <2> HIDE DEF S, T, f
  <2> QED BY <1>1, <1>2, FS_Surjection
<1>4. ASSUME NEW o \in S PROVE IsFiniteSet({o} \X (1 .. nValue[o]))
  <2>1. nValue[o] \in Nat
    BY TxAssumption
  <2>2. IsFiniteSet({o})
    BY FS_Singleton
  <2>3. IsFiniteSet(1 .. nValue[o])
    <3>1. nValue[o] \in Int /\ 1 \in Int
      BY <2>1
    <3> QED BY <3>1, FS_Interval
  <2> QED BY <2>2, <2>3, FS_Product
<1>5. \A U \in T : IsFiniteSet(U)
  BY <1>4
<1>6. IsFiniteSet(UNION T)
  <2> HIDE DEF T
  <2> QED BY <1>3, <1>5, FS_UNION
<1>7. UnitsOf(A) = UNION T
  BY DEF UnitsOf
<1> QED BY <1>6, <1>7, FS_CardinalityType DEF ValueOf

(* The values of separate sets of outputs add up.                          *)
LEMMA ValueAdds ==
  ASSUME NEW A, NEW B, IsFiniteSet(A), IsFiniteSet(B), A \cap B = {}
  PROVE  ValueOf(A \cup B) = ValueOf(A) + ValueOf(B)
<1>1. UnitsOf(A \cup B) = UnitsOf(A) \cup UnitsOf(B)
  BY DEF UnitsOf
<1>2. UnitsOf(A) \cap UnitsOf(B) = {}
  BY DEF UnitsOf
<1>3. /\ IsFiniteSet(UnitsOf(A)) /\ Cardinality(UnitsOf(A)) \in Nat
      /\ IsFiniteSet(UnitsOf(B)) /\ Cardinality(UnitsOf(B)) \in Nat
  BY FiniteUnits DEF ValueOf
<1>4. Cardinality(UnitsOf(A) \cup UnitsOf(B)) =
        Cardinality(UnitsOf(A)) + Cardinality(UnitsOf(B)) - Cardinality(UnitsOf(A) \cap UnitsOf(B))
  BY <1>3, FS_Union
<1>5. Cardinality(UnitsOf(A) \cap UnitsOf(B)) = 0
  BY <1>2, FS_EmptySet
<1>6. Cardinality(UnitsOf(A) \cup UnitsOf(B)) = Cardinality(UnitsOf(A)) + Cardinality(UnitsOf(B))
  BY <1>3, <1>4, <1>5
<1> QED BY <1>1, <1>6, Zenon DEF ValueOf

(* What one transaction adds to the supply.                                *)
TxChange(t) == ValueOf(OutputsOf(t)) - ValueOf(vin[t])

(* The change of the supply, transaction by transaction.                   *)
LEMMA SupplySteps ==
  ASSUME NEW b \in Block
  PROVE  /\ SupplyChanging(b)[0] = 0
         /\ \A k \in 1 .. Len(vtx[b]) :
              SupplyChanging(b)[k] = SupplyChanging(b)[k - 1] + TxChange(vtx[b][k])
         /\ \A k \in 0 .. Len(vtx[b]) : SupplyChanging(b)[k] \in Int
         /\ SupplyChange(b) \in Int
<1> DEFINE n == Len(vtx[b])
           d == [k \in 1 .. n |-> TxChange(vtx[b][k])]
           g == [k \in 1 .. n |-> [x \in Int |-> x + d[k]]]
<1>1. n \in Nat
  BY VtxType
<1>2. \A t \in Tx : ValueOf(OutputsOf(t)) \in Nat /\ ValueOf(vin[t]) \in Nat
  BY FiniteUnits, TxAssumption
<1>3. d \in [1 .. n -> Int]
  BY <1>2, VtxType DEF TxChange
<1>4. g \in [1 .. n -> [Int -> Int]]
  <2> HIDE DEF d
  <2> QED BY <1>3
<1>5. \A k \in 1 .. n : d[k] = ValueOf(OutputsOf(vtx[b][k])) - ValueOf(vin[vtx[b][k]])
  BY DEF TxChange
<1>6. \A k \in 1 .. n : \A x \in Int :
        x + d[k] = x + ValueOf(OutputsOf(vtx[b][k])) - ValueOf(vin[vtx[b][k]])
  <2> HIDE DEF d
  <2> QED BY <1>2, <1>5, VtxType
<1>7. \A k \in 1 .. n : \A x \in Int : g[k][x] = x + d[k]
  <2> HIDE DEF d
  <2> QED OBVIOUS
<1> HIDE DEF g, d
<1>8. PICK f : IsFold(f, n, Int, 0, g)
  <2> DEFINE Z == Int
  <2>1. 0 \in Z /\ g \in [1 .. n -> [Z -> Z]]
    BY <1>4
  <2> HIDE DEF n, Z
  <2>2. \E f : IsFold(f, n, Z, 0, g)
    BY <1>1, <2>1, FoldRecursion
  <2> QED BY <2>2 DEF Z
<1>9. f = [k \in 0 .. Len(vtx[b]) |-> IF k = 0 THEN 0
             ELSE f[k - 1] + ValueOf(OutputsOf(vtx[b][k])) - ValueOf(vin[vtx[b][k]])]
  <2>1. ASSUME NEW k \in 1 .. n
        PROVE  f[k] = f[k - 1] + ValueOf(OutputsOf(vtx[b][k])) - ValueOf(vin[vtx[b][k]])
    <3>1. f[k - 1] \in Int /\ f[k] = g[k][f[k - 1]]
      <4> HIDE DEF n
      <4> QED BY <1>1, <1>8 DEF IsFold
    <3> HIDE DEF n
    <3> QED BY <1>6, <1>7, <3>1
  <2> QED BY <1>8, <2>1 DEF IsFold
<1>10. SupplyChanging(b) = [k \in 0 .. Len(vtx[b]) |-> IF k = 0 THEN 0
         ELSE SupplyChanging(b)[k - 1] + ValueOf(OutputsOf(vtx[b][k])) - ValueOf(vin[vtx[b][k]])]
  BY <1>9 DEF SupplyChanging
<1> DEFINE c == SupplyChanging(b)
           S == {k \in 0 .. n : c[k] \in Int}
<1> HIDE DEF c
<1>11. c[0] = 0
  BY <1>1, <1>10 DEF c
<1>12. \A k \in 1 .. n : c[k] = c[k - 1] + ValueOf(OutputsOf(vtx[b][k])) - ValueOf(vin[vtx[b][k]])
  BY <1>1, <1>10 DEF c
<1>13. ASSUME NEW k \in 1 .. n, k - 1 \in S PROVE k \in S
  <2>1. c[k - 1] \in Int
    BY <1>13
  <2>2. vtx[b][k] \in Tx
    BY VtxType
  <2>3. c[k] \in Int
    BY <1>2, <1>12, <2>1, <2>2
  <2> QED BY <1>1, <2>3
<1>14. \A k \in 0 .. n : k \in S
  <2>1. 0 \in S
    BY <1>1, <1>11
  <2> HIDE DEF S, n
  <2> QED BY <1>1, <1>13, <2>1, UpTo
<1>15. ASSUME NEW k \in 1 .. n PROVE c[k] = c[k - 1] + TxChange(vtx[b][k])
  <2>1. c[k - 1] \in Int /\ vtx[b][k] \in Tx
    BY <1>1, <1>14, VtxType
  <2> QED BY <1>2, <1>12, <2>1 DEF TxChange
<1> QED BY <1>1, <1>11, <1>14, <1>15 DEF c, SupplyChange

(* The unspent outputs of a replay.                                        *)
CoinsOf(u) == {o \in OutPoint : u.coins[o] # Gone}

(* A transaction takes its inputs from the coins and adds its outputs.     *)
LEMMA ReplayTxCoins ==
  ASSUME NEW u \in ReplayType, NEW t \in Tx, NEW b \in Block
  PROVE  CoinsOf(ReplayTx(u, t, b)) = (CoinsOf(u) \ vin[t]) \cup OutputsOf(t)
<1>1. \A o \in OutPoint : ReplayTx(u, t, b).coins[o] =
        IF o[1] = t THEN Height[b] ELSE IF o \in vin[t] THEN Gone ELSE u.coins[o]
  BY DEF ReplayTx
<1>2. Height[b] # Gone
  BY TreeAssumption DEF Gone
<1> QED BY <1>1, <1>2 DEF CoinsOf, OutputsOf

(* A transaction without an error changes the value of the coins by what   *)
(* ConnectBlock adds up.                                                   *)
LEMMA ReplayTxValue ==
  ASSUME NEW u \in ReplayType, NEW t \in Tx, NEW b \in Block, IsFiniteSet(CoinsOf(u)),
         ReplayTx(u, t, b).ok
  PROVE  ValueOf(CoinsOf(ReplayTx(u, t, b))) = ValueOf(CoinsOf(u)) + TxChange(t)
<1> DEFINE rest == CoinsOf(u) \ vin[t]
<1>1. \A o \in OutputsOf(t) : u.coins[o] = Gone
  BY DEF ReplayTx
<1>2. \A o \in vin[t] : o \in OutPoint /\ u.coins[o] # Gone
  BY DEF ReplayTx, Spendable
<1>3. IsFiniteSet(OutputsOf(t)) /\ IsFiniteSet(vin[t]) /\ IsFiniteSet(rest)
  BY FS_Difference, TxAssumption
<1>4. CoinsOf(u) = rest \cup vin[t] /\ rest \cap vin[t] = {}
  BY <1>2 DEF CoinsOf
<1>5. rest \cap OutputsOf(t) = {}
  BY <1>1 DEF CoinsOf
<1>6. CoinsOf(ReplayTx(u, t, b)) = rest \cup OutputsOf(t)
  BY ReplayTxCoins
<1> HIDE DEF rest
<1>7. ValueOf(CoinsOf(u)) = ValueOf(rest) + ValueOf(vin[t])
  BY <1>3, <1>4, ValueAdds
<1>8. ValueOf(CoinsOf(ReplayTx(u, t, b))) = ValueOf(rest) + ValueOf(OutputsOf(t))
  BY <1>3, <1>5, <1>6, ValueAdds
<1>9. ValueOf(rest) \in Nat /\ ValueOf(vin[t]) \in Nat /\ ValueOf(OutputsOf(t)) \in Nat
  BY <1>3, FiniteUnits
<1> QED BY <1>7, <1>8, <1>9 DEF TxChange

(* So does a block: the supply on the chain grows by what ConnectBlock     *)
(* adds to nMoneySupply.                                                   *)
LEMMA SupplyGrows ==
  ASSUME NEW b \in Block \ {Genesis}, IsFiniteSet(CoinsOf(Replay[Prev[b]]))
  PROVE  /\ IsFiniteSet(CoinsOf(Replay[b]))
         /\ Replay[b].ok => SupplyAt(b) = SupplyAt(Prev[b]) + SupplyChange(b)
<1> DEFINE n == Len(vtx[b])
           u(k) == ReplayTo(b, k)
           s(k) == SupplyChanging(b)[k]
           before == ValueOf(CoinsOf(Replay[Prev[b]]))
           S == {k \in 0 .. n : /\ IsFiniteSet(CoinsOf(u(k)))
                                /\ u(k).ok => ValueOf(CoinsOf(u(k))) = before + s(k)}
<1>1. /\ n \in Nat
      /\ u(0) = Replay[Prev[b]]
      /\ \A k \in 1 .. n : u(k) = ReplayTx(u(k - 1), vtx[b][k], b)
      /\ \A k \in 0 .. n : u(k) \in ReplayType
      /\ Replay[b].coins = u(n).coins
      /\ Replay[b].ok => u(n).ok
  BY ReplayToSteps
<1>2. /\ s(0) = 0
      /\ \A k \in 1 .. n : s(k) = s(k - 1) + TxChange(vtx[b][k])
      /\ \A k \in 0 .. n : s(k) \in Int
  BY SupplySteps
<1>3. before \in Nat
  BY FiniteUnits
<1> HIDE DEF u, s, before
<1>4. 0 \in S
  <2>1. IsFiniteSet(CoinsOf(u(0))) /\ ValueOf(CoinsOf(u(0))) = before
    BY <1>1 DEF before
  <2>2. before + s(0) = before
    BY <1>2, <1>3
  <2> QED BY <1>1, <2>1, <2>2
<1>5. ASSUME NEW k \in 1 .. n, k - 1 \in S PROVE k \in S
  <2> DEFINE t == vtx[b][k]
             v == u(k - 1)
  <2>1. /\ k - 1 \in 0 .. n /\ k \in 0 .. n
        /\ IsFiniteSet(CoinsOf(v))
        /\ v.ok => ValueOf(CoinsOf(v)) = before + s(k - 1)
    BY <1>1, <1>5
  <2>2. t \in Tx /\ v \in ReplayType /\ u(k) = ReplayTx(v, t, b)
    BY <1>1, <2>1, VtxType
  <2>3. TxChange(t) \in Int
    BY <2>2, FiniteUnits, TxAssumption DEF TxChange
  <2>4. s(k) = s(k - 1) + TxChange(t) /\ s(k - 1) \in Int
    BY <1>2, <2>1
  <2> HIDE DEF t, v
  <2>5. IsFiniteSet(CoinsOf(u(k)))
    <3>1. IsFiniteSet(CoinsOf(v) \ vin[t]) /\ IsFiniteSet(OutputsOf(t))
      BY <2>1, <2>2, FS_Difference, TxAssumption
    <3>2. CoinsOf(u(k)) = (CoinsOf(v) \ vin[t]) \cup OutputsOf(t)
      BY <2>2, ReplayTxCoins
    <3> QED BY <3>1, <3>2, FS_Union
  <2>6. ASSUME u(k).ok PROVE ValueOf(CoinsOf(u(k))) = before + s(k)
    <3>1. v.ok
      BY <2>2, <2>6 DEF ReplayTx
    <3>2. ValueOf(CoinsOf(u(k))) = ValueOf(CoinsOf(v)) + TxChange(t)
      BY <2>1, <2>2, <2>6, ReplayTxValue
    <3>3. ValueOf(CoinsOf(v)) = before + s(k - 1)
      BY <2>1, <3>1
    <3> QED BY <1>3, <2>3, <2>4, <3>2, <3>3
  <2> QED BY <2>1, <2>5, <2>6
<1>6. \A k \in 0 .. n : k \in S
  <2> HIDE DEF S, n
  <2> QED BY <1>1, <1>4, <1>5, UpTo
<1>7. n \in 0 .. n
  BY <1>1
<1>8. IsFiniteSet(CoinsOf(u(n))) /\ (u(n).ok => ValueOf(CoinsOf(u(n))) = before + s(n))
  BY <1>6, <1>7
<1>9. CoinsOf(u(n)) = CoinsOf(Replay[b])
  BY <1>1 DEF CoinsOf
<1>10. SupplyAt(b) = ValueOf(CoinsOf(Replay[b])) /\ SupplyAt(Prev[b]) = before
       /\ SupplyChange(b) = s(n)
  BY DEF SupplyAt, CoinsOf, SupplyChange, before, s
<1> HIDE DEF n
<1> QED BY <1>1, <1>8, <1>9, <1>10

(* The coins of a chain are finitely many.                                 *)
LEMMA FiniteCoins ==
  ASSUME NEW b \in Block
  PROVE  IsFiniteSet(CoinsOf(Replay[b]))
<1> DEFINE S == {c \in Block : IsFiniteSet(CoinsOf(Replay[c]))}
<1>1. Genesis \in S
  <2>1. CoinsOf(Replay[Genesis]) = {}
    BY ReplaySteps DEF CoinsOf, NoCoins
  <2> QED BY <2>1, FS_EmptySet, TreeAssumption
<1>2. ASSUME NEW c \in Block \ {Genesis}, Prev[c] \in S PROVE c \in S
  BY <1>2, SupplyGrows
<1>3. Block \subseteq S
  <2> HIDE DEF S
  <2> QED BY <1>1, <1>2, BlockInduction
<1> QED BY <1>3

(* nMoneySupply along a chain: nothing to begin with, then block by block. *)
LEMMA SupplyOfChain ==
  /\ SupplyAt(Genesis) = 0
  /\ \A b \in Block \ {Genesis} :
       Replay[b].ok => SupplyAt(b) = SupplyAt(Prev[b]) + SupplyChange(b)
<1>1. SupplyAt(Genesis) = 0
  <2>1. CoinsOf(Replay[Genesis]) = {}
    BY ReplaySteps DEF CoinsOf, NoCoins
  <2>2. UnitsOf({}) = {}
    BY DEF UnitsOf
  <2> QED BY <2>1, <2>2, FS_EmptySet DEF SupplyAt, CoinsOf, ValueOf
<1>2. \A b \in Block \ {Genesis} : Prev[b] \in Block
  BY TreeAssumption
<1> QED BY <1>1, <1>2, FiniteCoins, SupplyGrows
=============================================================================
