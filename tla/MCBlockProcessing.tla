------------------------- MODULE MCBlockProcessing -------------------------
(***************************************************************************)
(* Four branches over s; z2 pays too much, AcceptBlock refuses z3, which   *)
(* is older than its parent.                                               *)
(*                                                                         *)
(*      g --- s --- a2 --- a3 --- a4                                       *)
(*              \            \-- d4 --- d5                                 *)
(*               \- b2                                                     *)
(*                \- z2 --- z3                                             *)
(*                                                                         *)
(* a4 and d4 are made with the same stake, the coinbase of a2, so that a   *)
(* node on b2 cannot check either.  A node on a4 has its checkpoint at a2, *)
(* which is as high as b2 and younger than z3.                             *)
(***************************************************************************)
EXTENDS BlockProcessing

mcPrev == [s |-> "g", a2 |-> "s", a3 |-> "a2", a4 |-> "a3", d4 |-> "a3", d5 |-> "d4",
           b2 |-> "s", z2 |-> "s", z3 |-> "z2"]
mcBlock == DOMAIN mcPrev \cup {"g"}
mcAncOf[b \in mcBlock] == IF b = "g" THEN {"g"} ELSE mcAncOf[mcPrev[b]] \cup {b}
mcAnc == [b \in mcBlock |-> mcAncOf[b]]
mcHeight == [b \in mcBlock |-> Cardinality(mcAnc[b]) - 1]
mcChainTrust == [g |-> 1, s |-> 2, a2 |-> 3, a3 |-> 4, a4 |-> 12, d4 |-> 10, d5 |-> 16,
                 b2 |-> 14, z2 |-> 20, z3 |-> 21]
mcCoinbase == mcBlock \ {"g"}
mcKernel == [a4 |-> <<"a2", 0>>, d4 |-> <<"a2", 0>>, d5 |-> <<"s", 0>>]
mcCoinstake == [a4 |-> "sa4", d4 |-> "sd4", d5 |-> "sd5"]
mcStakes == DOMAIN mcKernel
mcTx == mcCoinbase \cup {mcCoinstake[b] : b \in mcStakes}
mcvtx == [b \in mcBlock |-> IF b = "g" THEN <<>>
                            ELSE IF b \in mcStakes THEN <<b, mcCoinstake[b]>>
                            ELSE <<b>>]
mcvin == [t \in mcTx |-> {mcKernel[b] : b \in {x \in mcStakes : mcCoinstake[x] = t}}]
mcOutPoint == mcTx \X {0}
mcnValue == [o \in mcOutPoint |-> 4]
mcBadBlock == {"z2"}
mcStake == [b \in mcBlock |-> IF b \in mcStakes THEN <<mcKernel[b], mcHeight[b]>>
                              ELSE None]
mcGoodKernel == {<<b, from, best>> \in mcStakes \X mcBlock \X mcBlock :
                   from \in mcAnc[b]}
mcnTime == [b \in mcBlock |-> IF b = "z3" THEN 3 ELSE 2 * mcHeight[b]]
mcSize == [b \in mcBlock |-> 1]
mcUnacceptable == {"z3"}
=============================================================================
