------------------------------ MODULE MCTxPool ------------------------------
(***************************************************************************)
(*      g --- a1 --- a2 --- a3 --- a4                                      *)
(*                     \--- b3 --- b4                                      *)
(*                                                                         *)
(* t1 and t2 spend the same output of a1's coinbase, t1 in a4 and t2 in    *)
(* b3.  t3 spends from t1, also in a4, t4 from t2, t5 from t3 and from t1, *)
(* t6 conflicts with t3, t7 spends the coinbase of a3, t8 pays too low a   *)
(* fee for the pool but is in b4, and t9, in a3, conflicts with nothing.   *)
(***************************************************************************)
EXTENDS TxPool

mcBlock == {"g", "a1", "a2", "a3", "a4", "b3", "b4"}
mcPrev == [a1 |-> "g", a2 |-> "a1", a3 |-> "a2", a4 |-> "a3",
           b3 |-> "a2", b4 |-> "b3"]
mcAnc == [g |-> {"g"}, a1 |-> {"g", "a1"}, a2 |-> {"g", "a1", "a2"},
          a3 |-> {"g", "a1", "a2", "a3"}, a4 |-> {"g", "a1", "a2", "a3", "a4"},
          b3 |-> {"g", "a1", "a2", "b3"}, b4 |-> {"g", "a1", "a2", "b3", "b4"}]
mcHeight == [b \in mcBlock |-> Cardinality(mcAnc[b]) - 1]
mcChainTrust == [g |-> 1, a1 |-> 2, a2 |-> 3, a3 |-> 4, a4 |-> 6, b3 |-> 5, b4 |-> 7]

mcGenerated == {"ca1", "ca2", "ca3", "ca4", "cb3", "cb4"}
mcTx == mcGenerated \cup {"t1", "t2", "t3", "t4", "t5", "t6", "t7", "t8", "t9"}
mcvtx == [g |-> <<>>, a1 |-> <<"ca1">>, a2 |-> <<"ca2">>,
          a3 |-> <<"ca3", "t9">>, a4 |-> <<"ca4", "t1", "t3">>,
          b3 |-> <<"cb3", "t2">>, b4 |-> <<"cb4", "t8">>]
mcOutPoint == (mcTx \X {0}) \cup {<<"ca1", 1>>, <<"ca1", 2>>, <<"t1", 1>>}
mcvin == [t \in mcTx |->
            CASE t = "t1" -> {<<"ca1", 0>>}
              [] t = "t2" -> {<<"ca1", 0>>}
              [] t = "t3" -> {<<"t1", 0>>}
              [] t = "t4" -> {<<"t2", 0>>}
              [] t = "t5" -> {<<"t3", 0>>, <<"t1", 1>>}
              [] t = "t6" -> {<<"t1", 0>>}
              [] t = "t7" -> {<<"ca3", 0>>}
              [] t = "t8" -> {<<"ca1", 1>>}
              [] t = "t9" -> {<<"ca1", 2>>}
              [] OTHER -> {}]
mcnValue == [o \in mcOutPoint |-> 1]
=============================================================================
