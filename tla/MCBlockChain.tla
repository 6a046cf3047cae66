---------------------------- MODULE MCBlockChain ----------------------------
(***************************************************************************)
(* Two branches over a common block a1, each with a transaction that       *)
(* spends the same output of a1's coinbase:                                *)
(*                                                                         *)
(*      g --- a1 --- a2 --- a3                                             *)
(*              \       \-- z3   (pays too much)                           *)
(*               \-- b2 --- b3                                             *)
(*                      \-- x3   (spends what b2 has spent)                *)
(*                                                                         *)
(* The trusts make a2, b2, a3, b3 and x3 heavier in turn.                  *)
(***************************************************************************)
EXTENDS BlockChain

mcBlock == {"g", "a1", "a2", "a3", "z3", "b2", "b3", "x3"}
mcPrev == [a1 |-> "g", a2 |-> "a1", a3 |-> "a2", z3 |-> "a2",
           b2 |-> "a1", b3 |-> "b2", x3 |-> "b2"]
mcAnc == [g |-> {"g"}, a1 |-> {"g", "a1"}, a2 |-> {"g", "a1", "a2"},
          a3 |-> {"g", "a1", "a2", "a3"}, z3 |-> {"g", "a1", "a2", "z3"},
          b2 |-> {"g", "a1", "b2"}, b3 |-> {"g", "a1", "b2", "b3"},
          x3 |-> {"g", "a1", "b2", "x3"}]
mcHeight == [b \in mcBlock |-> Cardinality(mcAnc[b]) - 1]
mcChainTrust == [g |-> 1, a1 |-> 2, a2 |-> 4, a3 |-> 6, z3 |-> 9,
                 b2 |-> 5, b3 |-> 7, x3 |-> 8]

mcTx == {"ca1", "ca2", "ca3", "cz3", "cb2", "cb3", "cx3", "t1", "t2", "t3", "t4"}
mcvtx == [g |-> <<>>, a1 |-> <<"ca1">>, a2 |-> <<"ca2", "t1">>,
          a3 |-> <<"ca3", "t3">>, z3 |-> <<"cz3">>, b2 |-> <<"cb2", "t2">>,
          b3 |-> <<"cb3", "t4", "t3">>, x3 |-> <<"cx3", "t1">>]
mcOutPoint == (mcTx \X {0}) \cup {<<"ca1", 1>>}
mcvin == [t \in mcTx |->
            CASE t = "t1" -> {<<"ca1", 0>>}
              [] t = "t2" -> {<<"ca1", 0>>}
              [] t = "t3" -> {<<"ca1", 1>>}
              [] t = "t4" -> {<<"t2", 0>>, <<"cb2", 0>>}
              [] OTHER -> {}]
mcnValue == [o \in mcOutPoint |->
               CASE o[1] \in {"t1", "t2", "t3"} -> 3
                 [] o[1] = "t4" -> 7
                 [] OTHER -> 4]
mcGenerated == {"ca1", "ca2", "ca3", "cz3", "cb2", "cb3", "cx3"}
mcBadBlock == {"z3"}

=============================================================================
