------------------------------ MODULE MCWallet ------------------------------
(***************************************************************************)
(* A wallet that stakes the second output of a1's coinbase on either       *)
(* branch, and that makes a payment t1 and spends its change with t2; t3   *)
(* is the receiver's:                                                      *)
(*                                                                         *)
(*      g --- a1 --- a2 (stake sa) --- a3 (t1, t2)                         *)
(*              \--- b2 (t1) --- b3 (stake sb) --- b4 (t2, t3)             *)
(*                           \-- x3 (stake sb, pays too much)              *)
(***************************************************************************)
EXTENDS Wallet

mcBlock == {"g", "a1", "a2", "a3", "b2", "b3", "b4", "x3"}
mcPrev == [a1 |-> "g", a2 |-> "a1", a3 |-> "a2", b2 |-> "a1", b3 |-> "b2",
           b4 |-> "b3", x3 |-> "b2"]
mcAnc == [g |-> {"g"}, a1 |-> {"g", "a1"}, a2 |-> {"g", "a1", "a2"},
          a3 |-> {"g", "a1", "a2", "a3"}, b2 |-> {"g", "a1", "b2"},
          b3 |-> {"g", "a1", "b2", "b3"}, b4 |-> {"g", "a1", "b2", "b3", "b4"},
          x3 |-> {"g", "a1", "b2", "x3"}]
mcHeight == [b \in mcBlock |-> Cardinality(mcAnc[b]) - 1]
mcChainTrust == [g |-> 1, a1 |-> 2, a2 |-> 4, a3 |-> 7, b2 |-> 5, b3 |-> 8,
                 b4 |-> 11, x3 |-> 9]

mcTx == {"ca1", "sa", "sb", "t1", "t2", "t3"}
mcvtx == [g |-> <<>>, a1 |-> <<"ca1">>, a2 |-> <<"sa">>, a3 |-> <<"t1", "t2">>,
          b2 |-> <<"t1">>, b3 |-> <<"sb">>, b4 |-> <<"t2", "t3">>, x3 |-> <<"sb">>]
mcOutPoint == {<<"ca1", 0>>, <<"ca1", 1>>, <<"sa", 1>>, <<"sb", 1>>,
               <<"t1", 0>>, <<"t2", 0>>, <<"t3", 0>>}
mcvin == [ca1 |-> {}, sa |-> {<<"ca1", 1>>}, sb |-> {<<"ca1", 1>>},
          t1 |-> {<<"ca1", 0>>}, t2 |-> {<<"t1", 0>>}, t3 |-> {<<"t2", 0>>}]
mcnValue == [o \in mcOutPoint |-> 1]
mcGenerated == {"ca1", "sa", "sb"}
mcMine == mcOutPoint \ {<<"t2", 0>>, <<"t3", 0>>}
mcMade == {"t1", "t2"}
mcBadBlock == {"x3"}
=============================================================================
