------------------------------ MODULE MCStream ------------------------------
(***************************************************************************)
(* Node a asks for two blocks and then pings; b asks for one block.        *)
(* A ping has no data, a block does not fit into the socket at once.       *)
(***************************************************************************)
EXTENDS Stream

mcMessage == {"getdata2", "getdata1", "ping", "pong", "b1", "b2", "b3"}
mcGetdata == {"getdata2", "getdata1"}
mcSize == [m \in mcMessage |-> IF m \in {"ping", "pong"} THEN 0
                               ELSE IF m \in mcGetdata THEN 1 ELSE 2]
mcItems == [[m \in mcMessage |-> <<>>] EXCEPT !["getdata2"] = <<"b1", "b2">>,
                                              !["getdata1"] = <<"b3">>,
                                              !["ping"] = <<"pong">>]
mcScript == [a |-> <<"getdata2", "ping">>, b |-> <<"getdata1">>]
=============================================================================
