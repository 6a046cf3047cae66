--------------------------- MODULE MCConnections ---------------------------
(***************************************************************************)
(* One peer, known by its address and by a name.  With one opener thread,  *)
(* which opens connections in all ways but "added" (a "oneshot" without    *)
(* the last write), the whole life of nodes is checked; with two, what     *)
(* happens when both dial the peer, by address or, by the text of its      *)
(* address, as addnode onetry does.                                        *)
(***************************************************************************)
EXTENDS Connections

mcPeer == {"p1"}
mcName == {"host"}
mcNoName == {}
mcOne == {"open"}
mcTwo == {"open", "added"}
mcWays == [t \in mcOne |-> Way \ {"added"}]
mcTwoWays == [t \in mcTwo |-> IF t = "open" THEN {"peer"} ELSE {"peer", "onetry"}]
=============================================================================
