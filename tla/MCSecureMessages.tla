------------------------- MODULE MCSecureMessages -------------------------
(***************************************************************************)
(* Two nodes write messages of one bucket, "a" two with the same key, and  *)
(* all but lost connections befalls "a" alone.                             *)
(***************************************************************************)
EXTENDS SecureMessages

mcNode == {"a", "b"}
mcPeers == [n \in mcNode |-> mcNode \ {n}]
mcFrom == <<"a", "b", "a">>
mcKeyOf == <<1, 2, 1>>
mcScenarios ==
  {<<{1, 2}, {"crash"}>>, <<{1, 2}, {"cut"}>>, <<{1, 2}, {"timeout"}>>,
   <<{1, 2}, {"rpc", "enable"}>>, <<{2}, {"gui", "timeout"}>>,
   <<{1, 3}, {"crash"}>>, <<{1, 3}, {"gui"}>>}
=============================================================================
