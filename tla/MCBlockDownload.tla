-------------------------- MODULE MCBlockDownload --------------------------
(***************************************************************************)
(* One or two peers on a chain of a few blocks, announced two at a time.   *)
(***************************************************************************)
EXTENDS BlockDownload

mcNone == {}
mcOne == {"p1"}
mcTwo == {"p1", "p2"}
mcSides == {2, 3, 5}
mcNoSide == {0}
mcSlow == {"p1"}
=============================================================================
