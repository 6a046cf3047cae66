----------------------------- MODULE MCAddrMan -----------------------------
(***************************************************************************)
(* Three addresses and two sources.  What s1 tells of goes into bucket 0,  *)
(* and so does a3 from s2; a1 and a2 from s2 go into bucket 1.  All three  *)
(* share the one tried bucket.                                             *)
(***************************************************************************)
EXTENDS AddrMan

mcAddr == {"a1", "a2", "a3"}
mcSource == {"s1", "s2"}
mcGetNewBucket ==
  [p \in mcAddr \X mcSource |-> IF p[2] = "s1" \/ p[1] = "a3" THEN 0 ELSE 1]
mcGetTriedBucket == [a \in mcAddr |-> 0]
=============================================================================
