------------------------------ MODULE Channel ------------------------------
(***************************************************************************)
(* What a connection between two nodes promises: each end handles the      *)
(* messages of the other in the order they were sent, whole and once, and  *)
(* nothing is sent or handled at an end that has closed.                   *)
(***************************************************************************)
EXTENDS Naturals, Sequences

CONSTANTS End, Message

VARIABLES
  sent,     \* messages each end has sent
  handled,  \* messages each end has handled
  closed    \* ends that have closed

channelVars == <<sent, handled, closed>>

Peer(e) == CHOOSE f \in End : f # e

Init ==
  /\ sent = [e \in End |-> <<>>]
  /\ handled = [e \in End |-> <<>>]
  /\ closed = {}

(* New messages of e, if any.                                              *)
Sends(e) == sent' \in {[sent EXCEPT ![e] = @ \o new] : new \in {<<>>} \cup {<<m>> : m \in Message}}

Write(e) ==
  /\ e \notin closed
  /\ Sends(e)
  /\ UNCHANGED <<handled, closed>>

(* The next message is handled, and may be answered.                       *)
Handle(e) ==
  /\ e \notin closed
  /\ Len(handled[e]) < Len(sent[Peer(e)])
  /\ handled' = [handled EXCEPT ![e] = Append(@, sent[Peer(e)][Len(@) + 1])]
  /\ Sends(e)
  /\ UNCHANGED closed

Close(e) == closed' = closed \cup {e} /\ UNCHANGED <<sent, handled>>

Next == \E e \in End : Write(e) \/ Handle(e) \/ Close(e)

Spec == Init /\ [][Next]_channelVars
=============================================================================
