---------------------------- MODULE NetworkProofs ----------------------------
(***************************************************************************)
(* What is proved of Connections, for every number of peers, nodes and     *)
(* grants, and of BlockDownload, for every number of peers and every chain *)
(* of theirs.                                                              *)
(*                                                                         *)
(* Connections.  With any number of openers, PairInv: what FindNode said   *)
(* by address stays true from the look-up to the push_back, as             *)
(* cs_connectNode is held (Dialling), so that a peer only gets a second    *)
(* outbound node by name.                                                  *)
(*                                                                         *)
(* With one opener, AllInv: a node is live while it is in a list or being  *)
(* moved between them (Life); the opener never finds a node that another   *)
(* made (Opening), so that every reference is counted (Counts); a grant is *)
(* with the semaphore, a thread or a node, never with two of them (Grants, *)
(* GrantSum).  Two openers break Counts: the second finds the node of the  *)
(* first and adds its reference outside cs_vNodes.                         *)
(*                                                                         *)
(* BlockDownload.  DownloadSound is inductive: a message of the node is    *)
(* handled on a copy of its state (Local), and each function that the      *)
(* handlers call keeps such a copy sound (SoundLocal).                     *)
(***************************************************************************)
EXTENDS Connections, BlockDownload, FiniteSetTheorems, TLAPS

(* A set of numbers has a first, as the loops over vNodes meet it.         *)
LEMMA MinIn ==
  ASSUME NEW S, S \subseteq Nat, S # {}
  PROVE  Min(S) \in S /\ \A y \in S : Min(S) <= y
<1> DEFINE R == {ss \in Nat \X Nat : ss[1] < ss[2]}
<1>1. OpToRel(<, Nat) = R
  BY Zenon DEF OpToRel
<1>2. PICK x \in S : \A y \in S : ~(<<y, x>> \in R)
  <2> HIDE DEF R
  <2>1. IsWellFoundedOn(R, Nat)
    BY <1>1, NatLessThanWellFounded
  <2> QED BY <2>1, WFMin
<1>3. ASSUME NEW y \in S, y < x PROVE FALSE
  <2>1. <<y, x>> \in Nat \X Nat
    OBVIOUS
  <2>2. <<y, x>>[1] < <<y, x>>[2]
    BY <1>3
  <2> QED BY <1>2, <2>1, <2>2
<1>4. \A y \in S : x <= y
  BY <1>3
<1> QED BY <1>4 DEF Min

----------------------------------------------------------------------------
(* With any number of openers *)

(* What memory holds.  An opener that adds a reference outside cs_vNodes   *)
(* may write an old count, so that counts are integers here.               *)
Memory == [state : {"none", "live", "deleted"}, addr : Addr, fInbound : BOOLEAN,
           fNetworkNode : BOOLEAN, fDisconnect : BOOLEAN, nRefCount : Int,
           fHaveGrant : BOOLEAN]

SockPlace == {"top", "disconnect", "clear", "close", "accept", "copy", "service"}
OpPlace == {"idle", "open", "connect", "dial", "found", "addref", "move", "take", "mark",
            "oneshot"}

Attempt == [pc : OpPlace, way : Way, dest : Dest, pnode : Node \cup {NoNode}, nRead : Int,
            fHaveGrant : BOOLEAN]

Types ==
  /\ node \in [Node -> Memory]
  /\ vNodes \subseteq Node
  /\ vNodesDisconnected \subseteq Node
  /\ semOutbound \in Int
  /\ sock \in [pc : SockPlace, todo : SUBSET Node]
  /\ msgCopy \subseteq Node
  /\ msgBusy \in BOOLEAN
  /\ op \in [Opener -> Attempt]
  /\ connectLock \in Opener \cup {NoThread}
  /\ origin \in [Node -> Origin]
  /\ early \subseteq Node

(* The node that is out of vNodes and not yet in vNodesDisconnected.       *)
Closing == {n \in sock.todo : sock.pc \in {"clear", "close"} /\ n = Visited}

(* A node is in one place, and nothing is in a place before it exists.     *)
Places ==
  /\ vNodes \cap vNodesDisconnected = {}
  /\ Closing \cap (vNodes \cup vNodesDisconnected) = {}
  /\ \A n \in vNodes \cup vNodesDisconnected \cup Closing : node[n].state # "none"
  /\ sock.pc \in {"disconnect", "clear", "close"} => sock.todo \subseteq vNodes \cup Closing
  /\ sock.pc \in {"clear", "close"} => sock.todo # {}

(* Between FindNode and the push_back a thread has cs_connectNode, and     *)
(* what FindNode said, if it was asked, is still so.  Only who asked has   *)
(* found a node.                                                           *)
Dialling ==
  \A t \in Opener :
    /\ op[t].pc \in {"dial", "found", "addref"} => connectLock = t
    /\ op[t].pc \in {"found", "addref"} => op[t].pnode \in Node
    /\ op[t].pc = "dial" /\ ~ByName(op[t].way) => FindNodeService(op[t].dest) = {}
    /\ ~ByName(op[t].way) => op[t].dest \in Addr

(* Nodes are constructed in the order of their numbers, and connected once. *)
Ordered == \A i, j \in Node : i < j /\ node[j].state # "none" => node[i].state # "none"

Once == Ordered /\ NoDuplicateOutbound

PairInv == Types /\ Places /\ Dialling /\ Once


(* The node a pass of the socket thread visits is one it has not visited.  *)
LEMMA VisitedIn == Types /\ sock.todo # {} => Visited \in sock.todo /\ Visited \in Node
  BY MinIn DEF Types, Visited, Node

(* A new node takes memory that was never used.                            *)
LEMMA FreshIn == Fresh # {} => Min(Fresh) \in Fresh /\ Min(Fresh) \in Node
  BY MinIn DEF Fresh, Node

(* CHOOSE picks an address.                                                *)
LEMMA AnyAddrType == AnyAddr \in Addr
  BY ConnectionsAssumption DEF AnyAddr

(* A change of a member leaves a CNode a CNode.                            *)
LEMMA MemoryUpdate ==
  ASSUME NEW m \in Memory
  PROVE  /\ \A b \in BOOLEAN : /\ [m EXCEPT !.fHaveGrant = b] \in Memory
                                /\ [m EXCEPT !.fNetworkNode = b] \in Memory
                                /\ [m EXCEPT !.fDisconnect = b] \in Memory
                                /\ [m EXCEPT !.fInbound = b] \in Memory
         /\ \A a \in Addr : [m EXCEPT !.state = "live", !.addr = a] \in Memory
  BY DEF Memory

(* So does a change of its count of references.                            *)
LEMMA MemoryCount ==
  ASSUME NEW m \in Memory
  PROVE  m.nRefCount \in Int /\ \A k \in Int : [m EXCEPT !.nRefCount = k] \in Memory
  BY DEF Memory

(* The same with all the nodes.                                            *)
LEMMA NodeUpdate ==
  ASSUME node \in [Node -> Memory], NEW n
  PROVE  /\ \A b \in BOOLEAN : /\ [node EXCEPT ![n].fHaveGrant = b] \in [Node -> Memory]
                                /\ [node EXCEPT ![n].fNetworkNode = b] \in [Node -> Memory]
                                /\ [node EXCEPT ![n].fDisconnect = b] \in [Node -> Memory]
         /\ \A k \in Int : [node EXCEPT ![n].nRefCount = k] \in [Node -> Memory]
  BY MemoryUpdate, MemoryCount

(* There are finitely many nodes.                                          *)
LEMMA NodeFinite == IsFiniteSet(Node)
  BY ConnectionsAssumption, FS_Interval DEF Node

(* References are taken and given up one at a time.                        *)
LEMMA CountsUpdate ==
  ASSUME node \in [Node -> Memory], NEW S
  PROVE  AddRefs(S) \in [Node -> Memory] /\ Releases(S) \in [Node -> Memory]
<1>1. ASSUME NEW m \in Memory
      PROVE  /\ [m EXCEPT !.nRefCount = m.nRefCount + 1] \in Memory
             /\ [m EXCEPT !.nRefCount = m.nRefCount - 1] \in Memory
  BY DEF Memory
<1> QED BY <1>1 DEF AddRefs, Releases

(* A node that is closed is a CNode still.                                 *)
LEMMA ClosedMemory ==
  ASSUME NEW m \in Memory, NEW d
  PROVE  [m EXCEPT !.fDisconnect = TRUE,
                   !.nRefCount = IF d THEN m.nRefCount - 1 ELSE m.nRefCount] \in Memory
<1>1. ASSUME NEW k \in Int
      PROVE  [m EXCEPT !.fDisconnect = TRUE, !.nRefCount = k] \in Memory
  BY DEF Memory
<1>2. m.nRefCount \in Int /\ m.nRefCount - 1 \in Int
  BY MemoryCount
<1>3. CASE d
  BY <1>1, <1>2, <1>3
<1>4. CASE ~d
  BY <1>1, <1>2, <1>4
<1> QED BY <1>3, <1>4

(* What a constructed node looks like.                                     *)
LEMMA ConstructTypes ==
  ASSUME Types, NEW a \in Addr, NEW in \in BOOLEAN, NEW fail \in BOOLEAN,
         NEW how \in Origin, Construct(a, in, fail, how)
  PROVE  /\ node' \in [Node -> Memory] /\ vNodes' \subseteq Node
         /\ origin' \in [Node -> Origin]
<1>1. ASSUME NEW m \in Memory
      PROVE  [m EXCEPT !.state = "live", !.addr = a, !.fInbound = in,
                       !.fDisconnect = fail, !.nRefCount = 1] \in Memory
  <2> DEFINE m1 == [m EXCEPT !.state = "live", !.addr = a]
             m2 == [m1 EXCEPT !.fInbound = in]
             m3 == [m2 EXCEPT !.fDisconnect = fail]
             m4 == [m3 EXCEPT !.nRefCount = 1]
  <2>1. m1 \in Memory
    BY MemoryUpdate
  <2>2. m2 \in Memory
    <3> HIDE DEF m1
    <3> QED BY <2>1, MemoryUpdate
  <2>3. m3 \in Memory
    <3> HIDE DEF m2
    <3> QED BY <2>2, MemoryUpdate
  <2>4. m4 \in Memory
    <3> HIDE DEF m3
    <3> QED BY <2>3, MemoryCount
  <2> QED BY <2>4, Zenon
<1>2. ASSUME NEW n \in Node
      PROVE  NewCNode(n, a, in, fail) \in Memory
  BY <1>1, Zenon DEF NewCNode, Types
<1> QED BY <1>2, FreshIn DEF Types, Construct

(* A thread between two attempts.                                          *)
LEMMA IdleType == Idle \in Attempt
  BY AnyAddrType DEF Idle, Attempt, OpPlace, NoNode, Dest, Way

(* A thread that starts an attempt.                                        *)
LEMMA NewAttemptType ==
  ASSUME NEW way \in Way, NEW d \in Dest
  PROVE  NewAttempt(way, d) \in Attempt
<1>1. WithGrant(way) \in BOOLEAN
  BY DEF WithGrant
<1>2. (IF way = "onetry" THEN "connect" ELSE "open") \in OpPlace
  BY DEF OpPlace
<1> QED BY <1>1, <1>2 DEF NewAttempt, Attempt, NoNode

(* A thread goes from place to place.                                      *)
LEMMA AttemptUpdate ==
  ASSUME NEW m \in Attempt, NEW c \in OpPlace
  PROVE  /\ [m EXCEPT !.pc = c] \in Attempt
         /\ \A k \in Node : [m EXCEPT !.pc = c, !.pnode = k] \in Attempt
         /\ \A k \in Int : [m EXCEPT !.pc = c, !.nRead = k] \in Attempt
         /\ \A b \in BOOLEAN : [m EXCEPT !.pc = c, !.fHaveGrant = b] \in Attempt
  BY DEF Attempt

(* An attempt that ends gives its grant back and leaves a thread that is   *)
(* idle.                                                                   *)
LEMMA EndAttemptTypes ==
  ASSUME Types, NEW t \in Opener, EndAttempt(t)
  PROVE  op' \in [Opener -> Attempt] /\ semOutbound' \in Int
<1> QED BY IdleType DEF EndAttempt, Types

(* Every step keeps the types.                                             *)
LEMMA TypesStep == Types /\ Places /\ Dialling /\ [Next]_vars => Types'
<1> SUFFICES ASSUME Types, Places, Dialling, [Next]_vars PROVE Types'
  OBVIOUS
<1> USE DEF Types
<1>1. ASSUME StartPass PROVE Types'
  BY <1>1 DEF StartPass, SockPlace
<1>2. ASSUME KeepNode PROVE Types'
  BY <1>2 DEF KeepNode
<1>3. ASSUME DisconnectNode PROVE Types'
  BY <1>3 DEF DisconnectNode, SockPlace
<1>4. ASSUME ClearGrant PROVE Types'
  BY <1>4, NodeUpdate DEF ClearGrant, SockPlace
<1>5. ASSUME CloseNode PROVE Types'
  <2>1. node' \in [Node -> Memory]
    <3>1. node[Visited] \in Memory
      BY <1>5, VisitedIn DEF Places, CloseNode
    <3>2. Closed(Visited) \in Memory
      BY <3>1, ClosedMemory DEF Closed
    <3> QED BY <1>5, <3>2 DEF CloseNode
  <2>2. vNodesDisconnected' \subseteq Node
    BY <1>5, VisitedIn DEF Places, CloseNode
  <2> QED BY <1>5, <2>1, <2>2 DEF CloseNode, SockPlace
<1>6. ASSUME DeleteNodes PROVE Types'
  <2>1. NoCNode("deleted") \in Memory
    BY AnyAddrType DEF NoCNode, Memory
  <2>2. Cardinality({n \in Deletable : node[n].fHaveGrant}) \in Nat
    <3>1. Deletable \subseteq Node
      BY DEF Deletable
    <3> QED BY <3>1, FS_Subset, FS_CardinalityType, NodeFinite
  <2> QED BY <1>6, <2>1, <2>2 DEF DeleteNodes, SockPlace
<1>7. ASSUME AcceptNone PROVE Types'
  BY <1>7 DEF AcceptNone, SockPlace
<1>8. ASSUME CopyNodes PROVE Types'
  BY <1>8, CountsUpdate DEF CopyNodes, SockPlace
<1>9. ASSUME EndPass PROVE Types'
  BY <1>9, CountsUpdate DEF EndPass, SockPlace
<1>10. ASSUME NEW a \in Addr, Accept(a) PROVE Types'
  <2>1. [way |-> "accepted", addrName |-> a] \in Origin
    BY DEF Origin, Dest
  <2> QED BY <1>10, <2>1, ConstructTypes DEF Accept, SockPlace
<1>11. ASSUME NEW n \in Node, ServiceFails(n) PROVE Types'
  BY <1>11, NodeUpdate DEF ServiceFails
<1>12. ASSUME MessageCopy PROVE Types'
  BY <1>12, CountsUpdate DEF MessageCopy
<1>13. ASSUME MessageEnd PROVE Types'
  BY <1>13, CountsUpdate DEF MessageEnd
<1>14. ASSUME NEW n \in Node, MessageFails(n) PROVE Types'
  BY <1>14, NodeUpdate DEF MessageFails
<1>15. ASSUME NEW t \in Opener, OpenNetworkConnection(t) PROVE Types'
  BY <1>15, AttemptUpdate DEF OpenNetworkConnection, OpPlace
<1>16. ASSUME NEW t \in Opener, OpenRefused(t) PROVE Types'
  BY <1>16, EndAttemptTypes DEF OpenRefused
<1>17. ASSUME NEW t \in Opener, ConnectNode(t) PROVE Types'
  <2>1. FindNodeService(op[t].dest) \subseteq Node
    BY DEF FindNodeService
  <2>2. FindNodeService(op[t].dest) # {} => Min(FindNodeService(op[t].dest)) \in Node
    <3>1. Node \subseteq Nat
      BY DEF Node
    <3> QED BY <2>1, <3>1, MinIn
  <2>3. op' \in [Opener -> Attempt]
    BY <1>17, <2>2, AttemptUpdate DEF ConnectNode, OpPlace
  <2> QED BY <1>17, <2>3 DEF ConnectNode, LockConnectNode
<1>18. ASSUME NEW t \in Opener, DialFails(t) PROVE Types'
  BY <1>18, EndAttemptTypes DEF DialFails
<1>19. ASSUME NEW t \in Opener, FoundRead(t) PROVE Types'
  <2>1. node[op[t].pnode] \in Memory
    BY <1>19 DEF Dialling, FoundRead
  <2>2. node[op[t].pnode].nRefCount \in Int
    BY <2>1, MemoryCount
  <2>3. op' \in [Opener -> Attempt]
    BY <1>19, <2>2, AttemptUpdate DEF FoundRead, OpPlace
  <2> QED BY <1>19, <2>3 DEF FoundRead
<1>20. ASSUME NEW t \in Opener, FoundAddRef(t) PROVE Types'
  <2>1. op[t].nRead + 1 \in Int
    BY DEF Attempt
  <2>2. op' \in [Opener -> Attempt]
    <3>1. "move" \in OpPlace /\ 0 \in Int
      BY DEF OpPlace
    <3> QED BY <1>20, <3>1, AttemptUpdate DEF FoundAddRef
  <2>3. node' \in [Node -> Memory]
    BY <1>20, <2>1, NodeUpdate DEF FoundAddRef
  <2> QED BY <1>20, <2>2, <2>3 DEF FoundAddRef
<1>21. ASSUME NEW t \in Opener, MoveRelease(t) PROVE Types'
  <2>1. op' \in [Opener -> Attempt]
    BY <1>21, AttemptUpdate DEF MoveRelease, OpPlace
  <2> QED BY <1>21, <2>1 DEF MoveRelease
<1>22. ASSUME NEW t \in Opener, MoveTake(t) PROVE Types'
  <2>1. op' \in [Opener -> Attempt]
    BY <1>22, AttemptUpdate DEF MoveTake, OpPlace
  <2>2. node' \in [Node -> Memory]
    BY <1>22, NodeUpdate DEF MoveTake
  <2> QED BY <1>22, <2>1, <2>2 DEF MoveTake
<1>23. ASSUME NEW t \in Opener, MarkNetworkNode(t) PROVE Types'
  <2>1. op' \in [Opener -> Attempt] /\ semOutbound' \in Int
    <3>1. [op[t] EXCEPT !.pc = "oneshot"] \in Attempt
      BY AttemptUpdate DEF OpPlace
    <3> QED BY <1>23, <3>1, EndAttemptTypes DEF MarkNetworkNode
  <2>2. node' \in [Node -> Memory]
    BY <1>23, NodeUpdate DEF MarkNetworkNode
  <2> QED BY <1>23, <2>1, <2>2 DEF MarkNetworkNode
<1>24. ASSUME NEW t \in Opener, NEW a \in Addr, NEW fail \in BOOLEAN, Dial(t, a, fail)
       PROVE Types'
  <2>1. [way |-> op[t].way, addrName |-> op[t].dest] \in Origin
    BY DEF Attempt, Origin
  <2>2. Min(Fresh) \in Node
    BY <1>24, FreshIn DEF Dial, Construct
  <2>3. AfterDial(t, Min(Fresh)) \in Attempt
    BY <2>2, AttemptUpdate, IdleType DEF AfterDial, OpPlace
  <2>4. op' \in [Opener -> Attempt]
    BY <1>24, <2>3 DEF Dial
  <2> QED BY <1>24, <2>1, <2>4, ConstructTypes DEF Dial
<1>25. ASSUME NEW t \in Opener, NEW way \in Way, NEW d \in Dest,
              Acquire(t, way, d) \/ TryWithout(t, way, d)
       PROVE Types'
  <2>1. op' \in [Opener -> Attempt]
    BY <1>25, NewAttemptType DEF Acquire, TryWithout
  <2> QED BY <1>25, <2>1 DEF Acquire, TryWithout
<1>26. ASSUME NEW t \in Opener, MarkOneShot(t) PROVE Types'
  BY <1>26, EndAttemptTypes DEF MarkOneShot
<1>27. CASE UNCHANGED vars
  BY <1>27 DEF vars
<1> QED
  BY <1>1, <1>2, <1>3, <1>4, <1>5, <1>6, <1>7, <1>8, <1>9, <1>10, <1>11,
     <1>12, <1>13, <1>14, <1>15, <1>16, <1>17, <1>18, <1>19, <1>20, <1>21,
     <1>22, <1>23, <1>24, <1>25, <1>26, <1>27
     DEF Next, SocketThread, MessageThread, OpenerThread

(* A step that changes counts, flags or grants, not who a node is.         *)
SameNodes ==
  \A n \in Node : /\ node'[n].state = node[n].state
                  /\ node'[n].addr = node[n].addr
                  /\ node'[n].fInbound = node[n].fInbound

(* A change of one flag or count leaves the peers of the nodes alone, ...  *)
LEMMA SameUpdate ==
  ASSUME node \in [Node -> Memory], NEW n, NEW v,
         \/ node' = [node EXCEPT ![n].fHaveGrant = v]
         \/ node' = [node EXCEPT ![n].fNetworkNode = v]
         \/ node' = [node EXCEPT ![n].fDisconnect = v]
         \/ node' = [node EXCEPT ![n].nRefCount = v]
  PROVE  SameNodes
  BY DEF SameNodes, Memory

(* ... and so do references that are taken and given up.                   *)
LEMMA SameCounts ==
  ASSUME node \in [Node -> Memory], NEW S,
         node' = AddRefs(S) \/ node' = Releases(S)
  PROVE  SameNodes
  BY DEF SameNodes, Memory, AddRefs, Releases

(* Then FindNode finds the same nodes,                                     *)
LEMMA SameFind ==
  ASSUME Types, SameNodes, vNodes' = vNodes, NEW a
  PROVE  FindNodeService(a)' = FindNodeService(a)
  BY DEF FindNodeService, SameNodes, Types

(* no peer is connected twice,                                             *)
LEMMA KeptOnce ==
  ASSUME Types, Once, SameNodes, vNodes' \subseteq vNodes, origin' = origin
  PROVE  Once'
<1>1. Ordered'
  BY DEF Once, Ordered, SameNodes
<1>2. NoDuplicateOutbound'
  BY DEF Once, NoDuplicateOutbound, Inbound, SameNodes, Types
<1> QED BY <1>1, <1>2 DEF Once

(* nobody has moved,                                                       *)
LEMMA KeptPlaces ==
  ASSUME Types, Places, Once, SameNodes,
         UNCHANGED <<vNodes, vNodesDisconnected, sock, origin>>
  PROVE  Places' /\ Once'
<1>1. Closing' = Closing /\ Closing \subseteq Node
  BY DEF Closing, Visited, Types
<1>2. Places'
  BY <1>1 DEF Places, SameNodes, Types
<1>3. Once'
  BY KeptOnce
<1> QED BY <1>2, <1>3

(* and threads that dial may go on, even if nodes have left.               *)
LEMMA KeptDials ==
  ASSUME Types, Dialling, Once, SameNodes,
         vNodes' \subseteq vNodes, UNCHANGED <<op, connectLock, origin>>
  PROVE  Dialling' /\ Once'
<1>1. Dialling'
  BY DEF Dialling, FindNodeService, SameNodes, Types
<1>2. Once'
  BY KeptOnce
<1> QED BY <1>1, <1>2

(* A node of its own for every connection.                                 *)
Adds(n, a, in, how) ==
  /\ n \in Node /\ node[n].state = "none" /\ vNodes' = vNodes \cup {n}
  /\ node'[n].state = "live" /\ node'[n].addr = a /\ node'[n].fInbound = in
  /\ node'[n].nRefCount = 1
  /\ node'[n].fNetworkNode = node[n].fNetworkNode
  /\ node'[n].fHaveGrant = node[n].fHaveGrant
  /\ \A k \in Node \ {n} : node'[k] = node[k]
  /\ origin' = [origin EXCEPT ![n] = how]

(* The node that ConnectNode or the socket thread makes is new.            *)
LEMMA Constructs ==
  ASSUME Types, NEW a \in Addr, NEW in \in BOOLEAN, NEW fail \in BOOLEAN,
         NEW how \in Origin, Construct(a, in, fail, how)
  PROVE  Min(Fresh) \in Fresh /\ Adds(Min(Fresh), a, in, how)
<1> DEFINE n == Min(Fresh)
<1>1. n \in Fresh /\ n \in Node
  BY FreshIn DEF Construct
<1>2. node' = [node EXCEPT ![n] = NewCNode(n, a, in, fail)] /\ vNodes' = vNodes \cup {n}
      /\ origin' = [origin EXCEPT ![n] = how]
  BY DEF Construct
<1>3. /\ NewCNode(n, a, in, fail).state = "live"
      /\ NewCNode(n, a, in, fail).addr = a
      /\ NewCNode(n, a, in, fail).fInbound = in
      /\ NewCNode(n, a, in, fail).nRefCount = 1
      /\ NewCNode(n, a, in, fail).fNetworkNode = node[n].fNetworkNode
      /\ NewCNode(n, a, in, fail).fHaveGrant = node[n].fHaveGrant
  <2>1. node[n] \in Memory
    BY <1>1 DEF Types
  <2> HIDE DEF n
  <2> QED BY <2>1 DEF NewCNode, Memory
<1> HIDE DEF n
<1>4. Adds(n, a, in, how)
  BY <1>1, <1>2, <1>3 DEF Adds, Fresh, Types
<1> QED BY <1>1, <1>4 DEF n

(* Who accepts or dials adds a node.                                       *)
LEMMA AcceptAdds ==
  ASSUME Types, NEW a \in Addr, Accept(a)
  PROVE  \E n \in Fresh, how \in Origin : Adds(n, a, TRUE, how)
<1>1. [way |-> "accepted", addrName |-> a] \in Origin
  BY DEF Origin, Dest
<1> QED BY <1>1, Constructs DEF Accept

LEMMA DialAdds ==
  ASSUME Types, NEW t \in Opener, NEW a \in Addr, NEW fail \in BOOLEAN, Dial(t, a, fail)
  PROVE  \E n \in Fresh, how \in Origin : Adds(n, a, FALSE, how)
<1>1. [way |-> op[t].way, addrName |-> op[t].dest] \in Origin
  BY DEF Types, Attempt, Origin
<1> QED BY <1>1, Constructs DEF Dial

(* A new node is in vNodes alone.                                          *)
LEMMA AddsPlaces ==
  ASSUME Types, Places, NEW n, NEW a, NEW in, NEW how, Adds(n, a, in, how),
         Closing = {}, Closing' = {},
         vNodesDisconnected' = vNodesDisconnected,
         sock'.pc \notin {"disconnect", "clear", "close"}
  PROVE  Places'
  BY DEF Places, Adds, Types

(* Nor is one before it in the order.                                      *)
LEMMA AddsOrdered ==
  ASSUME Types, Ordered, Min(Fresh) \in Fresh, NEW a, NEW in, NEW how,
         Adds(Min(Fresh), a, in, how)
  PROVE  Ordered'
<1>1. \A y \in Fresh : Min(Fresh) <= y
  BY MinIn DEF Fresh, Node
<1> DEFINE n == Min(Fresh)
<1>2. n \in Node /\ \A y \in Node : y < n => node[y].state # "none"
  <2>1. n \in Node /\ \A y \in Node : y \in Nat
    BY DEF Fresh, Node
  <2>2. ASSUME NEW y \in Node, y < n, y \in Fresh PROVE FALSE
    <3>1. n <= y
      BY <1>1, <2>2
    <3> HIDE DEF n
    <3> QED BY <2>1, <2>2, <3>1
  <2> QED BY <2>1, <2>2 DEF Fresh
<1>3. node'[n].state = "live" /\ \A k \in Node \ {n} : node'[k] = node[k]
  BY DEF Adds
<1> HIDE DEF n
<1> QED BY <1>2, <1>3 DEF Ordered

(* Every step keeps a node in one place and a peer connected once.         *)
LEMMA PairStep == PairInv /\ [Next]_vars => PairInv'
<1> SUFFICES ASSUME Types, Places, Dialling, Once, [Next]_vars
             PROVE  Places' /\ Dialling' /\ Once'
  BY TypesStep DEF PairInv
<1> USE DEF Types
<1>1. ASSUME StartPass PROVE Places' /\ Dialling' /\ Once'
  <2>1. SameNodes /\ Closing' = {}
    BY <1>1 DEF StartPass, SameNodes, Closing
  <2>2. Places'
    BY <1>1, <2>1 DEF StartPass, Places, SameNodes
  <2> QED BY <1>1, <2>1, <2>2, KeptDials DEF StartPass
<1>2. ASSUME KeepNode PROVE Places' /\ Dialling' /\ Once'
  <2>1. SameNodes /\ Closing' = {}
    BY <1>2 DEF KeepNode, SameNodes, Closing
  <2>2. Places'
    BY <1>2, <2>1 DEF KeepNode, Places, SameNodes, Closing
  <2> QED BY <1>2, <2>1, <2>2, KeptDials DEF KeepNode
<1>3. ASSUME DisconnectNode PROVE Places' /\ Dialling' /\ Once'
  <2>1. SameNodes
    BY <1>3 DEF DisconnectNode, SameNodes
  <2>2. Visited \in sock.todo /\ Visited \in vNodes /\ Visited' = Visited /\ sock'.todo = sock.todo
    BY <1>3, VisitedIn DEF DisconnectNode, Places, Closing, Visited
  <2>3. Closing = {} /\ Closing' = {Visited}
    BY <1>3, <2>2 DEF DisconnectNode, Closing
  <2>4. Places'
    BY <1>3, <2>1, <2>2, <2>3 DEF DisconnectNode, Places, SameNodes
  <2> QED BY <1>3, <2>1, <2>4, KeptDials DEF DisconnectNode
<1>4. ASSUME ClearGrant PROVE Places' /\ Dialling' /\ Once'
  <2>1. SameNodes
    BY <1>4, SameUpdate DEF ClearGrant
  <2>2. Closing' = Closing
    BY <1>4 DEF ClearGrant, Closing, Visited
  <2>3. Places'
    BY <1>4, <2>1, <2>2 DEF ClearGrant, Places, SameNodes
  <2> QED BY <1>4, <2>1, <2>3, KeptDials DEF ClearGrant
<1>5. ASSUME CloseNode PROVE Places' /\ Dialling' /\ Once'
  <2>1. SameNodes
    <3>1. \A n \in Node : /\ Closed(n).state = node[n].state
                          /\ Closed(n).addr = node[n].addr
                          /\ Closed(n).fInbound = node[n].fInbound
      BY DEF Closed, Memory
    <3> QED BY <1>5, <3>1 DEF CloseNode, SameNodes
  <2>2. Closing = {Visited} /\ Closing' = {}
    BY <1>5, VisitedIn DEF CloseNode, Closing, Places
  <2>3. Places'
    BY <1>5, <2>1, <2>2 DEF CloseNode, Places, SameNodes
  <2> QED BY <1>5, <2>1, <2>3, KeptDials DEF CloseNode
<1>6. ASSUME DeleteNodes PROVE Places' /\ Dialling' /\ Once'
  <2>1. \A n \in Node \ vNodesDisconnected : node'[n] = node[n]
    BY <1>6 DEF DeleteNodes, Deletable
  <2>2. \A n \in vNodesDisconnected : node'[n] = node[n] \/ node'[n].state = "deleted"
    BY <1>6 DEF DeleteNodes, NoCNode
  <2>3. Closing = {} /\ Closing' = {}
    BY <1>6 DEF DeleteNodes, Closing
  <2>4. vNodesDisconnected' \subseteq vNodesDisconnected
    BY <1>6 DEF DeleteNodes
  <2>5. Places'
    BY <1>6, <2>1, <2>2, <2>3, <2>4 DEF DeleteNodes, Places
  <2>6. Dialling' /\ NoDuplicateOutbound'
    BY <1>6, <2>1 DEF DeleteNodes, Places, Dialling, Once, NoDuplicateOutbound, FindNodeService, Inbound
  <2>7. Ordered'
    BY <2>1, <2>2 DEF Once, Ordered, Places
  <2> QED BY <2>5, <2>6, <2>7 DEF Once
<1>7. ASSUME AcceptNone PROVE Places' /\ Dialling' /\ Once'
  <2>1. SameNodes /\ Closing' = {}
    BY <1>7 DEF AcceptNone, SameNodes, Closing
  <2>2. Places'
    BY <1>7, <2>1 DEF AcceptNone, Places, SameNodes
  <2> QED BY <1>7, <2>1, <2>2, KeptDials DEF AcceptNone
<1>8. ASSUME CopyNodes PROVE Places' /\ Dialling' /\ Once'
  <2>1. SameNodes /\ Closing' = {}
    BY <1>8, SameCounts DEF CopyNodes, Closing
  <2>2. Places'
    BY <1>8, <2>1 DEF CopyNodes, Places, SameNodes
  <2> QED BY <1>8, <2>1, <2>2, KeptDials DEF CopyNodes
<1>9. ASSUME EndPass PROVE Places' /\ Dialling' /\ Once'
  <2>1. SameNodes /\ Closing' = {}
    BY <1>9, SameCounts DEF EndPass, Closing
  <2>2. Places'
    BY <1>9, <2>1 DEF EndPass, Places, SameNodes
  <2> QED BY <1>9, <2>1, <2>2, KeptDials DEF EndPass
<1>10. ASSUME NEW a \in Addr, Accept(a) PROVE Places' /\ Dialling' /\ Once'
  <2>1. Closing = {} /\ Closing' = {}
    BY <1>10 DEF Accept, Closing
  <2> DEFINE n == Min(Fresh)
             how == [way |-> "accepted", addrName |-> a]
  <2>2. n \in Fresh /\ Adds(n, a, TRUE, how)
    BY <1>10, Constructs DEF Accept, Origin, Dest
  <2>5. Ordered'
    BY <2>2, AddsOrdered DEF Once
  <2> HIDE DEF n, how
  <2>3. Places'
    BY <1>10, <2>1, <2>2, AddsPlaces DEF Accept
  <2>4. Dialling' /\ NoDuplicateOutbound'
    BY <1>10, <2>2 DEF Accept, Adds, Dialling, Once, NoDuplicateOutbound, FindNodeService, Inbound
  <2> QED BY <2>3, <2>4, <2>5 DEF Once
<1>11. ASSUME NEW n \in Node, ServiceFails(n) PROVE Places' /\ Dialling' /\ Once'
  <2>1. SameNodes
    BY <1>11, SameUpdate DEF ServiceFails
  <2> QED BY <1>11, <2>1, KeptPlaces, KeptDials DEF ServiceFails
<1>12. ASSUME MessageCopy PROVE Places' /\ Dialling' /\ Once'
  <2>1. SameNodes
    BY <1>12, SameCounts DEF MessageCopy
  <2> QED BY <1>12, <2>1, KeptPlaces, KeptDials DEF MessageCopy
<1>13. ASSUME MessageEnd PROVE Places' /\ Dialling' /\ Once'
  <2>1. SameNodes
    BY <1>13, SameCounts DEF MessageEnd
  <2> QED BY <1>13, <2>1, KeptPlaces, KeptDials DEF MessageEnd
<1>14. ASSUME NEW n \in Node, MessageFails(n) PROVE Places' /\ Dialling' /\ Once'
  <2>1. SameNodes
    BY <1>14, SameUpdate DEF MessageFails
  <2> QED BY <1>14, <2>1, KeptPlaces, KeptDials DEF MessageFails
<1>15. ASSUME NEW t \in Opener, OpenNetworkConnection(t) PROVE Places' /\ Dialling' /\ Once'
  <2>1. SameNodes
    BY <1>15 DEF OpenNetworkConnection, SameNodes
  <2>2. Dialling'
    BY <1>15 DEF OpenNetworkConnection, Dialling, FindNodeService, Attempt
  <2> QED BY <1>15, <2>1, <2>2, KeptPlaces DEF OpenNetworkConnection
<1>16. ASSUME NEW t \in Opener, OpenRefused(t) PROVE Places' /\ Dialling' /\ Once'
  <2>1. SameNodes
    BY <1>16 DEF OpenRefused, SameNodes
  <2>2. Dialling'
    BY <1>16, AnyAddrType DEF OpenRefused, EndAttempt, Idle, ByName, Dialling, FindNodeService
  <2> QED BY <1>16, <2>1, <2>2, KeptPlaces DEF OpenRefused
<1>17. ASSUME NEW t \in Opener, ConnectNode(t) PROVE Places' /\ Dialling' /\ Once'
  <2>1. SameNodes
    BY <1>17 DEF ConnectNode, SameNodes
  <2>2. \A u \in Opener : op[u].pc \notin {"dial", "found", "addref"}
    BY <1>17, ConnectionsAssumption DEF ConnectNode, LockConnectNode, Dialling
  <2>3. connectLock' = t /\ \A u \in Opener \ {t} : op'[u] = op[u]
    BY <1>17 DEF ConnectNode, LockConnectNode
  <2> DEFINE found == IF ByName(op[t].way) THEN {} ELSE FindNodeService(op[t].dest)
  <2>4. /\ op'[t].dest = op[t].dest /\ op'[t].way = op[t].way
        /\ found = {} => op'[t].pc = "dial"
    BY <1>17 DEF ConnectNode, Attempt
  <2>5. found # {} => op'[t].pc = "found" /\ op'[t].pnode \in Node
    <3>1. found \subseteq Node
      BY DEF FindNodeService
    <3>2. Node \subseteq Nat
      BY DEF Node
    <3>3. found # {} => Min(found) \in Node
      <4> HIDE DEF found
      <4> QED BY <3>1, <3>2, MinIn
    <3> QED BY <1>17, <3>3 DEF ConnectNode, Attempt
  <2>6. \A a : FindNodeService(a)' = FindNodeService(a)
    BY <1>17 DEF ConnectNode, FindNodeService
  <2>7. Dialling'
    BY <2>2, <2>3, <2>4, <2>5, <2>6 DEF Dialling
  <2> QED BY <1>17, <2>1, <2>7, KeptPlaces DEF ConnectNode
<1>18. ASSUME NEW t \in Opener, DialFails(t) PROVE Places' /\ Dialling' /\ Once'
  <2>1. SameNodes
    BY <1>18 DEF DialFails, SameNodes
  <2>2. Dialling'
    BY <1>18, AnyAddrType DEF DialFails, EndAttempt, Idle, ByName, Dialling, FindNodeService
  <2> QED BY <1>18, <2>1, <2>2, KeptPlaces DEF DialFails
<1>19. ASSUME NEW t \in Opener, FoundRead(t) PROVE Places' /\ Dialling' /\ Once'
  <2>1. SameNodes
    BY <1>19 DEF FoundRead, SameNodes
  <2>2. Dialling'
    BY <1>19 DEF FoundRead, Dialling, FindNodeService, Attempt
  <2> QED BY <1>19, <2>1, <2>2, KeptPlaces DEF FoundRead
<1>20. ASSUME NEW t \in Opener, FoundAddRef(t) PROVE Places' /\ Dialling' /\ Once'
  <2>1. SameNodes
    BY <1>20, SameUpdate DEF FoundAddRef
  <2>2. Dialling'
    <3>1. /\ op'[t].pc = "move" /\ op'[t].way = op[t].way /\ op'[t].dest = op[t].dest
          /\ \A u \in Opener \ {t} : op'[u] = op[u]
      BY <1>20 DEF FoundAddRef, Attempt
    <3>2. \A u \in Opener \ {t} : op[u].pc \notin {"dial", "found", "addref"}
      BY <1>20 DEF FoundAddRef, Dialling
    <3> QED BY <3>1, <3>2 DEF Dialling
  <2> QED BY <1>20, <2>1, <2>2, KeptPlaces DEF FoundAddRef
<1>21. ASSUME NEW t \in Opener, MoveRelease(t) PROVE Places' /\ Dialling' /\ Once'
  <2>1. SameNodes
    BY <1>21 DEF MoveRelease, SameNodes
  <2>2. Dialling'
    BY <1>21 DEF MoveRelease, Dialling, FindNodeService, Attempt
  <2> QED BY <1>21, <2>1, <2>2, KeptPlaces DEF MoveRelease
<1>22. ASSUME NEW t \in Opener, MoveTake(t) PROVE Places' /\ Dialling' /\ Once'
  <2>1. SameNodes
    BY <1>22, SameUpdate DEF MoveTake
  <2>2. /\ op'[t].pc = "mark" /\ op'[t].way = op[t].way /\ op'[t].dest = op[t].dest
        /\ \A u \in Opener \ {t} : op'[u] = op[u]
    BY <1>22 DEF MoveTake, Attempt
  <2>3. Dialling'
    BY <1>22, <2>1, <2>2, SameFind DEF MoveTake, Dialling
  <2> QED BY <1>22, <2>1, <2>3, KeptPlaces DEF MoveTake
<1>23. ASSUME NEW t \in Opener, MarkNetworkNode(t) PROVE Places' /\ Dialling' /\ Once'
  <2>1. SameNodes
    BY <1>23, SameUpdate DEF MarkNetworkNode
  <2>2. /\ op'[t].pc \in {"idle", "oneshot"} /\ (~ByName(op'[t].way) => op'[t].dest \in Addr)
        /\ \A u \in Opener \ {t} : op'[u] = op[u]
    BY <1>23, AnyAddrType DEF MarkNetworkNode, EndAttempt, Idle, Attempt, Dialling
  <2>3. Dialling'
    BY <1>23, <2>1, <2>2, SameFind DEF MarkNetworkNode, Dialling
  <2> QED BY <1>23, <2>1, <2>3, KeptPlaces DEF MarkNetworkNode
<1>24. ASSUME NEW t \in Opener, NEW a \in Addr, NEW fail \in BOOLEAN, Dial(t, a, fail)
       PROVE Places' /\ Dialling' /\ Once'
  <2>1. Closing = {} /\ Closing' = {}
    BY <1>24 DEF Dial, Construct, VNodesFree, Closing
  <2> DEFINE n == Min(Fresh)
             how == [way |-> op[t].way, addrName |-> op[t].dest]
  <2>2. n \in Fresh /\ Adds(n, a, FALSE, how)
    BY <1>24, Constructs DEF Dial, Attempt, Origin
  <2>3. Ordered'
    BY <2>2, AddsOrdered DEF Once
  <2>4. /\ op'[t].pc \notin {"dial", "found", "addref"}
        /\ ~ByName(op'[t].way) => op'[t].dest \in Addr
        /\ \A u \in Opener \ {t} : op'[u] = op[u]
    BY <1>24, AnyAddrType DEF Dial, AfterDial, Idle, Attempt, Dialling
  <2>5. how.way = op[t].way /\ op[t].pc = "dial"
    BY <1>24 DEF Dial
  <2>6. ~ByName(op[t].way) => a = op[t].dest
    BY <1>24 DEF Dial, Reaches, Dialling
  <2>7. \A k \in vNodes : k < n
    BY <2>2 DEF Adds, Once, Ordered, Places, Node
  <2> HIDE DEF n, how
  <2>8. Places'
    BY <1>24, <2>1, <2>2, AddsPlaces DEF Dial, Construct, VNodesFree
  <2>9. \A u \in Opener \ {t} : op[u].pc \notin {"dial", "found", "addref"}
    BY <1>24 DEF Dial, Dialling
  <2>10. Dialling'
    BY <2>4, <2>9 DEF Dialling
  <2>11. NoDuplicateOutbound'
    <3>1. \A k \in vNodes : k \in Node /\ k # n /\ node'[k] = node[k] /\ origin'[k] = origin[k]
      <4>1. n \in Node /\ node[n].state = "none" /\ origin' = [origin EXCEPT ![n] = how]
            /\ \A k \in Node \ {n} : node'[k] = node[k]
        BY <2>2 DEF Adds
      <4>2. \A k \in vNodes : k \in Node /\ k # n
        BY <4>1 DEF Places
      <4> QED BY <4>1, <4>2
    <3>2. n \in Node /\ node'[n].addr = a /\ origin'[n].way = op[t].way /\ vNodes' = vNodes \cup {n}
      BY <2>2, <2>5 DEF Adds
    <3>3. \A k \in vNodes \ Inbound : node[k].addr = a => ByName(op[t].way)
      BY <2>5, <2>6 DEF Dialling, FindNodeService, Inbound
    <3>4. \A k \in vNodes : ~(n < k)
      BY <2>7, <3>2 DEF Node
    <3>5. \A i, j \in vNodes \ Inbound :
             node[i].addr = node[j].addr /\ i < j => ByName(origin[j].way)
      BY DEF Once, NoDuplicateOutbound
    <3>6. SUFFICES ASSUME NEW i \in vNodes' \ Inbound', NEW j \in vNodes' \ Inbound',
                          node'[i].addr = node'[j].addr, i < j
                   PROVE  ByName(origin'[j].way)
      BY DEF NoDuplicateOutbound
    <3>7. i \in vNodes /\ i \notin Inbound
      BY <3>1, <3>2, <3>4, <3>6 DEF Inbound, Node
    <3>8. CASE j = n
      BY <3>1, <3>2, <3>3, <3>6, <3>7, <3>8
    <3>9. CASE j # n
      <4>1. j \in vNodes /\ j \notin Inbound
        BY <3>1, <3>2, <3>6, <3>9 DEF Inbound
      <4> QED BY <4>1, <3>1, <3>5, <3>6, <3>7
    <3> QED BY <3>8, <3>9
  <2> QED BY <2>3, <2>8, <2>10, <2>11 DEF Once
<1>25. ASSUME NEW t \in Opener, NEW way \in Way, NEW d \in Dest,
              Acquire(t, way, d) \/ TryWithout(t, way, d)
       PROVE Places' /\ Dialling' /\ Once'
  <2>1. SameNodes
    BY <1>25 DEF Acquire, TryWithout, SameNodes
  <2>2. /\ op'[t].pc \in {"open", "connect"} /\ (~ByName(op'[t].way) => op'[t].dest \in Addr)
        /\ \A u \in Opener \ {t} : op'[u] = op[u]
    BY <1>25 DEF Acquire, TryWithout, NewAttempt, Idle, Dests
  <2>3. Dialling'
    BY <1>25, <2>1, <2>2, SameFind DEF Acquire, TryWithout, Dialling
  <2> QED BY <1>25, <2>1, <2>3, KeptPlaces DEF Acquire, TryWithout
<1>26. ASSUME NEW t \in Opener, MarkOneShot(t) PROVE Places' /\ Dialling' /\ Once'
  <2>1. SameNodes
    BY <1>26 DEF MarkOneShot, SameNodes
  <2>2. Dialling'
    BY <1>26, AnyAddrType DEF MarkOneShot, EndAttempt, Idle, ByName, Dialling, FindNodeService
  <2> QED BY <1>26, <2>1, <2>2, KeptPlaces DEF MarkOneShot
<1>27. CASE UNCHANGED vars
  <2>1. SameNodes
    BY <1>27 DEF vars, SameNodes
  <2> QED BY <1>27, <2>1, KeptPlaces, KeptDials DEF vars
<1> QED
  BY <1>1, <1>2, <1>3, <1>4, <1>5, <1>6, <1>7, <1>8, <1>9, <1>10, <1>11,
     <1>12, <1>13, <1>14, <1>15, <1>16, <1>17, <1>18, <1>19, <1>20, <1>21,
     <1>22, <1>23, <1>24, <1>25, <1>26, <1>27
     DEF Next, SocketThread, MessageThread, OpenerThread

(* At the start there are no nodes.                                        *)
LEMMA PairInit == Init => PairInv
<1> SUFFICES ASSUME Init PROVE PairInv
  OBVIOUS
<1>1. NoCNode("none") \in Memory
  BY AnyAddrType DEF NoCNode, Memory
<1>2. Idle \in Attempt
  BY IdleType
<1>3. Types
  <2>1. node \in [Node -> Memory]
    BY <1>1 DEF Init
  <2>2. op \in [Opener -> Attempt]
    BY <1>2 DEF Init
  <2>3. semOutbound \in Int
    BY ConnectionsAssumption DEF Init
  <2>4. origin \in [Node -> Origin]
    BY AnyAddrType DEF Init, Origin, Dest
  <2> QED BY <2>1, <2>2, <2>3, <2>4 DEF Init, Types, SockPlace
<1>4. Places
  BY DEF Init, Places, Closing
<1>5. Dialling
  BY AnyAddrType DEF Init, Dialling, Idle
<1>6. Once
  BY DEF Init, Once, Ordered, NoDuplicateOutbound, NoCNode
<1> QED BY <1>3, <1>4, <1>5, <1>6 DEF PairInv

(* However many threads open connections, by address and by name, and      *)
(* wherever they lose theirs, a thread that dials an address never gets a  *)
(* second node of it: two outbound nodes of one peer are there only if the *)
(* later was opened by name.  cs_connectNode is what makes it so: it is    *)
(* held from FindNode to the push_back, by name as well.                   *)
THEOREM PeersConnectedOnce == Spec => []NoDuplicateOutbound
<1>1. Spec => []PairInv
  BY PairInit, PairStep, PTL DEF Spec
<1>2. PairInv => NoDuplicateOutbound
  BY DEF PairInv, Once
<1> QED BY <1>1, <1>2, PTL

----------------------------------------------------------------------------
(* With one opener *)

OneOpener == \A s, t \in Opener : s = t

(* References that the two threads with a copy of vNodes have to a node.   *)
Uses(n) == (IF n \in msgCopy THEN 1 ELSE 0)
           + (IF sock.pc = "service" /\ n \in sock.todo THEN 1 ELSE 0)

(* An opener that has its node.                                            *)
Has(t) == op[t].pc \in {"move", "take", "mark"}

(* The nodes of the lists are the live ones; the rest of the memory is     *)
(* as NoCNode left it.  Whoever works on nodes works on live ones.         *)
Life ==
  /\ \A n \in Node : node[n].state = "live"
                     <=> n \in vNodes \cup vNodesDisconnected \cup Closing
  /\ \A n \in Node : node[n].state # "live" =>
       ~node[n].fInbound /\ ~node[n].fNetworkNode /\ ~node[n].fHaveGrant
         /\ node[n].nRefCount = 0
  /\ sock.pc \in {"top", "accept", "copy"} => sock.todo = {}
  /\ \A n \in sock.todo \cup msgCopy : node[n].state = "live"
  /\ ~msgBusy => msgCopy = {}

(* No opener finds a node that exists: it has looked for one itself, and   *)
(* nobody else makes outbound nodes.                                       *)
Opening ==
  \A t \in Opener :
    /\ op[t].pc \notin {"found", "addref"} /\ op[t].nRead = 0
    /\ op[t].pc = "connect" /\ ~ByName(op[t].way) => FindNodeService(op[t].dest) = {}
    /\ Has(t) => /\ op[t].pnode \in Node
                 /\ node[op[t].pnode].state = "live"
                 /\ ~node[op[t].pnode].fInbound
                 /\ ~node[op[t].pnode].fNetworkNode

(* vNodes has one reference, and each copy of it has one.  What a          *)
(* disconnected node keeps is the references of the copies, and, if it was *)
(* closed before it was marked, the one nobody gives up.                   *)
Counts ==
  /\ \A n \in vNodes \cup Closing : node[n].nRefCount = 1 + Uses(n)
  /\ \A n \in vNodesDisconnected :
       /\ node[n].nRefCount >= Uses(n)
       /\ n \notin early => node[n].nRefCount = Uses(n)
  /\ \A n \in early : node[n].state # "none" /\ ~node[n].fInbound
  /\ \A t \in Opener : Has(t) => node[op[t].pnode].nRefCount >= 1 + Uses(op[t].pnode)

(* Nodes that take a grant, sooner or later.                               *)
Granted == {n \in vNodes \ Inbound : WithGrant(origin[n].way)}

(* Who has a grant.                                                        *)
Grants ==
  /\ \A t \in Opener :
       op[t].fHaveGrant <=> op[t].pc \notin {"idle", "mark", "oneshot"} /\ WithGrant(op[t].way)
  /\ \A t \in Opener : op[t].pc \in {"move", "take"} =>
       WithGrant(op[t].way) /\ ~node[op[t].pnode].fHaveGrant
  /\ \A n \in Node : node[n].fHaveGrant => ~node[n].fInbound
  /\ sock.pc = "clear" => node[Visited].fHaveGrant
  /\ \A n \in Granted :
       node[n].fHaveGrant \/ \E t \in Opener : op[t].pc \in {"move", "take"} /\ op[t].pnode = n

OneInv == Life /\ Opening /\ Counts /\ Grants

(* What a step leaves alone in every node.                                 *)
CountsKept == \A n \in Node : node'[n].nRefCount = node[n].nRefCount
GrantsKept == \A n \in Node : node'[n].fHaveGrant = node[n].fHaveGrant
MarksKept == \A n \in Node : node'[n].fNetworkNode = node[n].fNetworkNode

(* A copy of vNodes is made or given up.                                   *)
LEMMA CountsMove ==
  ASSUME node \in [Node -> Memory], NEW S
  PROVE  /\ node' = AddRefs(S) =>
              /\ SameNodes /\ GrantsKept /\ MarksKept
              /\ \A k \in Node : node'[k].nRefCount = IF k \in S THEN node[k].nRefCount + 1
                                                                ELSE node[k].nRefCount
         /\ node' = Releases(S) =>
              /\ SameNodes /\ GrantsKept /\ MarksKept
              /\ \A k \in Node : node'[k].nRefCount = IF k \in S THEN node[k].nRefCount - 1
                                                                ELSE node[k].nRefCount
  BY DEF AddRefs, Releases, SameNodes, GrantsKept, MarksKept, Memory

(* Nothing the openers look at has changed.                                *)
LEMMA OpeningKept ==
  ASSUME Types, Opening, SameNodes, MarksKept, UNCHANGED <<vNodes, op>>
  PROVE  Opening'
<1>1. \A a : FindNodeService(a)' = FindNodeService(a)
  BY SameFind
<1>2. \A n \in Node : /\ node'[n].state = node[n].state
                      /\ node'[n].fInbound = node[n].fInbound
                      /\ node'[n].fNetworkNode = node[n].fNetworkNode
  BY DEF SameNodes, MarksKept
<1>3. op' = op
  OBVIOUS
<1> QED BY <1>1, <1>2, <1>3 DEF Opening, Has

(* With one opener, every step keeps the lists, the references and the     *)
(* grants in order.                                                        *)
LEMMA OneStep ==
  ASSUME OneOpener, PairInv, OneInv, [Next]_vars
  PROVE  OneInv'
<1> SUFFICES Life' /\ Opening' /\ Counts' /\ Grants'
  BY DEF OneInv
<1> USE DEF Types
<1> Types /\ Places /\ Dialling /\ Life /\ Opening /\ Counts /\ Grants
  BY DEF PairInv, OneInv
<1>1. ASSUME StartPass PROVE Life' /\ Opening' /\ Counts' /\ Grants'
  <2>1. Closing = {} /\ Closing' = {} /\ sock'.pc # "service" /\ sock.pc # "service"
    BY <1>1 DEF StartPass, Closing
  <2>2. \A n : Uses(n)' = Uses(n)
    BY <1>1, <2>1 DEF StartPass, Uses
  <2>3. Life'
    BY <1>1, <2>1 DEF StartPass, Life
  <2>4. Opening'
    BY <1>1 DEF StartPass, Opening, FindNodeService, Has
  <2>5. Counts'
    BY <1>1, <2>1, <2>2 DEF StartPass, Counts, Has
  <2>6. Grants'
    BY <1>1 DEF StartPass, Grants, Inbound, Granted
  <2> QED BY <2>3, <2>4, <2>5, <2>6
<1>2. ASSUME KeepNode PROVE Life' /\ Opening' /\ Counts' /\ Grants'
  <2>1. Closing = {} /\ Closing' = {} /\ sock'.pc # "service" /\ sock.pc # "service"
    BY <1>2 DEF KeepNode, Closing
  <2>2. \A n : Uses(n)' = Uses(n)
    BY <1>2, <2>1 DEF KeepNode, Uses
  <2>3. Life'
    BY <1>2, <2>1 DEF KeepNode, Life
  <2>4. Opening'
    BY <1>2 DEF KeepNode, Opening, FindNodeService, Has
  <2>5. Counts'
    BY <1>2, <2>1, <2>2 DEF KeepNode, Counts, Has
  <2>6. Grants'
    BY <1>2 DEF KeepNode, Grants, Inbound, Granted
  <2> QED BY <2>3, <2>4, <2>5, <2>6
<1>3. ASSUME DisconnectNode PROVE Life' /\ Opening' /\ Counts' /\ Grants'
  <2>1. Visited \in sock.todo /\ Visited \in vNodes /\ Visited' = Visited /\ sock'.todo = sock.todo
    BY <1>3, VisitedIn DEF DisconnectNode, Places, Closing, Visited
  <2>2. Closing = {} /\ Closing' = {Visited}
    BY <1>3, <2>1 DEF DisconnectNode, Closing
  <2>3. \A n : Uses(n)' = Uses(n)
    BY <1>3 DEF DisconnectNode, Uses
  <2>4. Life'
    BY <1>3, <2>1, <2>2 DEF DisconnectNode, Life
  <2>5. Opening'
    BY <1>3 DEF DisconnectNode, Opening, FindNodeService, Has
  <2>6. Counts'
    BY <1>3, <2>1, <2>2, <2>3 DEF DisconnectNode, Counts, Has
  <2>7. Grants'
    BY <1>3, <2>1 DEF DisconnectNode, Grants, Inbound, Granted
  <2> QED BY <2>4, <2>5, <2>6, <2>7
<1>4. ASSUME ClearGrant PROVE Life' /\ Opening' /\ Counts' /\ Grants'
  <2>1. SameNodes /\ CountsKept /\ MarksKept
    BY <1>4 DEF ClearGrant, SameNodes, CountsKept, MarksKept, Memory
  <2>2. Visited \in Node /\ Visited \in sock.todo /\ Visited \in Closing
    BY <1>4, VisitedIn DEF ClearGrant, Places, Closing
  <2>3. /\ node'[Visited].fHaveGrant = FALSE
        /\ \A n \in Node \ {Visited} : node'[n].fHaveGrant = node[n].fHaveGrant
    BY <1>4, <2>2 DEF ClearGrant, Memory
  <2>4. Closing' = Closing /\ Closing \subseteq Node /\ \A k : Uses(k)' = Uses(k)
    BY <1>4 DEF ClearGrant, Closing, Visited, Uses
  <2>5. Life'
    BY <1>4, <2>1, <2>3, <2>4 DEF ClearGrant, Life, SameNodes, CountsKept, MarksKept
  <2>6. Opening'
    BY <1>4, <2>1, OpeningKept DEF ClearGrant
  <2>7. Counts'
    BY <1>4, <2>1, <2>4 DEF ClearGrant, Counts, Opening, SameNodes, CountsKept, Has
  <2>8. Grants'
    BY <1>4, <2>1, <2>2, <2>3 DEF ClearGrant, Grants, Opening, SameNodes, Inbound, Has, Places, Granted
  <2> QED BY <2>5, <2>6, <2>7, <2>8
<1>5. ASSUME CloseNode PROVE Life' /\ Opening' /\ Counts' /\ Grants'
  <2>1. Visited \in Node /\ Visited \in sock.todo
    BY <1>5, VisitedIn DEF CloseNode, Places
  <2>2. Closing = {Visited} /\ Closing' = {}
    BY <1>5, <2>1 DEF CloseNode, Closing
  <2>3. /\ \A n \in Node : /\ Closed(n).state = node[n].state
                           /\ Closed(n).addr = node[n].addr
                           /\ Closed(n).fInbound = node[n].fInbound
                           /\ Closed(n).fHaveGrant = node[n].fHaveGrant
                           /\ Closed(n).fNetworkNode = node[n].fNetworkNode
    BY DEF Closed, Memory
  <2>4. Closed(Visited).nRefCount = IF DropsReference(Visited) THEN node[Visited].nRefCount - 1
                                                              ELSE node[Visited].nRefCount
    BY <2>1 DEF Closed, Memory
  <2>5. SameNodes /\ GrantsKept /\ MarksKept
    BY <1>5, <2>1, <2>3 DEF CloseNode, SameNodes, GrantsKept, MarksKept
  <2>6. /\ \A n \in Node \ {Visited} : node'[n].nRefCount = node[n].nRefCount
        /\ node'[Visited].nRefCount = IF DropsReference(Visited) THEN node[Visited].nRefCount - 1
                                                              ELSE node[Visited].nRefCount
    BY <1>5, <2>1, <2>4 DEF CloseNode
  <2>7. \A n : Uses(n)' = Uses(n) /\ Uses(n) \in Int
    BY <1>5 DEF CloseNode, Uses
  <2>8. Life'
    <3>1. node[Visited].state = "live"
      BY <2>1 DEF Life
    <3>2. sock'.pc = "disconnect" /\ sock'.todo \subseteq sock.todo
      BY <1>5 DEF CloseNode
    <3> QED BY <1>5, <3>1, <3>2, <2>1, <2>2, <2>5, <2>6
            DEF CloseNode, Life, SameNodes, GrantsKept, MarksKept
  <2>9. Opening'
    BY <1>5, <2>5, OpeningKept DEF CloseNode
  <2>10. Counts'
    <3>1. \A n \in vNodes' \cup Closing' : node'[n].nRefCount = 1 + Uses(n)
      BY <1>5, <2>1, <2>2, <2>6 DEF CloseNode, Counts, Places
    <3>2. node[Visited].nRefCount = 1 + Uses(Visited) /\ node[Visited].nRefCount \in Int
      BY <2>1, <2>2 DEF Counts, Memory
    <3>3. \A n \in vNodesDisconnected' :
             /\ node'[n].nRefCount >= Uses(n)
             /\ n \notin early' => node'[n].nRefCount = Uses(n)
      BY <1>5, <3>2, <2>1, <2>2, <2>5, <2>6, <2>7
         DEF CloseNode, Counts, Places, SameNodes, DropsReference
    <3>4. \A t \in Opener : Has(t) => node'[op[t].pnode].nRefCount >= 1 + Uses(op[t].pnode)
      BY <3>2, <2>1, <2>6, <2>7 DEF Counts, Opening, DropsReference
    <3>5. \A n \in early' : node'[n].state # "none" /\ ~node'[n].fInbound
      <4>1. node[Visited].state # "none"
        BY <2>2 DEF Places
      <4>2. \A n \in early' : n \in Node /\ node[n].state # "none" /\ ~node[n].fInbound
        BY <1>5, <2>1, <4>1 DEF CloseNode, Counts
      <4> QED BY <4>2, <2>5 DEF SameNodes
    <3>6. op' = op /\ vNodes' = vNodes
      BY <1>5 DEF CloseNode
    <3>7. \A t \in Opener : Has(t)' <=> Has(t)
      BY <3>6 DEF Has
    <3> QED BY <3>1, <3>3, <3>4, <3>5, <3>6, <3>7, <2>7 DEF Counts
  <2>11. Grants'
    BY <1>5, <2>5 DEF CloseNode, Grants, Opening, SameNodes, GrantsKept, Inbound, Has, Granted
  <2> QED BY <2>8, <2>9, <2>10, <2>11
<1>6. ASSUME DeleteNodes PROVE Life' /\ Opening' /\ Counts' /\ Grants'
  <2>1. Closing = {} /\ Closing' = {} /\ Deletable \subseteq vNodesDisconnected
    BY <1>6 DEF DeleteNodes, Closing, Deletable
  <2>2. \A n \in Node \ Deletable : node'[n] = node[n]
    BY <1>6 DEF DeleteNodes
  <2>3. \A n \in Deletable : /\ node'[n].state = "deleted" /\ ~node'[n].fInbound
                            /\ ~node'[n].fNetworkNode /\ ~node'[n].fHaveGrant
                            /\ node'[n].nRefCount = 0
    BY <1>6, <2>1 DEF DeleteNodes, NoCNode
  <2>4. \A n : Uses(n)' = Uses(n) /\ Uses(n) \in Nat
    BY <1>6 DEF DeleteNodes, Uses
  <2>5. \A n \in Deletable : Uses(n) = 0 /\ n \notin msgCopy
    <3>1. \A n \in Deletable : node[n].nRefCount <= 0 /\ node[n].nRefCount \in Int
      BY <2>1 DEF Deletable, Memory
    <3>2. \A n \in Deletable : Uses(n) = 0
      BY <3>1, <2>1, <2>4 DEF Counts
    <3> QED BY <3>2 DEF Uses
  <2>6. \A t \in Opener : Has(t) => op[t].pnode \notin Deletable
    <3>1. \A n \in Deletable : node[n].nRefCount <= 0 /\ node[n].nRefCount \in Int
      BY <2>1 DEF Deletable, Memory
    <3> QED BY <3>1, <2>4 DEF Counts
  <2>7. Life'
    BY <1>6, <2>1, <2>2, <2>3, <2>5 DEF DeleteNodes, Life, Places
  <2>8. Opening'
    BY <1>6, <2>1, <2>2, <2>6 DEF DeleteNodes, Opening, Has, FindNodeService, Places
  <2>9. Counts'
    <3>1. \A n \in early' : node'[n].state # "none" /\ ~node'[n].fInbound
      BY <1>6, <2>2, <2>3 DEF DeleteNodes, Counts
    <3> QED BY <1>6, <3>1, <2>1, <2>2, <2>4, <2>6 DEF DeleteNodes, Counts, Opening, Has, Places
  <2>10. Grants'
    <3>1. vNodes' = vNodes /\ op' = op /\ sock'.pc # "clear" /\ vNodes \cap Deletable = {}
      BY <1>6, <2>1 DEF DeleteNodes, Places
    <3>2. \A n \in Node : node'[n].fHaveGrant => ~node'[n].fInbound
      BY <2>2, <2>3 DEF Grants, Granted
    <3>3. \A t \in Opener : op[t].pc \in {"move", "take"} =>
            WithGrant(op[t].way) /\ ~node'[op[t].pnode].fHaveGrant
      BY <2>2, <2>6 DEF Grants, Opening, Has, Granted
    <3>4. \A n \in vNodes : node'[n] = node[n]
      BY <3>1, <2>2
    <3>5. Granted' = Granted
      BY <1>6, <3>1, <3>4 DEF DeleteNodes, Granted, Inbound
    <3>6. \A n \in Granted : node'[n].fHaveGrant = node[n].fHaveGrant
      BY <3>4 DEF Granted
    <3> QED BY <3>1, <3>2, <3>3, <3>5, <3>6 DEF Grants
  <2> QED BY <2>7, <2>8, <2>9, <2>10
<1>7. ASSUME AcceptNone PROVE Life' /\ Opening' /\ Counts' /\ Grants'
  <2>1. Closing = {} /\ Closing' = {} /\ sock'.pc # "service" /\ sock.pc # "service"
    BY <1>7 DEF AcceptNone, Closing
  <2>2. \A n : Uses(n)' = Uses(n)
    BY <1>7, <2>1 DEF AcceptNone, Uses
  <2>3. Life'
    BY <1>7, <2>1 DEF AcceptNone, Life
  <2>4. Opening'
    BY <1>7 DEF AcceptNone, Opening, FindNodeService, Has
  <2>5. Counts'
    BY <1>7, <2>1, <2>2 DEF AcceptNone, Counts, Has
  <2>6. Grants'
    BY <1>7 DEF AcceptNone, Grants, Inbound, Granted
  <2> QED BY <2>3, <2>4, <2>5, <2>6
<1>8. ASSUME CopyNodes PROVE Life' /\ Opening' /\ Counts' /\ Grants'
  <2>1. SameNodes /\ GrantsKept /\ MarksKept
          /\ \A k \in Node : node'[k].nRefCount = IF k \in vNodes THEN node[k].nRefCount + 1
                                                            ELSE node[k].nRefCount
    BY <1>8, CountsMove DEF CopyNodes
  <2>2. Closing' = Closing /\ Closing \subseteq Node
    BY <1>8 DEF CopyNodes, Closing, Visited
  <2>3. \A k \in Node : /\ Uses(k) \in Int
                        /\ Uses(k)' = IF k \in vNodes THEN Uses(k) + 1 ELSE Uses(k)
    BY <1>8 DEF CopyNodes, Uses, Life
  <2>4. \A k \in vNodes : node[k].state = "live"
    BY <1>8 DEF CopyNodes, Life
  <2>5. Life'
    BY <1>8, <2>1, <2>2, <2>4 DEF CopyNodes, Life, SameNodes, GrantsKept, MarksKept
  <2>6. Opening'
    BY <1>8, <2>1, OpeningKept DEF CopyNodes
  <2>7. \A k \in Node : node[k].nRefCount \in Int
    BY DEF Memory
  <2>8. Counts'
    BY <1>8, <2>1, <2>2, <2>3, <2>7 DEF CopyNodes, Counts, Opening, SameNodes, Has
  <2>9. Grants'
    BY <1>8, <2>1, VisitedIn DEF CopyNodes, Grants, Opening, SameNodes, GrantsKept, Inbound, Visited, Has, Places, Granted
  <2> QED BY <2>5, <2>6, <2>8, <2>9
<1>9. ASSUME EndPass PROVE Life' /\ Opening' /\ Counts' /\ Grants'
  <2>1. SameNodes /\ GrantsKept /\ MarksKept
          /\ \A k \in Node : node'[k].nRefCount = IF k \in sock.todo THEN node[k].nRefCount - 1
                                                            ELSE node[k].nRefCount
    BY <1>9, CountsMove DEF EndPass
  <2>2. Closing' = Closing /\ Closing \subseteq Node
    BY <1>9 DEF EndPass, Closing, Visited
  <2>3. \A k \in Node : /\ Uses(k) \in Int
                        /\ Uses(k)' = IF k \in sock.todo THEN Uses(k) - 1 ELSE Uses(k)
    BY <1>9 DEF EndPass, Uses, Life
  <2>4. \A k \in sock.todo : node[k].state = "live"
    BY <1>9 DEF EndPass, Life
  <2>5. Life'
    BY <1>9, <2>1, <2>2, <2>4 DEF EndPass, Life, SameNodes, GrantsKept, MarksKept
  <2>6. Opening'
    BY <1>9, <2>1, OpeningKept DEF EndPass
  <2>7. \A k \in Node : node[k].nRefCount \in Int
    BY DEF Memory
  <2>8. Counts'
    BY <1>9, <2>1, <2>2, <2>3, <2>7 DEF EndPass, Counts, Opening, SameNodes, Has
  <2>9. Grants'
    BY <1>9, <2>1, VisitedIn DEF EndPass, Grants, Opening, SameNodes, GrantsKept, Inbound, Visited, Has, Places, Granted
  <2> QED BY <2>5, <2>6, <2>8, <2>9
<1>10. ASSUME NEW a \in Addr, Accept(a) PROVE Life' /\ Opening' /\ Counts' /\ Grants'
  <2>1. Closing = {} /\ Closing' = {}
    BY <1>10 DEF Accept, Closing
  <2> DEFINE n == Min(Fresh)
             how == [way |-> "accepted", addrName |-> a]
  <2>2. n \in Fresh /\ Adds(n, a, TRUE, how)
    BY <1>10, Constructs DEF Accept, Origin, Dest
  <2> HIDE DEF n, how
  <2>3. \A k : Uses(k)' = Uses(k)
    BY <1>10 DEF Accept, Uses
  <2>4. n \notin msgCopy /\ n \notin vNodesDisconnected /\ Uses(n) = 0
        /\ \A t \in Opener : Has(t) => op[t].pnode # n
    BY <1>10, <2>2 DEF Accept, Life, Adds, Uses, Opening
  <2>5. Life'
    BY <1>10, <2>1, <2>2, <2>4 DEF Accept, Life, Adds
  <2>6. Opening'
    BY <1>10, <2>2, <2>4 DEF Accept, Opening, Adds, Has, FindNodeService
  <2>7. Counts'
    BY <1>10, <2>1, <2>2, <2>3, <2>4 DEF Accept, Counts, Opening, Adds, Has
  <2>8. Grants'
    BY <1>10, <2>2, <2>4 DEF Accept, Grants, Opening, Life, Adds, Has, Inbound, Granted
  <2> QED BY <2>5, <2>6, <2>7, <2>8
<1>11. ASSUME NEW n \in Node, ServiceFails(n) PROVE Life' /\ Opening' /\ Counts' /\ Grants'
  <2>1. SameNodes /\ CountsKept /\ GrantsKept /\ MarksKept
    BY <1>11 DEF ServiceFails, SameNodes, CountsKept, GrantsKept, MarksKept, Memory
  <2>2. Closing' = Closing /\ Closing \subseteq Node /\ \A k : Uses(k)' = Uses(k)
    BY <1>11 DEF ServiceFails, Closing, Visited, Uses
  <2>3. Life'
    BY <1>11, <2>1, <2>2 DEF ServiceFails, Life, SameNodes, CountsKept, GrantsKept, MarksKept
  <2>4. Opening'
    BY <1>11, <2>1, OpeningKept DEF ServiceFails
  <2>5. Counts'
    BY <1>11, <2>1, <2>2 DEF ServiceFails, Counts, Opening, SameNodes, CountsKept, Has
  <2>6. Grants'
    BY <1>11, <2>1, VisitedIn DEF ServiceFails, Grants, Opening, SameNodes, GrantsKept, Inbound, Visited, Has, Places, Granted
  <2> QED BY <2>3, <2>4, <2>5, <2>6
<1>12. ASSUME MessageCopy PROVE Life' /\ Opening' /\ Counts' /\ Grants'
  <2>1. SameNodes /\ GrantsKept /\ MarksKept
          /\ \A k \in Node : node'[k].nRefCount = IF k \in vNodes THEN node[k].nRefCount + 1
                                                            ELSE node[k].nRefCount
    BY <1>12, CountsMove DEF MessageCopy
  <2>2. Closing' = Closing /\ Closing \subseteq Node
    BY <1>12 DEF MessageCopy, Closing, Visited
  <2>3. \A k \in Node : /\ Uses(k) \in Int
                        /\ Uses(k)' = IF k \in vNodes THEN Uses(k) + 1 ELSE Uses(k)
    BY <1>12 DEF MessageCopy, Uses, Life
  <2>4. \A k \in vNodes : node[k].state = "live"
    BY <1>12 DEF MessageCopy, Life
  <2>5. Life'
    BY <1>12, <2>1, <2>2, <2>4 DEF MessageCopy, Life, SameNodes, GrantsKept, MarksKept
  <2>6. Opening'
    BY <1>12, <2>1, OpeningKept DEF MessageCopy
  <2>7. \A k \in Node : node[k].nRefCount \in Int
    BY DEF Memory
  <2>8. Counts'
    BY <1>12, <2>1, <2>2, <2>3, <2>7 DEF MessageCopy, Counts, Opening, SameNodes, Has
  <2>9. Grants'
    BY <1>12, <2>1, VisitedIn DEF MessageCopy, Grants, Opening, SameNodes, GrantsKept, Inbound, Visited, Has, Places, Granted
  <2> QED BY <2>5, <2>6, <2>8, <2>9
<1>13. ASSUME MessageEnd PROVE Life' /\ Opening' /\ Counts' /\ Grants'
  <2>1. SameNodes /\ GrantsKept /\ MarksKept
          /\ \A k \in Node : node'[k].nRefCount = IF k \in msgCopy THEN node[k].nRefCount - 1
                                                            ELSE node[k].nRefCount
    BY <1>13, CountsMove DEF MessageEnd
  <2>2. Closing' = Closing /\ Closing \subseteq Node
    BY <1>13 DEF MessageEnd, Closing, Visited
  <2>3. \A k \in Node : /\ Uses(k) \in Int
                        /\ Uses(k)' = IF k \in msgCopy THEN Uses(k) - 1 ELSE Uses(k)
    BY <1>13 DEF MessageEnd, Uses, Life
  <2>4. \A k \in msgCopy : node[k].state = "live"
    BY <1>13 DEF MessageEnd, Life
  <2>5. Life'
    BY <1>13, <2>1, <2>2, <2>4 DEF MessageEnd, Life, SameNodes, GrantsKept, MarksKept
  <2>6. Opening'
    BY <1>13, <2>1, OpeningKept DEF MessageEnd
  <2>7. \A k \in Node : node[k].nRefCount \in Int
    BY DEF Memory
  <2>8. Counts'
    BY <1>13, <2>1, <2>2, <2>3, <2>7 DEF MessageEnd, Counts, Opening, SameNodes, Has
  <2>9. Grants'
    BY <1>13, <2>1, VisitedIn DEF MessageEnd, Grants, Opening, SameNodes, GrantsKept, Inbound, Visited, Has, Places, Granted
  <2> QED BY <2>5, <2>6, <2>8, <2>9
<1>14. ASSUME NEW n \in Node, MessageFails(n) PROVE Life' /\ Opening' /\ Counts' /\ Grants'
  <2>1. SameNodes /\ CountsKept /\ GrantsKept /\ MarksKept
    BY <1>14 DEF MessageFails, SameNodes, CountsKept, GrantsKept, MarksKept, Memory
  <2>2. Closing' = Closing /\ Closing \subseteq Node /\ \A k : Uses(k)' = Uses(k)
    BY <1>14 DEF MessageFails, Closing, Visited, Uses
  <2>3. Life'
    BY <1>14, <2>1, <2>2 DEF MessageFails, Life, SameNodes, CountsKept, GrantsKept, MarksKept
  <2>4. Opening'
    BY <1>14, <2>1, OpeningKept DEF MessageFails
  <2>5. Counts'
    BY <1>14, <2>1, <2>2 DEF MessageFails, Counts, Opening, SameNodes, CountsKept, Has
  <2>6. Grants'
    BY <1>14, <2>1, VisitedIn DEF MessageFails, Grants, Opening, SameNodes, GrantsKept, Inbound, Visited, Has, Places, Granted
  <2> QED BY <2>3, <2>4, <2>5, <2>6
<1>15. ASSUME NEW t \in Opener, OpenNetworkConnection(t) PROVE Life' /\ Opening' /\ Counts' /\ Grants'
  <2>1. Closing' = Closing /\ \A n : Uses(n)' = Uses(n)
    BY <1>15 DEF OpenNetworkConnection, Closing, Visited, Uses
  <2>2. op[t].pc = "open" /\ op'[t] = [op[t] EXCEPT !.pc = "connect"]
    BY <1>15 DEF OpenNetworkConnection, Attempt
  <2>3. \A u \in Opener : u = t
    BY DEF OneOpener
  <2>4. Life'
    BY <1>15, <2>1 DEF OpenNetworkConnection, Life
  <2>5. Opening'
    BY <1>15, <2>2, <2>3 DEF OpenNetworkConnection, Known, Opening, FindNodeService, FindNodeIP, Has, Attempt
  <2>6. Counts'
    BY <1>15, <2>1, <2>2, <2>3 DEF OpenNetworkConnection, Counts, Has, Attempt
  <2>7. Grants'
    BY <1>15, <2>2, <2>3 DEF OpenNetworkConnection, Grants, Opening, Inbound, Visited, Attempt, Granted
  <2> QED BY <2>4, <2>5, <2>6, <2>7
<1>16. ASSUME NEW t \in Opener, OpenRefused(t) PROVE Life' /\ Opening' /\ Counts' /\ Grants'
  <2>1. Closing' = Closing /\ \A n : Uses(n)' = Uses(n)
    BY <1>16 DEF OpenRefused, Closing, Visited, Uses
  <2>2. op'[t] = Idle /\ op[t].pc = "open"
    BY <1>16 DEF OpenRefused, Attempt, EndAttempt
  <2>3. \A u \in Opener : u = t
    BY DEF OneOpener
  <2>4. Life'
    BY <1>16, <2>1 DEF OpenRefused, Life
  <2>5. Opening'
    BY <1>16, <2>2, <2>3 DEF OpenRefused, Opening, Has, Idle
  <2>6. Counts'
    BY <1>16, <2>1, <2>2, <2>3 DEF OpenRefused, Counts, Has, Idle
  <2>7. Grants'
    BY <1>16, <2>2, <2>3 DEF OpenRefused, Grants, Inbound, Visited, Idle, Granted
  <2> QED BY <2>4, <2>5, <2>6, <2>7
<1>17. ASSUME NEW t \in Opener, ConnectNode(t) PROVE Life' /\ Opening' /\ Counts' /\ Grants'
  <2>1. Closing' = Closing /\ \A n : Uses(n)' = Uses(n)
    BY <1>17 DEF ConnectNode, Closing, Visited, Uses
  <2>2. op[t].pc = "connect" /\ op'[t] = [op[t] EXCEPT !.pc = "dial"]
    <3>1. (IF ByName(op[t].way) THEN {} ELSE FindNodeService(op[t].dest)) = {}
      BY <1>17 DEF ConnectNode, Opening
    <3> QED BY <1>17, <3>1 DEF ConnectNode, Attempt
  <2>3. \A u \in Opener : u = t
    BY DEF OneOpener
  <2>4. Life'
    BY <1>17, <2>1 DEF ConnectNode, Life
  <2>5. Opening'
    <3>1. op[t] \in Attempt /\ op[t].nRead = 0
      BY DEF Opening
    <3>2. op'[t].pc = "dial" /\ op'[t].nRead = 0
      BY <2>2, <3>1 DEF Attempt
    <3> QED BY <2>3, <3>2, SMTT(40) DEF Opening, Has
  <2>6. Counts'
    BY <1>17, <2>1, <2>2, <2>3 DEF ConnectNode, Counts, Has, Attempt
  <2>7. Grants'
    BY <1>17, <2>2, <2>3 DEF ConnectNode, Grants, Opening, Inbound, Visited, Attempt, Granted
  <2> QED BY <2>4, <2>5, <2>6, <2>7
<1>18. ASSUME NEW t \in Opener, DialFails(t) PROVE Life' /\ Opening' /\ Counts' /\ Grants'
  <2>1. Closing' = Closing /\ \A n : Uses(n)' = Uses(n)
    BY <1>18 DEF DialFails, Closing, Visited, Uses
  <2>2. op'[t] = Idle /\ op[t].pc = "dial"
    BY <1>18 DEF DialFails, Attempt, EndAttempt
  <2>3. \A u \in Opener : u = t
    BY DEF OneOpener
  <2>4. Life'
    BY <1>18, <2>1 DEF DialFails, Life
  <2>5. Opening'
    BY <1>18, <2>2, <2>3 DEF DialFails, Opening, Has, Idle
  <2>6. Counts'
    BY <1>18, <2>1, <2>2, <2>3 DEF DialFails, Counts, Has, Idle
  <2>7. Grants'
    BY <1>18, <2>2, <2>3 DEF DialFails, Grants, Inbound, Visited, Idle, Granted
  <2> QED BY <2>4, <2>5, <2>6, <2>7
<1>19. ASSUME NEW t \in Opener, FoundRead(t) PROVE Life' /\ Opening' /\ Counts' /\ Grants'
  BY <1>19 DEF FoundRead, Opening
<1>20. ASSUME NEW t \in Opener, FoundAddRef(t) PROVE Life' /\ Opening' /\ Counts' /\ Grants'
  BY <1>20 DEF FoundAddRef, Opening
<1>21. ASSUME NEW t \in Opener, MoveRelease(t) PROVE Life' /\ Opening' /\ Counts' /\ Grants'
  <2>1. Closing' = Closing /\ \A n : Uses(n)' = Uses(n)
    BY <1>21 DEF MoveRelease, Closing, Visited, Uses
  <2>2. op[t].pc = "move" /\ op'[t] = [op[t] EXCEPT !.pc = "take"]
    BY <1>21 DEF MoveRelease, Attempt
  <2>3. \A u \in Opener : u = t
    BY DEF OneOpener
  <2>4. Life'
    BY <1>21, <2>1 DEF MoveRelease, Life
  <2>5. Opening'
    BY <1>21, <2>2, <2>3 DEF MoveRelease, Opening, FindNodeService, FindNodeIP, Has, Attempt
  <2>6. Counts'
    BY <1>21, <2>1, <2>2, <2>3 DEF MoveRelease, Counts, Has, Attempt
  <2>7. Grants'
    BY <1>21, <2>2, <2>3 DEF MoveRelease, Grants, Opening, Inbound, Visited, Attempt, Granted
  <2> QED BY <2>4, <2>5, <2>6, <2>7
<1>22. ASSUME NEW t \in Opener, MoveTake(t) PROVE Life' /\ Opening' /\ Counts' /\ Grants'
  <2>1. /\ op[t].pc = "take" /\ op'[t].pc = "mark" /\ ~op'[t].fHaveGrant
        /\ op'[t].pnode = op[t].pnode /\ op'[t].nRead = op[t].nRead
        /\ op'[t].way = op[t].way
    BY <1>22 DEF MoveTake, Attempt
  <2>2. \A u \in Opener : u = t
    BY DEF OneOpener
  <2> DEFINE n == op[t].pnode
  <2>3. n \in Node /\ node[n].state = "live" /\ ~node[n].fInbound
    BY <2>1 DEF Opening, Has
  <2>4. SameNodes /\ CountsKept /\ MarksKept
    BY <1>22 DEF MoveTake, SameNodes, CountsKept, MarksKept, Memory
  <2>5. node'[n].fHaveGrant /\ \A k \in Node \ {n} : node'[k].fHaveGrant = node[k].fHaveGrant
    BY <1>22, <2>3 DEF MoveTake, Memory
  <2>6. Closing' = Closing /\ Closing \subseteq Node /\ \A k : Uses(k)' = Uses(k)
    BY <1>22 DEF MoveTake, Closing, Visited, Uses
  <2> HIDE DEF n
  <2>7. Life'
    <3>1. UNCHANGED <<vNodes, vNodesDisconnected, sock, msgCopy, msgBusy>>
      BY <1>22 DEF MoveTake
    <3> QED BY <3>1, <2>3, <2>4, <2>5, <2>6 DEF Life, SameNodes, CountsKept, MarksKept
  <2>8. Opening'
    BY <1>22, <2>1, <2>2, <2>3, <2>4 DEF MoveTake, Opening, SameNodes, MarksKept, Has, n
  <2>9. Counts'
    BY <1>22, <2>1, <2>2, <2>3, <2>4, <2>6 DEF MoveTake, Counts, SameNodes, CountsKept, Has, n
  <2>10. Grants'
    <3>1. sock.pc = "clear" => Visited \in Node
      BY VisitedIn DEF Places
    <3> QED BY <1>22, <3>1, <2>1, <2>2, <2>3, <2>4, <2>5 DEF MoveTake, Grants, SameNodes, Inbound, Visited, n, Granted
  <2> QED BY <2>7, <2>8, <2>9, <2>10
<1>23. ASSUME NEW t \in Opener, MarkNetworkNode(t) PROVE Life' /\ Opening' /\ Counts' /\ Grants'
  <2>1. /\ op[t].pc = "mark" /\ ~op[t].fHaveGrant
        /\ op'[t].pc \in {"idle", "oneshot"} /\ ~op'[t].fHaveGrant /\ op'[t].nRead = 0
    <3>1. op[t].pc = "mark" /\ ~op[t].fHaveGrant /\ op[t].nRead = 0
      BY <1>23 DEF MarkNetworkNode, Grants, Opening
    <3>2. op'[t] = Idle \/ op'[t] = [op[t] EXCEPT !.pc = "oneshot"]
      BY <1>23 DEF MarkNetworkNode, EndAttempt
    <3> QED BY <3>1, <3>2 DEF Idle, Attempt
  <2>2. \A u \in Opener : u = t
    BY DEF OneOpener
  <2> DEFINE n == op[t].pnode
  <2>3. n \in Node /\ node[n].state = "live" /\ ~node[n].fInbound
    BY <2>1 DEF Opening, Has
  <2>4. SameNodes /\ CountsKept /\ GrantsKept
    BY <1>23 DEF MarkNetworkNode, SameNodes, CountsKept, GrantsKept, Memory
  <2>5. \A k \in Node \ {n} : node'[k].fNetworkNode = node[k].fNetworkNode
    BY <1>23, <2>3 DEF MarkNetworkNode, Memory
  <2>6. Closing' = Closing /\ Closing \subseteq Node /\ \A k : Uses(k)' = Uses(k)
    BY <1>23 DEF MarkNetworkNode, Closing, Visited, Uses
  <2> HIDE DEF n
  <2>7. Life'
    <3>1. UNCHANGED <<vNodes, vNodesDisconnected, sock, msgCopy, msgBusy>>
      BY <1>23 DEF MarkNetworkNode
    <3> QED BY <3>1, <2>3, <2>4, <2>5, <2>6 DEF Life, SameNodes, CountsKept, GrantsKept
  <2>8. Opening'
    BY <1>23, <2>1, <2>2 DEF MarkNetworkNode, Opening, Has
  <2>9. Counts'
    BY <1>23, <2>1, <2>2, <2>4, <2>6 DEF MarkNetworkNode, Counts, SameNodes, CountsKept, Has
  <2>10. Grants'
    <3>1. sock.pc = "clear" => Visited \in Node
      BY VisitedIn DEF Places
    <3> QED BY <1>23, <3>1, <2>1, <2>2, <2>3, <2>4 DEF MarkNetworkNode, Grants, SameNodes, GrantsKept, Inbound, Visited, Granted
  <2> QED BY <2>7, <2>8, <2>9, <2>10
<1>24. ASSUME NEW t \in Opener, NEW a \in Addr, NEW fail \in BOOLEAN, Dial(t, a, fail)
       PROVE Life' /\ Opening' /\ Counts' /\ Grants'
  <2>1. Closing = {} /\ Closing' = {}
    BY <1>24 DEF Dial, Construct, VNodesFree, Closing
  <2> DEFINE n == Min(Fresh)
             how == [way |-> op[t].way, addrName |-> op[t].dest]
  <2>2. n \in Fresh /\ Adds(n, a, FALSE, how)
    BY <1>24, Constructs DEF Dial, Attempt, Origin
  <2>3. op[t].pc = "dial" /\ how.way = op[t].way /\ op'[t] = AfterDial(t, n)
    BY <1>24 DEF Dial
  <2>4. \A u \in Opener : u = t
    BY DEF OneOpener
  <2> HIDE DEF n, how
  <2>5. \A k : Uses(k)' = Uses(k)
    BY <1>24 DEF Dial, Uses
  <2>6. n \notin msgCopy /\ n \notin vNodesDisconnected /\ n \notin early /\ Uses(n) = 0
    BY <1>24, <2>2 DEF Dial, Life, Counts, Adds, Uses, Fresh
  <2>7. /\ op'[t].pc \notin {"found", "addref", "connect", "take"} /\ op'[t].nRead = 0
        /\ Has(t)' => op'[t].pnode = n
        /\ op'[t].pc = "move" => WithGrant(op[t].way)
        /\ WithGrant(op[t].way) => op'[t].pc = "move" /\ op'[t].pnode = n
        /\ op'[t].fHaveGrant <=> op'[t].pc \notin {"idle", "mark", "oneshot"} /\ WithGrant(op'[t].way)
        /\ op'[t].pc = "move" => op'[t].way = op[t].way
    <3>1. op[t].nRead = 0 /\ (op[t].fHaveGrant <=> WithGrant(op[t].way)) /\ op[t] \in Attempt
      BY <2>3 DEF Opening, Grants
    <3>2. CASE op[t].way = "onetry"
      BY <2>3, <3>1, <3>2 DEF AfterDial, Idle, Has, WithGrant
    <3>3. CASE op[t].way # "onetry"
      <4>1. op'[t] = [op[t] EXCEPT !.pc = IF WithGrant(op[t].way) THEN "move" ELSE "mark", !.pnode = n]
        BY <2>3, <3>3 DEF AfterDial
      <4> QED BY <3>1, <4>1 DEF Has, Attempt
    <3> QED BY <3>2, <3>3
  <2>8. Life'
    BY <1>24, <2>1, <2>2, <2>6 DEF Dial, Life, Adds
  <2>9. Opening'
    <3>1. Has(t)' => /\ op'[t].pnode \in Node /\ node'[op'[t].pnode].state = "live"
                     /\ ~node'[op'[t].pnode].fInbound /\ ~node'[op'[t].pnode].fNetworkNode
      BY <2>2, <2>7 DEF Adds, Fresh, Life
    <3> QED BY <3>1, <2>4, <2>7 DEF Opening
  <2>10. Counts'
    BY <1>24, <2>1, <2>2, <2>4, <2>5, <2>6, <2>7 DEF Dial, Counts, Adds, Has
  <2>11. Grants'
    <3>1. sock.pc # "clear"
      BY <1>24 DEF Dial, Construct, VNodesFree
    <3> QED BY <1>24, <3>1, <2>2, <2>3, <2>4, <2>7 DEF Dial, Grants, Granted, Life, Adds, Inbound
  <2> QED BY <2>8, <2>9, <2>10, <2>11
<1>25. ASSUME NEW t \in Opener, NEW way \in Way, NEW d \in Dest,
              Acquire(t, way, d) \/ TryWithout(t, way, d)
       PROVE Life' /\ Opening' /\ Counts' /\ Grants'
  <2>1. Closing' = Closing /\ \A n : Uses(n)' = Uses(n)
    BY <1>25 DEF Acquire, TryWithout, Closing, Visited, Uses
  <2>2. op[t].pc = "idle" /\ op'[t] = NewAttempt(way, d)
    BY <1>25 DEF Acquire, TryWithout, Attempt
  <2>3. \A u \in Opener : u = t
    BY DEF OneOpener
  <2>4. /\ op'[t].pc = (IF way = "onetry" THEN "connect" ELSE "open") /\ op'[t].nRead = 0
        /\ op'[t].way = way /\ op'[t].fHaveGrant = WithGrant(way)
    BY <2>2 DEF NewAttempt, Idle
  <2>5. Life'
    BY <1>25, <2>1 DEF Acquire, TryWithout, Life
  <2>6. Opening'
    BY <2>3, <2>4 DEF Opening, Has, ByName
  <2>7. Counts'
    BY <1>25, <2>1, <2>3, <2>4 DEF Acquire, TryWithout, Counts, Has
  <2>8. Grants'
    BY <1>25, <2>2, <2>3, <2>4 DEF Acquire, TryWithout, Grants, Granted, Inbound, Visited
  <2> QED BY <2>5, <2>6, <2>7, <2>8
<1>26. ASSUME NEW t \in Opener, MarkOneShot(t) PROVE Life' /\ Opening' /\ Counts' /\ Grants'
  <2>1. Closing' = Closing /\ \A n : Uses(n)' = Uses(n)
    BY <1>26 DEF MarkOneShot, Closing, Visited, Uses
  <2>2. op'[t] = Idle /\ op[t].pc = "oneshot"
    BY <1>26 DEF MarkOneShot, Attempt, EndAttempt
  <2>3. \A u \in Opener : u = t
    BY DEF OneOpener
  <2>4. Life'
    BY <1>26, <2>1 DEF MarkOneShot, Life
  <2>5. Opening'
    BY <1>26, <2>2, <2>3 DEF MarkOneShot, Opening, Has, Idle
  <2>6. Counts'
    BY <1>26, <2>1, <2>2, <2>3 DEF MarkOneShot, Counts, Has, Idle
  <2>7. Grants'
    BY <1>26, <2>2, <2>3 DEF MarkOneShot, Grants, Inbound, Visited, Idle, Granted
  <2> QED BY <2>4, <2>5, <2>6, <2>7
<1>27. CASE UNCHANGED vars
  BY <1>27 DEF vars, Life, Opening, Counts, Grants, Granted, Closing, Visited, Uses, Has, FindNodeService, Inbound
<1> QED
  BY <1>1, <1>2, <1>3, <1>4, <1>5, <1>6, <1>7, <1>8, <1>9, <1>10, <1>11,
     <1>12, <1>13, <1>14, <1>15, <1>16, <1>17, <1>18, <1>19, <1>20, <1>21,
     <1>22, <1>23, <1>24, <1>25, <1>26, <1>27
     DEF Next, SocketThread, MessageThread, OpenerThread

(* Who holds a grant: threads and nodes.                                   *)
Takers == {t \in Opener : op[t].fHaveGrant}
Holders == {n \in Node : node[n].fHaveGrant /\ ~(sock.pc = "clear" /\ n = Visited)}

GrantSum ==
  semOutbound \in Nat /\ semOutbound + Cardinality(Takers) + Cardinality(Holders) = MaxOutbound

(* The nodes with a grant can be counted, ...                              *)
LEMMA HoldersFinite == IsFiniteSet(Holders) /\ Cardinality(Holders) \in Nat
  BY NodeFinite, FS_Subset, FS_CardinalityType DEF Holders

(* ... and so can the threads with one.                                    *)
LEMMA TakersFinite == OneOpener => IsFiniteSet(Takers) /\ Cardinality(Takers) \in Nat
<1> SUFFICES ASSUME OneOpener PROVE IsFiniteSet(Takers)
  BY FS_CardinalityType
<1>1. CASE Takers = {}
  BY <1>1, FS_EmptySet
<1>2. CASE Takers # {}
  <2>1. PICK t \in Takers : TRUE
    BY <1>2
  <2>2. Takers = {t}
    BY <2>1 DEF Takers, OneOpener
  <2> QED BY <2>2, FS_Singleton
<1> QED BY <1>1, <1>2

(* The two numbers whose sum a step keeps.                                 *)
LEMMA SumType == OneOpener => Cardinality(Takers) \in Nat /\ Cardinality(Holders) \in Nat
  BY TakersFinite, HoldersFinite

(* Nobody takes a grant or gives one up.                                   *)
LEMMA SumKept ==
  ASSUME GrantSum, semOutbound' = semOutbound, Takers' = Takers, Holders' = Holders
  PROVE  GrantSum'
  BY DEF GrantSum

(* Nodes that keep their grants.                                           *)
LEMMA HoldersKept ==
  ASSUME GrantsKept, sock' = sock
  PROVE  Holders' = Holders
  BY DEF GrantsKept, Holders, Visited

(* An attempt that ends gives back the grant it has.                       *)
LEMMA SumEnd ==
  ASSUME OneOpener, PairInv, GrantSum, NEW t \in Opener, EndAttempt(t), Holders' = Holders
  PROVE  GrantSum'
<1>1. ~op'[t].fHaveGrant /\ \A u \in Opener : u = t
  BY DEF EndAttempt, Idle, PairInv, Types, OneOpener
<1>2. Takers' = {}
  BY <1>1 DEF Takers
<1>3. CASE op[t].fHaveGrant
  <2>1. Takers = {t} /\ semOutbound' = semOutbound + 1
    BY <1>1, <1>3 DEF Takers, EndAttempt
  <2>2. Cardinality(Takers) = 1 /\ Cardinality(Takers') = 0
    BY <1>2, <2>1, FS_EmptySet, FS_Singleton
  <2> QED BY <2>1, <2>2, SumType DEF GrantSum
<1>4. CASE ~op[t].fHaveGrant
  <2>1. Takers = {} /\ semOutbound' = semOutbound
    BY <1>1, <1>4 DEF Takers, EndAttempt
  <2> QED BY <1>2, <2>1, SumKept
<1> QED BY <1>3, <1>4

(* A grant only changes hands.                                             *)
LEMMA SumStep ==
  ASSUME OneOpener, PairInv, OneInv, GrantSum, [Next]_vars
  PROVE  GrantSum'
<1> USE DEF Types
<1> Types /\ Places /\ Dialling /\ Life /\ Opening /\ Counts /\ Grants
  BY DEF PairInv, OneInv
<1> MaxOutbound \in Nat
  BY ConnectionsAssumption
<1>1. ASSUME StartPass PROVE GrantSum'
  <2>1. semOutbound' = semOutbound /\ Takers' = Takers /\ Holders' = Holders
    BY <1>1 DEF StartPass, Takers, Holders
  <2> QED BY <2>1, SumKept
<1>2. ASSUME KeepNode PROVE GrantSum'
  <2>1. semOutbound' = semOutbound /\ Takers' = Takers /\ Holders' = Holders
    BY <1>2 DEF KeepNode, Takers, Holders
  <2> QED BY <2>1, SumKept
<1>3. ASSUME DisconnectNode PROVE GrantSum'
  <2>1. Visited \in Node /\ sock.pc = "disconnect" /\ Takers' = Takers /\ Visited' = Visited
    BY <1>3, VisitedIn DEF DisconnectNode, Takers, Visited
  <2>2. CASE node[Visited].fHaveGrant
    <3>1. sock'.pc = "clear" /\ semOutbound' = semOutbound + 1
      BY <1>3, <2>2 DEF DisconnectNode
    <3>2. Visited \in Holders
      BY <2>1, <2>2 DEF Holders
    <3>3. Holders' = Holders \ {Visited}
      BY <1>3, <2>1, <3>1 DEF DisconnectNode, Holders
    <3>4. Cardinality(Holders') = Cardinality(Holders) - 1
      BY <3>2, <3>3, FS_RemoveElement, HoldersFinite
    <3> QED BY <2>1, <3>1, <3>4, SumType DEF GrantSum
  <2>3. CASE ~node[Visited].fHaveGrant
    <3>1. sock'.pc = "close" /\ semOutbound' = semOutbound
      BY <1>3, <2>3 DEF DisconnectNode
    <3>2. Holders' = Holders
      BY <1>3, <2>1, <2>3, <3>1 DEF DisconnectNode, Holders
    <3> QED BY <2>1, <3>1, <3>2, SumKept
  <2> QED BY <2>2, <2>3
<1>4. ASSUME ClearGrant PROVE GrantSum'
  <2>1. Visited \in Node /\ Visited' = Visited
    BY <1>4, VisitedIn DEF ClearGrant, Places, Visited
  <2>2. /\ node'[Visited].fHaveGrant = FALSE
        /\ \A n \in Node \ {Visited} : node'[n].fHaveGrant = node[n].fHaveGrant
    BY <1>4, <2>1 DEF ClearGrant, Memory
  <2>3. sock.pc = "clear" /\ sock'.pc = "close"
    BY <1>4 DEF ClearGrant
  <2>4. Holders' = Holders
    BY <2>1, <2>2, <2>3 DEF Holders
  <2>5. semOutbound' = semOutbound /\ Takers' = Takers
    BY <1>4 DEF ClearGrant, Takers
  <2> QED BY <2>4, <2>5, SumKept
<1>5. ASSUME CloseNode PROVE GrantSum'
  <2>1. GrantsKept
    <3>1. Closed(Visited).fHaveGrant = node[Visited].fHaveGrant
      BY <1>5, VisitedIn DEF CloseNode, Places, Closed, Memory
    <3> QED BY <1>5, <3>1 DEF CloseNode, GrantsKept
  <2>2. semOutbound' = semOutbound /\ Takers' = Takers
    BY <1>5 DEF CloseNode, Takers
  <2>3. sock.pc # "clear" /\ sock'.pc # "clear"
    BY <1>5 DEF CloseNode
  <2>4. Holders' = Holders
    BY <2>1, <2>3 DEF Holders, GrantsKept
  <2> QED BY <2>2, <2>4, SumKept
<1>6. ASSUME DeleteNodes PROVE GrantSum'
  <2> DEFINE D == {n \in Deletable : node[n].fHaveGrant}
  <2>1. sock.pc # "clear" /\ sock'.pc # "clear" /\ Deletable \subseteq Node
    BY <1>6 DEF DeleteNodes, Deletable
  <2>2. D \subseteq Holders
    BY <2>1 DEF Holders
  <2>3. /\ \A n \in Node \ Deletable : node'[n] = node[n]
        /\ \A n \in Deletable : ~node'[n].fHaveGrant
    BY <1>6, <2>1 DEF DeleteNodes, NoCNode
  <2>4. Holders' = Holders \ D
    BY <2>1, <2>3 DEF Holders
  <2>5. semOutbound' = semOutbound + Cardinality(D) /\ Takers' = Takers
    BY <1>6 DEF DeleteNodes, Takers
  <2> HIDE DEF D
  <2>6. /\ IsFiniteSet(D) /\ Cardinality(D) \in Nat
        /\ Cardinality(Holders') = Cardinality(Holders) - Cardinality(D)
    <3>1. IsFiniteSet(D) /\ Holders \cap D = D
      BY <2>2, HoldersFinite, FS_Subset
    <3>2. Cardinality(Holders \ D) = Cardinality(Holders) - Cardinality(Holders \cap D)
      BY HoldersFinite, FS_Difference, Zenon
    <3>3. Cardinality(D) \in Nat
      BY <3>1, FS_CardinalityType, Zenon
    <3> QED BY <3>1, <3>2, <3>3, <2>4, Zenon
  <2> QED BY <2>5, <2>6, SumType DEF GrantSum
<1>7. ASSUME AcceptNone PROVE GrantSum'
  <2>1. semOutbound' = semOutbound /\ Takers' = Takers /\ Holders' = Holders
    BY <1>7 DEF AcceptNone, Takers, Holders
  <2> QED BY <2>1, SumKept
<1>8. ASSUME CopyNodes PROVE GrantSum'
  <2>1. GrantsKept
    BY <1>8, CountsMove DEF CopyNodes
  <2>2. semOutbound' = semOutbound /\ Takers' = Takers /\ sock.pc # "clear" /\ sock'.pc # "clear"
    BY <1>8 DEF CopyNodes, Takers
  <2>3. Holders' = Holders
    BY <2>1, <2>2 DEF Holders, GrantsKept
  <2> QED BY <2>2, <2>3, SumKept
<1>9. ASSUME EndPass PROVE GrantSum'
  <2>1. GrantsKept
    BY <1>9, CountsMove DEF EndPass
  <2>2. semOutbound' = semOutbound /\ Takers' = Takers /\ sock.pc # "clear" /\ sock'.pc # "clear"
    BY <1>9 DEF EndPass, Takers
  <2>3. Holders' = Holders
    BY <2>1, <2>2 DEF Holders, GrantsKept
  <2> QED BY <2>2, <2>3, SumKept
<1>10. ASSUME NEW a \in Addr, Accept(a) PROVE GrantSum'
  <2>1. PICK n \in Fresh, how \in Origin : Adds(n, a, TRUE, how)
    BY <1>10, AcceptAdds
  <2>2. GrantsKept
    BY <2>1 DEF Adds, GrantsKept
  <2>3. semOutbound' = semOutbound /\ Takers' = Takers /\ sock.pc # "clear" /\ sock'.pc # "clear"
    BY <1>10 DEF Accept, Takers
  <2>4. Holders' = Holders
    BY <2>2, <2>3 DEF Holders, GrantsKept
  <2> QED BY <2>3, <2>4, SumKept
<1>11. ASSUME NEW n \in Node, ServiceFails(n) PROVE GrantSum'
  <2>1. GrantsKept
    BY <1>11 DEF ServiceFails, GrantsKept, Memory
  <2>2. semOutbound' = semOutbound /\ Takers' = Takers /\ Holders' = Holders
    BY <1>11, <2>1, HoldersKept DEF ServiceFails, Takers
  <2> QED BY <2>2, SumKept
<1>12. ASSUME MessageCopy PROVE GrantSum'
  <2>1. GrantsKept
    BY <1>12, CountsMove DEF MessageCopy
  <2>2. semOutbound' = semOutbound /\ Takers' = Takers /\ Holders' = Holders
    BY <1>12, <2>1, HoldersKept DEF MessageCopy, Takers
  <2> QED BY <2>2, SumKept
<1>13. ASSUME MessageEnd PROVE GrantSum'
  <2>1. GrantsKept
    BY <1>13, CountsMove DEF MessageEnd
  <2>2. semOutbound' = semOutbound /\ Takers' = Takers /\ Holders' = Holders
    BY <1>13, <2>1, HoldersKept DEF MessageEnd, Takers
  <2> QED BY <2>2, SumKept
<1>14. ASSUME NEW n \in Node, MessageFails(n) PROVE GrantSum'
  <2>1. GrantsKept
    BY <1>14 DEF MessageFails, GrantsKept, Memory
  <2>2. semOutbound' = semOutbound /\ Takers' = Takers /\ Holders' = Holders
    BY <1>14, <2>1, HoldersKept DEF MessageFails, Takers
  <2> QED BY <2>2, SumKept
<1>15. ASSUME NEW t \in Opener, OpenNetworkConnection(t) PROVE GrantSum'
  <2>1. semOutbound' = semOutbound /\ Takers' = Takers /\ Holders' = Holders
    BY <1>15 DEF OpenNetworkConnection, Takers, Holders, Visited, Attempt
  <2> QED BY <2>1, SumKept
<1>16. ASSUME NEW t \in Opener, OpenRefused(t) PROVE GrantSum'
  <2>1. Holders' = Holders /\ EndAttempt(t)
    BY <1>16 DEF OpenRefused, Holders, Visited
  <2> QED BY <2>1, SumEnd
<1>17. ASSUME NEW t \in Opener, ConnectNode(t) PROVE GrantSum'
  <2>1. semOutbound' = semOutbound /\ Takers' = Takers /\ Holders' = Holders
    BY <1>17 DEF ConnectNode, Takers, Holders, Visited, Attempt
  <2> QED BY <2>1, SumKept
<1>18. ASSUME NEW t \in Opener, DialFails(t) PROVE GrantSum'
  <2>1. Holders' = Holders /\ EndAttempt(t)
    BY <1>18 DEF DialFails, Holders, Visited
  <2> QED BY <2>1, SumEnd
<1>19. ASSUME NEW t \in Opener, FoundRead(t) PROVE GrantSum'
  BY <1>19 DEF FoundRead, Opening
<1>20. ASSUME NEW t \in Opener, FoundAddRef(t) PROVE GrantSum'
  BY <1>20 DEF FoundAddRef, Opening
<1>21. ASSUME NEW t \in Opener, MoveRelease(t) PROVE GrantSum'
  <2>1. ~node[op[t].pnode].fHaveGrant
    BY <1>21 DEF MoveRelease, Grants
  <2>2. semOutbound' = semOutbound /\ Takers' = Takers /\ Holders' = Holders
    BY <1>21, <2>1 DEF MoveRelease, Takers, Holders, Visited, Attempt
  <2> QED BY <2>2, SumKept
<1>22. ASSUME NEW t \in Opener, MoveTake(t) PROVE GrantSum'
  <2> DEFINE n == op[t].pnode
  <2>1. n \in Node /\ op[t].fHaveGrant /\ ~node[n].fHaveGrant /\ ~op'[t].fHaveGrant
    BY <1>22 DEF MoveTake, Opening, Grants, Has, Attempt
  <2>2. node'[n].fHaveGrant /\ \A k \in Node \ {n} : node'[k].fHaveGrant = node[k].fHaveGrant
    BY <1>22, <2>1 DEF MoveTake, Memory
  <2>3. sock' = sock /\ Visited' = Visited /\ semOutbound' = semOutbound
    BY <1>22 DEF MoveTake, Visited
  <2> HIDE DEF n
  <2>4. n \notin Holders /\ Holders' = Holders \cup {n}
    BY <2>1, <2>2, <2>3 DEF Holders, Grants
  <2>5. Cardinality(Holders') = Cardinality(Holders) + 1
    BY <2>4, FS_AddElement, HoldersFinite
  <2>6. Takers = {t} /\ Takers' = {}
    BY <2>1 DEF Takers, OneOpener
  <2>7. Cardinality(Takers) = 1 /\ Cardinality(Takers') = 0
    BY <2>6, FS_EmptySet, FS_Singleton
  <2> QED BY <2>3, <2>5, <2>7, SumType DEF GrantSum
<1>23. ASSUME NEW t \in Opener, MarkNetworkNode(t) PROVE GrantSum'
  <2>1. GrantsKept
    BY <1>23 DEF MarkNetworkNode, GrantsKept, Memory
  <2>2. ~op[t].fHaveGrant
    BY <1>23 DEF MarkNetworkNode, Grants
  <2>3. semOutbound' = semOutbound /\ Takers' = Takers
    <3>1. CASE op[t].way = "oneshot"
      BY <1>23, <3>1 DEF MarkNetworkNode, Takers, Attempt
    <3>2. CASE op[t].way # "oneshot"
      BY <1>23, <2>2, <3>2 DEF MarkNetworkNode, EndAttempt, Idle, Takers
    <3> QED BY <3>1, <3>2
  <2>4. Holders' = Holders
    BY <1>23, <2>1, HoldersKept DEF MarkNetworkNode
  <2> QED BY <2>3, <2>4, SumKept
<1>24. ASSUME NEW t \in Opener, NEW a \in Addr, NEW fail \in BOOLEAN, Dial(t, a, fail)
       PROVE GrantSum'
  <2>1. GrantsKept
    <3>1. PICK n \in Fresh, how \in Origin : Adds(n, a, FALSE, how)
      BY <1>24, DialAdds
    <3> QED BY <3>1 DEF Adds, GrantsKept
  <2>2. semOutbound' = semOutbound
    BY <1>24 DEF Dial
  <2>3. Takers' = Takers
    <3>1. op[t].fHaveGrant <=> WithGrant(op[t].way)
      BY <1>24 DEF Dial, Grants
    <3>2. op'[t].fHaveGrant <=> op[t].fHaveGrant
      BY <1>24, <3>1 DEF Dial, AfterDial, Idle, WithGrant, Attempt
    <3> QED BY <1>24, <3>2 DEF Dial, Takers
  <2>4. Holders' = Holders
    BY <1>24, <2>1, HoldersKept DEF Dial
  <2> QED BY <2>2, <2>3, <2>4, SumKept
<1>25. ASSUME NEW t \in Opener, NEW way \in Way, NEW d \in Dest, Acquire(t, way, d)
       PROVE GrantSum'
  <2>1. ~op[t].fHaveGrant /\ op'[t].fHaveGrant
    BY <1>25 DEF Acquire, NewAttempt, Idle, Grants
  <2>2. semOutbound' = semOutbound - 1 /\ semOutbound > 0
    BY <1>25 DEF Acquire
  <2>3. Holders' = Holders
    BY <1>25 DEF Acquire, Holders, Visited
  <2>4. Takers = {} /\ Takers' = {t}
    BY <2>1 DEF Takers, OneOpener
  <2>5. Cardinality(Takers) = 0 /\ Cardinality(Takers') = 1
    BY <2>4, FS_EmptySet, FS_Singleton
  <2> QED BY <2>2, <2>3, <2>5, SumType DEF GrantSum
<1>26. ASSUME NEW t \in Opener, NEW way \in Way, NEW d \in Dest, TryWithout(t, way, d)
       PROVE GrantSum'
  <2>1. ~op[t].fHaveGrant /\ ~op'[t].fHaveGrant /\ \A u \in Opener \ {t} : op'[u] = op[u]
    BY <1>26 DEF TryWithout, NewAttempt, Idle, Grants
  <2>2. semOutbound' = semOutbound /\ Takers' = Takers /\ Holders' = Holders
    BY <1>26, <2>1 DEF TryWithout, Takers, Holders, Visited
  <2> QED BY <2>2, SumKept
<1>27. ASSUME NEW t \in Opener, MarkOneShot(t) PROVE GrantSum'
  <2>1. Holders' = Holders /\ EndAttempt(t)
    BY <1>27 DEF MarkOneShot, Holders, Visited
  <2> QED BY <2>1, SumEnd
<1>28. CASE UNCHANGED vars
  <2>1. semOutbound' = semOutbound /\ Takers' = Takers /\ Holders' = Holders
    BY <1>28 DEF vars, Takers, Holders, Visited
  <2> QED BY <2>1, SumKept
<1> QED
  BY <1>1, <1>2, <1>3, <1>4, <1>5, <1>6, <1>7, <1>8, <1>9, <1>10, <1>11,
     <1>12, <1>13, <1>14, <1>15, <1>16, <1>17, <1>18, <1>19, <1>20, <1>21,
     <1>22, <1>23, <1>24, <1>25, <1>26, <1>27, <1>28
     DEF Next, SocketThread, MessageThread, OpenerThread

(* Only the socket thread makes inbound nodes, and it counts them first.   *)
InboundBounded == Cardinality(Inbound) <= MaxInbound

(* Every step keeps the number of inbound nodes within its bound.          *)
LEMMA InboundStep ==
  ASSUME PairInv, InboundBounded, [Next]_vars
  PROVE  InboundBounded'
<1> Types /\ Places /\ MaxInbound \in Nat
  BY ConnectionsAssumption DEF PairInv
<1> USE DEF Types
<1>1. IsFiniteSet(Inbound) /\ Cardinality(Inbound) \in Nat
  BY NodeFinite, FS_Subset, FS_CardinalityType DEF Inbound
<1>2. ASSUME Inbound' \subseteq Inbound PROVE InboundBounded'
  <2>1. Cardinality(Inbound') <= Cardinality(Inbound) /\ Cardinality(Inbound') \in Nat
    BY <1>1, <1>2, FS_Subset, FS_CardinalityType
  <2> QED BY <1>1, <2>1 DEF InboundBounded
<1>3. ASSUME SameNodes, vNodes' \subseteq vNodes PROVE InboundBounded'
  BY <1>2, <1>3 DEF SameNodes, Inbound
<1>4. ASSUME NEW a \in Addr, Accept(a) PROVE InboundBounded'
  <2>1. PICK n \in Fresh, how \in Origin : Adds(n, a, TRUE, how)
    BY <1>4, AcceptAdds DEF PairInv
  <2>2. Inbound' = Inbound \cup {n}
    BY <2>1 DEF Adds, Inbound
  <2>3. Cardinality(Inbound) < MaxInbound
    BY <1>4 DEF Accept
  <2>4. Cardinality(Inbound') <= Cardinality(Inbound) + 1 /\ Cardinality(Inbound') \in Nat
    <3>1. /\ IsFiniteSet(Inbound \cup {n})
          /\ Cardinality(Inbound \cup {n}) = IF n \in Inbound THEN Cardinality(Inbound)
                                                          ELSE Cardinality(Inbound) + 1
      BY <1>1, FS_AddElement
    <3>2. Cardinality(Inbound \cup {n}) <= Cardinality(Inbound) + 1
          /\ Cardinality(Inbound \cup {n}) \in Nat
      BY <1>1, <3>1, FS_CardinalityType
    <3> QED BY <2>2, <3>2
  <2> QED BY <1>1, <2>3, <2>4 DEF InboundBounded
<1>5. ASSUME NEW t \in Opener, NEW a \in Addr, NEW fail \in BOOLEAN, Dial(t, a, fail)
      PROVE InboundBounded'
  <2>1. PICK n \in Fresh, how \in Origin : Adds(n, a, FALSE, how)
    BY <1>5, DialAdds DEF PairInv
  <2>2. Inbound' \subseteq Inbound
    BY <2>1 DEF Adds, Inbound
  <2> QED BY <1>2, <2>2
<1>6. ASSUME DeleteNodes PROVE InboundBounded'
  <2>1. \A n \in vNodes : node'[n] = node[n]
    BY <1>6 DEF DeleteNodes, Deletable, Places
  <2> QED BY <1>2, <1>6, <2>1 DEF DeleteNodes, Inbound
<1>7. ASSUME \/ StartPass \/ KeepNode \/ DisconnectNode \/ AcceptNone
             \/ \E t \in Opener :
                  \/ OpenNetworkConnection(t) \/ OpenRefused(t) \/ ConnectNode(t)
                  \/ DialFails(t) \/ FoundRead(t) \/ MoveRelease(t) \/ MarkOneShot(t)
                  \/ \E way \in Way, d \in Dest : Acquire(t, way, d) \/ TryWithout(t, way, d)
             \/ UNCHANGED vars
      PROVE  InboundBounded'
  <2>1. node' = node /\ vNodes' \subseteq vNodes
    BY <1>7 DEF StartPass, KeepNode, DisconnectNode, AcceptNone, OpenNetworkConnection,
                OpenRefused, ConnectNode, DialFails, FoundRead, MoveRelease, MarkOneShot,
                Acquire, TryWithout, vars
  <2> QED BY <1>2, <2>1 DEF Inbound
<1>8. ASSUME CopyNodes \/ EndPass \/ MessageCopy \/ MessageEnd PROVE InboundBounded'
  BY <1>3, <1>8, SameCounts DEF CopyNodes, EndPass, MessageCopy, MessageEnd
<1>9. ASSUME \/ ClearGrant
             \/ \E n \in Node : ServiceFails(n) \/ MessageFails(n)
             \/ \E t \in Opener : FoundAddRef(t) \/ MoveTake(t) \/ MarkNetworkNode(t)
      PROVE  InboundBounded'
  <2>1. SameNodes
    <3>1. CASE ClearGrant
      BY <3>1, SameUpdate DEF ClearGrant
    <3>2. ASSUME NEW n \in Node, ServiceFails(n) \/ MessageFails(n) PROVE SameNodes
      BY <3>2, SameUpdate DEF ServiceFails, MessageFails
    <3>3. ASSUME NEW t \in Opener, FoundAddRef(t) \/ MoveTake(t) \/ MarkNetworkNode(t)
          PROVE  SameNodes
      BY <3>3, SameUpdate DEF FoundAddRef, MoveTake, MarkNetworkNode
    <3> QED BY <1>9, <3>1, <3>2, <3>3
  <2> QED BY <1>3, <1>9, <2>1 DEF ClearGrant, ServiceFails, MessageFails, FoundAddRef,
                                 MoveTake, MarkNetworkNode
<1>10. ASSUME CloseNode PROVE InboundBounded'
  <2>1. \A n \in Node : Closed(n).fInbound = node[n].fInbound
    BY DEF Closed, Memory
  <2>2. Inbound' \subseteq Inbound
    BY <1>10, <2>1 DEF CloseNode, Inbound
  <2> QED BY <1>2, <2>2
<1> QED
  BY <1>4, <1>5, <1>6, <1>7, <1>8, <1>9, <1>10
     DEF Next, SocketThread, MessageThread, OpenerThread

(* What the invariants say about types, lists and limits.                  *)
LEMMA SoundFromInv == PairInv /\ OneInv /\ GrantSum => NodesSound
<1> SUFFICES ASSUME PairInv, OneInv, GrantSum PROVE NodesSound
  OBVIOUS
<1> Types /\ Places /\ Life /\ Opening /\ Counts
  BY DEF PairInv, OneInv
<1>1. \A n \in Node : node[n].nRefCount \in Nat
  <2>1. \A n \in Node : node[n].nRefCount \in Int /\ Uses(n) \in Nat
    BY DEF Types, Memory, Uses
  <2> QED BY <2>1 DEF Life, Counts
<1>2. node \in [Node -> CNode]
  <2>1. ASSUME NEW m \in Memory, m.nRefCount \in Nat PROVE m \in CNode
    BY <2>1 DEF Memory, CNode
  <2> QED BY <1>1, <2>1 DEF Types
<1>3. op \in [Opener -> [pc : OpPlace, way : Way, dest : Dest, pnode : Node \cup {NoNode}, nRead : Nat,
                         fHaveGrant : BOOLEAN]]
  <2>1. \A t \in Opener : op[t] \in Attempt /\ op[t].nRead \in Nat
    BY DEF Types, Opening
  <2>2. ASSUME NEW m \in Attempt, m.nRead \in Nat
        PROVE  m \in [pc : OpPlace, way : Way, dest : Dest, pnode : Node \cup {NoNode}, nRead : Nat,
                      fHaveGrant : BOOLEAN]
    BY <2>2 DEF Attempt
  <2> QED BY <2>1, <2>2 DEF Types
<1>4. TypeOK
  BY <1>2, <1>3 DEF TypeOK, Types, OpPlace, SockPlace, GrantSum
<1>5. NoUseAfterFree
  BY DEF NoUseAfterFree, InUse, Opened, Life, Opening, Has, Types
<1> QED BY <1>4, <1>5 DEF NodesSound

(* What the invariant says in the words of the run's property.             *)
LEMMA HandledFromInv ==
  OneOpener /\ PairInv /\ OneInv /\ GrantSum /\ InboundBounded => GrantsHandled
<1> SUFFICES ASSUME OneOpener, PairInv, OneInv, GrantSum, InboundBounded PROVE GrantsHandled
  OBVIOUS
<1> Types /\ Places /\ Life /\ Opening /\ Counts /\ Grants /\ MaxOutbound \in Nat
  BY ConnectionsAssumption DEF PairInv, OneInv
<1>1. GrantsConserved
  BY DEF GrantSum, GrantsConserved, Takers, Holders
<1>2. Cardinality(Granted) <= MaxOutbound
  <2>1. \A n \in vNodes : ~(sock.pc = "clear" /\ n = Visited)
    BY VisitedIn DEF Places, Closing
  <2>2. CASE Takers = {}
    <3>1. Granted \subseteq Holders
      BY <2>1, <2>2 DEF Grants, Granted, Holders, Takers, Types
    <3>2. Cardinality(Granted) <= Cardinality(Holders)
          /\ Cardinality(Granted) \in Nat
      BY <3>1, HoldersFinite, FS_Subset, FS_CardinalityType
    <3> QED BY <2>2, <3>2, FS_EmptySet, SumType DEF GrantSum
  <2>3. ASSUME NEW t \in Takers PROVE Cardinality(Granted) <= MaxOutbound
    <3>1. Takers = {t}
      BY <2>3 DEF Takers, OneOpener
    <3>2. Granted \subseteq Holders \cup {op[t].pnode}
      BY <2>1, <2>3 DEF Grants, Granted, Holders, Takers, Types, OneOpener
    <3>3. /\ IsFiniteSet(Holders \cup {op[t].pnode})
          /\ Cardinality(Holders \cup {op[t].pnode}) <= Cardinality(Holders) + 1
      BY HoldersFinite, FS_AddElement
    <3>4. Cardinality(Granted) <= Cardinality(Holders \cup {op[t].pnode})
          /\ Cardinality(Granted) \in Nat
          /\ Cardinality(Holders \cup {op[t].pnode}) \in Nat
      BY <3>2, <3>3, FS_Subset, FS_CardinalityType
    <3>5. Cardinality(Takers) = 1
      BY <3>1, FS_Singleton
    <3> QED BY <3>3, <3>4, <3>5, SumType DEF GrantSum
  <2> QED BY <2>2, <2>3
<1>3. DisconnectedReleased
  BY DEF DisconnectedReleased, Counts, Grants, Uses, InUse, Types
<1> QED BY <1>1, <1>2, <1>3 DEF GrantsHandled, ConnectionsBounded, InboundBounded, Granted

AllInv == PairInv /\ OneInv /\ GrantSum /\ InboundBounded

(* All that is proved holds at the start.                                  *)
LEMMA AllInit == OneOpener /\ Init => AllInv
<1> SUFFICES ASSUME OneOpener, Init PROVE AllInv
  OBVIOUS
<1>1. PairInv
  BY PairInit
<1>2. Closing = {}
  BY DEF Init, Closing
<1>3. Life
  BY <1>2 DEF Init, Life, NoCNode
<1>4. Opening
  BY DEF Init, Opening, Idle, Has
<1>5. Counts
  BY <1>2 DEF Init, Counts, Idle, Has
<1>6. Grants
  <2>1. /\ sock.pc = "top" /\ vNodes = {} /\ \A n \in Node : ~node[n].fHaveGrant
        /\ \A t \in Opener : op[t].pc = "idle" /\ ~op[t].fHaveGrant
    BY DEF Init, Idle, NoCNode
  <2> QED BY <2>1 DEF Grants, Granted
<1>7. Takers = {} /\ Holders = {} /\ Inbound = {}
  BY DEF Init, Takers, Holders, Inbound, Idle, NoCNode
<1>8. GrantSum
  BY <1>7, FS_EmptySet, ConnectionsAssumption DEF Init, GrantSum
<1>9. InboundBounded
  BY <1>7, FS_EmptySet, ConnectionsAssumption DEF InboundBounded
<1> QED BY <1>1, <1>3, <1>4, <1>5, <1>6, <1>8, <1>9 DEF AllInv, OneInv

(* The invariant of a node with one opener thread.                         *)
LEMMA OneOpenerInv == ASSUME OneOpener PROVE Spec => []AllInv
<1>1. Init => AllInv
  BY AllInit
<1>2. AllInv /\ [Next]_vars => AllInv'
  BY PairStep, OneStep, SumStep, InboundStep DEF AllInv
<1> QED BY <1>1, <1>2, PTL DEF Spec

(* With one thread that opens connections, a CNode is deleted only when no *)
(* list and no thread holds it, whenever it is disconnected: in            *)
(* ThreadSocketHandler, before OpenNetworkConnection has marked it or      *)
(* while ThreadMessageHandler has it in its copy of vNodes.  The opener    *)
(* holds its node up to fNetworkNode = true, in every way of opening; the  *)
(* write to fOneShot after it is outside the theorem, and not safe.        *)
THEOREM NodesAlwaysSound == ASSUME OneOpener PROVE Spec => []NodesSound
<1>1. AllInv => NodesSound
  BY SoundFromInv DEF AllInv
<1> QED BY <1>1, OneOpenerInv, PTL

(* With one thread that opens connections, with and without grants, each   *)
(* grant of semOutbound is with the semaphore, a thread or a node, so that *)
(* MAX_OUTBOUND_CONNECTIONS bounds the nodes opened with a grant;          *)
(* -maxconnections holds; and a disconnected node that is not in use keeps *)
(* a reference, and so a grant for ever, only if it was closed before its  *)
(* opener had marked it.                                                   *)
THEOREM GrantsAlwaysHandled == ASSUME OneOpener PROVE Spec => []GrantsHandled
<1>1. AllInv => GrantsHandled
  BY HandledFromInv DEF AllInv
<1> QED BY <1>1, OneOpenerInv, PTL

----------------------------------------------------------------------------
(* Block download *)

(* Induction, for a set of numbers: the least one outside it would follow  *)
(* one inside.                                                             *)
LEMMA SetInduction ==
  ASSUME NEW S, S \subseteq Nat, 0 \in S, \A n \in S : n + 1 \in S
  PROVE  S = Nat
<1>1. SUFFICES ASSUME Nat \ S # {} PROVE FALSE
  OBVIOUS
<1>2. PICK x \in Nat \ S : \A y \in Nat \ S : x <= y
  <2>1. Nat \ S \subseteq Nat
    OBVIOUS
  <2> QED BY <1>1, <2>1, MinIn
<1>3. x # 0 /\ x - 1 \in Nat
  OBVIOUS
<1>4. x - 1 \in S
  BY <1>2, <1>3
<1> QED BY <1>3, <1>4

(* What holds of nothing and of one more holds of all.                     *)
LEMMA UpTo ==
  ASSUME NEW n \in Nat, NEW S, 0 \in S, \A k \in 1 .. n : k - 1 \in S => k \in S
  PROVE  \A k \in 0 .. n : k \in S
<1> DEFINE U == {k \in Nat : k <= n => k \in S}
<1>1. 0 \in U
  OBVIOUS
<1>2. ASSUME NEW k \in U PROVE k + 1 \in U
  <2>1. k \in Nat /\ (k + 1 <= n => k + 1 \in 1 .. n /\ (k + 1) - 1 \in S)
    BY <1>2
  <2> QED BY <2>1
<1>3. U = Nat
  <2> HIDE DEF U
  <2>1. U \subseteq Nat
    BY DEF U
  <2> QED BY <1>1, <1>2, <2>1, SetInduction
<1> QED BY <1>3

(* f takes the first n steps of g from a.                                  *)
IsFold(f, n, X, a, g) ==
  /\ f \in [0 .. n -> X]
  /\ f[0] = a
  /\ \A k \in 1 .. n : f[k] = g[k][f[k - 1]]

(* A loop of n rounds has a value at every step.                           *)
LEMMA FoldRecursion ==
  ASSUME NEW n \in Nat, NEW X, NEW a \in X, NEW g \in [1 .. n -> [X -> X]]
  PROVE  \E f : IsFold(f, n, X, a, g)
<1> DEFINE S == {m \in Nat : m <= n => \E f : IsFold(f, m, X, a, g)}
<1>1. 0 \in S
  <2> DEFINE f == [k \in 0 .. 0 |-> a]
  <2>1. IsFold(f, 0, X, a, g)
    BY DEF IsFold
  <2> QED BY <2>1
<1>2. ASSUME NEW m \in S PROVE m + 1 \in S
  <2>1. CASE ~(m + 1 <= n)
    BY <1>2, <2>1
  <2>2. CASE m + 1 <= n
    <3>1. PICK f : IsFold(f, m, X, a, g)
      BY <1>2, <2>2
    <3> DEFINE h == [k \in 0 .. m + 1 |-> IF k = m + 1 THEN g[m + 1][f[m]] ELSE f[k]]
    <3>2. m \in Nat /\ m + 1 \in 1 .. n /\ f[m] \in X
      BY <1>2, <2>2, <3>1 DEF IsFold
    <3>3. g[m + 1][f[m]] \in X
      BY <3>2
    <3>4. h \in [0 .. m + 1 -> X] /\ h[0] = a
      BY <3>1, <3>2, <3>3 DEF IsFold
    <3>5. ASSUME NEW k \in 1 .. m + 1 PROVE h[k] = g[k][h[k - 1]]
      <4>1. h[k - 1] = f[k - 1]
        BY <3>2
      <4>2. CASE k = m + 1
        BY <3>2, <4>1, <4>2
      <4>3. CASE k # m + 1
        BY <3>1, <3>2, <4>1, <4>3 DEF IsFold
      <4> QED BY <4>2, <4>3
    <3>6. IsFold(h, m + 1, X, a, g)
      <4> HIDE DEF h
      <4> QED BY <3>4, <3>5 DEF IsFold
    <3> QED BY <3>2, <3>6
  <2> QED BY <2>1, <2>2
<1>3. S = Nat
  <2> HIDE DEF S
  <2>1. S \subseteq Nat
    BY DEF S
  <2> QED BY <1>1, <1>2, <2>1, SetInduction
<1> QED BY <1>3

LEMMA KeepIs ==
  ASSUME NEW X, NEW s \in Seq(X), NEW I, NEW Y, Y = {x \in X : \E i \in 1 .. Len(s) : i \in I /\ s[i] = x}
  PROVE  Keep(s, I) \in Seq(Y) /\ Keep(s, I) \in Seq(X)
<1> DEFINE n == Len(s)
           Z == Seq(Y)
           Next1(k, t) == IF k \in I THEN Append(t, s[k]) ELSE t
           g == [k \in 1 .. n |-> [t \in Z |-> Next1(k, t)]]
<1>1. n \in Nat
  OBVIOUS
<1>2. \A k \in 1 .. n : k \in I => s[k] \in Y
  OBVIOUS
<1> HIDE DEF n
<1>3. g \in [1 .. n -> [Z -> Z]]
  <2>1. ASSUME NEW k \in 1 .. n, NEW t \in Z PROVE Next1(k, t) \in Z
    BY <1>2
  <2> HIDE DEF Next1, Z
  <2> QED BY <2>1
<1>4. \A k \in 1 .. n, t \in Z : g[k][t] = Next1(k, t)
  <2> HIDE DEF Next1, Z
  <2> QED OBVIOUS
<1>5. <<>> \in Z
  OBVIOUS
<1> HIDE DEF g, Z
<1>6. PICK f : IsFold(f, n, Z, <<>>, g)
  BY <1>1, <1>3, <1>5, FoldRecursion
<1>7. /\ f \in [0 .. n -> Z] /\ f[0] = <<>>
      /\ \A k \in 1 .. n : f[k] = Next1(k, f[k - 1])
  <2> HIDE DEF Next1
  <2>1. \A k \in 1 .. n : f[k - 1] \in Z
    BY <1>1, <1>6 DEF IsFold
  <2> QED BY <1>4, <1>6, <2>1 DEF IsFold
<1>8. f = [k \in 0 .. n |-> IF k = 0 THEN <<>>
                            ELSE IF k \in I THEN Append(f[k - 1], s[k]) ELSE f[k - 1]]
  <2> HIDE DEF Next1
  <2>1. f = [k \in 0 .. n |-> IF k = 0 THEN <<>> ELSE Next1(k, f[k - 1])]
    BY <1>1, <1>7
  <2> QED BY <2>1, Zenon DEF Next1
<1> DEFINE h == CHOOSE h : h = [k \in 0 .. n |-> IF k = 0 THEN <<>>
                                  ELSE IF k \in I THEN Append(h[k - 1], s[k])
                                  ELSE h[k - 1]]
<1>9. h = [k \in 0 .. n |-> IF k = 0 THEN <<>>
                            ELSE IF k \in I THEN Append(h[k - 1], s[k]) ELSE h[k - 1]]
  BY <1>8, Zenon
<1>10. Keep(s, I) = h[n]
  BY Zenon DEF Keep, Keeping, n
<1> HIDE DEF h
<1>11. h[0] = <<>> /\ \A k \in 1 .. n : h[k] = Next1(k, h[k - 1])
  <2>1. h = [k \in 0 .. n |-> IF k = 0 THEN <<>> ELSE Next1(k, h[k - 1])]
    BY <1>9, Zenon DEF Next1
  <2> HIDE DEF Next1
  <2> QED BY <1>1, <2>1
<1>12. \A k \in 0 .. n : h[k] = f[k]
  <2> DEFINE S == {k \in 0 .. n : h[k] = f[k]}
  <2> HIDE DEF Next1
  <2>1. 0 \in S
    BY <1>1, <1>7, <1>11
  <2>2. ASSUME NEW k \in 1 .. n, k - 1 \in S PROVE k \in S
    BY <1>1, <1>7, <1>11, <2>2
  <2> HIDE DEF S
  <2>3. \A k \in 0 .. n : k \in S
    BY <1>1, <2>1, <2>2, UpTo
  <2> QED BY <2>3 DEF S
<1>13. Keep(s, I) \in Z
  BY <1>1, <1>7, <1>10, <1>12
<1>14. Y \subseteq X
  OBVIOUS
<1> QED BY <1>13, <1>14 DEF Z

(* A set of heights has a highest one.                                     *)
LEMMA MaxIn ==
  ASSUME NEW n \in Nat, NEW S \in SUBSET (0 .. n), S # {}
  PROVE  Max(S) \in S
<1> DEFINE T == {y \in 0 .. n : n - y \in S}
<1>1. T \subseteq Nat /\ T # {}
  <2>1. PICK x \in S : TRUE
    OBVIOUS
  <2>2. n - x \in T
    OBVIOUS
  <2>3. T \subseteq Nat
    OBVIOUS
  <2> HIDE DEF T
  <2> QED BY <2>2, <2>3
<1>2. PICK y \in T : \A z \in T : y <= z
  <2> HIDE DEF T
  <2> QED BY <1>1, MinIn
<1>3. n - y \in S /\ \A z \in S : n - y >= z
  <2>1. ASSUME NEW z \in S PROVE n - y >= z
    <3>1. n - z \in T /\ y \in 0 .. n /\ z \in 0 .. n
      OBVIOUS
    <3>2. y <= n - z
      BY <1>2, <3>1
    <3> HIDE DEF T
    <3> QED BY <3>1, <3>2
  <2> QED BY <2>1
<1> QED BY <1>3, Zenon DEF Max

----------------------------------------------------------------------------
(* The node while it handles a message *)

Begin == Block \cup {0, SideTip}
LocalState == [have : SUBSET (0 .. Top), orphan : SUBSET Block,
               asked : [Block -> {Never} \cup Nat], link : Link, out : Seq(Request)]

(* Every block of h has its parent there, and no orphan of o has; and h is  *)
(* none of the peers' blocks if the node's own branch is too long.          *)
Whole(h, o) ==
  /\ 0 \in h /\ \A b \in h \ {0} : b - 1 \in h
  /\ \A b \in o : b - 1 \notin h
  /\ side > Span => h = {0}

SoundLocal(s) == s \in LocalState /\ Whole(s.have, s.orphan)

LEMMA BlockIs ==
  /\ Top \in Nat /\ Sides \subseteq Nat /\ Span \in Nat
  /\ Block = {b \in Nat : 1 <= b /\ b <= Top} /\ 0 .. Top = Block \cup {0}
  /\ Never \in Int /\ NoHash \notin Block /\ SideTip \notin Block /\ NoIndex \notin Begin
BY DownloadAssumption DEF Block, Never, NoHash, SideTip, NoIndex, Begin

LEMMA BestIs ==
  ASSUME NEW h \in SUBSET (0 .. Top), 0 \in h
  PROVE  BestOf(h) \in Begin
<1>1. Max(h) \in h
  BY MaxIn, BlockIs
<1>2. Max(h) \in Begin
  BY <1>1, BlockIs DEF Begin
<1> QED BY <1>2 DEF BestOf, Begin

(* What PushGetBlocks and AskFor make of it.                               *)
Sending(s, l, out) == [s EXCEPT !.link = l, !.out = out]
Asking(s, a, l) == [s EXCEPT !.asked = a, !.link = l]
Holding(s, h, o) == [s EXCEPT !.have = h, !.orphan = o]

LEMMA SendingIs ==
  ASSUME NEW s \in LocalState, NEW l \in Link, NEW out \in Seq(Request)
  PROVE  /\ Sending(s, l, out) \in LocalState
         /\ Sending(s, l, out).have = s.have /\ Sending(s, l, out).orphan = s.orphan
         /\ Sending(s, l, out).asked = s.asked
BY DEF LocalState, Sending

LEMMA AskingIs ==
  ASSUME NEW s \in LocalState, NEW a \in [Block -> {Never} \cup Nat], NEW l \in Link
  PROVE  /\ Asking(s, a, l) \in LocalState
         /\ Asking(s, a, l).have = s.have /\ Asking(s, a, l).orphan = s.orphan
BY DEF LocalState, Asking

LEMMA HoldingIs ==
  ASSUME NEW s \in LocalState, NEW h \in SUBSET (0 .. Top), NEW o \in SUBSET Block
  PROVE  /\ Holding(s, h, o) \in LocalState
         /\ Holding(s, h, o).have = h /\ Holding(s, h, o).orphan = o
BY DEF LocalState, Holding

LEMMA PushGetBlocksIs ==
  ASSUME NEW s \in LocalState, NEW begin \in Begin, NEW stop \in Block \cup {NoHash},
         NEW t, t = PushGetBlocks(s, begin, stop)
  PROVE  /\ t \in LocalState
         /\ t.have = s.have /\ t.orphan = s.orphan
<1> DEFINE l == [s.link EXCEPT !.begin = begin, !.stop = stop]
           out == Append(s.out, GetBlocks(begin, stop))
<1>1. CASE begin = s.link.begin /\ stop = s.link.stop
  BY <1>1 DEF PushGetBlocks
<1>2. CASE ~(begin = s.link.begin /\ stop = s.link.stop)
  <2>1. l \in Link
    <3>1. s.link \in Link
      BY DEF LocalState
    <3> QED BY <3>1 DEF Link, Begin
  <2>2. out \in Seq(Request)
    <3>1. GetBlocks(begin, stop) \in Request
      BY DEF GetBlocks, Request, Begin
    <3>2. s.out \in Seq(Request)
      BY DEF LocalState
    <3> QED BY <3>1, <3>2
  <2>3. t = Sending(s, l, out)
    BY <1>2 DEF PushGetBlocks, LocalState, Sending, Link
  <2> HIDE DEF l, out
  <2> QED BY <2>1, <2>2, <2>3, SendingIs
<1> QED BY <1>1, <1>2

LEMMA ScheduleIs ==
  ASSUME NEW ask \in Seq([inv : Block, delay : Nat]), NEW b \in Block, NEW t \in Nat
  PROVE  Schedule(ask, b, t) \in Seq([inv : Block, delay : Nat])
<1> DEFINE E == [inv : Block, delay : Nat]
           e == [inv |-> b, delay |-> t]
           I == {i \in DOMAIN ask : ask[i].delay <= t}
           J == {i \in DOMAIN ask : ask[i].delay > t}
<1>1. e \in E
  OBVIOUS
<1>2. Schedule(ask, b, t) = Keep(ask, I) \o <<e>> \o Keep(ask, J)
  BY DEF Schedule
<1>3. ask \in Seq(E)
  OBVIOUS
<1> HIDE DEF E, e, I, J
<1>4. Keep(ask, I) \in Seq(E) /\ Keep(ask, J) \in Seq(E)
  BY <1>3, KeepIs
<1>5. Schedule(ask, b, t) \in Seq(E)
  BY <1>1, <1>2, <1>4
<1> QED BY <1>5 DEF E

LEMMA AskForIs ==
  ASSUME NEW s \in LocalState, NEW b \in Block, NEW r, r = AskFor(s, b)
  PROVE  /\ r \in LocalState
         /\ r.have = s.have /\ r.orphan = s.orphan
<1> DEFINE t == RequestTime(s.asked[b])
           a == [s.asked EXCEPT ![b] = t]
           l == [s.link EXCEPT !.ask = Schedule(s.link.ask, b, t)]
<1>1. /\ s.asked \in [Block -> {Never} \cup Nat] /\ s.link \in Link
      /\ s.link.ask \in Seq([inv : Block, delay : Nat])
  BY DEF LocalState, Link
<1>2. t \in Nat
  BY <1>1 DEF RequestTime, Later, Never
<1>3. r = Asking(s, a, l)
  BY DEF AskFor, LocalState, Asking, Link
<1> HIDE DEF t
<1>4. a \in [Block -> {Never} \cup Nat]
  BY <1>1, <1>2
<1>5. Schedule(s.link.ask, b, t) \in Seq([inv : Block, delay : Nat])
  BY <1>1, <1>2, ScheduleIs
<1>6. l \in Link
  BY <1>1, <1>5 DEF Link
<1> HIDE DEF a, l
<1> QED BY <1>3, <1>4, <1>6, AskingIs

(* The walk from an orphan to the first of its branch.                     *)
LEMMA RootIs ==
  ASSUME NEW s \in LocalState, NEW b \in s.orphan, NEW r, r = GetOrphanRoot(s, b)
  PROVE  r \in Block /\ r <= b /\ r \in s.orphan
<1> DEFINE S == {x \in 1 .. b : \A c \in x .. b : c \in s.orphan}
<1>1. b \in Block /\ b \in Nat /\ 1 <= b /\ b <= Top
  BY BlockIs DEF LocalState
<1>2. b \in S
  BY <1>1
<1>3. S \subseteq Nat
  OBVIOUS
<1>4. r = Min(S)
  BY DEF GetOrphanRoot
<1>5. r \in S
  <2> HIDE DEF S
  <2> QED BY <1>2, <1>3, <1>4, MinIn
<1>6. r \in 1 .. b /\ r \in s.orphan
  BY <1>1, <1>5
<1> QED BY <1>1, <1>6, BlockIs

LEMMA AddOrphanIs ==
  ASSUME NEW s, SoundLocal(s), NEW b \in Block, b - 1 \notin s.have,
         NEW t, t = AddOrphan(s, b)
  PROVE  SoundLocal(t)
<1> DEFINE o == s.orphan \cup {b}
           s1 == [s EXCEPT !.orphan = @ \cup {b}]
           r == GetOrphanRoot(s1, b)
           s2 == PushGetBlocks(s1, BestOf(s1.have), r)
           q == GetOrphanRoot(s2, b)
<1>1. /\ s \in LocalState /\ s.have \in SUBSET (0 .. Top) /\ s.orphan \in SUBSET Block
      /\ Whole(s.have, s.orphan)
  BY DEF SoundLocal, LocalState
<1>2. t = IF fInitial THEN s2 ELSE AskFor(s2, q - 1)
  BY DEF AddOrphan, WantedByOrphan
<1>3. o \in SUBSET Block /\ b \in o /\ Whole(s.have, o)
  BY <1>1 DEF Whole
<1>4. 0 \in s.have /\ \A x \in o : x - 1 \notin s.have
  BY <1>3 DEF Whole
<1> HIDE DEF o
<1>5. s1 \in LocalState /\ s1.have = s.have /\ s1.orphan = o
  <2>1. s1 = Holding(s, s.have, o)
    BY <1>1 DEF Holding, LocalState, o
  <2> HIDE DEF s1
  <2> QED BY <1>1, <1>3, <2>1, HoldingIs
<1> HIDE DEF s1
<1>6. r \in Block
  BY <1>3, <1>5, RootIs
<1>7. BestOf(s1.have) \in Begin
  BY <1>1, <1>4, <1>5, BestIs
<1> HIDE DEF r
<1>8. s2 \in LocalState /\ s2.have = s.have /\ s2.orphan = o
  BY <1>5, <1>6, <1>7, PushGetBlocksIs
<1> HIDE DEF s2
<1>9. q \in Block /\ q \in o
  BY <1>3, <1>8, RootIs
<1> HIDE DEF q
<1>10. q - 1 \in Block
  <2>1. q - 1 # 0
    BY <1>4, <1>9
  <2> QED BY <1>9, <2>1, BlockIs
<1>11. CASE fInitial
  BY <1>2, <1>3, <1>8, <1>11 DEF SoundLocal
<1>12. CASE ~fInitial
  <2>1. t \in LocalState /\ t.have = s.have /\ t.orphan = o
    BY <1>2, <1>8, <1>10, <1>12, AskForIs
  <2> QED BY <1>3, <2>1 DEF SoundLocal
<1> QED BY <1>11, <1>12

(* When b connects, so do the orphans above it without a gap.              *)
LEMMA ConnectedWhole ==
  ASSUME NEW s, SoundLocal(s), NEW b \in Block, b \notin s.have \cup s.orphan,
         b - 1 \in s.have, side \in Sides, ~BeforeCheckpoint(s, b),
         NEW C, C = Connected(s, b)
  PROVE  C \in SUBSET Block /\ Whole(s.have \cup C, s.orphan \ C)
<1>1. /\ s.orphan \in SUBSET Block /\ s.have \in SUBSET (0 .. Top)
      /\ 0 \in s.have /\ (\A x \in s.have \ {0} : x - 1 \in s.have)
      /\ \A x \in s.orphan : x - 1 \notin s.have
  BY DEF SoundLocal, LocalState, Whole
<1>2. /\ \A x \in C : x \in b .. Top /\ \A d \in b + 1 .. x : d \in s.orphan
      /\ \A x \in b .. Top : (\A d \in b + 1 .. x : d \in s.orphan) => x \in C
  BY DEF Connected
<1>3. b \in Nat /\ 1 <= b /\ b <= Top /\ Top \in Nat
  BY BlockIs
<1>4. C \in SUBSET Block
  BY <1>2, <1>3, BlockIs
<1>5. ASSUME NEW x \in (s.have \cup C) \ {0} PROVE x - 1 \in s.have \cup C
  <2>1. CASE x \in s.have
    BY <1>1, <2>1
  <2>2. CASE x \in C /\ x = b
    BY <2>2
  <2>3. CASE x \in C /\ x # b
    <3>1. x \in b .. Top /\ x - 1 \in b .. Top
      BY <1>2, <1>3, <2>3
    <3>2. \A d \in b + 1 .. x - 1 : d \in b + 1 .. x
      BY <1>3, <3>1
    <3>3. \A d \in b + 1 .. x - 1 : d \in s.orphan
      BY <1>2, <2>3, <3>2
    <3> QED BY <1>2, <3>1, <3>3
  <2> QED BY <2>1, <2>2, <2>3
<1>6. ASSUME NEW x \in s.orphan \ C, x - 1 \in s.have \cup C PROVE FALSE
  <2>1. x - 1 \in C
    BY <1>1, <1>6
  <2>2. x \in Nat /\ x <= Top /\ x - 1 \in b .. Top
    BY <1>1, <1>2, <2>1, BlockIs
  <2>3. \A d \in b + 1 .. x : d \in b + 1 .. x - 1 \/ d = x
    BY <1>3, <2>2
  <2>4. \A d \in b + 1 .. x : d \in s.orphan
    BY <1>2, <2>1, <2>3
  <2>5. x \in b .. Top
    BY <1>3, <2>2
  <2> QED BY <1>2, <2>4, <2>5
<1>7. ASSUME side > Span PROVE FALSE
  <2>1. s.have = {0} /\ b = 1
    BY <1>3, <1>7 DEF SoundLocal, Whole
  <2>2. Max({0}) = 0
    BY MaxIn, BlockIs
  <2>3. side \in Nat /\ Span \in Nat
    BY BlockIs
  <2> QED BY <1>7, <2>1, <2>2, <2>3 DEF BeforeCheckpoint, BestHeight
<1> QED BY <1>1, <1>4, <1>5, <1>6, <1>7 DEF Whole

LEMMA ProcessBlockIs ==
  ASSUME side \in Sides, NEW s, SoundLocal(s), NEW b \in Block, NEW t, t = ProcessBlock(s, b)
  PROVE  SoundLocal(t)
<1> DEFINE C == Connected(s, b)
           c == Holding(s, s.have \cup C, s.orphan \ C)
           a == AddOrphan(s, b)
<1>1. s \in LocalState /\ s.have \in SUBSET (0 .. Top) /\ s.orphan \in SUBSET Block
  BY DEF SoundLocal, LocalState
<1>2. ASSUME NEW u, SoundLocal(u) PROVE SoundLocal([u EXCEPT !.asked[b] = Never])
  <2>1. [u EXCEPT !.asked[b] = Never] = Asking(u, [u.asked EXCEPT ![b] = Never], u.link)
    BY <1>2 DEF SoundLocal, LocalState, Asking
  <2>2. [u.asked EXCEPT ![b] = Never] \in [Block -> {Never} \cup Nat] /\ u.link \in Link
    BY <1>2 DEF SoundLocal, LocalState
  <2> QED BY <1>2, <2>1, <2>2, AskingIs DEF SoundLocal
<1>3. CASE t = s
  BY <1>3
<1>4. CASE b \notin s.have \cup s.orphan /\ b - 1 \notin s.have
           /\ t = [a EXCEPT !.asked[b] = Never]
  <2>1. SoundLocal(a)
    BY <1>4, AddOrphanIs
  <2> HIDE DEF a
  <2> QED BY <1>2, <1>4, <2>1
<1>5. CASE b \notin s.have \cup s.orphan /\ b - 1 \in s.have /\ ~BeforeCheckpoint(s, b)
           /\ t = [s EXCEPT !.have = @ \cup C, !.orphan = @ \ C, !.asked[b] = Never]
  <2>1. C \in SUBSET Block /\ Whole(s.have \cup C, s.orphan \ C)
    BY <1>5, ConnectedWhole
  <2>2. [s EXCEPT !.have = @ \cup C, !.orphan = @ \ C, !.asked[b] = Never]
          = [c EXCEPT !.asked[b] = Never]
    BY <1>1 DEF Holding, LocalState
  <2> HIDE DEF C
  <2>3. s.have \cup C \in SUBSET (0 .. Top) /\ s.orphan \ C \in SUBSET Block
    BY <1>1, <2>1, BlockIs
  <2>4. c \in LocalState /\ c.have = s.have \cup C /\ c.orphan = s.orphan \ C
    BY <1>1, <2>3, HoldingIs
  <2> HIDE DEF c
  <2>5. SoundLocal(c)
    BY <2>1, <2>4 DEF SoundLocal
  <2> QED BY <1>2, <1>5, <2>2, <2>5
<1> QED BY <1>3, <1>4, <1>5, Zenon DEF ProcessBlock

LEMMA HandleInvIs ==
  ASSUME NEW s, SoundLocal(s), NEW b \in Block, NEW last,
         NEW t, t = HandleInv(s, b, last)
  PROVE  SoundLocal(t)
<1>1. /\ s \in LocalState /\ s.have \in SUBSET (0 .. Top) /\ s.orphan \in SUBSET Block
      /\ 0 \in s.have /\ Whole(s.have, s.orphan)
  BY DEF SoundLocal, LocalState, Whole
<1>2. BestOf(s.have) \in Begin /\ b \in Begin
  BY <1>1, BestIs DEF Begin
<1>3. t \in LocalState /\ t.have = s.have /\ t.orphan = s.orphan
  <2>1. CASE b \notin s.have \cup s.orphan
    BY <1>1, <2>1, AskForIs DEF HandleInv
  <2>2. CASE b \in s.orphan
    <3>1. GetOrphanRoot(s, b) \in Block
      BY <1>1, <2>2, RootIs
    <3>2. t = PushGetBlocks(s, BestOf(s.have), GetOrphanRoot(s, b))
      BY <2>2 DEF HandleInv
    <3> QED BY <1>1, <1>2, <3>1, <3>2, PushGetBlocksIs
  <2>3. CASE b \in s.have \ s.orphan
    <3>1. t = PushGetBlocks(s, b, NoHash) \/ t = s
      BY <2>3 DEF HandleInv
    <3> QED BY <1>1, <1>2, <3>1, PushGetBlocksIs
  <2> QED BY <2>1, <2>2, <2>3
<1> QED BY <1>1, <1>3 DEF SoundLocal

----------------------------------------------------------------------------
(* The steps *)

LEMMA InitSound == DownloadInit => DownloadSound
<1> SUFFICES ASSUME DownloadInit PROVE DownloadSound
  OBVIOUS
<1>1. NewLink \in Link /\ NewPeer(Start) \in PeerEnd
  BY DownloadAssumption DEF NewLink, Link, NewPeer, PeerEnd
<1>2. have \subseteq 0 .. Top /\ drops \in 0 .. MaxDrop /\ mblkAge \in {Never, 0, 1}
  BY DownloadAssumption DEF DownloadInit
<1>3. link \in [Peer -> Link] /\ peer \in [Peer -> PeerEnd]
  BY <1>1 DEF DownloadInit
<1>4. up \in [Peer -> Seq(Request)] /\ down \in [Peer -> Seq(Answer)]
  BY DEF DownloadInit
<1>5. DownloadTypeOK
  BY <1>2, <1>3, <1>4 DEF DownloadInit, DownloadTypeOK
<1> QED BY <1>5 DEF DownloadInit, DownloadSound

LEMMA SoundIs ==
  DownloadSound <=> DownloadTypeOK /\ Whole(have, orphan)
BY DEF DownloadSound, Whole

(* A step that handles a message of p.                                     *)
LEMMA LocalIs ==
  ASSUME DownloadSound, NEW p \in Peer
  PROVE  SoundLocal(Local(p))
BY SoundIs DEF DownloadTypeOK, Local, SoundLocal, LocalState

LEMMA ApplySound ==
  ASSUME DownloadSound, NEW p \in Peer, NEW s, SoundLocal(s), Apply(p, s)
  PROVE  /\ have' \subseteq 0 .. Top /\ orphan' \subseteq Block
         /\ asked' \in [Block -> {Never} \cup Nat]
         /\ link' \in [Peer -> Link] /\ up' \in [Peer -> Seq(Request)]
         /\ Whole(have', orphan')
<1>1. /\ s.have \subseteq 0 .. Top /\ s.orphan \subseteq Block
      /\ s.asked \in [Block -> {Never} \cup Nat] /\ s.link \in Link /\ s.out \in Seq(Request)
      /\ Whole(s.have, s.orphan)
  BY DEF SoundLocal, LocalState
<1>2. link \in [Peer -> Link] /\ up \in [Peer -> Seq(Request)]
  BY DEF DownloadSound, DownloadTypeOK
<1> QED BY <1>1, <1>2 DEF Apply

LEMMA ConnectSound ==
  ASSUME DownloadSound, NEW p \in Peer, Connect(p)
  PROVE  DownloadSound'
<1> DEFINE l == [NewLink EXCEPT !.conn = TRUE]
           s == Local(p)
           fresh == [s EXCEPT !.link = l]
           t == PushGetBlocks(fresh, BestOf(have), NoHash)
<1>1. SoundLocal(s) /\ s.have = have /\ s.orphan = orphan
  BY LocalIs DEF Local
<1> HIDE DEF s
<1>2. l \in Link
  <2>1. NewLink \in Link
    BY DEF NewLink, Link
  <2> QED BY <2>1 DEF Link
<1> HIDE DEF l
<1>3. fresh \in LocalState /\ fresh.have = have /\ fresh.orphan = orphan
  <2>1. s \in LocalState
    BY <1>1 DEF SoundLocal
  <2>2. s.out \in Seq(Request)
    BY <2>1 DEF LocalState
  <2>3. fresh = Sending(s, l, s.out)
    BY <2>1 DEF LocalState, Sending
  <2> HIDE DEF fresh
  <2> QED BY <1>1, <1>2, <2>1, <2>2, <2>3, SendingIs
<1>4. Whole(have, orphan) /\ have \in SUBSET (0 .. Top) /\ 0 \in have
  BY SoundIs DEF DownloadTypeOK, Whole
<1>5. PICK u \in {t, fresh} : Apply(p, u)
  BY Zenon DEF Connect, s, l
<1> HIDE DEF fresh
<1>6. t \in LocalState /\ t.have = have /\ t.orphan = orphan
  BY <1>3, <1>4, BestIs, PushGetBlocksIs
<1>7. SoundLocal(u)
  BY <1>3, <1>4, <1>5, <1>6 DEF SoundLocal
<1>8. fAskedBlocks' \in BOOLEAN /\ UNCHANGED <<side, mblkAge, peer, down, drops, work>>
  BY DEF Connect, DownloadSound, DownloadTypeOK
<1>9. DownloadTypeOK'
  BY <1>5, <1>7, <1>8, ApplySound DEF DownloadSound, DownloadTypeOK
<1> QED BY <1>5, <1>7, <1>8, <1>9, ApplySound DEF DownloadSound, Whole

LEMMA DisconnectSound ==
  ASSUME DownloadSound, NEW p \in Peer, Disconnect(p)
  PROVE  DownloadSound'
<1>1. DownloadTypeOK /\ NewLink \in Link
  BY DEF DownloadSound, NewLink, Link
<1>2. NewPeer(peer[p].tip) \in PeerEnd
  BY <1>1 DEF DownloadTypeOK, NewPeer, PeerEnd
<1>3. drops' \in 0 .. MaxDrop
  BY <1>1, DownloadAssumption DEF Disconnect, DownloadTypeOK
<1>4. /\ link' \in [Peer -> Link] /\ peer' \in [Peer -> PeerEnd]
      /\ up' \in [Peer -> Seq(Request)] /\ down' \in [Peer -> Seq(Answer)]
  BY <1>1, <1>2 DEF Disconnect, DownloadTypeOK
<1> QED BY <1>1, <1>3, <1>4 DEF Disconnect, DownloadSound, DownloadTypeOK

LEMMA ReceiveSound ==
  ASSUME DownloadSound, NEW p \in Peer, Receive(p)
  PROVE  DownloadSound'
<1>1. DownloadTypeOK /\ down[p] \in Seq(Answer) /\ down[p] # <<>>
  BY DEF DownloadSound, DownloadTypeOK, Receive
<1>2. Head(down[p]) \in Answer /\ Tail(down[p]) \in Seq(Answer)
  BY <1>1
<1>3. work' \in Work
  BY <1>2 DEF Receive, Answer, Work
<1>4. down' \in [Peer -> Seq(Answer)] /\ mblkAge' \in {Never, 0, 1}
  BY <1>1, <1>2 DEF Receive, DownloadTypeOK
<1> QED BY <1>1, <1>3, <1>4 DEF Receive, DownloadSound, DownloadTypeOK

LEMMA HandleSound ==
  ASSUME DownloadSound, Handle
  PROVE  DownloadSound'
<1> DEFINE p == work.peer
           b == Head(work.invs)
           s == Local(p)
           last == Len(work.invs) = 1
           t == IF work.type = "inv" THEN HandleInv(s, b, last) ELSE ProcessBlock(s, b)
<1>1. DownloadTypeOK /\ work \in Work
  BY DEF Handle, DownloadSound, DownloadTypeOK
<1>2. b \in Block /\ p \in Peer /\ SoundLocal(s) /\ side \in Sides
  BY <1>1, LocalIs DEF Work, DownloadTypeOK
<1>3. Apply(p, t)
  BY Zenon DEF Handle
<1>4. SoundLocal(t)
  <2> HIDE DEF s, b, last
  <2> QED BY <1>2, HandleInvIs, ProcessBlockIs
<1>5. work' \in Work \cup {NoWork}
  <2>1. CASE last
    BY <2>1 DEF Handle
  <2>2. CASE ~last
    <3>1. work' = [work EXCEPT !.invs = Tail(@)]
      BY <2>2 DEF Handle
    <3>2. work.invs \in Seq(Block) /\ work.invs # <<>> /\ Len(work.invs) # 1
      BY <1>1, <2>2 DEF Work
    <3>3. Tail(work.invs) \in Seq(Block) \ {<<>>}
      <4> DEFINE w == work.invs
      <4> HIDE DEF w
      <4>1. w \in Seq(Block) /\ w # <<>> /\ Len(w) # 1
        BY <3>2 DEF w
      <4>2. Tail(w) \in Seq(Block) /\ Len(Tail(w)) = Len(w) - 1 /\ Len(w) # 0
        BY <4>1
      <4>3. Len(Tail(w)) # Len(<<>>)
        <5>1. Len(w) \in Nat /\ Len(<<>>) = 0
          BY <4>1
        <5> QED BY <4>1, <4>2, <5>1
      <4> QED BY <4>2, <4>3 DEF w
    <3> QED BY <1>1, <3>1, <3>3 DEF Work
  <2> QED BY <2>1, <2>2
<1> HIDE DEF t, p
<1>6. UNCHANGED <<side, fAskedBlocks, mblkAge, peer, down, drops>>
  BY DEF Handle
<1>7. DownloadTypeOK'
  BY <1>1, <1>2, <1>3, <1>4, <1>5, <1>6, ApplySound DEF DownloadTypeOK
<1> QED BY <1>2, <1>3, <1>4, <1>6, <1>7, ApplySound DEF DownloadSound, Whole

LEMMA SendGetDataSound ==
  ASSUME DownloadSound, NEW p \in Peer, SendGetData(p)
  PROVE  DownloadSound'
<1> DEFINE E == [inv : Block, delay : Nat]
           ask == link[p].ask
           due == [i \in 1 .. Len(Due(p)) |-> Due(p)[i].inv]
           wanted == Keep(due, {i \in DOMAIN due : due[i] \notin have \cup orphan})
           later == Keep(ask, {i \in DOMAIN ask : ask[i].delay > 0})
<1>1. /\ DownloadTypeOK /\ link[p] \in Link /\ ask \in Seq(E)
      /\ asked \in [Block -> {Never} \cup Nat] /\ link \in [Peer -> Link]
      /\ up \in [Peer -> Seq(Request)]
  BY DEF DownloadSound, DownloadTypeOK, Link
<1>2. Due(p) \in Seq(E)
  <2> HIDE DEF E, ask
  <2> QED BY <1>1, KeepIs DEF Due, ask
<1>3. due \in Seq(Block)
  <2> DEFINE d == Due(p)
  <2> HIDE DEF d
  <2>1. d \in Seq(E)
    BY <1>2 DEF d
  <2>2. Len(d) \in Nat /\ \A i \in 1 .. Len(d) : d[i] \in E
    <3> HIDE DEF E
    <3> QED BY <2>1
  <2>3. \A i \in 1 .. Len(d) : d[i].inv \in Block
    BY <2>2
  <2>4. [i \in 1 .. Len(d) |-> d[i].inv] \in [1 .. Len(d) -> Block]
    BY <2>3
  <2>5. [i \in 1 .. Len(d) |-> d[i].inv] \in Seq(Block)
    BY <2>2, <2>4
  <2> QED BY <2>5 DEF d
<1> HIDE DEF due
<1>4. wanted \in Seq(Block)
  BY <1>3, KeepIs
<1>5. later \in Seq(E)
  <2> HIDE DEF E, ask
  <2> QED BY <1>1, KeepIs
<1>6. /\ asked' = [b \in Block |-> IF b \in ToSet(wanted) THEN 0 ELSE asked[b]]
      /\ up' = IF wanted = <<>> THEN up ELSE [up EXCEPT ![p] = Append(@, GetData(wanted))]
  BY Zenon DEF SendGetData, due
<1>7. link' = [link EXCEPT ![p] = [link[p] EXCEPT !.ask = later]]
  BY <1>1 DEF SendGetData
<1> HIDE DEF wanted, later
<1>8. asked' \in [Block -> {Never} \cup Nat]
  BY <1>1, <1>6
<1>9. up' \in [Peer -> Seq(Request)]
  <2>1. wanted # <<>> => GetData(wanted) \in Request
    BY <1>4 DEF GetData, Request
  <2> QED BY <1>1, <1>6, <2>1
<1>10. link' \in [Peer -> Link]
  <2>1. [link[p] EXCEPT !.ask = later] \in Link
    BY <1>1, <1>5 DEF Link
  <2> QED BY <1>1, <1>7, <2>1
<1>11. UNCHANGED <<side, have, orphan, fAskedBlocks, mblkAge, peer, down, drops, work>>
  BY DEF SendGetData
<1> QED BY <1>1, <1>8, <1>9, <1>10, <1>11 DEF DownloadSound, DownloadTypeOK

LEMMA SyncTimeoutSound ==
  ASSUME DownloadSound, NEW p \in Peer, SyncTimeout(p)
  PROVE  DownloadSound'
<1> DEFINE s == Local(p)
           t == PushGetBlocks(s, BestOf(have), NoHash)
<1>1. SoundLocal(s) /\ s.have = have /\ s.orphan = orphan
  BY LocalIs DEF Local
<1>2. Apply(p, t)
  BY DEF SyncTimeout
<1> HIDE DEF s
<1>3. Whole(have, orphan) /\ have \in SUBSET (0 .. Top) /\ 0 \in have
  BY SoundIs DEF DownloadTypeOK, Whole
<1>4. t \in LocalState /\ t.have = have /\ t.orphan = orphan
  BY <1>1, <1>3, BestIs, PushGetBlocksIs DEF SoundLocal
<1>5. SoundLocal(t)
  BY <1>3, <1>4 DEF SoundLocal
<1>6. mblkAge' = 0 /\ UNCHANGED <<side, fAskedBlocks, peer, down, drops, work>>
  BY DEF SyncTimeout
<1>7. DownloadTypeOK'
  BY <1>2, <1>5, <1>6, ApplySound DEF DownloadSound, DownloadTypeOK
<1> QED BY <1>2, <1>5, <1>6, <1>7, ApplySound DEF DownloadSound, Whole

LEMMA TickSound ==
  ASSUME DownloadSound, Tick
  PROVE  DownloadSound'
<1> DEFINE E == [inv : Block, delay : Nat]
<1>1. DownloadTypeOK /\ asked \in [Block -> {Never} \cup Nat] /\ link \in [Peer -> Link]
  BY DEF DownloadSound, DownloadTypeOK
<1>2. asked' \in [Block -> {Never} \cup Nat] /\ mblkAge' \in {Never, 0, 1}
  <2>1. \A x \in {Never} \cup Nat : Later(x - 1, Never) \in {Never} \cup Nat
    BY DEF Later, Never
  <2>2. \A b \in Block : asked[b] \in {Never} \cup Nat
    BY <1>1
  <2> QED BY <2>1, <2>2 DEF Tick
<1>3. \A x \in Nat : Later(x - 1, 0) \in Nat
  BY DEF Later
<1>4. ASSUME NEW ask \in Seq(E) PROVE Sooner(ask) \in Seq(E)
  <2>1. \A i \in DOMAIN ask : [ask[i] EXCEPT !.delay = Later(@ - 1, 0)] \in E
    <3>1. \A e \in E : [e EXCEPT !.delay = Later(@ - 1, 0)] \in E
      BY <1>3
    <3> HIDE DEF E
    <3>2. \A i \in DOMAIN ask : ask[i] \in E
      OBVIOUS
    <3> QED BY <3>1, <3>2
  <2>2. DOMAIN ask = 1 .. Len(ask) /\ Len(ask) \in Nat
    OBVIOUS
  <2> HIDE DEF E
  <2> QED BY <2>1, <2>2 DEF Sooner
<1>5. link' = [p \in Peer |-> [link[p] EXCEPT !.ask = Sooner(@)]]
  BY DEF Tick
<1>6. ASSUME NEW p \in Peer PROVE link'[p] \in Link
  <2>1. link[p] \in Link /\ link[p].ask \in Seq(E)
    BY <1>1 DEF Link
  <2>2. Sooner(link[p].ask) \in Seq(E)
    BY <1>4, <2>1
  <2>3. [link[p] EXCEPT !.ask = Sooner(@)] \in Link
    BY <2>1, <2>2 DEF Link
  <2> QED BY <1>5, <2>3
<1>7. link' \in [Peer -> Link]
  BY <1>5, <1>6
<1>8. UNCHANGED <<side, have, orphan, fAskedBlocks, peer, up, down, drops, work>>
  BY DEF Tick
<1> QED BY <1>1, <1>2, <1>7, <1>8 DEF DownloadSound, DownloadTypeOK

----------------------------------------------------------------------------
(* The steps of a peer *)

LEMMA PushInventoryIs ==
  ASSUME NEW q \in PeerEnd, NEW blocks \in Seq(Block)
  PROVE  PushInventory(q, blocks) \in PeerEnd
<1> DEFINE fresh == Keep(blocks, {i \in DOMAIN blocks : blocks[i] \notin q.known})
<1>1. fresh \in Seq(Block)
  BY KeepIs
<1> HIDE DEF fresh
<1>2. q.toSend \in Seq(Block)
  BY DEF PeerEnd
<1>3. q.toSend \o fresh \in Seq(Block)
  BY <1>1, <1>2
<1>4. PushInventory(q, blocks) = [q EXCEPT !.toSend = q.toSend \o fresh]
  BY DEF PushInventory, fresh
<1> QED BY <1>3, <1>4 DEF PeerEnd

LEMMA MinOf ==
  ASSUME NEW x \in Nat, NEW y \in Nat
  PROVE  Min({x, y}) = IF x <= y THEN x ELSE y
<1>1. {x, y} \subseteq Nat /\ {x, y} # {}
  OBVIOUS
<1>2. Min({x, y}) \in {x, y} /\ \A z \in {x, y} : Min({x, y}) <= z
  BY <1>1, MinIn
<1> QED BY <1>2

LEMMA AnswerGetBlocksSound ==
  ASSUME DownloadSound, NEW p \in Peer, AnswerGetBlocks(p)
  PROVE  DownloadSound'
<1> DEFINE m == Head(up[p])
           q == peer[p]
           first == Locate(m.begin, q.tip) + 1
           stopped == m.stop \in first .. q.tip /\ m.stop - first < Limit
           last == IF stopped THEN m.stop - 1 ELSE Min({q.tip, first + Limit - 1})
           blocks == [i \in 1 .. last - first + 1 |-> first + i - 1]
           pushed == PushInventory(q, blocks)
<1>1. /\ DownloadTypeOK /\ q \in PeerEnd /\ peer \in [Peer -> PeerEnd]
      /\ up \in [Peer -> Seq(Request)] /\ up[p] \in Seq(Request) /\ up[p] # <<>>
      /\ m.type = "getblocks"
  BY DEF DownloadSound, DownloadTypeOK, AnswerGetBlocks, Asks
<1>2. m \in Request /\ Tail(up[p]) \in Seq(Request)
  BY <1>1
<1>3. m.begin \in Begin /\ m.stop \in Nat /\ q.tip \in 0 .. Top
  BY <1>1, <1>2, BlockIs DEF Request, Begin, PeerEnd, NoHash
<1>4. peer' = [peer EXCEPT ![p] = IF last - first + 1 = Limit
                                  THEN [pushed EXCEPT !.continue = last] ELSE pushed]
  BY Zenon DEF AnswerGetBlocks
<1>5. UNCHANGED <<side, have, orphan, asked, fAskedBlocks, mblkAge, link, down, drops, work>>
      /\ up' = [up EXCEPT ![p] = Tail(@)]
  BY DEF AnswerGetBlocks
<1> HIDE DEF m, q
<1>6. first \in Nat /\ 1 <= first /\ first <= q.tip + 1
  <2>1. q.tip \in Nat
    BY <1>3, BlockIs
  <2>2. m.begin # SideTip => m.begin \in Nat
    BY <1>3, BlockIs DEF Begin
  <2>3. Locate(m.begin, q.tip) \in Nat /\ Locate(m.begin, q.tip) <= q.tip
    BY <2>1, <2>2, MinOf DEF Locate
  <2> QED BY <2>1, <2>3
<1> HIDE DEF first
<1>7. last \in Int /\ first - 1 <= last /\ last <= q.tip
  <2>1. q.tip \in Nat /\ Limit \in Nat \ {0}
    BY <1>3, BlockIs, DownloadAssumption
  <2>2. CASE stopped
    BY <1>3, <1>6, <2>1, <2>2
  <2>3. CASE ~stopped
    <3>1. last = Min({q.tip, first + Limit - 1})
      BY <2>3
    <3>2. first + Limit - 1 \in Nat
      BY <1>6, <2>1
    <3>3. last = IF q.tip <= first + Limit - 1 THEN q.tip ELSE first + Limit - 1
      BY <2>1, <3>1, <3>2, MinOf
    <3> HIDE DEF last
    <3> QED BY <1>6, <2>1, <3>3
  <2> QED BY <2>2, <2>3
<1> HIDE DEF last
<1>8. blocks \in Seq(Block)
  <2>1. \A i \in 1 .. last - first + 1 : first + i - 1 \in Block
    BY <1>3, <1>6, <1>7, BlockIs
  <2>2. last - first + 1 \in Nat
    BY <1>6, <1>7
  <2>3. blocks \in [1 .. last - first + 1 -> Block]
    BY <2>1
  <2> HIDE DEF blocks
  <2> QED BY <2>2, <2>3
<1> HIDE DEF blocks
<1>9. pushed \in PeerEnd
  BY <1>1, <1>8, PushInventoryIs
<1> HIDE DEF pushed
<1>10. last - first + 1 = Limit => last \in Block
  BY <1>3, <1>6, <1>7, BlockIs, DownloadAssumption
<1>11. last - first + 1 = Limit => [pushed EXCEPT !.continue = last] \in PeerEnd
  BY <1>9, <1>10 DEF PeerEnd
<1>12. peer' \in [Peer -> PeerEnd]
  BY <1>1, <1>4, <1>9, <1>11
<1>13. up' \in [Peer -> Seq(Request)]
  BY <1>1, <1>2, <1>5
<1> QED BY <1>1, <1>5, <1>12, <1>13 DEF DownloadSound, DownloadTypeOK

LEMMA SendInventorySound ==
  ASSUME DownloadSound, NEW p \in Peer, SendInventory(p)
  PROVE  DownloadSound'
<1> DEFINE q == peer[p]
           toSend == q.toSend
           invs == Keep(toSend, {i \in DOMAIN toSend :
                                   /\ toSend[i] \notin q.known
                                   /\ \A j \in 1 .. i - 1 : toSend[j] # toSend[i]})
<1>1. /\ DownloadTypeOK /\ q \in PeerEnd /\ peer \in [Peer -> PeerEnd]
      /\ down \in [Peer -> Seq(Answer)]
  BY DEF DownloadSound, DownloadTypeOK
<1>2. toSend \in Seq(Block)
  BY <1>1 DEF PeerEnd
<1>3. invs \in Seq(Block)
  <2> HIDE DEF toSend
  <2> QED BY <1>2, KeepIs
<1>4. /\ peer' = [peer EXCEPT ![p].toSend = <<>>, ![p].known = @ \cup ToSet(invs)]
      /\ down' = IF invs = <<>> THEN down ELSE [down EXCEPT ![p] = Append(@, Inv(invs))]
      /\ UNCHANGED <<side, have, orphan, asked, fAskedBlocks, mblkAge, link, up, drops, work>>
  BY Zenon DEF SendInventory
<1> HIDE DEF invs
<1>5. ToSet(invs) \subseteq Block
  BY <1>3 DEF ToSet
<1>6. peer' \in [Peer -> PeerEnd]
  <2>1. [q EXCEPT !.toSend = <<>>, !.known = @ \cup ToSet(invs)] \in PeerEnd
    <3> HIDE DEF q
    <3>1. q.known \cup ToSet(invs) \in SUBSET Block /\ <<>> \in Seq(Block)
      BY <1>1, <1>5 DEF PeerEnd
    <3> QED BY <1>1, <3>1 DEF PeerEnd
  <2>2. peer' = [peer EXCEPT ![p] = [q EXCEPT !.toSend = <<>>, !.known = @ \cup ToSet(invs)]]
    BY <1>1, <1>4
  <2> QED BY <1>1, <2>1, <2>2
<1>7. down' \in [Peer -> Seq(Answer)]
  <2>1. invs # <<>> => Inv(invs) \in Answer
    BY <1>3 DEF Inv, Answer
  <2> QED BY <1>1, <1>4, <2>1
<1> QED BY <1>1, <1>4, <1>6, <1>7 DEF DownloadSound, DownloadTypeOK

LEMMA ProcessGetDataSound ==
  ASSUME DownloadSound, NEW p \in Peer, NEW data \in Seq(Block), ProcessGetData(p, data)
  PROVE  peer' \in [Peer -> PeerEnd] /\ down' \in [Peer -> Seq(Answer)]
<1> DEFINE q == peer[p]
           n == Min({Len(data), MultiBlock})
           I == {i \in 1 .. n : data[i] <= q.tip}
           blocks == Keep(data, I)
           Y == {x \in Block : \E i \in 1 .. Len(data) : i \in I /\ data[i] = x}
           trigger == ContinueInv(q, blocks)
           rest == SubSeq(data, n + 1, Len(data))
           mblk == IF blocks = <<>> THEN <<>> ELSE <<Mblk(blocks)>>
           c == IF trigger = <<>> THEN q.continue ELSE NoHash
<1>1. /\ DownloadTypeOK /\ q \in PeerEnd /\ peer \in [Peer -> PeerEnd]
      /\ down \in [Peer -> Seq(Answer)]
  BY DEF DownloadSound, DownloadTypeOK
<1>2. q.tip \in 0 .. Top /\ q.continue \in Block \cup {NoHash}
  BY <1>1 DEF PeerEnd
<1>3. n \in Nat /\ n <= Len(data)
  <2>1. Len(data) \in Nat /\ MultiBlock \in Nat
    BY DownloadAssumption
  <2> QED BY <2>1, MinOf
<1>4. /\ down' = [down EXCEPT ![p] = @ \o trigger \o mblk]
      /\ peer' = [peer EXCEPT ![p].data = rest,
                              ![p].continue = IF trigger = <<>> THEN @ ELSE NoHash]
  BY Zenon DEF ProcessGetData
<1>5. blocks \in Seq(Y) /\ blocks \in Seq(Block)
  <2> HIDE DEF I
  <2> QED BY KeepIs
<1>6. rest \in Seq(Block)
  <2> HIDE DEF n
  <2> QED BY <1>3
<1> HIDE DEF rest, n, q, blocks
<1>7. \A x \in ToSet(blocks) : x \in Block /\ x <= q.tip
  <2>1. \A x \in Y : x \in Block /\ x <= q.tip
    OBVIOUS
  <2> HIDE DEF Y
  <2>2. \A x \in ToSet(blocks) : x \in Y
    BY <1>5 DEF ToSet
  <2> QED BY <2>1, <2>2
<1> HIDE DEF I
<1>8. trigger \in Seq(Answer)
  <2>1. CASE q.continue \in ToSet(blocks)
    <3>1. q.tip \in Block
      BY <1>2, <1>7, <2>1, BlockIs
    <3>2. Inv(<<q.tip>>) \in Answer
      BY <3>1 DEF Inv, Answer
    <3>3. trigger = <<Inv(<<q.tip>>)>>
      BY <2>1 DEF ContinueInv
    <3> QED BY <3>2, <3>3
  <2>2. CASE q.continue \notin ToSet(blocks)
    BY <2>2 DEF ContinueInv
  <2> QED BY <2>1, <2>2
<1>9. mblk \in Seq(Answer)
  <2>1. CASE blocks = <<>>
    BY <2>1
  <2>2. CASE blocks # <<>>
    <3>1. Mblk(blocks) \in Answer
      BY <1>5, <2>2 DEF Mblk, Answer
    <3> HIDE DEF Y
    <3> QED BY <2>2, <3>1
  <2> QED BY <2>1, <2>2
<1> HIDE DEF trigger, mblk, Y
<1>10. down' \in [Peer -> Seq(Answer)]
  <2>1. down[p] \o trigger \o mblk \in Seq(Answer)
    BY <1>1, <1>8, <1>9
  <2> QED BY <1>1, <1>4, <2>1
<1>11. peer' \in [Peer -> PeerEnd]
  <2>1. c \in Block \cup {NoHash}
    BY <1>2
  <2>2. peer' = [peer EXCEPT ![p] = [q EXCEPT !.data = rest, !.continue = c]]
    BY <1>1, <1>4 DEF q, PeerEnd
  <2> HIDE DEF c
  <2>3. [q EXCEPT !.data = rest, !.continue = c] \in PeerEnd
    BY <1>1, <1>6, <2>1 DEF PeerEnd
  <2> QED BY <1>1, <2>2, <2>3
<1> QED BY <1>10, <1>11

LEMMA ReceiveGetDataSound ==
  ASSUME DownloadSound, NEW p \in Peer, ReceiveGetData(p)
  PROVE  DownloadSound'
<1> DEFINE m == Head(up[p])
<1>1. /\ DownloadTypeOK /\ up \in [Peer -> Seq(Request)]
      /\ up[p] \in Seq(Request) /\ up[p] # <<>> /\ m.type = "getdata"
  BY DEF DownloadSound, DownloadTypeOK, ReceiveGetData, Asks
<1>2. m \in Request /\ Tail(up[p]) \in Seq(Request)
  BY <1>1
<1>3. m.invs \in Seq(Block)
  BY <1>1, <1>2 DEF Request
<1>4. /\ ProcessGetData(p, m.invs) /\ up' = [up EXCEPT ![p] = Tail(@)]
      /\ UNCHANGED <<side, have, orphan, asked, fAskedBlocks, mblkAge, link, drops, work>>
  BY Zenon DEF ReceiveGetData
<1> HIDE DEF m
<1>5. peer' \in [Peer -> PeerEnd] /\ down' \in [Peer -> Seq(Answer)]
  BY <1>3, <1>4, ProcessGetDataSound
<1>6. up' \in [Peer -> Seq(Request)]
  BY <1>1, <1>2, <1>4
<1> QED BY <1>1, <1>4, <1>5, <1>6 DEF DownloadSound, DownloadTypeOK

LEMMA ContinueGetDataSound ==
  ASSUME DownloadSound, NEW p \in Peer, ContinueGetData(p)
  PROVE  DownloadSound'
<1>1. DownloadTypeOK /\ peer[p] \in PeerEnd
  BY DEF DownloadSound, DownloadTypeOK
<1>2. peer[p].data \in Seq(Block)
  BY <1>1 DEF PeerEnd
<1>3. /\ ProcessGetData(p, peer[p].data)
      /\ UNCHANGED <<side, have, orphan, asked, fAskedBlocks, mblkAge, link, up, drops, work>>
  BY Zenon DEF ContinueGetData
<1>4. peer' \in [Peer -> PeerEnd] /\ down' \in [Peer -> Seq(Answer)]
  BY <1>2, <1>3, ProcessGetDataSound
<1> QED BY <1>1, <1>3, <1>4 DEF DownloadSound, DownloadTypeOK

LEMMA NewBlockSound ==
  ASSUME DownloadSound, NEW p \in Peer, NewBlock(p)
  PROVE  DownloadSound'
<1> DEFINE q == [peer[p] EXCEPT !.tip = @ + 1]
<1>1. DownloadTypeOK /\ peer[p] \in PeerEnd /\ peer \in [Peer -> PeerEnd]
  BY DEF DownloadSound, DownloadTypeOK
<1>2. /\ peer[p].tip < Top
      /\ peer' = [peer EXCEPT ![p] = IF link[p].conn THEN PushInventory(q, <<q.tip>>) ELSE q]
      /\ UNCHANGED <<side, have, orphan, asked, fAskedBlocks, mblkAge, link, up, down, drops, work>>
  BY Zenon DEF NewBlock
<1>3. peer[p].tip \in 0 .. Top
  BY <1>1 DEF PeerEnd
<1>4. peer[p].tip + 1 \in Block
  BY <1>2, <1>3, BlockIs
<1>5. q \in PeerEnd /\ q.tip \in Block
  BY <1>1, <1>4, BlockIs DEF PeerEnd
<1> HIDE DEF q
<1>6. PushInventory(q, <<q.tip>>) \in PeerEnd
  <2>1. <<q.tip>> \in Seq(Block)
    BY <1>5
  <2> QED BY <1>5, <2>1, PushInventoryIs
<1>7. peer' \in [Peer -> PeerEnd]
  BY <1>1, <1>2, <1>5, <1>6
<1> QED BY <1>1, <1>2, <1>7 DEF DownloadSound, DownloadTypeOK

(* The index of the node is a chain and orphans are blocks whose parents   *)
(* are missing, for any number of peers, lengths of batches and losses of  *)
(* connections; every message is one that its handler can take.  A node    *)
(* whose own branch is longer than nCheckpointSpan takes no block of its   *)
(* peers, in whatever way the blocks of the two chains are asked for.      *)
THEOREM DownloadAlwaysSound == DownloadSpec => []DownloadSound
<1>1. DownloadInit => DownloadSound
  BY InitSound
<1>2. DownloadSound /\ [DownloadNext]_downloadVars => DownloadSound'
  <2> SUFFICES ASSUME DownloadSound, [DownloadNext]_downloadVars PROVE DownloadSound'
    OBVIOUS
  <2>1. CASE Tick
    BY <2>1, TickSound
  <2>2. CASE Handle
    BY <2>2, HandleSound
  <2>3. ASSUME NEW p \in Peer, Connect(p) PROVE DownloadSound'
    BY <2>3, ConnectSound
  <2>4. ASSUME NEW p \in Peer, Disconnect(p) PROVE DownloadSound'
    BY <2>4, DisconnectSound
  <2>5. ASSUME NEW p \in Peer, Serve(p) PROVE DownloadSound'
    BY <2>5, ReceiveSound, SendGetDataSound, SyncTimeoutSound DEF Serve
  <2>6. ASSUME NEW p \in Peer, Answers(p) PROVE DownloadSound'
    BY <2>6, AnswerGetBlocksSound, ReceiveGetDataSound, ContinueGetDataSound DEF Answers
  <2>7. ASSUME NEW p \in Peer, SendInventory(p) PROVE DownloadSound'
    BY <2>7, SendInventorySound
  <2>8. ASSUME NEW p \in Peer, NewBlock(p) PROVE DownloadSound'
    BY <2>8, NewBlockSound
  <2>9. CASE UNCHANGED downloadVars
    BY <2>9 DEF downloadVars, DownloadSound, DownloadTypeOK
  <2> QED BY <2>1, <2>2, <2>3, <2>4, <2>5, <2>6, <2>7, <2>8, <2>9, Zenon DEF DownloadNext
<1> QED BY <1>1, <1>2, PTL DEF DownloadSpec

=============================================================================
