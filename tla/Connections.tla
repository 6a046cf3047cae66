---------------------------- MODULE Connections ----------------------------
(***************************************************************************)
(* The life of a CNode in net.cpp: the threads that open connections, the  *)
(* socket thread that accepts, disconnects and deletes nodes, and the      *)
(* message thread that works on a copy of vNodes.  A node is kept by its   *)
(* reference count, an outbound one also holds a grant of semOutbound.     *)
(*                                                                         *)
(* Steps are as long as the locks make them.  cs_vNodes is held through    *)
(* the whole loop that disconnects nodes, and cs_connectNode through       *)
(* ConnectNode.  What OpenNetworkConnection does to the node it got back   *)
(* (MoveTo, fNetworkNode) is under no lock, and so is the AddRef of a node *)
(* that FindNode returned: each access to memory is a step there.          *)
(*                                                                         *)
(* A connection is opened in one of five ways.  "peer" has an address and  *)
(* a grant (ThreadOpenConnections, added nodes); "added" (added nodes with *)
(* a name proxy) and "oneshot" (ProcessOneShot) have a name and a grant;   *)
(* "connect" (-connect) has a name and no grant; "onetry" (addnode onetry) *)
(* calls ConnectNode itself, by name.  By name, ConnectNode looks for      *)
(* nobody.                                                                 *)
(***************************************************************************)
EXTENDS Integers, FiniteSets, FiniteSetsExt

CONSTANTS
  Addr,         \* addresses of peers; one is also the text of itself
  Name,         \* host names
  Opener,       \* threads that call OpenNetworkConnection or ConnectNode
  Ways,         \* the ways in which each of them opens connections
  MaxOutbound,  \* MAX_OUTBOUND_CONNECTIONS
  MaxInbound,   \* -maxconnections less MAX_OUTBOUND_CONNECTIONS
  MaxNode       \* bound: nodes constructed

NoThread == "none"

Way == {"peer", "added", "oneshot", "connect", "onetry"}

\* strDest, pszDest # NULL.
ByName(way) == way # "peer"

\* grantOutbound # NULL.
WithGrant(way) == way \in {"peer", "added", "oneshot"}

ASSUME ConnectionsAssumption ==
  /\ MaxOutbound \in Nat /\ MaxInbound \in Nat /\ MaxNode \in Nat
  /\ Addr # {}
  /\ NoThread \notin Opener
  /\ Ways \in [Opener -> SUBSET Way]

VARIABLES
  node,                \* the CNode objects, in the order of construction
  vNodes,
  vNodesDisconnected,
  semOutbound,         \* value of the semaphore
  sock,                \* socket thread: place, nodes still to visit or copied
  msgCopy,             \* message thread: vNodesCopy
  msgBusy,
  op,                  \* opener threads
  connectLock,         \* who holds cs_connectNode
  origin,              \* how a node came to be: addrName, and the way (history)
  early                \* history: outbound nodes closed before they were marked

vars == <<node, vNodes, vNodesDisconnected, semOutbound, sock, msgCopy,
          msgBusy, op, connectLock, origin, early>>

Node == 1 .. MaxNode
NoNode == 0

\* The members of CNode that decide about its life.
CNode == [state : {"none", "live", "deleted"}, addr : Addr, fInbound : BOOLEAN,
          fNetworkNode : BOOLEAN, fDisconnect : BOOLEAN, nRefCount : Nat,
          fHaveGrant : BOOLEAN]

AnyAddr == CHOOSE a \in Addr : TRUE

\* What a connection is opened to, which becomes addrName: a text.
Dest == Addr \cup Name

Origin == [way : Way \cup {"accepted"}, addrName : Dest]

\* A thread between two attempts, and memory that holds no CNode.
Idle == [pc |-> "idle", way |-> "peer", dest |-> AnyAddr, pnode |-> NoNode,
         nRead |-> 0, fHaveGrant |-> FALSE]

NoCNode(state) ==
  [state |-> state, addr |-> AnyAddr, fInbound |-> FALSE, fNetworkNode |-> FALSE,
   fDisconnect |-> FALSE, nRefCount |-> 0, fHaveGrant |-> FALSE]

TypeOK ==
  /\ node \in [Node -> CNode]
  /\ vNodes \subseteq Node
  /\ vNodesDisconnected \subseteq Node
  /\ semOutbound \in Nat
  /\ sock \in [pc : {"top", "disconnect", "clear", "close", "accept", "copy", "service"},
               todo : SUBSET Node]
  /\ msgCopy \subseteq Node
  /\ msgBusy \in BOOLEAN
  /\ op \in [Opener -> [pc : {"idle", "open", "connect", "dial", "found", "addref",
                              "move", "take", "mark", "oneshot"},
                        way : Way, dest : Dest, pnode : Node \cup {NoNode}, nRead : Nat,
                        fHaveGrant : BOOLEAN]]
  /\ connectLock \in Opener \cup {NoThread}
  /\ origin \in [Node -> Origin]
  /\ early \subseteq Node

Init ==
  /\ node = [n \in Node |-> NoCNode("none")]
  /\ vNodes = {}
  /\ vNodesDisconnected = {}
  /\ semOutbound = MaxOutbound
  /\ sock = [pc |-> "top", todo |-> {}]
  /\ msgCopy = {}
  /\ msgBusy = FALSE
  /\ op = [t \in Opener |-> Idle]
  /\ connectLock = NoThread
  /\ origin = [n \in Node |-> [way |-> "accepted", addrName |-> AnyAddr]]
  /\ early = {}

----------------------------------------------------------------------------
(* Nodes *)

\* The socket thread holds cs_vNodes while it disconnects.
VNodesFree == sock.pc \notin {"disconnect", "clear", "close"}

Fresh == {n \in Node : node[n].state = "none"}

\* new CNode and AddRef.  An outbound node sends its version from the
\* constructor, and that may already fail (fail).
NewCNode(n, a, fInbound, fail) ==
  [node[n] EXCEPT !.state = "live", !.addr = a, !.fInbound = fInbound,
                  !.fDisconnect = fail, !.nRefCount = 1]

\* The push_back too.
Construct(a, fInbound, fail, how) ==
  /\ VNodesFree
  /\ Fresh # {}
  /\ LET n == Min(Fresh) IN
       /\ node' = [node EXCEPT ![n] = NewCNode(n, a, fInbound, fail)]
       /\ vNodes' = vNodes \cup {n}
       /\ origin' = [origin EXCEPT ![n] = how]

AddRefs(S) == [n \in Node |-> IF n \in S THEN [node[n] EXCEPT !.nRefCount = @ + 1]
                                         ELSE node[n]]

Releases(S) == [n \in Node |-> IF n \in S THEN [node[n] EXCEPT !.nRefCount = @ - 1]
                                          ELSE node[n]]

----------------------------------------------------------------------------
(* ThreadSocketHandler *)

StartPass ==
  /\ sock.pc = "top"
  /\ sock' = [pc |-> "disconnect", todo |-> vNodes]
  /\ UNCHANGED <<node, vNodes, vNodesDisconnected, semOutbound, msgCopy, msgBusy,
                 op, connectLock, origin, early>>

\* Nodes are visited in the order they were pushed.
Visited == Min(sock.todo)

ToDisconnect(n) == node[n].fDisconnect \/ node[n].nRefCount <= 0

KeepNode ==
  /\ sock.pc = "disconnect" /\ sock.todo # {}
  /\ ~ToDisconnect(Visited)
  /\ sock' = [sock EXCEPT !.todo = @ \ {Visited}]
  /\ UNCHANGED <<node, vNodes, vNodesDisconnected, semOutbound, msgCopy, msgBusy,
                 op, connectLock, origin, early>>

\* Erase from vNodes, and the first half of grantOutbound.Release(): it
\* returns if there is no grant, otherwise posts the semaphore ...
DisconnectNode ==
  /\ sock.pc = "disconnect" /\ sock.todo # {}
  /\ ToDisconnect(Visited)
  /\ vNodes' = vNodes \ {Visited}
  /\ semOutbound' = IF node[Visited].fHaveGrant THEN semOutbound + 1 ELSE semOutbound
  /\ sock' = [sock EXCEPT !.pc = IF node[Visited].fHaveGrant THEN "clear" ELSE "close"]
  /\ UNCHANGED <<node, vNodesDisconnected, msgCopy, msgBusy, op, connectLock, origin, early>>

\* ... and forgets the grant.
ClearGrant ==
  /\ sock.pc = "clear"
  /\ node' = [node EXCEPT ![Visited].fHaveGrant = FALSE]
  /\ sock' = [sock EXCEPT !.pc = "close"]
  /\ UNCHANGED <<vNodes, vNodesDisconnected, semOutbound, msgCopy, msgBusy, op,
                 connectLock, origin, early>>

\* Mutant of DropsReference: whatever the node is.
DropsAlways(n) == TRUE

\* The reference that vNodes had is given up.
DropsReference(n) == node[n].fNetworkNode \/ node[n].fInbound

Closed(n) ==
  [node[n] EXCEPT !.fDisconnect = TRUE,
                  !.nRefCount = IF DropsReference(n) THEN node[n].nRefCount - 1
                                                     ELSE node[n].nRefCount]

CloseNode ==
  /\ sock.pc = "close"
  /\ node' = [node EXCEPT ![Visited] = Closed(Visited)]
  /\ vNodesDisconnected' = vNodesDisconnected \cup {Visited}
  /\ sock' = [pc |-> "disconnect", todo |-> sock.todo \ {Visited}]
  /\ early' = IF node[Visited].fNetworkNode \/ node[Visited].fInbound THEN early
              ELSE early \cup {Visited}
  /\ UNCHANGED <<vNodes, semOutbound, msgCopy, msgBusy, op, connectLock, origin>>

\* Nodes of the pool without references.  The locks of a node that are tried
\* first are only held by threads with a reference.
Deletable == {n \in vNodesDisconnected : node[n].nRefCount <= 0}

\* The destructor of a node's grant posts the semaphore.
DeleteNodes ==
  /\ sock.pc = "disconnect" /\ sock.todo = {}
  /\ node' = [n \in Node |-> IF n \in Deletable THEN NoCNode("deleted") ELSE node[n]]
  /\ semOutbound' = semOutbound + Cardinality({n \in Deletable : node[n].fHaveGrant})
  /\ vNodesDisconnected' = vNodesDisconnected \ Deletable
  /\ sock' = [sock EXCEPT !.pc = "accept"]
  /\ UNCHANGED <<vNodes, msgCopy, msgBusy, op, connectLock, origin, early>>

Inbound == {n \in vNodes : node[n].fInbound}

Accept(a) ==
  /\ sock.pc = "accept"
  /\ Cardinality(Inbound) < MaxInbound
  /\ Construct(a, TRUE, FALSE, [way |-> "accepted", addrName |-> a])
  /\ sock' = [sock EXCEPT !.pc = "copy"]
  /\ UNCHANGED <<vNodesDisconnected, semOutbound, msgCopy, msgBusy, op, connectLock, early>>

\* Nobody connects, or who does is refused: too many, or banned.
AcceptNone ==
  /\ sock.pc = "accept"
  /\ sock' = [sock EXCEPT !.pc = "copy"]
  /\ UNCHANGED <<node, vNodes, vNodesDisconnected, semOutbound, msgCopy, msgBusy,
                 op, connectLock, origin, early>>

CopyNodes ==
  /\ sock.pc = "copy"
  /\ node' = AddRefs(vNodes)
  /\ sock' = [pc |-> "service", todo |-> vNodes]
  /\ UNCHANGED <<vNodes, vNodesDisconnected, semOutbound, msgCopy, msgBusy, op,
                 connectLock, origin, early>>

\* Receiving or sending fails, the peer closes, floods or is silent too long.
ServiceFails(n) ==
  /\ sock.pc = "service" /\ n \in sock.todo
  /\ ~node[n].fDisconnect
  /\ node' = [node EXCEPT ![n].fDisconnect = TRUE]
  /\ UNCHANGED <<vNodes, vNodesDisconnected, semOutbound, sock, msgCopy, msgBusy,
                 op, connectLock, origin, early>>

EndPass ==
  /\ sock.pc = "service"
  /\ node' = Releases(sock.todo)
  /\ sock' = [pc |-> "top", todo |-> {}]
  /\ UNCHANGED <<vNodes, vNodesDisconnected, semOutbound, msgCopy, msgBusy, op,
                 connectLock, origin, early>>

SocketThread ==
  \/ StartPass \/ KeepNode \/ DisconnectNode \/ ClearGrant \/ CloseNode
  \/ DeleteNodes \/ AcceptNone \/ CopyNodes \/ EndPass
  \/ \E a \in Addr : Accept(a)
  \/ \E n \in Node : ServiceFails(n)

----------------------------------------------------------------------------
(* ThreadMessageHandler *)

MessageCopy ==
  /\ ~msgBusy /\ VNodesFree
  /\ node' = AddRefs(vNodes)
  /\ msgCopy' = vNodes
  /\ msgBusy' = TRUE
  /\ UNCHANGED <<vNodes, vNodesDisconnected, semOutbound, sock, op, connectLock, origin, early>>

\* ProcessMessages or SendMessages disconnects the node.
MessageFails(n) ==
  /\ n \in msgCopy /\ ~node[n].fDisconnect
  /\ node' = [node EXCEPT ![n].fDisconnect = TRUE]
  /\ UNCHANGED <<vNodes, vNodesDisconnected, semOutbound, sock, msgCopy, msgBusy,
                 op, connectLock, origin, early>>

\* Mutant of MessageEnd: only nodes that are still connected are released.
MessageEndConnected ==
  /\ msgBusy /\ VNodesFree
  /\ node' = Releases(msgCopy \cap vNodes)
  /\ msgCopy' = {}
  /\ msgBusy' = FALSE
  /\ UNCHANGED <<vNodes, vNodesDisconnected, semOutbound, sock, op, connectLock, origin, early>>

MessageEnd ==
  /\ msgBusy /\ VNodesFree
  /\ node' = Releases(msgCopy)
  /\ msgCopy' = {}
  /\ msgBusy' = FALSE
  /\ UNCHANGED <<vNodes, vNodesDisconnected, semOutbound, sock, op, connectLock, origin, early>>

MessageThread ==
  MessageCopy \/ MessageEnd \/ \E n \in Node : MessageFails(n)

----------------------------------------------------------------------------
(* ThreadOpenConnections, ThreadOpenAddedConnections, addnode, ConnectNode *)

Dests(way) == IF ByName(way) THEN Dest ELSE Addr

NewAttempt(way, d) ==
  [pc |-> IF way = "onetry" THEN "connect" ELSE "open", way |-> way, dest |-> d,
   pnode |-> NoNode, nRead |-> 0, fHaveGrant |-> WithGrant(way)]

\* CSemaphoreGrant grant(*semOutbound), and an address or a name to try.
Acquire(t, way, d) ==
  /\ op[t].pc = "idle" /\ way \in Ways[t] /\ WithGrant(way) /\ d \in Dests(way)
  /\ semOutbound > 0
  /\ semOutbound' = semOutbound - 1
  /\ op' = [op EXCEPT ![t] = NewAttempt(way, d)]
  /\ UNCHANGED <<node, vNodes, vNodesDisconnected, sock, msgCopy, msgBusy, connectLock,
                 origin, early>>

\* -connect and addnode onetry, without a grant.
TryWithout(t, way, d) ==
  /\ op[t].pc = "idle" /\ way \in Ways[t] /\ ~WithGrant(way) /\ d \in Dests(way)
  /\ op' = [op EXCEPT ![t] = NewAttempt(way, d)]
  /\ UNCHANGED <<node, vNodes, vNodesDisconnected, semOutbound, sock, msgCopy, msgBusy,
                 connectLock, origin, early>>

\* The thread's grant, if it has one, ends with its scope.
EndAttempt(t) ==
  /\ semOutbound' = IF op[t].fHaveGrant THEN semOutbound + 1 ELSE semOutbound
  /\ op' = [op EXCEPT ![t] = Idle]

\* FindNode((CNetAddr)): any node of that address, inbound ones included.
FindNodeIP(a) == {n \in vNodes : node[n].addr = a}

\* FindNode((CService)): an inbound node has the port its peer dialled from.
FindNodeService(a) == {n \in vNodes : node[n].addr = a /\ ~node[n].fInbound}

\* FindNode(addrName), again with that port in the text of an inbound node.
FindNodeName(d) == {n \in vNodes : origin[n].addrName = d /\ ~node[n].fInbound}

\* Whom OpenNetworkConnection looks for.  (By address it also looks for the
\* text of it, but a node with that text has that address.)
Known(t) == IF ByName(op[t].way) THEN FindNodeName(op[t].dest) ELSE FindNodeIP(op[t].dest)

OpenNetworkConnection(t) ==
  /\ op[t].pc = "open" /\ VNodesFree
  /\ Known(t) = {}
  /\ op' = [op EXCEPT ![t].pc = "connect"]
  /\ UNCHANGED <<node, vNodes, vNodesDisconnected, semOutbound, sock, msgCopy,
                 msgBusy, connectLock, origin, early>>

\* Connected already; or an address that is local, limited or banned.
OpenRefused(t) ==
  /\ op[t].pc = "open" /\ VNodesFree
  /\ ByName(op[t].way) => Known(t) # {}
  /\ EndAttempt(t)
  /\ UNCHANGED <<node, vNodes, vNodesDisconnected, sock, msgCopy, msgBusy, connectLock,
                 origin, early>>

\* Mutant of LockConnectNode: nobody waits for the lock.
LockConnectNodeNever(t) == connectLock' = t

\* Start of ConnectNode: the lock ...
LockConnectNode(t) ==
  /\ connectLock = NoThread
  /\ connectLock' = t

\* ... and, without a name, FindNode.
ConnectNode(t) ==
  /\ op[t].pc = "connect" /\ VNodesFree
  /\ LockConnectNode(t)
  /\ LET found == IF ByName(op[t].way) THEN {} ELSE FindNodeService(op[t].dest) IN
       op' = IF found = {} THEN [op EXCEPT ![t].pc = "dial"]
             ELSE [op EXCEPT ![t].pc = "found", ![t].pnode = Min(found)]
  /\ UNCHANGED <<node, vNodes, vNodesDisconnected, semOutbound, sock, msgCopy, msgBusy,
                 origin, early>>

DialFails(t) ==
  /\ op[t].pc = "dial"
  /\ connectLock' = NoThread
  /\ EndAttempt(t)
  /\ UNCHANGED <<node, vNodes, vNodesDisconnected, sock, msgCopy, msgBusy, origin, early>>

\* ConnectSocket, ConnectSocketByName: a host name has any address, the text
\* of an address has that one.
Reaches(d, a) == d \in Addr => a = d

\* What is left to do with a new node: the grant if there is one, the mark,
\* or, after addnode onetry, nothing.
AfterDial(t, n) ==
  IF op[t].way = "onetry" THEN Idle
  ELSE [op[t] EXCEPT !.pc = IF WithGrant(op[t].way) THEN "move" ELSE "mark", !.pnode = n]

Dial(t, a, fail) ==
  /\ op[t].pc = "dial" /\ Reaches(op[t].dest, a)
  /\ Construct(a, FALSE, fail, [way |-> op[t].way, addrName |-> op[t].dest])
  /\ op' = [op EXCEPT ![t] = AfterDial(t, Min(Fresh))]
  /\ connectLock' = NoThread
  /\ UNCHANGED <<vNodesDisconnected, semOutbound, sock, msgCopy, msgBusy, early>>

\* pnode->AddRef() of a node found: nRefCount++ outside cs_vNodes.
FoundRead(t) ==
  /\ op[t].pc = "found"
  /\ op' = [op EXCEPT ![t].pc = "addref", ![t].nRead = node[op[t].pnode].nRefCount]
  /\ UNCHANGED <<node, vNodes, vNodesDisconnected, semOutbound, sock, msgCopy,
                 msgBusy, connectLock, origin, early>>

FoundAddRef(t) ==
  /\ op[t].pc = "addref"
  /\ node' = [node EXCEPT ![op[t].pnode].nRefCount = op[t].nRead + 1]
  /\ op' = [op EXCEPT ![t].pc = "move", ![t].nRead = 0]
  /\ connectLock' = NoThread
  /\ UNCHANGED <<vNodes, vNodesDisconnected, semOutbound, sock, msgCopy, msgBusy,
                 origin, early>>

\* grantOutbound->MoveTo(pnode->grantOutbound), if there is a grant: the
\* node's own is released, then the thread's becomes the node's.
MoveRelease(t) ==
  /\ op[t].pc = "move"
  /\ semOutbound' = IF node[op[t].pnode].fHaveGrant THEN semOutbound + 1 ELSE semOutbound
  /\ op' = [op EXCEPT ![t].pc = "take"]
  /\ UNCHANGED <<node, vNodes, vNodesDisconnected, sock, msgCopy, msgBusy, connectLock,
                 origin, early>>

\* Mutant of MoveTake: the thread keeps the grant it moved.
MoveTakeCopies(t) ==
  /\ op[t].pc = "take"
  /\ node' = [node EXCEPT ![op[t].pnode].fHaveGrant = TRUE]
  /\ op' = [op EXCEPT ![t].pc = "mark"]
  /\ UNCHANGED <<vNodes, vNodesDisconnected, semOutbound, sock, msgCopy, msgBusy,
                 connectLock, origin, early>>

MoveTake(t) ==
  /\ op[t].pc = "take"
  /\ node' = [node EXCEPT ![op[t].pnode].fHaveGrant = TRUE]
  /\ op' = [op EXCEPT ![t].pc = "mark", ![t].fHaveGrant = FALSE]
  /\ UNCHANGED <<vNodes, vNodesDisconnected, semOutbound, sock, msgCopy, msgBusy,
                 connectLock, origin, early>>

\* pnode->fNetworkNode = true.  That is the end, except of a one-shot.
MarkNetworkNode(t) ==
  /\ op[t].pc = "mark"
  /\ node' = [node EXCEPT ![op[t].pnode].fNetworkNode = TRUE]
  /\ IF op[t].way = "oneshot"
     THEN op' = [op EXCEPT ![t].pc = "oneshot"] /\ semOutbound' = semOutbound
     ELSE EndAttempt(t)
  /\ UNCHANGED <<vNodes, vNodesDisconnected, sock, msgCopy, msgBusy, connectLock,
                 origin, early>>

\* pnode->fOneShot = true, a member that no other step here reads.  Nothing
\* keeps the node for this thread any more.
MarkOneShot(t) ==
  /\ op[t].pc = "oneshot"
  /\ EndAttempt(t)
  /\ UNCHANGED <<node, vNodes, vNodesDisconnected, sock, msgCopy, msgBusy, connectLock,
                 origin, early>>

OpenerThread(t) ==
  \/ OpenNetworkConnection(t) \/ OpenRefused(t) \/ ConnectNode(t)
  \/ DialFails(t) \/ FoundRead(t) \/ FoundAddRef(t)
  \/ MoveRelease(t) \/ MoveTake(t) \/ MarkNetworkNode(t) \/ MarkOneShot(t)
  \/ \E a \in Addr, fail \in BOOLEAN : Dial(t, a, fail)

Next ==
  \/ SocketThread
  \/ MessageThread
  \/ \E t \in Opener :
       \/ OpenerThread(t)
       \/ \E way \in Way, d \in Dest : Acquire(t, way, d) \/ TryWithout(t, way, d)

Spec == Init /\ [][Next]_vars

\* The threads run.  An opener may sleep forever before it tries again, and
\* whether anything fails or anyone connects is up to the network.
Fairness ==
  /\ WF_vars(StartPass \/ KeepNode \/ DisconnectNode \/ ClearGrant \/ CloseNode
             \/ DeleteNodes \/ AcceptNone \/ CopyNodes \/ EndPass)
  /\ WF_vars(MessageCopy \/ MessageEnd) /\ SF_vars(MessageEnd)
  /\ \A t \in Opener : SF_vars(OpenerThread(t))

FairSpec == Spec /\ Fairness

----------------------------------------------------------------------------
(* Properties *)

\* What a thread between ConnectNode and fNetworkNode = true points to.  (The
\* write to fOneShot after it may find the node deleted.)
Opened == {op[t].pnode : t \in {u \in Opener :
             op[u].pc \in {"found", "addref", "move", "take", "mark"}}}

InUse == sock.todo \cup msgCopy \cup Opened

\* No thread and no list ever holds a node that the socket thread has deleted
\* ("wait until threads are done using it" in ThreadSocketHandler).
NoUseAfterFree ==
  \A n \in vNodes \cup vNodesDisconnected \cup InUse : node[n].state = "live"

\* However a connection attempt ends, at whatever moment the node is
\* disconnected, every grant of semOutbound is with the semaphore, with a
\* thread or with a node that is still there.
GrantsConserved ==
  semOutbound + Cardinality({t \in Opener : op[t].fHaveGrant})
    + Cardinality({n \in Node : node[n].fHaveGrant /\ ~(sock.pc = "clear" /\ n = Visited)})
  = MaxOutbound

\* The node never has more connections of those that take grants than there
\* are grants, although an outbound node is in vNodes before it has one.
ConnectionsBounded ==
  /\ Cardinality({n \in vNodes \ Inbound : WithGrant(origin[n].way)}) <= MaxOutbound
  /\ Cardinality(Inbound) <= MaxInbound

\* A disconnected node that no thread works on has no references, so that it
\* is deleted and its grant is back: unless it was closed before its opener had
\* marked it, which only happens to outbound nodes.
DisconnectedReleased ==
  /\ \A n \in vNodesDisconnected \ (InUse \cup early) :
       node[n].nRefCount <= 0 /\ (node[n].fInbound => ~node[n].fHaveGrant)
  /\ \A n \in early : ~node[n].fInbound

\* cs_connectNode keeps two threads from connecting to one peer twice, by
\* address: of two outbound nodes with one address, the later was opened by
\* name.
NoDuplicateOutbound ==
  \A m, n \in vNodes \ Inbound :
    node[m].addr = node[n].addr /\ m < n => ByName(origin[n].way)

\* A node that is to be disconnected leaves vNodes.
EventuallyDisconnected ==
  \A n \in Node : n \in vNodes /\ node[n].fDisconnect ~> n \notin vNodes

\* A disconnected node is deleted once the message thread has let go of it,
\* unless it was closed before its opener had marked it.
EventuallyDeleted ==
  \A n \in Node : n \in vNodesDisconnected /\ n \notin early
                  ~> node[n].state = "deleted"

\* The nodes as a whole: they have their types and no thread or list holds a
\* deleted one, up to the mark of the opener.
NodesSound == TypeOK /\ NoUseAfterFree

\* What a connection takes it gives back: the grants are conserved, the limits
\* they stand for hold, and a disconnected node keeps a reference, and with it
\* a grant, only if it was closed before it was marked.
GrantsHandled == GrantsConserved /\ ConnectionsBounded /\ DisconnectedReleased

\* A node that is to be disconnected leaves vNodes, and is deleted if it was
\* not closed before it was marked.
EventuallyGone == EventuallyDisconnected /\ EventuallyDeleted
=============================================================================
