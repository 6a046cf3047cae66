--------------------------- MODULE BlockDownload ---------------------------
(***************************************************************************)
(* How the node fetches a chain of blocks from its peers: getblocks, inv,  *)
(* getdata and (m)blk, the schedule of requests in mapAskFor and           *)
(* mapAlreadyAskedFor, and the recovery when a peer disconnects or does    *)
(* not answer.  Peers run the same program, so both ends of a connection   *)
(* are translated from main.cpp.                                           *)
(*                                                                         *)
(* The peers are on one chain 1..Top, of which each has a prefix; a block  *)
(* is its height.  The node may start on a chain of its own, a number of   *)
(* blocks above the genesis block.  Times are relative to now and in units *)
(* of the two minutes that AskFor adds.  Blocks are valid, their stakes    *)
(* differ and their kernels are found, the two chains have their blocks at *)
(* the same times, and the holding area for orphans is large enough;       *)
(* BlockProcessing is about those.                                         *)
(***************************************************************************)
EXTENDS Integers, Sequences, FiniteSets, FiniteSetsExt, SequencesExt

CONSTANTS
  Peer,
  Top,         \* height the chain of the peers grows to
  Start,       \* height it has at the start
  Sides,       \* lengths that the node's own branch may have
  Span,        \* nCheckpointSpan
  Limit,       \* nLimit of getblocks
  MultiBlock,  \* MAX_MULTI_BLOCK_ELEMENTS
  SyncGap,     \* how far behind the sync timeout waits to be
  fInitial,    \* IsInitialBlockDownload()
  Slow,        \* peers that answer late or never
  MaxDrop      \* bound: disconnections

ASSUME DownloadAssumption ==
  /\ Top \in Nat /\ Start \in 0 .. Top
  /\ Sides \subseteq Nat /\ Span \in Nat
  /\ Limit \in Nat \ {0} /\ MultiBlock \in Nat \ {0} /\ SyncGap \in Nat
  /\ fInitial \in BOOLEAN /\ Slow \subseteq Peer /\ MaxDrop \in Nat

VARIABLES
  side,          \* mapBlockIndex: length of the node's own branch
  have,          \* and the blocks of the peers' chain
  orphan,        \* mapOrphanBlocks
  asked,         \* mapAlreadyAskedFor, relative to now; Never if long ago
  fAskedBlocks,  \* nAskedForBlocks > 0
  mblkAge,       \* time since nTimeLastMblkRecv; Never if none was received
  work,          \* message in hand: its peer and the entries still to handle
  link,          \* the node's end of each connection (CNode)
  peer,          \* the peer's end of it
  up, down,      \* messages on the way to and from the peer
  drops

downloadVars == <<side, have, orphan, asked, fAskedBlocks, mblkAge, work, link, peer, up,
                  down, drops>>

Block == 1 .. Top
Never == -1      \* more than two minutes ago
NoHash == 0      \* uint256(0)
SideTip == -1    \* last block of the node's own branch
NoIndex == -2    \* NULL

GetBlocks(begin, stop) == [type |-> "getblocks", begin |-> begin, stop |-> stop]
GetData(invs) == [type |-> "getdata", invs |-> invs]
Inv(invs) == [type |-> "inv", invs |-> invs]
Mblk(blocks) == [type |-> "mblk", invs |-> blocks]

NewLink == [conn |-> FALSE, ask |-> <<>>, begin |-> NoIndex, stop |-> NoHash]
NewPeer(tip) == [tip |-> tip, toSend |-> <<>>, known |-> {}, continue |-> NoHash,
                 data |-> <<>>]

NoWork == [peer |-> "none", type |-> "none", invs |-> <<>>]

\* What the node sends and what a peer sends.
Request ==
  [type : {"getblocks"}, begin : Block \cup {0, SideTip}, stop : Block \cup {NoHash}]
    \cup [type : {"getdata"}, invs : Seq(Block) \ {<<>>}]
Answer == [type : {"inv", "mblk"}, invs : Seq(Block) \ {<<>>}]

Link == [conn : BOOLEAN, ask : Seq([inv : Block, delay : Nat]),
         begin : Block \cup {0, SideTip, NoIndex}, stop : Block \cup {NoHash}]
PeerEnd == [tip : 0 .. Top, toSend : Seq(Block), known : SUBSET Block,
            continue : Block \cup {NoHash}, data : Seq(Block)]
Work == [peer : Peer, type : {"inv", "mblk"}, invs : Seq(Block) \ {<<>>}]

DownloadTypeOK ==
  /\ side \in Sides
  /\ have \subseteq 0 .. Top
  /\ orphan \subseteq Block
  /\ asked \in [Block -> {Never} \cup Nat]
  /\ fAskedBlocks \in BOOLEAN
  /\ mblkAge \in {Never, 0, 1}
  /\ work \in Work \cup {NoWork}
  /\ link \in [Peer -> Link]
  /\ peer \in [Peer -> PeerEnd]
  /\ up \in [Peer -> Seq(Request)]
  /\ down \in [Peer -> Seq(Answer)]
  /\ drops \in 0 .. MaxDrop

DownloadInit ==
  /\ side \in Sides
  /\ have = {0}
  /\ orphan = {}
  /\ asked = [b \in Block |-> Never]
  /\ fAskedBlocks = FALSE
  /\ mblkAge = Never
  /\ work = NoWork
  /\ link = [p \in Peer |-> NewLink]
  /\ peer = [p \in Peer |-> NewPeer(Start)]
  /\ up = [p \in Peer |-> <<>>]
  /\ down = [p \in Peer |-> <<>>]
  /\ drops = 0

\* The elements of s at the positions I, in their order.
Keeping(s, I) ==
  LET kept[i \in 0 .. Len(s)] ==
        IF i = 0 THEN <<>>
        ELSE IF i \in I THEN Append(kept[i - 1], s[i]) ELSE kept[i - 1]
  IN  kept

Keep(s, I) == Keeping(s, I)[Len(s)]

----------------------------------------------------------------------------
(* The node's state while it handles a message of one peer: its blocks,    *)
(* its requests and that peer's connection.                                *)

Local(p) == [have |-> have, orphan |-> orphan, asked |-> asked, link |-> link[p],
             out |-> up[p]]

Apply(p, s) ==
  /\ have' = s.have
  /\ orphan' = s.orphan
  /\ asked' = s.asked
  /\ link' = [link EXCEPT ![p] = s.link]
  /\ up' = [up EXCEPT ![p] = s.out]

\* pindexBest.  The node's own branch is best until the other is longer.
BestOf(h) == IF Max(h) > side \/ side = 0 THEN Max(h) ELSE SideTip
BestHeight(h) == IF Max(h) > side THEN Max(h) ELSE side

PushGetBlocks(s, begin, stop) ==
  IF begin = s.link.begin /\ stop = s.link.stop THEN s
  ELSE [s EXCEPT !.link.begin = begin, !.link.stop = stop,
                 !.out = Append(@, GetBlocks(begin, stop))]

Later(x, y) == IF x < y THEN y ELSE x

\* The time AskFor gives a request, and mapAskFor in the order of its keys.
RequestTime(nRequestTime) == Later(nRequestTime + 1, 0)

Schedule(ask, b, t) ==
  Keep(ask, {i \in DOMAIN ask : ask[i].delay <= t}) \o <<[inv |-> b, delay |-> t]>>
    \o Keep(ask, {i \in DOMAIN ask : ask[i].delay > t})

\* Mutant: a block that was asked for is not asked of a second peer.
AskForOnce(s, b) ==
  IF s.asked[b] >= 0 THEN s
  ELSE [s EXCEPT !.asked[b] = 0, !.link.ask = Schedule(@, b, 0)]

AskFor(s, b) ==
  LET t == RequestTime(s.asked[b])
  IN  [s EXCEPT !.asked[b] = t, !.link.ask = Schedule(@, b, t)]

\* First block of the chain of orphans that b is in, and its missing parent.
GetOrphanRoot(s, b) == Min({r \in 1 .. b : \A c \in r .. b : c \in s.orphan})
WantedByOrphan(s, b) == GetOrphanRoot(s, b) - 1

\* Mutant: the orphans above b are not visited.
ConnectedAlone(s, b) == {b}

\* The blocks that b and the orphans above it add to the index.
Connected(s, b) == {c \in b .. Top : \A d \in b + 1 .. c : d \in s.orphan}

AddOrphan(s, b) ==
  LET s1 == [s EXCEPT !.orphan = @ \cup {b}]
      s2 == PushGetBlocks(s1, BestOf(s1.have), GetOrphanRoot(s1, b))
  IN  IF fInitial THEN s2 ELSE AskFor(s2, WantedByOrphan(s2, b))

\* The heights that CheckSync refuses, and those whose blocks are too old for
\* ProcessBlock unless they extend the best chain.
BeforeCheckpoint(s, b) == b + Span <= BestHeight(s.have)
TooOld(s, b) == b + Span < BestHeight(s.have)

\* An answer of FALSE leaves mapAlreadyAskedFor as it is.
ProcessBlock(s, b) ==
  IF b \in s.have \cup s.orphan THEN s
  ELSE IF b - 1 \notin s.have
  THEN IF TooOld(s, b) THEN s ELSE [AddOrphan(s, b) EXCEPT !.asked[b] = Never]
  ELSE IF BeforeCheckpoint(s, b) THEN s
  ELSE [s EXCEPT !.have = @ \cup Connected(s, b), !.orphan = @ \ Connected(s, b),
                 !.asked[b] = Never]

\* One entry of an inv message; last: it is the last block in it.
HandleInv(s, b, last) ==
  IF b \notin s.have \cup s.orphan THEN AskFor(s, b)
  ELSE IF b \in s.orphan THEN PushGetBlocks(s, BestOf(s.have), GetOrphanRoot(s, b))
  ELSE IF last THEN PushGetBlocks(s, b, NoHash)
  ELSE s

----------------------------------------------------------------------------
(* The node *)

Connect(p) ==
  /\ work = NoWork
  /\ ~link[p].conn
  /\ LET fresh == [Local(p) EXCEPT !.link = [NewLink EXCEPT !.conn = TRUE]]
         alone == \A q \in Peer : ~link[q].conn
         ask == ~fAskedBlocks \/ alone
     IN  /\ Apply(p, IF ask THEN PushGetBlocks(fresh, BestOf(have), NoHash) ELSE fresh)
         /\ fAskedBlocks' = (fAskedBlocks \/ ask)
  /\ UNCHANGED <<side, mblkAge, peer, down, drops, work>>

\* With the CNode go its requests and everything on the way.
Disconnect(p) ==
  /\ work = NoWork
  /\ link[p].conn /\ drops < MaxDrop
  /\ drops' = drops + 1
  /\ link' = [link EXCEPT ![p] = NewLink]
  /\ peer' = [peer EXCEPT ![p] = NewPeer(@.tip)]
  /\ up' = [up EXCEPT ![p] = <<>>]
  /\ down' = [down EXCEPT ![p] = <<>>]
  /\ UNCHANGED <<side, have, orphan, asked, fAskedBlocks, mblkAge, work>>

\* The message thread takes the next message of a peer ...
Receive(p) ==
  /\ work = NoWork
  /\ down[p] # <<>>
  /\ work' = [peer |-> p, type |-> Head(down[p]).type, invs |-> Head(down[p]).invs]
  /\ down' = [down EXCEPT ![p] = Tail(@)]
  /\ mblkAge' = IF Head(down[p]).type = "mblk" THEN 0 ELSE mblkAge
  /\ UNCHANGED <<side, have, orphan, asked, fAskedBlocks, link, peer, up, drops>>

\* ... and handles it entry by entry; SendMessages and the other peers wait.
Handle ==
  /\ work # NoWork
  /\ LET b == Head(work.invs)
         s == Local(work.peer)
     IN  Apply(work.peer, IF work.type = "inv" THEN HandleInv(s, b, Len(work.invs) = 1)
                                               ELSE ProcessBlock(s, b))
  /\ work' = IF Len(work.invs) = 1 THEN NoWork ELSE [work EXCEPT !.invs = Tail(@)]
  /\ UNCHANGED <<side, fAskedBlocks, mblkAge, peer, down, drops>>

Due(p) == LET ask == link[p].ask IN Keep(ask, {i \in DOMAIN ask : ask[i].delay = 0})

\* SendMessages, "getdata".
SendGetData(p) ==
  /\ work = NoWork
  /\ Due(p) # <<>>
  /\ LET due == [i \in 1 .. Len(Due(p)) |-> Due(p)[i].inv]
         wanted == Keep(due, {i \in DOMAIN due : due[i] \notin have \cup orphan})
     IN  /\ asked' = [b \in Block |-> IF b \in ToSet(wanted) THEN 0 ELSE asked[b]]
         /\ up' = IF wanted = <<>> THEN up
                  ELSE [up EXCEPT ![p] = Append(@, GetData(wanted))]
  /\ link' = [link EXCEPT ![p].ask = Keep(@, {i \in DOMAIN @ : @[i].delay > 0})]
  /\ UNCHANGED <<side, have, orphan, fAskedBlocks, mblkAge, peer, down, drops, work>>

\* SendMessages, "If syncing and !get mblk in MBLK_RECEIVE_TIMEOUT".
SyncTimeout(p) ==
  /\ work = NoWork
  /\ link[p].conn /\ mblkAge = 1
  /\ peer[p].tip - BestHeight(have) > SyncGap
  /\ Apply(p, PushGetBlocks(Local(p), BestOf(have), NoHash))
  /\ mblkAge' = 0
  /\ UNCHANGED <<side, fAskedBlocks, peer, down, drops, work>>

\* Two minutes pass: the node has handled what it received and sent what was
\* due, and peers that are not slow have answered.
Quiet(p) ==
  /\ down[p] = <<>> /\ Due(p) = <<>>
  /\ p \in Slow \/ (up[p] = <<>> /\ peer[p].data = <<>> /\ peer[p].toSend = <<>>)

Sooner(ask) == [i \in DOMAIN ask |-> [ask[i] EXCEPT !.delay = Later(@ - 1, 0)]]

Tick ==
  /\ work = NoWork /\ \A p \in Peer : Quiet(p)
  /\ asked' = [b \in Block |-> Later(asked[b] - 1, Never)]
  /\ mblkAge' = IF mblkAge = Never THEN Never ELSE 1
  /\ link' = [p \in Peer |-> [link[p] EXCEPT !.ask = Sooner(@)]]
  /\ UNCHANGED <<side, have, orphan, fAskedBlocks, peer, up, down, drops, work>>

----------------------------------------------------------------------------
(* A peer *)

Asks(p, type) == up[p] # <<>> /\ Head(up[p]).type = type /\ peer[p].data = <<>>

\* PushInventory of one block after the other drops what the other end is
\* known to know.
PushInventory(q, blocks) ==
  [q EXCEPT !.toSend = @ \o Keep(blocks, {i \in DOMAIN blocks : blocks[i] \notin q.known})]

\* Blocks after the last one in common, up to hashStop or the limit.
Locate(begin, tip) == IF begin = SideTip THEN 0 ELSE Min({begin, tip})

AnswerGetBlocks(p) ==
  /\ Asks(p, "getblocks")
  /\ LET m == Head(up[p])
         q == peer[p]
         first == Locate(m.begin, q.tip) + 1
         stopped == m.stop \in first .. q.tip /\ m.stop - first < Limit
         last == IF stopped THEN m.stop - 1 ELSE Min({q.tip, first + Limit - 1})
         pushed == PushInventory(q, [i \in 1 .. last - first + 1 |-> first + i - 1])
     IN  peer' = [peer EXCEPT ![p] =
                    IF last - first + 1 = Limit THEN [pushed EXCEPT !.continue = last]
                                                ELSE pushed]
  /\ up' = [up EXCEPT ![p] = Tail(@)]
  /\ UNCHANGED <<side, have, orphan, asked, fAskedBlocks, mblkAge, link, down, drops, work>>

\* SendMessages, "inventory": each block once, though vInventoryToSend may
\* name it twice.
SendInventory(p) ==
  /\ link[p].conn /\ peer[p].toSend # <<>>
  /\ LET toSend == peer[p].toSend
         invs == Keep(toSend, {i \in DOMAIN toSend :
                                 /\ toSend[i] \notin peer[p].known
                                 /\ \A j \in 1 .. i - 1 : toSend[j] # toSend[i]})
     IN  /\ peer' = [peer EXCEPT ![p].toSend = <<>>, ![p].known = @ \cup ToSet(invs)]
         /\ down' = IF invs = <<>> THEN down ELSE [down EXCEPT ![p] = Append(@, Inv(invs))]
  /\ UNCHANGED <<side, have, orphan, asked, fAskedBlocks, mblkAge, link, up, drops, work>>

\* Mutant: hashContinue is forgotten.
ContinueInvNone(q, blocks) == <<>>

\* The inv that triggers the next getblocks.
ContinueInv(q, blocks) ==
  IF q.continue \in ToSet(blocks) THEN <<Inv(<<q.tip>>)>> ELSE <<>>

\* Mutant: what does not fit into one answer is dropped.
ProcessGetDataTruncated(p, data) ==
  LET q == peer[p]
      n == Min({Len(data), MultiBlock})
      blocks == Keep(data, {i \in 1 .. n : data[i] <= q.tip})
      trigger == ContinueInv(q, blocks)
  IN  /\ down' = [down EXCEPT ![p] = @ \o trigger \o
                     (IF blocks = <<>> THEN <<>> ELSE <<Mblk(blocks)>>)]
      /\ peer' = [peer EXCEPT ![p].data = <<>>,
                              ![p].continue = IF trigger = <<>> THEN @ ELSE NoHash]

\* ProcessGetData on the requests data of peer p.  Blocks are collected and
\* sent together, the inv for hashContinue at once.
ProcessGetData(p, data) ==
  LET q == peer[p]
      n == Min({Len(data), MultiBlock})
      blocks == Keep(data, {i \in 1 .. n : data[i] <= q.tip})
      trigger == ContinueInv(q, blocks)
  IN  /\ down' = [down EXCEPT ![p] = @ \o trigger \o
                     (IF blocks = <<>> THEN <<>> ELSE <<Mblk(blocks)>>)]
      /\ peer' = [peer EXCEPT ![p].data = SubSeq(data, n + 1, Len(data)),
                              ![p].continue = IF trigger = <<>> THEN @ ELSE NoHash]

ReceiveGetData(p) ==
  /\ Asks(p, "getdata")
  /\ ProcessGetData(p, Head(up[p]).invs)
  /\ up' = [up EXCEPT ![p] = Tail(@)]
  /\ UNCHANGED <<side, have, orphan, asked, fAskedBlocks, mblkAge, link, drops, work>>

\* ProcessMessages continues with what is left.
ContinueGetData(p) ==
  /\ peer[p].data # <<>>
  /\ ProcessGetData(p, peer[p].data)
  /\ UNCHANGED <<side, have, orphan, asked, fAskedBlocks, mblkAge, link, up, drops, work>>

\* The peer accepts a new block and announces it.
NewBlock(p) ==
  /\ peer[p].tip < Top
  /\ LET q == [peer[p] EXCEPT !.tip = @ + 1]
     IN  peer' = [peer EXCEPT ![p] = IF link[p].conn THEN PushInventory(q, <<q.tip>>) ELSE q]
  /\ UNCHANGED <<side, have, orphan, asked, fAskedBlocks, mblkAge, link, up, down, drops, work>>

----------------------------------------------------------------------------

Serve(p) == Receive(p) \/ SendGetData(p) \/ SyncTimeout(p)

Answers(p) == AnswerGetBlocks(p) \/ ReceiveGetData(p) \/ ContinueGetData(p)

DownloadNext ==
  \/ Tick \/ Handle
  \/ \E p \in Peer : \/ Connect(p) \/ Disconnect(p) \/ Serve(p)
                     \/ Answers(p) \/ SendInventory(p) \/ NewBlock(p)

DownloadSpec == DownloadInit /\ [][DownloadNext]_downloadVars

\* The message thread runs and serves every connection, the clock goes on and
\* connections are opened again; its rounds begin at a random peer, so the sync
\* timeout finds each of them; a peer that is not slow answers and
\* learns of new blocks.
DownloadFairness ==
  /\ WF_downloadVars(Tick)
  /\ WF_downloadVars(Handle \/ \E p \in Peer : Serve(p))
  /\ WF_downloadVars(\E p \in Peer : Connect(p))
  /\ \A p \in Peer \ Slow : SF_downloadVars(SyncTimeout(p))
  /\ \A p \in Peer \ Slow : /\ WF_downloadVars(Answers(p) \/ SendInventory(p))
                            /\ WF_downloadVars(NewBlock(p))

FairDownloadSpec == DownloadSpec /\ DownloadFairness

----------------------------------------------------------------------------
(* Properties *)

\* Every block in the index has its parent there, and an orphan is a block whose
\* parent is not, whatever comes in which order: a whole branch of orphans leaves
\* at once when its root connects, and WantedByOrphan names a block to ask for.
\* And no order of messages takes a node off a branch of its own longer than
\* nCheckpointSpan: CheckSync (AcceptBlock) refuses the block after the fork.
DownloadSound ==
  /\ DownloadTypeOK
  /\ 0 \in have /\ \A b \in have \ {0} : b - 1 \in have
  /\ \A b \in orphan : b - 1 \notin have
  /\ side > Span => have = {0}

\* The newest block, once a peer has announced it, arrives with all its
\* ancestors, or the peer goes: although requests wait behind those to slow
\* peers, disappear with a connection, are filtered and are answered in batches.
\* The node's own branch is not longer than nCheckpointSpan.
AnnouncedArrives ==
  \A p \in Peer \ Slow :
    side <= Span /\ link[p].conn /\ Top \in peer[p].known ~> Top \in have \/ ~link[p].conn

\* "In case we are on a very long side-chain [...] push another getblocks to
\* continue" (the inv message): the node ends up with the whole chain of its
\* peers, although it starts on a branch as long as a batch.  Three exceptions:
\* CheckSync refuses every switch from a branch longer than nCheckpointSpan, in
\* the initial download the peer announces nothing twice, and after a
\* disconnection the inv for hashContinue may be lost, which is sent once.
CatchesUp ==
  \A p \in Peer \ Slow : <>[](side > Span \/ drops > 0 \/ peer[p].tip \in have)
=============================================================================
