--------------------------- MODULE SecureMessages ---------------------------
(***************************************************************************)
(* How nodes spread the encrypted messages of one bucket: the send queue   *)
(* and its proof-of-work thread, the bucket in memory and in its file, the *)
(* exchange smsgInv, smsgShow, smsgHave, smsgWant, smsgMsg with the lock   *)
(* that keeps a node from fetching from two peers at once, the time-out of *)
(* that lock, retention, smsgdisable and smsgenable, lost connections and  *)
(* crashes.                                                                *)
(*                                                                         *)
(* Messages are valid and a bucket's hash is modelled by the set it is the *)
(* hash of.  A critical section of cs_smsg is one action, and so are the   *)
(* two of smsgHave, as nothing that matters fits between.  Time is left to *)
(* chance: a lock may time out as soon as it is taken.  smsgMatch has no   *)
(* effect at its receiver and is left out; of a scan for the inbox only    *)
(* the lock that it needs is modelled.  The messages of an smsgMsg come in *)
(* the order of their tokens, so that a set says which is next.            *)
(*                                                                         *)
(* Three locks matter.  SecureMsgDisable joins the two threads while it    *)
(* holds cs_smsg.  Called by smsgdisable it holds cs_main and cs_wallet    *)
(* too, and cs_wallet is what a scan needs; called by the options dialog   *)
(* it holds neither, so that SecureMsgSendData, which runs under cs_main,  *)
(* may hold the cs_smsg_net of a peer and wait for cs_smsg.                *)
(***************************************************************************)
EXTENDS Integers, Sequences, FiniteSets, FiniteSetsExt

CONSTANTS
  Node,
  Peers,       \* Peers[n]: the nodes that n is connected to
  Msg,         \* messages of the bucket: numbers, in the order of their tokens
  From,        \* From[m]: the node that m is written on
  KeyOf,       \* KeyOf[m]: its key in the send queue, the second and the address
               \* of its payload: messages of one second may have the same
  Old,         \* those that are in its store at the start
  LockCount,   \* ticks until a lock times out (3)
  MaxBunch,    \* messages in an smsgMsg (500)
  Frail,       \* bound: the nodes that have troubles
  Scenarios    \* bound: the messages that are written in one behaviour, and the
               \* troubles that come with them, each once

NoPeer == "none"
Trouble == {"crash", "cut", "timeout", "rpc", "gui", "enable"}

ASSUME SecureMessagesAssumption ==
  /\ NoPeer \notin Node
  /\ Msg \subseteq Nat /\ From \in [Msg -> Node] /\ Old \subseteq Msg
  /\ DOMAIN KeyOf = Msg /\ Frail \subseteq Node
  /\ Peers \in [Node -> SUBSET Node]
  /\ \A n, p \in Node : p \in Peers[n] <=> n \in Peers[p] /\ p # n
  /\ LockCount \in Nat \ {0} /\ MaxBunch \in Nat \ {0}

VARIABLES
  fSecMsgEnabled,
  disabling,  \* SecureMsgDisable: not called, smsgdisable waits for cs_smsg, or it
              \* joins the threads for smsgdisable or for the options dialog
  bucket,     \* SecMsgBucket
  file,       \* its messages in smsgStore
  queue,      \* send queue in smsgDB
  pow,        \* ThreadSecureMsgPow: where it is, its message, and those that its
              \* iterator has still to give
  smsg,       \* ThreadSecureMsg: running, about to ignore a peer, blocked at
              \* cs_smsg or ended
  ignored,    \* the peer in vTimedOutLocks
  work,       \* the smsgMsg that the message thread is storing
  scanning,   \* it scans a message, with cs_smsg
  holds,      \* it waits for cs_smsg with the cs_smsg_net of this peer
  smsgData,   \* SecMsgNode of each connection
  net,        \* net[n][p]: what is on the way from n to p
  sent,       \* messages written so far
  expired,    \* the bucket is older than SMSG_RETENTION
  troubles,
  gone,       \* history: messages that a crash took from the proof-of-work thread
  lost,       \* history: an announcement or its answer was dropped or cut
  released    \* history: a lock was given up before its answer came

smsgVars == <<smsg, ignored>>
workVars == <<work, scanning, holds>>
nodeVars == <<fSecMsgEnabled, disabling, bucket, file, queue, pow, smsgVars, workVars>>
linkVars == <<smsgData, net>>
vars == <<nodeVars, linkVars, sent, expired, troubles, gone, lost, released>>

NoWork == [peer |-> NoPeer, msgs |-> {}]
NoBucket == [setTokens |-> {}, hash |-> {}, nLockCount |-> 0, nLockPeer |-> NoPeer]

(* fUnsent stands for timeChanged >= lastMatched; a change and a sending in  *)
(* the same second, which would be followed by a second sending, are left    *)
(* out.                                                                      *)
NewSecMsgNode == [fSeen |-> FALSE, fEnabled |-> FALSE, fIgnore |-> FALSE, fUnsent |-> TRUE]
PowAt(x, rest) == [at |-> x, m |-> 0, rest |-> rest]

Init ==
  /\ fSecMsgEnabled = [n \in Node |-> TRUE]
  /\ disabling = [n \in Node |-> "no"]
  /\ file = [n \in Node |-> {m \in Old : From[m] = n}]
  /\ bucket = [n \in Node |-> [NoBucket EXCEPT !.setTokens = file[n], !.hash = file[n]]]
  /\ queue = [n \in Node |-> {}]
  /\ pow = [n \in Node |-> PowAt("idle", {})]
  /\ smsg = [n \in Node |-> "run"] /\ ignored = [n \in Node |-> NoPeer]
  /\ work = [n \in Node |-> NoWork] /\ scanning = [n \in Node |-> FALSE]
  /\ holds = [n \in Node |-> NoPeer]
  /\ smsgData = [n \in Node |-> [p \in Peers[n] |->
                   [fSeen |-> TRUE, fEnabled |-> TRUE, fIgnore |-> FALSE, fUnsent |-> TRUE]]]
  /\ net = [n \in Node |-> [p \in Peers[n] |-> <<>>]]
  /\ sent = Old
  /\ expired = FALSE
  /\ troubles = {} /\ gone = {}
  /\ lost = FALSE /\ released = FALSE

-----------------------------------------------------------------------------
(* A bucket b after hashBucket, and the SecMsgNodes d of its node.           *)
Hashed(b) == [b EXCEPT !.hash = b.setTokens]

Marked(b, d) ==
  IF b.hash = b.setTokens THEN d
  ELSE [p \in DOMAIN d |-> [d[p] EXCEPT !.fUnsent = TRUE]]

(* SecureMsgStore adds a message to the bucket and to its file.              *)
Stored(b, m) == [b EXCEPT !.setTokens = @ \cup {m}]

BuildBucketSet(n) ==
  IF expired THEN NoBucket ELSE Hashed([NoBucket EXCEPT !.setTokens = file[n]])

-----------------------------------------------------------------------------
(* Messages M and troubles T fit to what has happened so far.                *)
InBounds(M, T) ==
  \E S \in Scenarios : (sent \ Old) \cup M \subseteq S[1] /\ troubles \cup T \subseteq S[2]

MayHappen(n, t) == n \in Frail /\ t \notin troubles /\ InBounds({}, {t})
Happens(n, t) == MayHappen(n, t) /\ troubles' = troubles \cup {t}

-----------------------------------------------------------------------------
(* The locks, between two steps.                                             *)
Joining(n) == disabling[n] \in {"rpc", "gui"}
SmsgFree(n) == ~Joining(n) /\ ~scanning[n]
WalletFree(n) == disabling[n] \notin {"asked", "rpc"}

-----------------------------------------------------------------------------
(* Writing a message.  What is in the queue under its key is overwritten.    *)
SameKey(q, m) == {x \in q : KeyOf[x] = KeyOf[m]}

SecureMsgSend(n, m) ==
  /\ fSecMsgEnabled[n] /\ ~expired
  /\ From[m] = n /\ m \notin sent /\ InBounds({m}, {})
  /\ sent' = sent \cup {m}
  /\ queue' = [queue EXCEPT ![n] = (@ \ SameKey(@, m)) \cup {m}]
  /\ UNCHANGED <<fSecMsgEnabled, disabling, bucket, file, pow, smsgVars, workVars,
                 linkVars, expired, troubles, gone, lost, released>>

(* The thread reads one message after the other from an iterator, which      *)
(* gives the queue as it was when the iterator was made.                     *)
PowRead(n) ==
  LET rest == IF pow[n].rest = {} THEN queue[n] ELSE pow[n].rest
      m == Min(rest)
  IN
  /\ pow[n].at = "idle" /\ rest # {}
  /\ pow' = [pow EXCEPT ![n] = [at |-> "hash", m |-> m, rest |-> rest \ {m}]]
  /\ UNCHANGED <<fSecMsgEnabled, disabling, bucket, file, queue, smsgVars, workVars,
                 linkVars, sent, expired, troubles, gone, lost, released>>

PowSeesFlag(n) == Joining(n)

(* The flag is not tested between the proof of work and EraseSmesg, which    *)
(* erases what is under the key by now.                                      *)
PowErase(n) ==
  /\ pow[n].at = "hash" /\ ~PowSeesFlag(n)
  /\ queue' = [queue EXCEPT ![n] = @ \ SameKey(@, pow[n].m)]
  /\ pow' = [pow EXCEPT ![n].at = "store"]
  /\ UNCHANGED <<fSecMsgEnabled, disabling, bucket, file, smsgVars, workVars, linkVars,
                 sent, expired, troubles, gone, lost, released>>

(* SecureMsgStore refuses an expired message, but a bucket expires before    *)
(* the last of its messages.                                                 *)
PowStore(n) ==
  LET b == Stored(bucket[n], pow[n].m) IN
  /\ pow[n].at = "store" /\ SmsgFree(n)
  /\ \/ /\ pow' = [pow EXCEPT ![n].at = "scan"]
        /\ bucket' = [bucket EXCEPT ![n] = Hashed(b)]
        /\ file' = [file EXCEPT ![n] = @ \cup {pow[n].m}]
        /\ smsgData' = [smsgData EXCEPT ![n] = Marked(b, @)]
     \/ /\ expired
        /\ pow' = [pow EXCEPT ![n] = PowAt("idle", @.rest)]
        /\ UNCHANGED <<bucket, file, smsgData>>
  /\ UNCHANGED <<fSecMsgEnabled, disabling, queue, smsgVars, workVars, net, sent,
                 expired, troubles, gone, lost, released>>

(* The message is scanned for the inbox with the keys of the wallet.         *)
PowScan(n) ==
  /\ pow[n].at = "scan" /\ WalletFree(n)
  /\ pow' = [pow EXCEPT ![n] = PowAt("idle", @.rest)]
  /\ UNCHANGED <<fSecMsgEnabled, disabling, bucket, file, queue, smsgVars, workVars,
                 linkVars, sent, expired, troubles, gone, lost, released>>

-----------------------------------------------------------------------------
(* The message thread of n and the messages of its peer p.                   *)
Receives(n, p, type) ==
  /\ fSecMsgEnabled[n] /\ work[n] = NoWork
  /\ net[p][n] # <<>> /\ Head(net[p][n]).type = type

Take(n, p) == [net EXCEPT ![p][n] = Tail(@)]
Reply(n, p, r) == [net EXCEPT ![p][n] = Tail(@), ![n][p] = @ \o r]

(* SecureMsgSendData: smsgPing once, then smsgInv with what has changed.     *)
MaySend(n, p) ==
  smsgData[n][p].fSeen /\ smsgData[n][p].fEnabled /\ ~smsgData[n][p].fIgnore

SendPing(n, p) ==
  /\ fSecMsgEnabled[n] /\ work[n] = NoWork /\ disabling[n] = "no"
  /\ ~smsgData[n][p].fSeen
  /\ smsgData' = [smsgData EXCEPT ![n][p].fSeen = TRUE]
  /\ net' = [net EXCEPT ![n][p] = Append(@, [type |-> "smsgPing"])]
  /\ UNCHANGED <<nodeVars, sent, expired, troubles, gone, lost, released>>

SendInv(n, p) ==
  LET b == bucket[n] IN
  /\ fSecMsgEnabled[n] /\ work[n] = NoWork /\ disabling[n] = "no"
  /\ MaySend(n, p) /\ smsgData[n][p].fUnsent
  /\ smsgData' = [smsgData EXCEPT ![n][p].fUnsent = FALSE]
  /\ net' = IF b.setTokens = {} THEN net
            ELSE [net EXCEPT ![n][p] =
                    Append(@, [type |-> "smsgInv", hash |-> b.hash,
                               ncontent |-> Cardinality(b.setTokens)])]
  /\ UNCHANGED <<nodeVars, sent, expired, troubles, gone, lost, released>>

ReceivePing(n, p) ==
  /\ Receives(n, p, "smsgPing")
  /\ net' = Reply(n, p, <<[type |-> "smsgPong"]>>)
  /\ UNCHANGED <<nodeVars, smsgData, sent, expired, troubles, gone, lost, released>>

ReceivePong(n, p) ==
  /\ Receives(n, p, "smsgPong")
  /\ net' = Take(n, p)
  /\ smsgData' = [smsgData EXCEPT ![n][p].fEnabled = TRUE]
  /\ UNCHANGED <<nodeVars, sent, expired, troubles, gone, lost, released>>

ReceiveDisabled(n, p) ==
  /\ Receives(n, p, "smsgDisabled")
  /\ net' = Take(n, p)
  /\ smsgData' = [smsgData EXCEPT ![n][p].fEnabled = FALSE]
  /\ UNCHANGED <<nodeVars, sent, expired, troubles, gone, lost, released>>

ReceiveIgnore(n, p) ==
  /\ Receives(n, p, "smsgIgnore")
  /\ net' = Take(n, p)
  /\ smsgData' = [smsgData EXCEPT ![n][p].fIgnore = TRUE]
  /\ UNCHANGED <<nodeVars, sent, expired, troubles, gone, lost, released>>

(* The peer has something that this bucket b has not.                        *)
WantsBySize(b, inv) == Cardinality(b.setTokens) < inv.ncontent

Wants(b, inv) ==
  \/ Cardinality(b.setTokens) < inv.ncontent
  \/ Cardinality(b.setTokens) = inv.ncontent /\ b.hash # inv.hash

ReceiveInv(n, p) ==
  LET refused == smsgData[n][p].fIgnore \/ (~expired /\ bucket[n].nLockCount > 0)
  IN
  /\ Receives(n, p, "smsgInv")
  /\ net' = Reply(n, p, IF ~refused /\ ~expired /\ Wants(bucket[n], Head(net[p][n]))
                        THEN <<[type |-> "smsgShow"]>> ELSE <<>>)
  /\ lost' = (lost \/ refused)
  /\ UNCHANGED <<nodeVars, smsgData, sent, expired, troubles, gone, released>>

ReceiveShow(n, p) ==
  /\ Receives(n, p, "smsgShow")
  /\ net' = Reply(n, p, IF bucket[n].setTokens = {} THEN <<>>
                        ELSE <<[type |-> "smsgHave", tokens |-> bucket[n].setTokens]>>)
  /\ UNCHANGED <<nodeVars, smsgData, sent, expired, troubles, gone, lost, released>>

(* A locked bucket is waiting for another smsgMsg.                           *)
MaySift(b) == b.nLockCount = 0

ReceiveHave(n, p) ==
  LET want == Head(net[p][n]).tokens \ bucket[n].setTokens IN
  /\ Receives(n, p, "smsgHave")
  /\ IF ~expired /\ MaySift(bucket[n]) /\ want # {}
     THEN /\ bucket' = [bucket EXCEPT ![n].nLockCount = LockCount,
                                      ![n].nLockPeer = p]
          /\ net' = Reply(n, p, <<[type |-> "smsgWant", tokens |-> want]>>)
     ELSE /\ net' = Take(n, p)
          /\ UNCHANGED bucket
  /\ lost' = (lost \/ ~MaySift(bucket[n]))
  /\ UNCHANGED <<fSecMsgEnabled, disabling, file, queue, pow, smsgVars, workVars,
                 smsgData, sent, expired, troubles, gone, released>>

(* A bunch ends at MaxBunch messages; no more is sent for this smsgWant.     *)
ReceiveWant(n, p) ==
  LET found == bucket[n].setTokens \cap Head(net[p][n]).tokens
      bunch == {m \in found : Cardinality({x \in found : x < m}) < MaxBunch}
  IN
  /\ Receives(n, p, "smsgWant")
  /\ net' = Reply(n, p, IF found = {} THEN <<>>
                        ELSE <<[type |-> "smsgMsg", msgs |-> bunch]>>)
  /\ lost' = (lost \/ bunch # found)
  /\ UNCHANGED <<nodeVars, smsgData, sent, expired, troubles, gone, released>>

ReceiveMsg(n, p) ==
  /\ Receives(n, p, "smsgMsg")
  /\ net' = Take(n, p)
  /\ work' = IF expired THEN work
             ELSE [work EXCEPT ![n] = [peer |-> p, msgs |-> Head(net[p][n]).msgs]]
  /\ UNCHANGED <<fSecMsgEnabled, disabling, bucket, file, queue, pow, smsgVars, scanning,
                 holds, smsgData, sent, expired, troubles, gone, lost, released>>

(* SecureMsgReceive stores message by message and stops at one it has, or    *)
(* that has expired meanwhile.                                               *)
StoreNext(n) ==
  LET m == Min(work[n].msgs) IN
  /\ work[n] # NoWork /\ work[n].msgs # {} /\ SmsgFree(n)
  /\ \/ /\ m \in bucket[n].setTokens \/ expired
        /\ work' = [work EXCEPT ![n].msgs = {}]
        /\ lost' = (lost \/ ~(work[n].msgs \subseteq bucket[n].setTokens))
        /\ UNCHANGED <<bucket, file, scanning>>
     \/ /\ m \notin bucket[n].setTokens
        /\ work' = [work EXCEPT ![n].msgs = @ \ {m}]
        /\ bucket' = [bucket EXCEPT ![n] = Stored(@, m)]
        /\ file' = [file EXCEPT ![n] = @ \cup {m}]
        /\ scanning' = [scanning EXCEPT ![n] = TRUE]
        /\ UNCHANGED lost
  /\ UNCHANGED <<fSecMsgEnabled, disabling, queue, pow, smsgVars, holds, linkVars, sent,
                 expired, troubles, gone, released>>

(* It scans each message while it still holds cs_smsg.                       *)
ScanNext(n) ==
  /\ scanning[n] /\ WalletFree(n)
  /\ scanning' = [scanning EXCEPT ![n] = FALSE]
  /\ UNCHANGED <<fSecMsgEnabled, disabling, bucket, file, queue, pow, smsgVars, work,
                 holds, linkVars, sent, expired, troubles, gone, lost, released>>

(* ... and then releases the lock, whichever peer it is for.                 *)
ReceiveEnd(n) ==
  LET b == bucket[n] IN
  /\ work[n] # NoWork /\ work[n].msgs = {} /\ SmsgFree(n)
  /\ work' = [work EXCEPT ![n] = NoWork]
  /\ bucket' = [bucket EXCEPT ![n] = [Hashed(b) EXCEPT !.nLockCount = 0,
                                                       !.nLockPeer = NoPeer]]
  /\ smsgData' = [smsgData EXCEPT ![n] = Marked(b, @)]
  /\ UNCHANGED <<fSecMsgEnabled, disabling, file, queue, pow, smsgVars, scanning, holds,
                 net, sent, expired, troubles, gone, lost, released>>

(* While messaging is disabled ProcessMessage drops what arrives.            *)
DropMessage(n, p) ==
  /\ ~fSecMsgEnabled[n] /\ work[n] = NoWork /\ holds[n] = NoPeer /\ net[p][n] # <<>>
  /\ net' = Take(n, p)
  /\ lost' = (lost \/ Head(net[p][n]).type \in {"smsgInv", "smsgHave", "smsgMsg"})
  /\ UNCHANGED <<nodeVars, smsgData, sent, expired, troubles, gone, released>>

-----------------------------------------------------------------------------
(* ThreadSecureMsg: an expired bucket goes with its file; a lock ticks down, *)
(* and when it times out the peer is ignored and told so.                    *)
Purge(n) ==
  /\ smsg[n] = "run" /\ SmsgFree(n) /\ expired
  /\ bucket[n] # NoBucket
  /\ bucket' = [bucket EXCEPT ![n] = NoBucket]
  /\ file' = [file EXCEPT ![n] = {}]
  /\ UNCHANGED <<fSecMsgEnabled, disabling, queue, pow, smsgVars, workVars, linkVars,
                 sent, expired, troubles, gone, lost, released>>

IsLocked(b) == b.nLockCount > 0

Tick(n) ==
  LET b == bucket[n]
      last == b.nLockCount = 1
  IN
  /\ smsg[n] = "run" /\ SmsgFree(n) /\ ~expired
  /\ IsLocked(b)
  /\ last => MayHappen(n, "timeout")
  /\ bucket' = [bucket EXCEPT ![n].nLockCount = @ - 1,
                              ![n].nLockPeer = IF last THEN NoPeer ELSE @]
  /\ smsg' = IF last THEN [smsg EXCEPT ![n] = "ignore"] ELSE smsg
  /\ ignored' = IF last THEN [ignored EXCEPT ![n] = b.nLockPeer] ELSE ignored
  /\ troubles' = IF last THEN troubles \cup {"timeout"} ELSE troubles
  /\ released' = (released \/ last)
  /\ UNCHANGED <<fSecMsgEnabled, disabling, file, queue, pow, workVars, linkVars, sent,
                 expired, gone, lost>>

(* It needs the cs_smsg_net of the peer.                                     *)
IgnoreWaits(n) == holds[n] # NoPeer /\ holds[n] = ignored[n]

Ignore(n) ==
  LET p == ignored[n] IN
  /\ smsg[n] = "ignore" /\ ~IgnoreWaits(n)
  /\ smsg' = [smsg EXCEPT ![n] = "run"]
  /\ ignored' = [ignored EXCEPT ![n] = NoPeer]
  /\ IF p # NoPeer
     THEN /\ smsgData' = [smsgData EXCEPT ![n][p].fIgnore = TRUE]
          /\ net' = [net EXCEPT ![n][p] = Append(@, [type |-> "smsgIgnore"])]
     ELSE UNCHANGED linkVars
  /\ UNCHANGED <<fSecMsgEnabled, disabling, bucket, file, queue, pow, workVars, sent,
                 expired, troubles, gone, lost, released>>

(* ignoreUntil is over.                                                      *)
IgnoreEnds(n, p) ==
  /\ smsgData[n][p].fIgnore
  /\ smsgData' = [smsgData EXCEPT ![n][p].fIgnore = FALSE]
  /\ UNCHANGED <<nodeVars, net, sent, expired, troubles, gone, lost, released>>

Expire ==
  /\ ~expired
  /\ expired' = TRUE
  /\ UNCHANGED <<nodeVars, linkVars, sent, lost, released, troubles, gone>>

-----------------------------------------------------------------------------
(* smsgdisable has cs_main and cs_wallet and waits for cs_smsg.              *)
DisableAsk(n) ==
  /\ fSecMsgEnabled[n] /\ disabling[n] = "no" /\ Happens(n, "rpc")
  /\ disabling' = [disabling EXCEPT ![n] = "asked"]
  /\ UNCHANGED <<fSecMsgEnabled, bucket, file, queue, pow, smsgVars, workVars, linkVars,
                 sent, expired, gone, lost, released>>

(* SecureMsgDisable takes cs_smsg and joins the two threads.  The thread of  *)
(* the buckets may be past its test of the flag and about to take cs_smsg,   *)
(* and the message thread in SecureMsgSendData, if cs_main is free.          *)
DisableBegin(n, by) ==
  /\ SmsgFree(n)
  /\ \/ by = "rpc" /\ disabling[n] = "asked" /\ UNCHANGED troubles
     \/ /\ by = "gui" /\ disabling[n] = "no"
        /\ fSecMsgEnabled[n] /\ Happens(n, "gui")
  /\ fSecMsgEnabled' = [fSecMsgEnabled EXCEPT ![n] = FALSE]
  /\ disabling' = [disabling EXCEPT ![n] = by]
  /\ \/ UNCHANGED smsg
     \/ smsg[n] = "run" /\ smsg' = [smsg EXCEPT ![n] = "blocked"]
  /\ \/ UNCHANGED holds
     \/ \E p \in Peers[n] : /\ by = "gui" /\ work[n] = NoWork /\ MaySend(n, p)
                            /\ holds' = [holds EXCEPT ![n] = p]
  /\ UNCHANGED <<bucket, file, queue, pow, ignored, work, scanning, linkVars, sent,
                 expired, gone, lost, released>>

(* A thread that is interrupted in its sleep ends.                           *)
SmsgStops(n) ==
  /\ Joining(n) /\ smsg[n] = "run"
  /\ smsg' = [smsg EXCEPT ![n] = "ended"]
  /\ UNCHANGED <<fSecMsgEnabled, disabling, bucket, file, queue, pow, ignored, workVars,
                 linkVars, sent, expired, troubles, gone, lost, released>>

(* SecureMsgSetHash returns 2: the message stays in the queue.               *)
LeaveInQueueErased(n) == IF queue[n] = {} THEN {} ELSE queue[n] \ {Min(queue[n])}
LeaveInQueue(n) == queue[n]

PowStops(n) ==
  /\ PowSeesFlag(n) /\ pow[n].at \in {"idle", "hash"}
  /\ queue' = [queue EXCEPT ![n] = LeaveInQueue(n)]
  /\ pow' = [pow EXCEPT ![n] = PowAt("ended", {})]
  /\ UNCHANGED <<fSecMsgEnabled, disabling, bucket, file, smsgVars, workVars, linkVars,
                 sent, expired, troubles, gone, lost, released>>

(* What SecureMsgSendData was waiting to send is nothing now.                *)
DisableEnd(n) ==
  LET told == {p \in Peers[n] : smsgData[n][p].fEnabled} IN
  /\ Joining(n) /\ smsg[n] = "ended" /\ pow[n].at = "ended"
  /\ disabling' = [disabling EXCEPT ![n] = "no"]
  /\ holds' = [holds EXCEPT ![n] = NoPeer]
  /\ bucket' = [bucket EXCEPT ![n] = NoBucket]
  /\ released' = (released \/ bucket[n].nLockCount > 0)
  /\ smsgData' = [smsgData EXCEPT ![n] =
                    [p \in Peers[n] |-> [@[p] EXCEPT !.fEnabled = FALSE]]]
  /\ net' = [net EXCEPT ![n] =
               [p \in Peers[n] |-> IF p \in told THEN Append(@[p], [type |-> "smsgDisabled"])
                                   ELSE @[p]]]
  /\ UNCHANGED <<fSecMsgEnabled, file, queue, pow, smsgVars, work, scanning, sent,
                 expired, troubles, gone, lost>>

SecureMsgEnable(n) ==
  /\ ~fSecMsgEnabled[n] /\ disabling[n] = "no" /\ SmsgFree(n)
  /\ Happens(n, "enable")
  /\ fSecMsgEnabled' = [fSecMsgEnabled EXCEPT ![n] = TRUE]
  /\ bucket' = [bucket EXCEPT ![n] = BuildBucketSet(n)]
  /\ file' = IF expired THEN [file EXCEPT ![n] = {}] ELSE file
  /\ smsg' = [smsg EXCEPT ![n] = "run"]
  /\ pow' = [pow EXCEPT ![n] = PowAt("idle", {})]
  /\ smsgData' = [smsgData EXCEPT ![n] =
                    [p \in Peers[n] |->
                       [smsgData[n][p] EXCEPT !.fUnsent = @ \/ file[n] # {}]]]
  /\ net' = [net EXCEPT ![n] =
               [p \in Peers[n] |-> @[p] \o <<[type |-> "smsgPing"], [type |-> "smsgPong"]>>]]
  /\ UNCHANGED <<disabling, queue, ignored, workVars, sent, expired, gone, lost,
                 released>>

-----------------------------------------------------------------------------
(* A new connection has a new CNode at both ends, and a lock for the old one *)
(* is for nobody.                                                            *)
Unlinked(L) ==
  /\ smsgData' = [n \in Node |-> [p \in Peers[n] |->
                    IF {n, p} \in L THEN NewSecMsgNode ELSE smsgData[n][p]]]
  /\ net' = [n \in Node |-> [p \in Peers[n] |->
               IF {n, p} \in L THEN <<>> ELSE net[n][p]]]

LockFor(n, L) ==
  IF {n, bucket[n].nLockPeer} \in L THEN NoPeer ELSE bucket[n].nLockPeer

IgnoredFor(n, L) == IF {n, ignored[n]} \in L THEN NoPeer ELSE ignored[n]

Reconnect(n, p) ==
  /\ Happens(n, "cut")
  /\ Unlinked({{n, p}})
  /\ bucket' = [q \in Node |-> [bucket[q] EXCEPT !.nLockPeer = LockFor(q, {{n, p}})]]
  /\ ignored' = [q \in Node |-> IgnoredFor(q, {{n, p}})]
  /\ UNCHANGED <<fSecMsgEnabled, disabling, file, queue, pow, smsg, workVars, sent,
                 expired, gone, lost, released>>

Crash(n) ==
  LET L == {{n, p} : p \in Peers[n]} IN
  /\ Happens(n, "crash")
  /\ Unlinked(L)
  /\ fSecMsgEnabled' = [fSecMsgEnabled EXCEPT ![n] = TRUE]
  /\ disabling' = [disabling EXCEPT ![n] = "no"]
  /\ bucket' = [q \in Node |-> IF q = n THEN BuildBucketSet(n)
                               ELSE [bucket[q] EXCEPT !.nLockPeer = LockFor(q, L)]]
  /\ file' = IF expired THEN [file EXCEPT ![n] = {}] ELSE file
  /\ pow' = [pow EXCEPT ![n] = PowAt("idle", {})]
  /\ smsg' = [smsg EXCEPT ![n] = "run"]
  /\ ignored' = [q \in Node |-> IF q = n THEN NoPeer ELSE IgnoredFor(q, L)]
  /\ work' = [work EXCEPT ![n] = NoWork]
  /\ scanning' = [scanning EXCEPT ![n] = FALSE]
  /\ holds' = [holds EXCEPT ![n] = NoPeer]
  /\ gone' = IF pow[n].at = "store" THEN gone \cup {pow[n].m} ELSE gone
  /\ UNCHANGED <<queue, sent, expired, lost, released>>

-----------------------------------------------------------------------------
Pow(n) == PowRead(n) \/ PowErase(n) \/ PowStore(n) \/ PowScan(n)
Stores(n) == StoreNext(n) \/ ScanNext(n) \/ ReceiveEnd(n)
Buckets(n) == Purge(n) \/ Tick(n) \/ Ignore(n)
Receive(n, p) ==
  \/ ReceivePing(n, p) \/ ReceivePong(n, p) \/ ReceiveDisabled(n, p)
  \/ ReceiveIgnore(n, p) \/ ReceiveInv(n, p) \/ ReceiveShow(n, p)
  \/ ReceiveHave(n, p) \/ ReceiveWant(n, p) \/ ReceiveMsg(n, p)
  \/ DropMessage(n, p)
SecureMsgSendData(n, p) == SendPing(n, p) \/ SendInv(n, p)
Disables(n) == DisableBegin(n, "rpc") \/ SmsgStops(n) \/ DisableEnd(n)

Next ==
  \/ Expire
  \/ \E n \in Node :
       \/ \E m \in Msg : SecureMsgSend(n, m)
       \/ Pow(n) \/ Stores(n) \/ Buckets(n)
       \/ DisableAsk(n) \/ DisableBegin(n, "gui") \/ Disables(n) \/ PowStops(n)
       \/ SecureMsgEnable(n) \/ Crash(n)
       \/ \E p \in Peers[n] :
            \/ Receive(n, p) \/ SecureMsgSendData(n, p)
            \/ IgnoreEnds(n, p) \/ Reconnect(n, p)

Spec == Init /\ [][Next]_vars

(* What the threads of the nodes do by themselves, and the passing of time.  *)
Progress ==
  \E n \in Node :
    \/ Pow(n) \/ Stores(n) \/ Buckets(n) \/ Disables(n) \/ PowStops(n)
    \/ \E p \in Peers[n] : Receive(n, p) \/ SecureMsgSendData(n, p) \/ IgnoreEnds(n, p)

FairSpec == Spec /\ WF_vars(Progress)

-----------------------------------------------------------------------------
(* Properties *)

(* The variables have their types.                                           *)
SmsgTypeOK ==
  /\ sent \subseteq Msg
  /\ troubles \subseteq Trouble /\ gone \subseteq Msg
  /\ {expired, lost, released} \subseteq BOOLEAN
  /\ \A n \in Node :
       /\ fSecMsgEnabled[n] \in BOOLEAN /\ scanning[n] \in BOOLEAN
       /\ disabling[n] \in {"no", "asked", "rpc", "gui"}
       /\ bucket[n] \in [setTokens : SUBSET Msg, hash : SUBSET Msg,
                         nLockCount : 0..LockCount, nLockPeer : Peers[n] \cup {NoPeer}]
       /\ file[n] \subseteq Msg /\ queue[n] \subseteq Msg
       /\ pow[n].at \in {"idle", "hash", "store", "scan", "ended"}
       /\ pow[n].rest \subseteq Msg
       /\ smsg[n] \in {"run", "ignore", "blocked", "ended"}
       /\ {ignored[n], holds[n]} \subseteq Peers[n] \cup {NoPeer}
       /\ work[n].peer \in Peers[n] \cup {NoPeer} /\ work[n].msgs \subseteq Msg
       /\ \A p \in Peers[n] :
            smsgData[n][p] \in [fSeen : BOOLEAN, fEnabled : BOOLEAN,
                                fIgnore : BOOLEAN, fUnsent : BOOLEAN]

(* What a running node offers its peers is what its file holds, message by   *)
(* message, so that SecureMsgRetrieve finds each and a restart loses none;   *)
(* and between two messages the hash it announces is the hash of that.       *)
BucketIsStored ==
  \A n \in Node : fSecMsgEnabled[n] =>
    /\ bucket[n].setTokens = file[n]
    /\ work[n] = NoWork => bucket[n].hash = bucket[n].setTokens

(* A message that was written is in the send queue, in the hands of the      *)
(* proof-of-work thread or in the store of its node, also when messaging is  *)
(* disabled meanwhile, until the bucket expires, or a crash between          *)
(* EraseSmesg and SecureMsgStore takes it.  Of messages with the same key,   *)
(* which overwrite and erase each other, that is true of one at least.       *)
Kept(m) ==
  \/ m \in queue[From[m]] \cup file[From[m]]
  \/ pow[From[m]].at = "store" /\ pow[From[m]].m = m
  \/ m \in gone

QueuedOrStored ==
  ~expired =>
    \A m \in sent : \E x \in sent : From[x] = From[m] /\ KeyOf[x] = KeyOf[m] /\ Kept(x)

(* The comment on nLockCount: "set when smsgWant first sent, unset at end of *)
(* smsgMsg".  While a node waits for messages from a peer, its bucket is     *)
(* locked for that peer, so it fetches from one at a time; until a lock has  *)
(* once been given up.                                                       *)
Fetches(n, p) ==
  \/ \E i \in 1..Len(net[n][p]) : net[n][p][i].type = "smsgWant"
  \/ \E i \in 1..Len(net[p][n]) : net[p][n][i].type = "smsgMsg"
  \/ work[n].peer = p

LockCoversFetch ==
  ~released /\ ~expired =>
    \A n \in Node : \A p \in Peers[n] :
      Fetches(n, p) => bucket[n].nLockCount > 0 /\ bucket[n].nLockPeer \in {p, NoPeer}

(* The comment in smsgInv: "if this node has more than the peer node, peer   *)
(* node will pull from this; if then peer node has more this node will pull  *)
(* from peer".  In the end all nodes have the same messages, in spite of     *)
(* crashes and lost connections, unless an announcement or its answer was    *)
(* refused because of a lock, an ignored peer or disabled messaging, or was  *)
(* cut short: none of these is repeated.                                     *)
IsOff(n) == ~fSecMsgEnabled[n] \/ disabling[n] # "no"

BucketsConverge ==
  <>[](\/ lost \/ expired \/ \E n \in Node : IsOff(n)
       \/ \A n, p \in Node : bucket[n].setTokens = bucket[p].setTokens)

(* A thread that SecureMsgDisable joins waits for a lock that it holds, or   *)
(* that the message thread holds, which waits for it.                        *)
IsStuck(n) ==
  \/ smsg[n] = "blocked" \/ pow[n].at = "store"
  \/ disabling[n] = "rpc" /\ pow[n].at = "scan"
  \/ smsg[n] = "ignore" /\ IgnoreWaits(n)

(* Messaging is disabled in the end, when at the time at which the flag is   *)
(* cleared neither thread is past its last test of it and in need of a lock  *)
(* ("TODO be certain that threads have stopped").                            *)
DisableReturns ==
  \A n \in Node : Joining(n) /\ ~IsStuck(n) ~> ~Joining(n)

(* After SMSG_RETENTION the messages leave memory and disk, also those that  *)
(* a thread was storing when the bucket was removed.                         *)
EventuallyPurged ==
  \A n \in Node :
    expired ~> (bucket[n] = NoBucket /\ file[n] = {}) \/ IsOff(n)

(* The bucket of a node as a whole: no written message is lost, memory and   *)
(* file agree, and the lock does what it is for.                             *)
MessagesKept == SmsgTypeOK /\ BucketIsStored /\ QueuedOrStored /\ LockCoversFetch

=============================================================================
