------------------------ MODULE SecureMessagesProofs ------------------------
(***************************************************************************)
(* What is proved of SecureMessages for every set of nodes, every graph of *)
(* connections and every set of messages.                                  *)
(*                                                                         *)
(* MessagesKept is not inductive.  That a lock covers the fetch it was     *)
(* taken for needs more: that the fetch is at one place, as an smsgWant on *)
(* the way, an smsgMsg on the way back or a batch that is being stored     *)
(* (OnePlace), for else the end of one batch would release the lock of     *)
(* another; that no other peer is asked meanwhile (OnePeer); and that a    *)
(* node that was disabled has no lock left (Off).  Most steps add no fetch *)
(* to any connection (QuietNet); ReceiveHave begins one, ReceiveWant and   *)
(* ReceiveMsg move it, ReceiveEnd and Crash end it.  That a message is     *)
(* kept, or one with its key, needs that the queue of a node and the hands *)
(* of its proof-of-work thread hold only what was written on it (Own): for *)
(* EraseSmesg erases what is under the key of the message in hand, which   *)
(* is then the one that is kept (KeptForKey).                              *)
(***************************************************************************)
EXTENDS SecureMessages, WellFoundedInduction, TLAPS

-----------------------------------------------------------------------------
(* What may be on the way from one node to another.                          *)
Signals == {"smsgPing", "smsgPong", "smsgDisabled", "smsgIgnore", "smsgShow"}

Packet ==
  [type : Signals]
    \cup [type : {"smsgInv"}, hash : SUBSET Msg,
          ncontent : {Cardinality(S) : S \in SUBSET Msg}]
    \cup [type : {"smsgHave", "smsgWant"}, tokens : SUBSET Msg]
    \cup [type : {"smsgMsg"}, msgs : SUBSET Msg]

Bucket ==
  [setTokens : SUBSET Msg, hash : SUBSET Msg, nLockCount : 0..LockCount,
   nLockPeer : Node \cup {NoPeer}]

Flags == [fSeen : BOOLEAN, fEnabled : BOOLEAN, fIgnore : BOOLEAN, fUnsent : BOOLEAN]

(* A family of values, one for each end of each connection.                  *)
LinkShape(f) == f = [a \in Node |-> [b \in Peers[a] |-> f[a][b]]]

(* Some packet of s, and at most one, is of type t.                          *)
Some(s, t) == \E i \in 1..Len(s) : s[i].type = t
One(s, t) == \A i, j \in 1..Len(s) : s[i].type = t /\ s[j].type = t => i = j

-----------------------------------------------------------------------------
(* The parts of the inductive invariant.                                     *)
Globals ==
  /\ sent \subseteq Msg /\ gone \subseteq Msg /\ troubles \subseteq Trouble
  /\ expired \in BOOLEAN /\ lost \in BOOLEAN /\ released \in BOOLEAN

Callers == {"no", "asked", "rpc", "gui"}
Smsg == {"run", "ignore", "blocked", "ended"}
PowRecord ==
  [at : {"idle", "hash", "store", "scan", "ended"}, m : Nat, rest : SUBSET Msg]

Threads ==
  /\ fSecMsgEnabled \in [Node -> BOOLEAN] /\ disabling \in [Node -> Callers]
  /\ smsg \in [Node -> Smsg] /\ scanning \in [Node -> BOOLEAN]
  /\ pow \in [Node -> PowRecord]
  /\ \A n \in Node : ignored[n] \in Peers[n] \cup {NoPeer}
  /\ ignored \in [Node -> Node \cup {NoPeer}]
  /\ \A n \in Node : holds[n] \in Peers[n] \cup {NoPeer}
  /\ holds \in [Node -> Node \cup {NoPeer}]

Stock ==
  /\ file \in [Node -> SUBSET Msg] /\ queue \in [Node -> SUBSET Msg]
  /\ bucket \in [Node -> Bucket]
  /\ \A n \in Node : bucket[n].nLockPeer \in Peers[n] \cup {NoPeer}
  /\ work \in [Node -> [peer : Node \cup {NoPeer}, msgs : SUBSET Msg]]
  /\ \A n \in Node : /\ work[n].peer \in Peers[n] \cup {NoPeer}
                     /\ work[n].peer = NoPeer => work[n].msgs = {}

Links ==
  /\ LinkShape(smsgData) /\ LinkShape(net)
  /\ \A a \in Node : \A b \in Peers[a] : smsgData[a][b] \in Flags /\ net[a][b] \in Seq(Packet)

(* A node that is disabled has no proof-of-work thread and no lock.          *)
Off ==
  \A n \in Node :
    /\ Joining(n) => ~fSecMsgEnabled[n]
    /\ ~fSecMsgEnabled[n] /\ ~Joining(n) =>
         pow[n].at = "ended" /\ bucket[n].nLockCount = 0

(* A node queues, and its thread works on, what was written on it.           *)
Mine(n) == {m \in sent : From[m] = n}

Own ==
  \A n \in Node :
    /\ queue[n] \subseteq Mine(n) /\ pow[n].rest \subseteq Mine(n)
    /\ pow[n].at \in {"hash", "store", "scan"} => pow[n].m \in Mine(n)

(* The lock covers the fetch, and there is one fetch at a time, which is at  *)
(* one place.                                                                *)
FetchAt(n, p) ==
  Some(net[n][p], "smsgWant") \/ Some(net[p][n], "smsgMsg") \/ work[n].peer = p

Covered(n, p) ==
  FetchAt(n, p) => bucket[n].nLockCount > 0 /\ bucket[n].nLockPeer \in {p, NoPeer}

OnePlace(n, p) ==
  /\ One(net[n][p], "smsgWant") /\ One(net[p][n], "smsgMsg")
  /\ Some(net[n][p], "smsgWant") =>
       ~Some(net[p][n], "smsgMsg") /\ work[n].peer # p
  /\ Some(net[p][n], "smsgMsg") => work[n].peer # p

OnePeer(n, p) == \A q \in Peers[n] : FetchAt(n, p) /\ FetchAt(n, q) => p = q

FetchOK(n) == \A p \in Peers[n] : Covered(n, p) /\ OnePlace(n, p) /\ OnePeer(n, p)

OneFetch == ~released /\ ~expired => \A n \in Node : FetchOK(n)

TypesInv == Globals /\ Threads /\ Stock /\ Links
KeptInv == Off /\ Own /\ BucketIsStored /\ QueuedOrStored
SmsgInv == TypesInv /\ KeptInv /\ OneFetch

-----------------------------------------------------------------------------
(* Sequences of packets.                                                     *)

(* What is left of a queue has no more packets of a type than the queue, and *)
(* none when the one that it had was the first.                              *)
LEMMA TailKeeps ==
  ASSUME NEW P, NEW s \in Seq(P), s # <<>>, NEW t
  PROVE  /\ Tail(s) \in Seq(P)
         /\ Some(Tail(s), t) => Some(s, t)
         /\ One(s, t) => One(Tail(s), t)
         /\ One(s, t) /\ Head(s).type = t => ~Some(Tail(s), t)
         /\ Head(s).type = t => Some(s, t)
<1>1. /\ Tail(s) \in Seq(P) /\ Len(Tail(s)) = Len(s) - 1 /\ Len(s) \in Nat /\ Len(s) # 0
      /\ \A i \in 1..Len(Tail(s)) : i + 1 \in 1..Len(s) /\ Tail(s)[i] = s[i + 1]
  OBVIOUS
<1>2. Head(s) = s[1] /\ 1 \in 1..Len(s)
  BY <1>1
<1>3. Some(Tail(s), t) => Some(s, t)
  BY <1>1 DEF Some
<1>4. One(s, t) => One(Tail(s), t)
  <2>1. SUFFICES ASSUME One(s, t), NEW i \in 1..Len(Tail(s)), NEW j \in 1..Len(Tail(s)),
                        Tail(s)[i].type = t, Tail(s)[j].type = t
                 PROVE  i = j
    BY DEF One
  <2>2. i + 1 = j + 1
    BY <1>1, <2>1 DEF One
  <2> QED BY <1>1, <2>2
<1>5. One(s, t) /\ Head(s).type = t => ~Some(Tail(s), t)
  <2>1. SUFFICES ASSUME One(s, t), Head(s).type = t, NEW i \in 1..Len(Tail(s)),
                        Tail(s)[i].type = t
                 PROVE  FALSE
    BY DEF Some
  <2>2. 1 = i + 1
    BY <1>1, <1>2, <2>1 DEF One
  <2> QED BY <1>1, <2>2
<1>6. Head(s).type = t => Some(s, t)
  BY <1>2 DEF Some
<1> QED BY <1>1, <1>3, <1>4, <1>5, <1>6

(* The packets of a queue and of what is added to it.                        *)
LEMMA ConcatKeeps ==
  ASSUME NEW P, NEW s \in Seq(P), NEW r \in Seq(P), NEW t
  PROVE  /\ s \o r \in Seq(P)
         /\ Some(s \o r, t) => Some(s, t) \/ Some(r, t)
         /\ One(s, t) /\ ~Some(r, t) => One(s \o r, t)
         /\ One(r, t) /\ ~Some(s, t) => One(s \o r, t)
<1> DEFINE u == s \o r
<1>1. /\ u \in Seq(P) /\ Len(u) = Len(s) + Len(r) /\ Len(s) \in Nat /\ Len(r) \in Nat
      /\ \A i \in 1..Len(s) : u[i] = s[i]
      /\ \A i \in 1..Len(u) : i \notin 1..Len(s) => i - Len(s) \in 1..Len(r) /\ u[i] = r[i - Len(s)]
  OBVIOUS
<1> HIDE DEF u
<1>2. Some(u, t) => Some(s, t) \/ Some(r, t)
  BY <1>1 DEF Some
<1>3. ASSUME One(s, t), ~Some(r, t), NEW i \in 1..Len(u), NEW j \in 1..Len(u),
             u[i].type = t, u[j].type = t
      PROVE  i = j
  <2>1. i \in 1..Len(s) /\ j \in 1..Len(s)
    BY <1>1, <1>3 DEF Some
  <2> QED BY <1>1, <1>3, <2>1 DEF One
<1>4. ASSUME One(r, t), ~Some(s, t), NEW i \in 1..Len(u), NEW j \in 1..Len(u),
             u[i].type = t, u[j].type = t
      PROVE  i = j
  <2>1. i \notin 1..Len(s) /\ j \notin 1..Len(s)
    BY <1>1, <1>4 DEF Some
  <2>2. i - Len(s) = j - Len(s)
    BY <1>1, <1>4, <2>1 DEF One
  <2> QED BY <1>1, <2>2
<1>5. /\ One(s, t) /\ ~Some(r, t) => One(u, t)
      /\ One(r, t) /\ ~Some(s, t) => One(u, t)
  BY <1>3, <1>4 DEF One
<1> QED BY <1>1, <1>2, <1>5 DEF u

(* Short queues.                                                             *)
LEMMA ShortQueues ==
  ASSUME NEW P, NEW t
  PROVE  /\ <<>> \in Seq(P) /\ ~Some(<<>>, t) /\ One(<<>>, t)
         /\ \A x \in P : <<x>> \in Seq(P) /\ (Some(<<x>>, t) => x.type = t) /\ One(<<x>>, t)
         /\ \A x, y \in P : <<x, y>> \in Seq(P) /\ (Some(<<x, y>>, t) => x.type = t \/ y.type = t)
         /\ \A s \in Seq(P) : s \o <<>> = s
BY DEF Some, One

(* A queue s2 that has no fetch in it that s has not.                        *)
Fetch == {"smsgWant", "smsgMsg"}

LessOf(t, s, s2) == (Some(s2, t) => Some(s, t)) /\ (One(s, t) => One(s2, t))

Quieter(s, s2) == s2 \in Seq(Packet) /\ \A t \in Fetch : LessOf(t, s, s2)

(* Delivering a packet, sending others and emptying a queue add no fetch.    *)
LEMMA QuietQueues ==
  ASSUME NEW s \in Seq(Packet)
  PROVE  /\ Quieter(s, s) /\ Quieter(s, <<>>)
         /\ s # <<>> => Quieter(s, Tail(s))
         /\ \A x \in Packet : x.type \notin Fetch =>
              Quieter(s, s \o <<x>>) /\ Quieter(s, Append(s, x))
         /\ \A x, y \in Packet : x.type \notin Fetch /\ y.type \notin Fetch =>
              Quieter(s, s \o <<x, y>>)
<1>1. Quieter(s, s)
  BY DEF Quieter, LessOf
<1>2. Quieter(s, <<>>)
  BY ShortQueues DEF Quieter, LessOf
<1>3. s # <<>> => Quieter(s, Tail(s))
  BY TailKeeps DEF Quieter, LessOf
<1>4. ASSUME NEW x \in Packet, x.type \notin Fetch
      PROVE  Quieter(s, s \o <<x>>) /\ Quieter(s, Append(s, x))
  <2>1. <<x>> \in Seq(Packet) /\ \A t \in Fetch : ~Some(<<x>>, t)
    BY <1>4, ShortQueues
  <2>2. Append(s, x) = s \o <<x>>
    BY <2>1
  <2>3. Quieter(s, s \o <<x>>)
    BY <2>1, ConcatKeeps DEF Quieter, LessOf
  <2> QED BY <2>2, <2>3
<1>5. ASSUME NEW x \in Packet, NEW y \in Packet, x.type \notin Fetch, y.type \notin Fetch
      PROVE  Quieter(s, s \o <<x, y>>)
  <2>1. <<x, y>> \in Seq(Packet) /\ \A t \in Fetch : ~Some(<<x, y>>, t)
    BY <1>5, ShortQueues
  <2> QED BY <2>1, ConcatKeeps DEF Quieter, LessOf
<1> QED BY <1>1, <1>2, <1>3, <1>4, <1>5

-----------------------------------------------------------------------------
(* What the packets carry.                                                   *)
LEMMA Packets ==
  /\ \A t \in Signals : [type |-> t] \in Packet
  /\ \A h, S \in SUBSET Msg :
       [type |-> "smsgInv", hash |-> h, ncontent |-> Cardinality(S)] \in Packet
  /\ \A S \in SUBSET Msg :
       /\ [type |-> "smsgHave", tokens |-> S] \in Packet
       /\ [type |-> "smsgWant", tokens |-> S] \in Packet
       /\ [type |-> "smsgMsg", msgs |-> S] \in Packet
  /\ \A x \in Packet :
       /\ x.type \in {"smsgHave", "smsgWant"} => x.tokens \subseteq Msg
       /\ x.type = "smsgMsg" => x.msgs \subseteq Msg
BY DEF Packet, Signals

(* The ends of a connection.                                                 *)
LEMMA Ends ==
  ASSUME NEW n \in Node, NEW p \in Peers[n]
  PROVE  p \in Node /\ n \in Peers[p] /\ p # n /\ p # NoPeer /\ n # NoPeer
BY SecureMessagesAssumption

(* One end of one connection is changed.                                     *)
SetLink(f, n, p, x) == [f EXCEPT ![n][p] = x]

Replaces(f, g, n, p, x) ==
  /\ LinkShape(g) /\ g[n][p] = x
  /\ \A a \in Node : \A b \in Peers[a] : (a # n \/ b # p) => g[a][b] = f[a][b]

(* Everything else is left as it was.                                        *)
LEMMA LinkUpdate ==
  ASSUME NEW f, LinkShape(f), NEW n \in Node, NEW p \in Peers[n], NEW x
  PROVE  Replaces(f, SetLink(f, n, p, x), n, p, x)
<1> DEFINE g == [f EXCEPT ![n][p] = x]
<1>1. LinkShape(g) BY DEF LinkShape
<1>2. g[n][p] = x BY DEF LinkShape
<1>3. \A a \in Node : \A b \in Peers[a] : (a # n \/ b # p) => g[a][b] = f[a][b]
  BY DEF LinkShape
<1> QED BY <1>1, <1>2, <1>3 DEF Replaces, SetLink

(* Both ends of a connection are changed: n takes a packet of p and sends r. *)
Turn(g, n, p, r) ==
  /\ LinkShape(g)
  /\ g[p][n] = Tail(net[p][n]) /\ g[n][p] = net[n][p] \o r
  /\ \A a \in Node : \A b \in Peers[a] :
       (a # n \/ b # p) /\ (a # p \/ b # n) => g[a][b] = net[a][b]

(* Reply does that, ...                                                      *)
LEMMA ReplyTurn ==
  ASSUME LinkShape(net), NEW n \in Node, NEW p \in Peers[n], NEW r
  PROVE  Turn(Reply(n, p, r), n, p, r)
<1> DEFINE g1 == SetLink(net, p, n, Tail(net[p][n]))
           g2 == SetLink(g1, n, p, net[n][p] \o r)
<1>1. p \in Node /\ n \in Peers[p] /\ p # n
  BY Ends
<1>2. Reply(n, p, r) = g2
  BY <1>1, SecureMessagesAssumption DEF Reply, LinkShape, SetLink
<1>3. Replaces(net, g1, p, n, Tail(net[p][n]))
  BY <1>1, LinkUpdate
<1> HIDE DEF g1
<1>4. Replaces(g1, g2, n, p, net[n][p] \o r)
  <2>1. LinkShape(g1) BY <1>3 DEF Replaces
  <2> QED BY <2>1, LinkUpdate
<1> HIDE DEF g2
<1> QED BY <1>1, <1>2, <1>3, <1>4 DEF Turn, Replaces

(* ... and Take is a reply with nothing.                                     *)
LEMMA TakeTurn ==
  ASSUME Links, NEW n \in Node, NEW p \in Peers[n]
  PROVE  Turn(Take(n, p), n, p, <<>>)
<1> DEFINE g == SetLink(net, p, n, Tail(net[p][n]))
<1>1. p \in Node /\ n \in Peers[p] /\ p # n
  BY Ends
<1>2. Take(n, p) = g
  BY <1>1 DEF Take, SetLink
<1>3. LinkShape(net) /\ net[n][p] \in Seq(Packet)
  BY DEF Links
<1>4. Replaces(net, g, p, n, Tail(net[p][n]))
  BY <1>1, <1>3, LinkUpdate
<1> HIDE DEF g
<1>5. net[n][p] \o <<>> = net[n][p]
  BY <1>3, ShortQueues
<1> QED BY <1>1, <1>2, <1>4, <1>5 DEF Turn, Replaces

(* The flags of a connection are changed one at a time.                      *)
LEMMA FlagUpdate ==
  ASSUME NEW x \in Flags, NEW b \in BOOLEAN
  PROVE  /\ [x EXCEPT !.fSeen = b] \in Flags /\ [x EXCEPT !.fEnabled = b] \in Flags
         /\ [x EXCEPT !.fIgnore = b] \in Flags /\ [x EXCEPT !.fUnsent = b] \in Flags
BY DEF Flags

FlagsOK(f) == LinkShape(f) /\ \A a \in Node : \A b \in Peers[a] : f[a][b] \in Flags

(* One flag of one connection is changed.                                    *)
LEMMA FlagsUpdate ==
  ASSUME FlagsOK(smsgData), NEW n \in Node, NEW p \in Peers[n], NEW b \in BOOLEAN
  PROVE  /\ FlagsOK([smsgData EXCEPT ![n][p].fSeen = b])
         /\ FlagsOK([smsgData EXCEPT ![n][p].fEnabled = b])
         /\ FlagsOK([smsgData EXCEPT ![n][p].fIgnore = b])
         /\ FlagsOK([smsgData EXCEPT ![n][p].fUnsent = b])
<1> DEFINE x == smsgData[n][p]
<1>1. x \in Flags
  BY DEF FlagsOK
<1>2. ASSUME NEW y \in Flags PROVE FlagsOK(SetLink(smsgData, n, p, y))
  <2>1. Replaces(smsgData, SetLink(smsgData, n, p, y), n, p, y)
    BY LinkUpdate DEF FlagsOK
  <2> QED BY <1>2, <2>1 DEF FlagsOK, Replaces
<1>3. /\ [smsgData EXCEPT ![n][p].fSeen = b] = SetLink(smsgData, n, p, [x EXCEPT !.fSeen = b])
      /\ [smsgData EXCEPT ![n][p].fEnabled = b] = SetLink(smsgData, n, p, [x EXCEPT !.fEnabled = b])
      /\ [smsgData EXCEPT ![n][p].fIgnore = b] = SetLink(smsgData, n, p, [x EXCEPT !.fIgnore = b])
      /\ [smsgData EXCEPT ![n][p].fUnsent = b] = SetLink(smsgData, n, p, [x EXCEPT !.fUnsent = b])
  BY DEF SetLink
<1> HIDE DEF x
<1>4. /\ [x EXCEPT !.fSeen = b] \in Flags /\ [x EXCEPT !.fEnabled = b] \in Flags
      /\ [x EXCEPT !.fIgnore = b] \in Flags /\ [x EXCEPT !.fUnsent = b] \in Flags
  BY <1>1, FlagUpdate
<1> QED BY <1>2, <1>3, <1>4

(* All the flags of one node are changed.                                    *)
LEMMA FlagsReplaced ==
  ASSUME FlagsOK(smsgData), NEW n \in Node, NEW d,
         d = [p \in Peers[n] |-> d[p]], \A p \in Peers[n] : d[p] \in Flags
  PROVE  FlagsOK([smsgData EXCEPT ![n] = d])
BY DEF FlagsOK, LinkShape

(* hashBucket marks the connections of a node.                               *)
LEMMA MarkedFlags ==
  ASSUME FlagsOK(smsgData), NEW n \in Node, NEW b
  PROVE  FlagsOK([smsgData EXCEPT ![n] = Marked(b, smsgData[n])])
<1> DEFINE d == smsgData[n]
           e == [p \in Peers[n] |-> [d[p] EXCEPT !.fUnsent = TRUE]]
<1>1. d = [p \in Peers[n] |-> d[p]] /\ \A p \in Peers[n] : d[p] \in Flags
  BY DEF FlagsOK, LinkShape
<1>2. DOMAIN d = Peers[n]
  BY <1>1
<1>3. \A p \in Peers[n] : e[p] = [d[p] EXCEPT !.fUnsent = TRUE]
  BY Zenon
<1> HIDE DEF d
<1>4. \A p \in Peers[n] : [d[p] EXCEPT !.fUnsent = TRUE] \in Flags
  BY Zenon, <1>1, FlagUpdate
<1>5. \A p \in Peers[n] : e[p] \in Flags
  BY Zenon, <1>3, <1>4
<1>6. Marked(b, d) = d \/ Marked(b, d) = e
  BY Zenon, <1>2 DEF Marked
<1>7. e = [p \in Peers[n] |-> e[p]]
  BY Zenon
<1>8. FlagsOK([smsgData EXCEPT ![n] = e])
  <2> HIDE DEF e
  <2> QED BY <1>5, <1>7, FlagsReplaced
<1>9. FlagsOK([smsgData EXCEPT ![n] = d])
  BY <1>1, FlagsReplaced
<1> QED BY Zenon, <1>6, <1>8, <1>9 DEF d

-----------------------------------------------------------------------------
(* Fetches.                                                                  *)

(* What a step leaves of a fetch of n, which keeps its lock.                 *)
LinksQuiet(n) ==
  \A p \in Peers[n] : /\ LessOf("smsgWant", net[n][p], net'[n][p])
                      /\ LessOf("smsgMsg", net[p][n], net'[p][n])

LockKept(n) ==
  /\ bucket[n].nLockCount > 0 => bucket'[n].nLockCount > 0
  /\ bucket'[n].nLockPeer \in {bucket[n].nLockPeer, NoPeer}

(* A step that begins no fetch of n and keeps its lock.                      *)
LEMMA FetchKept ==
  ASSUME NEW n \in Node, FetchOK(n), LinksQuiet(n), LockKept(n),
         work'[n].peer \in {work[n].peer, NoPeer}
  PROVE  FetchOK(n)'
<1>1. \A p \in Peers[n] : p # NoPeer
  BY Ends
<1>2. ASSUME NEW p \in Peers[n], FetchAt(n, p)' PROVE FetchAt(n, p)
  BY <1>1, <1>2 DEF FetchAt, LinksQuiet, LessOf
<1>3. ASSUME NEW p \in Peers[n] PROVE Covered(n, p)'
  BY <1>2 DEF FetchOK, Covered, LockKept
<1>4. ASSUME NEW p \in Peers[n] PROVE OnePlace(n, p)'
  BY <1>1 DEF FetchOK, OnePlace, LinksQuiet, LessOf
<1>5. ASSUME NEW p \in Peers[n] PROVE OnePeer(n, p)'
  BY <1>2 DEF FetchOK, OnePeer
<1> QED BY <1>3, <1>4, <1>5 DEF FetchOK

(* A step after which n fetches nothing.                                     *)
LEMMA FetchOver ==
  ASSUME NEW n \in Node, \A p \in Peers[n] : ~FetchAt(n, p)'
  PROVE  FetchOK(n)'
<1>1. ASSUME NEW p \in Peers[n] PROVE Covered(n, p)' /\ OnePeer(n, p)'
  BY DEF Covered, OnePeer
<1>2. ASSUME NEW p \in Peers[n] PROVE OnePlace(n, p)'
  BY DEF FetchAt, OnePlace, One, Some
<1> QED BY <1>1, <1>2 DEF FetchOK

(* A step after which n fetches from p alone, as at one place before.        *)
LEMMA FetchMoved ==
  ASSUME NEW n \in Node, NEW p \in Peers[n],
         OnePlace(n, p)', bucket'[n].nLockCount > 0, bucket'[n].nLockPeer \in {p, NoPeer},
         \A q \in Peers[n] : q # p => ~FetchAt(n, q)'
  PROVE  FetchOK(n)'
<1>1. ASSUME NEW q \in Peers[n] PROVE Covered(n, q)'
  BY DEF Covered
<1>2. ASSUME NEW q \in Peers[n] PROVE OnePeer(n, q)'
  BY DEF OnePeer
<1>3. ASSUME NEW q \in Peers[n], q # p PROVE OnePlace(n, q)'
  BY <1>3 DEF FetchAt, OnePlace, One, Some
<1> QED BY <1>1, <1>2, <1>3 DEF FetchOK

(* No link has a fetch in it after the step that it had not before.          *)
QuietNet ==
  LinkShape(net') /\ \A a \in Node : \A b \in Peers[a] : Quieter(net[a][b], net'[a][b])

(* Then no node has a new fetch.                                             *)
LEMMA QuietLinks ==
  ASSUME QuietNet, NEW n \in Node
  PROVE  LinksQuiet(n)
BY Ends DEF QuietNet, Quieter, LinksQuiet, Fetch

(* A step that adds no fetch and keeps the locks of the nodes keeps the      *)
(* invariant.                                                                *)
LEMMA QuietStep ==
  ASSUME OneFetch, QuietNet, released => released', expired => expired',
         \A n \in Node : /\ work'[n].peer \in {work[n].peer, NoPeer}
                         /\ ~released' /\ ~expired' => LockKept(n)
  PROVE  OneFetch'
<1>1. ASSUME NEW n \in Node, ~released', ~expired' PROVE FetchOK(n)'
  <2>1. FetchOK(n)
    BY <1>1 DEF OneFetch
  <2>2. LinksQuiet(n)
    BY QuietLinks
  <2>3. LockKept(n) /\ work'[n].peer \in {work[n].peer, NoPeer}
    BY <1>1
  <2> QED BY <2>1, <2>2, <2>3, FetchKept
<1> QED BY <1>1 DEF OneFetch

(* The links of nodes that are not the two ends of a Turn are left alone,    *)
(* and what is taken and sent is no fetch.                                   *)
LEMMA QuietTurn ==
  ASSUME Links, NEW n \in Node, NEW p \in Peers[n], NEW r, net[p][n] # <<>>,
         Turn(net', n, p, r), Quieter(net[n][p], net[n][p] \o r)
  PROVE  QuietNet
<1>1. p \in Node /\ n \in Peers[p] /\ p # n
  BY Ends
<1>2. \A a \in Node : \A b \in Peers[a] : net[a][b] \in Seq(Packet)
  BY DEF Links
<1>3. ASSUME NEW a \in Node, NEW b \in Peers[a] PROVE Quieter(net[a][b], net'[a][b])
  <2>1. CASE a = n /\ b = p
    BY <2>1 DEF Turn
  <2>2. CASE a = p /\ b = n
    <3>1. Quieter(net[p][n], Tail(net[p][n]))
      BY <1>1, <1>2, QuietQueues
    <3> QED BY <2>2, <3>1 DEF Turn
  <2>3. CASE (a # n \/ b # p) /\ (a # p \/ b # n)
    <3>1. Quieter(net[a][b], net[a][b])
      BY <1>2, QuietQueues
    <3> QED BY <2>3, <3>1 DEF Turn
  <2> QED BY <2>1, <2>2, <2>3
<1> QED BY <1>3 DEF QuietNet, Turn

(* Nothing is sent and nothing taken.                                        *)
LEMMA UnchangedNet ==
  ASSUME Links, net' = net
  PROVE  QuietNet
BY QuietQueues DEF Links, QuietNet

(* A packet is sent that is no fetch.                                        *)
LEMMA QuietSend ==
  ASSUME Links, NEW n \in Node, NEW p \in Peers[n], NEW x \in Packet, x.type \notin Fetch,
         net' = [net EXCEPT ![n][p] = Append(@, x)]
  PROVE  QuietNet
<1> DEFINE y == Append(net[n][p], x)
<1>1. net' = SetLink(net, n, p, y)
  BY DEF SetLink
<1>2. Quieter(net[n][p], y)
  BY QuietQueues DEF Links
<1> HIDE DEF y
<1>3. LinkShape(net)
  BY DEF Links
<1>4. Replaces(net, net', n, p, y)
  <2>1. Replaces(net, SetLink(net, n, p, y), n, p, y)
    BY <1>3, LinkUpdate
  <2> QED BY Zenon, <1>1, <2>1
<1>5. \A a \in Node : \A b \in Peers[a] : Quieter(net[a][b], net[a][b])
  BY QuietQueues DEF Links
<1> QED BY <1>2, <1>4, <1>5 DEF QuietNet, Replaces

-----------------------------------------------------------------------------
(* Steps that change nothing but the connections.                            *)
LEMMA LinksParts ==
  /\ Links => FlagsOK(smsgData)
  /\ QuietNet /\ FlagsOK(smsgData') => Links'
<1>1. Links => FlagsOK(smsgData)
  BY DEF Links, FlagsOK
<1>2. QuietNet /\ FlagsOK(smsgData') => Links'
  BY DEF Links, FlagsOK, LinkShape, QuietNet, Quieter
<1> QED BY <1>1, <1>2

(* What is said of the nodes themselves is kept.                             *)
LEMMA NodesLeftAlone ==
  ASSUME SmsgInv, UNCHANGED <<nodeVars, sent, expired, troubles, gone>>,
         lost' \in BOOLEAN, released' \in BOOLEAN
  PROVE  /\ Globals' /\ Threads' /\ Stock' /\ KeptInv'
         /\ \A n \in Node : LockKept(n) /\ work'[n].peer = work[n].peer
<1>1. Globals'
  BY DEF SmsgInv, TypesInv, Globals
<1>2. Threads'
  BY DEF SmsgInv, TypesInv, Threads, nodeVars, smsgVars, workVars
<1>3. Stock'
  BY DEF SmsgInv, TypesInv, Stock, nodeVars, workVars
<1>4. Off'
  BY DEF SmsgInv, KeptInv, Off, Joining, nodeVars
<1>5. BucketIsStored'
  BY DEF SmsgInv, KeptInv, BucketIsStored, nodeVars, workVars
<1>6. QueuedOrStored'
  BY DEF SmsgInv, KeptInv, QueuedOrStored, Kept, nodeVars
<1>7. \A n \in Node : LockKept(n) /\ work'[n].peer = work[n].peer
  BY DEF LockKept, nodeVars, workVars
<1>8. Own'
  BY DEF SmsgInv, KeptInv, Own, Mine, nodeVars
<1> QED BY <1>1, <1>2, <1>3, <1>4, <1>5, <1>6, <1>7, <1>8 DEF KeptInv

(* So the invariant is, when no fetch is added.                              *)
LEMMA LinkStep ==
  ASSUME SmsgInv, UNCHANGED <<nodeVars, sent, expired, troubles, gone, released>>,
         lost' \in BOOLEAN, QuietNet, FlagsOK(smsgData')
  PROVE  SmsgInv'
<1>1. released' \in BOOLEAN
  BY DEF SmsgInv, TypesInv, Globals
<1>2. /\ Globals' /\ Threads' /\ Stock' /\ KeptInv'
      /\ \A n \in Node : LockKept(n) /\ work'[n].peer = work[n].peer
  BY <1>1, NodesLeftAlone
<1>3. Links'
  BY LinksParts
<1>4. OneFetch'
  <2>1. OneFetch
    BY DEF SmsgInv
  <2> QED BY <1>2, <2>1, QuietStep
<1> QED BY <1>2, <1>3, <1>4 DEF SmsgInv, TypesInv

(* What the invariant says of the connection of a packet that is delivered.  *)
LEMMA SmsgInvLinks ==
  ASSUME SmsgInv
  PROVE  Links /\ LinkShape(net) /\ FlagsOK(smsgData) /\ Globals /\ Stock
BY LinksParts DEF SmsgInv, TypesInv, Links

(* The packet at the head of a queue is one.                                 *)
LEMMA FirstPacket ==
  ASSUME Links, NEW n \in Node, NEW p \in Peers[n], net[p][n] # <<>>
  PROVE  /\ net[p][n] \in Seq(Packet) /\ net[n][p] \in Seq(Packet)
         /\ Head(net[p][n]) \in Packet
<1>1. net[p][n] \in Seq(Packet) /\ net[n][p] \in Seq(Packet)
  BY Ends DEF Links
<1> QED BY <1>1

(* A packet is taken, and none is sent or one that is no fetch.              *)
LEMMA TakenQuietly ==
  ASSUME Links, NEW n \in Node, NEW p \in Peers[n], net[p][n] # <<>>, net' = Take(n, p)
  PROVE  QuietNet
<1>1. Turn(net', n, p, <<>>)
  BY TakeTurn
<1>2. net[n][p] \in Seq(Packet)
  BY FirstPacket
<1>3. Quieter(net[n][p], net[n][p] \o <<>>)
  BY <1>2, QuietQueues, ShortQueues
<1> QED BY <1>1, <1>3, QuietTurn

(* The same when an answer is sent that is no fetch.                         *)
LEMMA RepliedQuietly ==
  ASSUME Links, NEW n \in Node, NEW p \in Peers[n], net[p][n] # <<>>, NEW r,
         net' = Reply(n, p, r),
         r = <<>> \/ \E x \in Packet : r = <<x>> /\ x.type \notin Fetch
  PROVE  QuietNet
<1>1. Turn(net', n, p, r)
  BY ReplyTurn DEF Links
<1>2. net[n][p] \in Seq(Packet)
  BY FirstPacket
<1>3. Quieter(net[n][p], net[n][p] \o r)
  <2>1. CASE r = <<>>
    BY <1>2, <2>1, QuietQueues, ShortQueues
  <2>2. CASE \E x \in Packet : r = <<x>> /\ x.type \notin Fetch
    BY Zenon, <1>2, <2>2, QuietQueues
  <2> QED BY <2>1, <2>2
<1> QED BY <1>1, <1>3, QuietTurn

(* SecureMsgSendData sends smsgPing.                                         *)
LEMMA SendPingKeeps ==
  ASSUME SmsgInv, NEW n \in Node, NEW p \in Peers[n], SendPing(n, p)
  PROVE  SmsgInv'
<1>1. FlagsOK([smsgData EXCEPT ![n][p].fSeen = TRUE])
  BY Zenon, SmsgInvLinks, FlagsUpdate
<1>2. FlagsOK(smsgData')
  BY Zenon, <1>1 DEF SendPing
<1>3. QuietNet
  <2> DEFINE x == [type |-> "smsgPing"]
  <2>1. x \in Packet /\ x.type \notin Fetch
    BY Packets DEF Signals, Fetch
  <2>2. net' = [net EXCEPT ![n][p] = Append(@, x)]
    BY Zenon DEF SendPing
  <2> HIDE DEF x
  <2> QED BY <2>1, <2>2, SmsgInvLinks, QuietSend
<1>4. lost' \in BOOLEAN
  BY SmsgInvLinks DEF Globals, SendPing
<1> QED BY <1>2, <1>3, <1>4, LinkStep DEF SendPing

(* SecureMsgSendData sends smsgInv.                                          *)
LEMMA SendInvKeeps ==
  ASSUME SmsgInv, NEW n \in Node, NEW p \in Peers[n], SendInv(n, p)
  PROVE  SmsgInv'
<1>1. FlagsOK([smsgData EXCEPT ![n][p].fUnsent = FALSE])
  BY Zenon, SmsgInvLinks, FlagsUpdate
<1>2. FlagsOK(smsgData')
  BY Zenon, <1>1 DEF SendInv
<1>3. QuietNet
  <2> DEFINE x == [type |-> "smsgInv", hash |-> bucket[n].hash,
                   ncontent |-> Cardinality(bucket[n].setTokens)]
  <2>0. bucket[n].hash \in SUBSET Msg /\ bucket[n].setTokens \in SUBSET Msg
    BY SmsgInvLinks DEF Stock, Bucket
  <2>1. x \in Packet /\ x.type \notin Fetch
    BY <2>0, Packets DEF Fetch
  <2>2. net' = net \/ net' = [net EXCEPT ![n][p] = Append(@, x)]
    BY Zenon DEF SendInv
  <2> HIDE DEF x
  <2> QED BY <2>1, <2>2, SmsgInvLinks, QuietSend, UnchangedNet
<1>4. lost' \in BOOLEAN
  BY SmsgInvLinks DEF Globals, SendInv
<1> QED BY <1>2, <1>3, <1>4, LinkStep DEF SendInv

(* A peer is no longer ignored.                                              *)
LEMMA IgnoreEndsKeeps ==
  ASSUME SmsgInv, NEW n \in Node, NEW p \in Peers[n], IgnoreEnds(n, p)
  PROVE  SmsgInv'
<1>1. FlagsOK([smsgData EXCEPT ![n][p].fIgnore = FALSE])
  BY Zenon, SmsgInvLinks, FlagsUpdate
<1>2. FlagsOK(smsgData')
  BY Zenon, <1>1 DEF IgnoreEnds
<1>3. QuietNet
  BY SmsgInvLinks, UnchangedNet DEF IgnoreEnds
<1>4. lost' \in BOOLEAN
  BY SmsgInvLinks DEF Globals, IgnoreEnds
<1> QED BY <1>2, <1>3, <1>4, LinkStep DEF IgnoreEnds

(* smsgPing is answered by smsgPong.                                         *)
LEMMA ReceivePingKeeps ==
  ASSUME SmsgInv, NEW n \in Node, NEW p \in Peers[n], ReceivePing(n, p)
  PROVE  SmsgInv'
<1>1. QuietNet
  <2> DEFINE x == [type |-> "smsgPong"]
  <2>1. x \in Packet /\ x.type \notin Fetch
    BY Packets DEF Signals, Fetch
  <2>2. net' = Reply(n, p, <<x>>) /\ net[p][n] # <<>>
    BY Zenon DEF ReceivePing, Receives
  <2> HIDE DEF x
  <2> QED BY <2>1, <2>2, SmsgInvLinks, RepliedQuietly
<1>2. FlagsOK(smsgData') /\ lost' \in BOOLEAN
  <2>1. smsgData' = smsgData /\ lost' = lost
    BY DEF ReceivePing
  <2> QED BY Zenon, <2>1, SmsgInvLinks DEF Globals
<1> QED BY <1>1, <1>2, LinkStep DEF ReceivePing

(* smsgPong enables the peer.                                                *)
LEMMA ReceivePongKeeps ==
  ASSUME SmsgInv, NEW n \in Node, NEW p \in Peers[n], ReceivePong(n, p)
  PROVE  SmsgInv'
<1>1. FlagsOK([smsgData EXCEPT ![n][p].fEnabled = TRUE])
  BY Zenon, SmsgInvLinks, FlagsUpdate
<1>2. FlagsOK(smsgData')
  BY Zenon, <1>1 DEF ReceivePong
<1>3. QuietNet
  BY SmsgInvLinks, TakenQuietly DEF ReceivePong, Receives
<1>4. lost' \in BOOLEAN
  BY SmsgInvLinks DEF Globals, ReceivePong
<1> QED BY <1>2, <1>3, <1>4, LinkStep DEF ReceivePong

(* smsgDisabled disables it.                                                 *)
LEMMA ReceiveDisabledKeeps ==
  ASSUME SmsgInv, NEW n \in Node, NEW p \in Peers[n], ReceiveDisabled(n, p)
  PROVE  SmsgInv'
<1>1. FlagsOK([smsgData EXCEPT ![n][p].fEnabled = FALSE])
  BY Zenon, SmsgInvLinks, FlagsUpdate
<1>2. FlagsOK(smsgData')
  BY Zenon, <1>1 DEF ReceiveDisabled
<1>3. QuietNet
  BY SmsgInvLinks, TakenQuietly DEF ReceiveDisabled, Receives
<1>4. lost' \in BOOLEAN
  BY SmsgInvLinks DEF Globals, ReceiveDisabled
<1> QED BY <1>2, <1>3, <1>4, LinkStep DEF ReceiveDisabled

(* smsgIgnore: the peer ignores this node.                                   *)
LEMMA ReceiveIgnoreKeeps ==
  ASSUME SmsgInv, NEW n \in Node, NEW p \in Peers[n], ReceiveIgnore(n, p)
  PROVE  SmsgInv'
<1>1. FlagsOK([smsgData EXCEPT ![n][p].fIgnore = TRUE])
  BY Zenon, SmsgInvLinks, FlagsUpdate
<1>2. FlagsOK(smsgData')
  BY Zenon, <1>1 DEF ReceiveIgnore
<1>3. QuietNet
  BY SmsgInvLinks, TakenQuietly DEF ReceiveIgnore, Receives
<1>4. lost' \in BOOLEAN
  BY SmsgInvLinks DEF Globals, ReceiveIgnore
<1> QED BY <1>2, <1>3, <1>4, LinkStep DEF ReceiveIgnore

(* A node that is disabled drops what arrives, a fetch too.                  *)
LEMMA DropMessageKeeps ==
  ASSUME SmsgInv, NEW n \in Node, NEW p \in Peers[n], DropMessage(n, p)
  PROVE  SmsgInv'
<1>1. QuietNet
  BY SmsgInvLinks, TakenQuietly DEF DropMessage
<1>2. FlagsOK(smsgData')
  <2>1. smsgData' = smsgData
    BY DEF DropMessage
  <2> QED BY Zenon, <2>1, SmsgInvLinks
<1>3. lost' \in BOOLEAN
  BY Zenon DEF DropMessage
<1> QED BY <1>1, <1>2, <1>3, LinkStep DEF DropMessage

(* smsgInv is answered by smsgShow or not at all.                            *)
LEMMA ReceiveInvKeeps ==
  ASSUME SmsgInv, NEW n \in Node, NEW p \in Peers[n], ReceiveInv(n, p)
  PROVE  SmsgInv'
<1>1. QuietNet
  <2> DEFINE x == [type |-> "smsgShow"]
  <2>1. x \in Packet /\ x.type \notin Fetch
    BY Packets DEF Signals, Fetch
  <2>2. net' = Reply(n, p, <<x>>) \/ net' = Reply(n, p, <<>>)
    BY Zenon DEF ReceiveInv
  <2>3. net[p][n] # <<>>
    BY DEF ReceiveInv, Receives
  <2> HIDE DEF x
  <2> QED BY <2>1, <2>2, <2>3, SmsgInvLinks, RepliedQuietly
<1>2. FlagsOK(smsgData')
  <2>1. smsgData' = smsgData
    BY DEF ReceiveInv
  <2> QED BY Zenon, <2>1, SmsgInvLinks
<1>3. lost' \in BOOLEAN
  BY Zenon DEF ReceiveInv
<1> QED BY <1>1, <1>2, <1>3, LinkStep DEF ReceiveInv

(* smsgShow is answered by smsgHave.                                         *)
LEMMA ReceiveShowKeeps ==
  ASSUME SmsgInv, NEW n \in Node, NEW p \in Peers[n], ReceiveShow(n, p)
  PROVE  SmsgInv'
<1>1. QuietNet
  <2> DEFINE x == [type |-> "smsgHave", tokens |-> bucket[n].setTokens]
  <2>0. bucket[n].setTokens \in SUBSET Msg
    BY SmsgInvLinks DEF Stock, Bucket
  <2>1. x \in Packet /\ x.type \notin Fetch
    BY <2>0, Packets DEF Fetch
  <2>2. net' = Reply(n, p, <<x>>) \/ net' = Reply(n, p, <<>>)
    BY Zenon DEF ReceiveShow
  <2>3. net[p][n] # <<>>
    BY DEF ReceiveShow, Receives
  <2> HIDE DEF x
  <2> QED BY <2>1, <2>2, <2>3, SmsgInvLinks, RepliedQuietly
<1>2. FlagsOK(smsgData') /\ lost' \in BOOLEAN
  <2>1. smsgData' = smsgData /\ lost' = lost
    BY DEF ReceiveShow
  <2> QED BY Zenon, <2>1, SmsgInvLinks DEF Globals
<1> QED BY <1>1, <1>2, LinkStep DEF ReceiveShow

-----------------------------------------------------------------------------
(* Steps that begin a fetch or move it.                                      *)
LEMMA TurnTyped ==
  ASSUME Links, NEW n \in Node, NEW p \in Peers[n], NEW r \in Seq(Packet),
         net[p][n] # <<>>, Turn(net', n, p, r), FlagsOK(smsgData')
  PROVE  Links'
<1>1. p \in Node /\ n \in Peers[p]
  BY Ends
<1>2. net[p][n] \in Seq(Packet) /\ net[n][p] \in Seq(Packet)
  BY FirstPacket
<1>3. Tail(net[p][n]) \in Seq(Packet) /\ net[n][p] \o r \in Seq(Packet)
  BY <1>2, TailKeeps, ConcatKeeps
<1>4. ASSUME NEW a \in Node, NEW b \in Peers[a] PROVE net'[a][b] \in Seq(Packet)
  BY <1>3 DEF Turn, Links
<1> QED BY <1>4 DEF Turn, Links, FlagsOK, LinkShape

(* Only what is sent can be a new fetch.                                     *)
LEMMA TurnLess ==
  ASSUME Links, NEW n \in Node, NEW p \in Peers[n], NEW r \in Seq(Packet),
         net[p][n] # <<>>, Turn(net', n, p, r),
         NEW t, NEW a \in Node, NEW b \in Peers[a],
         a # n \/ b # p \/ ~Some(r, t)
  PROVE  LessOf(t, net[a][b], net'[a][b])
<1>1. p \in Node /\ n \in Peers[p] /\ p # n
  BY Ends
<1>2. net[p][n] \in Seq(Packet) /\ net[n][p] \in Seq(Packet)
  BY FirstPacket
<1>3. CASE a = n /\ b = p
  <2>1. LessOf(t, net[n][p], net[n][p] \o r)
    BY <1>2, <1>3, ConcatKeeps DEF LessOf
  <2> QED BY <1>3, <2>1 DEF Turn
<1>4. CASE a = p /\ b = n
  <2>1. LessOf(t, net[p][n], Tail(net[p][n]))
    BY <1>2, TailKeeps DEF LessOf
  <2> QED BY <1>4, <2>1 DEF Turn
<1>5. CASE (a # n \/ b # p) /\ (a # p \/ b # n)
  <2>1. net'[a][b] = net[a][b]
    BY <1>5 DEF Turn
  <2> QED BY <2>1 DEF LessOf
<1> QED BY <1>3, <1>4, <1>5

(* A node answers smsgWant: the fetch of its peer goes on as an smsgMsg.     *)
LEMMA ReceiveWantKeeps ==
  ASSUME SmsgInv, NEW n \in Node, NEW p \in Peers[n], ReceiveWant(n, p)
  PROVE  SmsgInv'
<1> DEFINE found == bucket[n].setTokens \cap Head(net[p][n]).tokens
           bunch == {m \in found : Cardinality({x \in found : x < m}) < MaxBunch}
           x == [type |-> "smsgMsg", msgs |-> bunch]
           r == IF found = {} THEN <<>> ELSE <<x>>
<1>0. p \in Node /\ n \in Peers[p] /\ p # n /\ n # NoPeer /\ p # NoPeer
  BY Ends
<1>1. /\ net[p][n] # <<>> /\ Head(net[p][n]).type = "smsgWant"
      /\ net' = Reply(n, p, r)
      /\ UNCHANGED <<nodeVars, smsgData, sent, expired, troubles, gone, released>>
  BY DEF ReceiveWant, Receives
<1>2. lost' \in BOOLEAN
  BY Zenon DEF ReceiveWant
<1>3. bunch \in SUBSET Msg
  BY SmsgInvLinks DEF Stock, Bucket
<1>4. x \in Packet /\ x.type = "smsgMsg"
  <2> HIDE DEF bunch
  <2> QED BY <1>3, Packets
<1>5. r = <<>> \/ r = <<x>>
  BY Zenon
<1> HIDE DEF x, r, found, bunch
<1>6. r \in Seq(Packet) /\ ~Some(r, "smsgWant") /\ One(r, "smsgMsg")
  <2>1. CASE r = <<>>
    BY <2>1, ShortQueues, Zenon
  <2>2. CASE r = <<x>>
    <3>1. <<x>> \in Seq(Packet) /\ One(<<x>>, "smsgMsg")
          /\ (Some(<<x>>, "smsgWant") => x.type = "smsgWant")
      BY <1>4, ShortQueues, Zenon
    <3>2. x.type # "smsgWant"
      BY <1>4
    <3> QED BY <2>2, <3>1, <3>2, Zenon
  <2> QED BY <1>5, <2>1, <2>2, Zenon
<1>7. Links /\ LinkShape(net)
  BY SmsgInvLinks
<1>8. Turn(net', n, p, r)
  BY Zenon, <1>1, <1>7, ReplyTurn
<1>9. Links'
  <2>1. FlagsOK(smsgData')
    BY Zenon, <1>1, SmsgInvLinks
  <2> QED BY <1>1, <1>6, <1>7, <1>8, <2>1, TurnTyped
<1>10. /\ Globals' /\ Threads' /\ Stock' /\ KeptInv'
       /\ \A q \in Node : LockKept(q) /\ work'[q].peer = work[q].peer
  <2>1. released' \in BOOLEAN
    BY <1>1 DEF SmsgInv, TypesInv, Globals
  <2> QED BY <1>1, <1>2, <2>1, NodesLeftAlone
<1>11. ASSUME NEW q \in Node, q # p, FetchOK(q) PROVE FetchOK(q)'
  <2>1. \A a \in Peers[q] : a \in Node /\ q \in Peers[a]
    BY Ends
  <2>2. ASSUME NEW a \in Peers[q] PROVE LessOf("smsgWant", net[q][a], net'[q][a])
    BY ZenonT(40), <1>1, <1>6, <1>7, <1>8, TurnLess
  <2>3. ASSUME NEW a \in Peers[q] PROVE LessOf("smsgMsg", net[a][q], net'[a][q])
    BY ZenonT(40), <1>1, <1>6, <1>7, <1>8, <1>11, <2>1, TurnLess
  <2>4. LinksQuiet(q)
    BY <2>2, <2>3 DEF LinksQuiet
  <2> QED BY <1>10, <1>11, <2>4, FetchKept
<1>12. ASSUME FetchOK(p) PROVE FetchOK(p)'
  <2>1. net[p][n] \in Seq(Packet) /\ net[n][p] \in Seq(Packet)
    BY <1>1, <1>7, FirstPacket
  <2>2. Some(net[p][n], "smsgWant") /\ One(net[p][n], "smsgWant")
    BY <1>0, <1>1, <1>12, <2>1, TailKeeps DEF FetchOK, OnePlace
  <2>3. ~Some(net[n][p], "smsgMsg") /\ work[p].peer # n
    BY <1>0, <1>12, <2>2 DEF FetchOK, OnePlace
  <2>4. ~Some(Tail(net[p][n]), "smsgWant") /\ One(Tail(net[p][n]), "smsgWant")
    BY <1>1, <2>1, <2>2, TailKeeps
  <2>5. One(net[n][p] \o r, "smsgMsg")
    BY <1>6, <2>1, <2>3, ConcatKeeps
  <2>6. net'[p][n] = Tail(net[p][n]) /\ net'[n][p] = net[n][p] \o r
    BY <1>8 DEF Turn
  <2>7. OnePlace(p, n)'
    BY <1>0, <1>10, <2>3, <2>4, <2>5, <2>6 DEF OnePlace
  <2>8. FetchAt(p, n)
    BY <2>2 DEF FetchAt
  <2>9. bucket'[p].nLockCount > 0 /\ bucket'[p].nLockPeer \in {n, NoPeer}
    BY <1>0, <1>1, <1>12, <2>8 DEF FetchOK, Covered, nodeVars
  <2>10. ASSUME NEW q \in Peers[p], q # n PROVE ~FetchAt(p, q)'
    <3>1. ~FetchAt(p, q)
      BY <1>0, <1>12, <2>8, <2>10 DEF FetchOK, OnePeer
    <3>2. q \in Node /\ p \in Peers[q]
      BY <1>0, Ends
    <3>3. net'[p][q] = net[p][q] /\ net'[q][p] = net[q][p]
      BY <1>0, <1>8, <2>10, <3>2 DEF Turn
    <3> QED BY <1>0, <1>10, <3>1, <3>3 DEF FetchAt
  <2> QED BY <1>0, <2>7, <2>9, <2>10, FetchMoved
<1>13. OneFetch'
  BY <1>0, <1>1, <1>11, <1>12 DEF SmsgInv, OneFetch
<1> QED BY <1>9, <1>10, <1>13 DEF SmsgInv, TypesInv

(* A bucket whose lock is changed.                                           *)
Relocked(b, c, p) == [b EXCEPT !.nLockCount = c, !.nLockPeer = p]

(* Nothing but the lock is changed.                                          *)
LEMMA LockRecord ==
  ASSUME NEW b \in Bucket, NEW c \in 0..LockCount, NEW p \in Node \cup {NoPeer}
  PROVE  /\ Relocked(b, c, p) \in Bucket
         /\ Relocked(b, c, p).setTokens = b.setTokens /\ Relocked(b, c, p).hash = b.hash
         /\ Relocked(b, c, p).nLockCount = c /\ Relocked(b, c, p).nLockPeer = p
<1>1. b = [setTokens |-> b.setTokens, hash |-> b.hash,
           nLockCount |-> b.nLockCount, nLockPeer |-> b.nLockPeer]
  BY DEF Bucket
<1>2. Relocked(b, c, p) = [setTokens |-> b.setTokens, hash |-> b.hash,
                           nLockCount |-> c, nLockPeer |-> p]
  <2> DEFINE u == [b EXCEPT !.nLockCount = c]
  <2>1. Relocked(b, c, p) = [u EXCEPT !.nLockPeer = p]
    BY Zenon DEF Relocked
  <2>2. u = [setTokens |-> b.setTokens, hash |-> b.hash,
             nLockCount |-> c, nLockPeer |-> b.nLockPeer]
    BY <1>1
  <2> HIDE DEF u
  <2>3. [u EXCEPT !.nLockPeer = p] =
          [setTokens |-> b.setTokens, hash |-> b.hash, nLockCount |-> c, nLockPeer |-> p]
    BY <2>2
  <2> QED BY <2>1, <2>3
<1> QED BY <1>2 DEF Bucket

(* A node sends smsgWant: no fetch was under way, as its bucket was free.    *)
LEMMA ReceiveHaveKeeps ==
  ASSUME SmsgInv, NEW n \in Node, NEW p \in Peers[n], ReceiveHave(n, p)
  PROVE  SmsgInv'
<1> DEFINE want == Head(net[p][n]).tokens \ bucket[n].setTokens
           x == [type |-> "smsgWant", tokens |-> want]
           b == bucket[n]
<1>0. p \in Node /\ n \in Peers[p] /\ p # n /\ n # NoPeer /\ p # NoPeer
  BY Ends
<1>1. /\ net[p][n] # <<>> /\ Head(net[p][n]).type = "smsgHave" /\ work[n] = NoWork
      /\ UNCHANGED <<fSecMsgEnabled, disabling, file, queue, pow, smsg, ignored, work,
                     scanning, holds, smsgData, sent, expired, troubles, gone, released>>
  BY DEF ReceiveHave, Receives, smsgVars, workVars
<1>2. lost' \in BOOLEAN
  BY Zenon DEF ReceiveHave
<1>3. FlagsOK(smsgData')
  BY Zenon, <1>1, SmsgInvLinks
<1>4. CASE bucket' = bucket /\ net' = Take(n, p)
  <2>1. QuietNet
    BY <1>1, <1>4, SmsgInvLinks, TakenQuietly
  <2> QED BY <1>1, <1>2, <1>3, <1>4, <2>1, LinkStep DEF nodeVars, smsgVars, workVars
<1>5. CASE /\ b.nLockCount = 0
           /\ bucket' = [bucket EXCEPT ![n].nLockCount = LockCount, ![n].nLockPeer = p]
           /\ net' = Reply(n, p, <<x>>)
  <2>1. bucket' = [bucket EXCEPT ![n] = Relocked(b, LockCount, p)]
    BY <1>5 DEF Relocked
  <2>2. b \in Bucket /\ bucket \in [Node -> Bucket] /\ LockCount \in 0..LockCount
    BY SmsgInvLinks, SecureMessagesAssumption DEF Stock
  <2> DEFINE c == Relocked(b, LockCount, p)
  <2>3. /\ c \in Bucket /\ c.setTokens = b.setTokens /\ c.hash = b.hash
        /\ c.nLockCount = LockCount /\ c.nLockPeer = p
    BY <1>0, <2>2, LockRecord
  <2> HIDE DEF c
  <2>4. /\ bucket' \in [Node -> Bucket] /\ bucket'[n] = c
        /\ \A q \in Node : q # n => bucket'[q] = bucket[q]
    BY <2>1, <2>2, <2>3 DEF c
  <2>5. Globals' /\ Threads'
    BY <1>1, <1>2 DEF SmsgInv, TypesInv, Globals, Threads
  <2>6. Stock'
    <3>1. \A q \in Node : bucket'[q].nLockPeer \in Peers[q] \cup {NoPeer}
      BY <2>3, <2>4 DEF SmsgInv, TypesInv, Stock
    <3> QED BY <1>1, <2>4, <3>1 DEF SmsgInv, TypesInv, Stock
  <2>7. Off'
    <3>1. fSecMsgEnabled[n] = TRUE
      BY DEF ReceiveHave, Receives, SmsgInv, TypesInv, Threads
    <3> QED BY <1>1, <2>4, <3>1 DEF SmsgInv, KeptInv, Off, Joining
  <2>18. Own'
    BY <1>1 DEF SmsgInv, KeptInv, Own, Mine
  <2>8. BucketIsStored'
    BY <1>1, <2>3, <2>4 DEF SmsgInv, KeptInv, BucketIsStored
  <2>9. QueuedOrStored'
    BY <1>1 DEF SmsgInv, KeptInv, QueuedOrStored, Kept
  <2>10. x \in Packet /\ x.type = "smsgWant"
    <3>1. want \in SUBSET Msg
      BY <1>1, SmsgInvLinks, FirstPacket, Packets
    <3> HIDE DEF want
    <3> QED BY <3>1, Packets
  <2> HIDE DEF x
  <2>11. /\ <<x>> \in Seq(Packet) /\ ~Some(<<x>>, "smsgMsg") /\ One(<<x>>, "smsgWant")
    BY <2>10, ShortQueues
  <2>12. Links /\ LinkShape(net)
    BY SmsgInvLinks
  <2>13. Turn(net', n, p, <<x>>)
    BY Zenon, <1>5, <2>12, ReplyTurn
  <2>14. Links'
    BY <1>1, <1>3, <2>11, <2>12, <2>13, TurnTyped
  <2>15. ASSUME NEW q \in Node, q # n, FetchOK(q) PROVE FetchOK(q)'
    <3>1. \A a \in Peers[q] : a \in Node /\ q \in Peers[a]
      BY Ends
    <3>2. ASSUME NEW a \in Peers[q] PROVE LessOf("smsgWant", net[q][a], net'[q][a])
      BY <1>1, <2>11, <2>12, <2>13, <2>15, TurnLess
    <3>3. ASSUME NEW a \in Peers[q] PROVE LessOf("smsgMsg", net[a][q], net'[a][q])
      BY <1>1, <2>11, <2>12, <2>13, <3>1, TurnLess
    <3>4. LinksQuiet(q)
      BY <3>2, <3>3 DEF LinksQuiet
    <3>5. LockKept(q) /\ work'[q].peer = work[q].peer
      BY <1>1, <2>4, <2>15 DEF LockKept
    <3> QED BY <2>15, <3>4, <3>5, FetchKept
  <2>16. ASSUME FetchOK(n) PROVE FetchOK(n)'
    <3>1. \A q \in Peers[n] : ~FetchAt(n, q)
      BY <1>5, <2>16 DEF FetchOK, Covered
    <3>2. ASSUME NEW q \in Peers[n], q # p PROVE ~FetchAt(n, q)'
      <4>1. q \in Node /\ n \in Peers[q]
        BY Ends
      <4>2. net'[n][q] = net[n][q] /\ net'[q][n] = net[q][n]
        BY <1>0, <2>13, <3>2, <4>1 DEF Turn
      <4> QED BY <1>1, <3>1, <4>2 DEF FetchAt
    <3>3. net[p][n] \in Seq(Packet) /\ net[n][p] \in Seq(Packet)
      BY <1>1, <2>12, FirstPacket
    <3>4. /\ ~Some(net[n][p], "smsgWant") /\ ~Some(net[p][n], "smsgMsg")
          /\ One(net[p][n], "smsgMsg") /\ work[n].peer # p
      BY <2>16, <3>1 DEF FetchAt, FetchOK, OnePlace
    <3>5. ~Some(Tail(net[p][n]), "smsgMsg") /\ One(Tail(net[p][n]), "smsgMsg")
      BY <1>1, <3>3, <3>4, TailKeeps
    <3>6. One(net[n][p] \o <<x>>, "smsgWant")
      BY <2>11, <3>3, <3>4, ConcatKeeps
    <3>7. OnePlace(n, p)'
      BY <1>1, <2>13, <3>4, <3>5, <3>6 DEF OnePlace, Turn
    <3>8. bucket'[n].nLockCount > 0 /\ bucket'[n].nLockPeer \in {p, NoPeer}
      BY <2>3, <2>4, SecureMessagesAssumption
    <3> QED BY <3>2, <3>7, <3>8, FetchMoved
  <2>17. OneFetch'
    BY <1>1, <2>15, <2>16 DEF SmsgInv, OneFetch
  <2> QED BY <2>5, <2>6, <2>7, <2>8, <2>9, <2>14, <2>17, <2>18 DEF SmsgInv, TypesInv, KeptInv
<1> QED BY <1>4, <1>5 DEF ReceiveHave, MaySift

(* A node takes an smsgMsg: the fetch goes on in SecureMsgReceive.           *)
LEMMA ReceiveMsgKeeps ==
  ASSUME SmsgInv, NEW n \in Node, NEW p \in Peers[n], ReceiveMsg(n, p)
  PROVE  SmsgInv'
<1> DEFINE w == [peer |-> p, msgs |-> Head(net[p][n]).msgs]
<1>0. p \in Node /\ n \in Peers[p] /\ p # n /\ n # NoPeer /\ p # NoPeer
  BY Ends
<1>1. /\ net[p][n] # <<>> /\ Head(net[p][n]).type = "smsgMsg" /\ work[n] = NoWork
      /\ net' = Take(n, p)
      /\ UNCHANGED <<fSecMsgEnabled, disabling, bucket, file, queue, pow, smsg, ignored,
                     scanning, holds, smsgData, sent, expired, troubles, gone, lost,
                     released>>
  BY DEF ReceiveMsg, Receives, smsgVars
<1>2. FlagsOK(smsgData')
  BY Zenon, <1>1, SmsgInvLinks
<1>3. QuietNet
  BY <1>1, SmsgInvLinks, TakenQuietly
<1>4. Globals' /\ Threads'
  BY <1>1 DEF SmsgInv, TypesInv, Globals, Threads
<1>5. CASE work' = work
  BY <1>1, <1>2, <1>3, <1>4, <1>5, LinkStep DEF nodeVars, smsgVars, workVars, Globals
<1>6. CASE work' = [work EXCEPT ![n] = w]
  <2>1. w.peer = p /\ w.msgs \subseteq Msg /\ w \in [peer : Node \cup {NoPeer}, msgs : SUBSET Msg]
    BY <1>0, <1>1, SmsgInvLinks, FirstPacket, Packets
  <2> HIDE DEF w
  <2>2. /\ work' \in [Node -> [peer : Node \cup {NoPeer}, msgs : SUBSET Msg]] /\ work'[n] = w
        /\ \A q \in Node : q # n => work'[q] = work[q]
    BY <1>6, <2>1, SmsgInvLinks DEF Stock
  <2>3. Stock'
    BY <1>0, <1>1, <2>1, <2>2 DEF SmsgInv, TypesInv, Stock
  <2>4. Off' /\ Own'
    BY <1>1 DEF SmsgInv, KeptInv, Off, Joining, Own, Mine
  <2>5. BucketIsStored'
    <3>1. w # NoWork
      BY <1>0, <2>1 DEF NoWork
    <3> QED BY <1>1, <2>2, <3>1 DEF SmsgInv, KeptInv, BucketIsStored
  <2>6. QueuedOrStored'
    BY <1>1 DEF SmsgInv, KeptInv, QueuedOrStored, Kept
  <2>7. Links'
    BY <1>2, <1>3, LinksParts
  <2>8. \A q \in Node : LockKept(q)
    BY <1>1 DEF LockKept
  <2>9. ASSUME NEW q \in Node, q # n, FetchOK(q) PROVE FetchOK(q)'
    <3>1. LinksQuiet(q)
      BY <1>3, QuietLinks
    <3>2. work'[q].peer = work[q].peer
      BY <2>2, <2>9
    <3> QED BY <2>8, <2>9, <3>1, <3>2, FetchKept
  <2>10. ASSUME FetchOK(n) PROVE FetchOK(n)'
    <3>1. LinksQuiet(n)
      BY <1>3, QuietLinks
    <3>2. net[p][n] \in Seq(Packet) /\ net[n][p] \in Seq(Packet)
      BY <1>1, SmsgInvLinks, FirstPacket
    <3>3. One(net[p][n], "smsgMsg") /\ Some(net[p][n], "smsgMsg")
      BY <1>1, <2>10, <3>2, TailKeeps DEF FetchOK, OnePlace
    <3>4. net'[p][n] = Tail(net[p][n])
      BY <1>1, SmsgInvLinks, TakeTurn DEF Turn
    <3>5. ~Some(net'[p][n], "smsgMsg")
      BY <1>1, <3>2, <3>3, <3>4, TailKeeps
    <3>6. ~Some(net[n][p], "smsgWant")
      BY <2>10, <3>3 DEF FetchOK, OnePlace
    <3>7. OnePlace(n, p)'
      BY <2>10, <3>1, <3>5, <3>6 DEF OnePlace, FetchOK, LinksQuiet, LessOf
    <3>8. FetchAt(n, p)
      BY <3>3 DEF FetchAt
    <3>9. bucket'[n].nLockCount > 0 /\ bucket'[n].nLockPeer \in {p, NoPeer}
      BY <1>1, <2>10, <3>8 DEF FetchOK, Covered
    <3>10. ASSUME NEW q \in Peers[n], q # p PROVE ~FetchAt(n, q)'
      <4>1. ~FetchAt(n, q)
        BY <2>10, <3>8, <3>10 DEF FetchOK, OnePeer
      <4>2. work'[n].peer # q
        BY <2>1, <2>2, <3>10
      <4> QED BY <3>1, <4>1, <4>2 DEF FetchAt, LinksQuiet, LessOf
    <3> QED BY <3>7, <3>9, <3>10, FetchMoved
  <2>11. OneFetch'
    BY <1>1, <2>9, <2>10 DEF SmsgInv, OneFetch
  <2> QED BY <1>4, <2>3, <2>4, <2>5, <2>6, <2>7, <2>11 DEF SmsgInv, TypesInv, KeptInv
<1> QED BY <1>5, <1>6 DEF ReceiveMsg

-----------------------------------------------------------------------------
(* The threads of a node.                                                    *)

(* Connections that are left alone.                                          *)
LEMMA LinksLeftAlone ==
  ASSUME SmsgInv, UNCHANGED linkVars
  PROVE  Links' /\ QuietNet
<1>1. net' = net /\ smsgData' = smsgData
  BY DEF linkVars
<1>2. QuietNet
  BY <1>1, SmsgInvLinks, UnchangedNet
<1>3. FlagsOK(smsgData')
  BY Zenon, <1>1, SmsgInvLinks
<1> QED BY <1>2, <1>3, LinksParts

(* A step that leaves connections, locks and fetches alone.                  *)
LEMMA FetchesLeftAlone ==
  ASSUME SmsgInv, QuietNet, UNCHANGED <<expired, released>>,
         \A n \in Node : work'[n].peer = work[n].peer /\ LockKept(n)
  PROVE  OneFetch'
BY QuietStep DEF SmsgInv

(* The bucket expires.                                                       *)
LEMMA ExpireKeeps ==
  ASSUME SmsgInv, Expire
  PROVE  SmsgInv'
<1>1. Links' /\ QuietNet
  BY LinksLeftAlone DEF Expire
<1>2. Globals' /\ Threads'
  BY DEF Expire, SmsgInv, TypesInv, Globals, Threads, nodeVars, smsgVars, workVars
<1>3. Stock'
  BY DEF Expire, SmsgInv, TypesInv, Stock, nodeVars, workVars
<1>4. Off' /\ Own' /\ BucketIsStored'
  BY DEF Expire, SmsgInv, KeptInv, Off, Joining, Own, Mine, BucketIsStored, nodeVars,
         workVars
<1>5. QueuedOrStored' /\ OneFetch'
  BY DEF Expire, QueuedOrStored, OneFetch
<1> QED BY <1>1, <1>2, <1>3, <1>4, <1>5 DEF SmsgInv, TypesInv, KeptInv

(* A message that was kept, or another of its key, is kept.                  *)
LEMMA StaysKept ==
  ASSUME SmsgInv, sent' = sent, expired' = expired,
         ~expired => \A x \in sent : Kept(x) => Kept(x)'
  PROVE  QueuedOrStored'
BY DEF SmsgInv, KeptInv, QueuedOrStored

(* The messages with the key of m may go, when m is kept.                    *)
LEMMA KeptForKey ==
  ASSUME SmsgInv, NEW m, sent' = sent \cup {m}, expired' = expired, Kept(m)',
         \A x \in sent : /\ Kept(x)
                         /\ ~(From[x] = From[m] /\ KeyOf[x] = KeyOf[m])
                         => Kept(x)'
  PROVE  QueuedOrStored'
<1>1. SUFFICES ASSUME ~expired, NEW y \in sent'
               PROVE  \E x \in sent' : From[x] = From[y] /\ KeyOf[x] = KeyOf[y] /\ Kept(x)'
  BY Zenon DEF QueuedOrStored
<1>2. CASE y = m
  BY <1>2, Zenon
<1>3. CASE y \in sent
  <2>1. PICK x \in sent : From[x] = From[y] /\ KeyOf[x] = KeyOf[y] /\ Kept(x)
    BY <1>1, <1>3, Zenon DEF SmsgInv, KeptInv, QueuedOrStored
  <2>2. CASE From[x] = From[m] /\ KeyOf[x] = KeyOf[m]
    <3>1. m \in sent' /\ From[m] = From[y] /\ KeyOf[m] = KeyOf[y]
      BY <2>1, <2>2
    <3> QED BY <3>1, Zenon
  <2>3. CASE ~(From[x] = From[m] /\ KeyOf[x] = KeyOf[m])
    <3>1. x \in sent' /\ Kept(x)'
      BY <2>1, <2>3
    <3> QED BY <2>1, <3>1, Zenon
  <2> QED BY <2>2, <2>3
<1> QED BY <1>1, <1>2, <1>3

(* A message is written and queued.                                          *)
LEMMA SecureMsgSendKeeps ==
  ASSUME SmsgInv, NEW n \in Node, NEW m \in Msg, SecureMsgSend(n, m)
  PROVE  SmsgInv'
<1>0. /\ From[m] = n /\ sent' = sent \cup {m}
      /\ queue' = [queue EXCEPT ![n] = (queue[n] \ SameKey(queue[n], m)) \cup {m}]
      /\ UNCHANGED <<fSecMsgEnabled, disabling, bucket, file, pow, smsg, ignored, work,
                     scanning, holds, linkVars, expired, troubles, gone, lost, released>>
  BY DEF SecureMsgSend, smsgVars, workVars
<1>1. Links' /\ QuietNet
  BY <1>0, LinksLeftAlone
<1>2. Globals' /\ Threads'
  BY <1>0 DEF SmsgInv, TypesInv, Globals, Threads
<1>3. /\ queue' \in [Node -> SUBSET Msg]
      /\ queue'[n] = (queue[n] \ SameKey(queue[n], m)) \cup {m}
      /\ \A q \in Node : q # n => queue'[q] = queue[q]
  BY <1>0 DEF SmsgInv, TypesInv, Stock
<1>4. Stock'
  BY <1>0, <1>3 DEF SmsgInv, TypesInv, Stock
<1>5. Off' /\ BucketIsStored'
  BY <1>0 DEF SmsgInv, KeptInv, Off, Joining, BucketIsStored
<1>6. QueuedOrStored'
  <2>1. \A x \in sent : From[x] \in Node
    BY SecureMessagesAssumption DEF SmsgInv, TypesInv, Globals
  <2>2. Kept(m)'
    BY <1>0, <1>3 DEF Kept
  <2>3. ASSUME NEW x \in sent, Kept(x), ~(From[x] = From[m] /\ KeyOf[x] = KeyOf[m])
        PROVE  Kept(x)'
    BY <1>0, <1>3, <2>1, <2>3 DEF Kept, SameKey
  <2> QED BY <1>0, <2>2, <2>3, KeptForKey
<1>7. OneFetch'
  BY <1>0, <1>1, FetchesLeftAlone DEF LockKept
<1>8. Own'
  BY <1>0, <1>3 DEF SmsgInv, KeptInv, Own, Mine
<1> QED BY <1>1, <1>2, <1>4, <1>5, <1>6, <1>7, <1>8 DEF SmsgInv, TypesInv, KeptInv

(* The least number of a set is in it.                                       *)
LEMMA MinIn ==
  ASSUME NEW S, S \subseteq Nat, S # {}
  PROVE  Min(S) \in S
<1> DEFINE R == {ss \in Nat \X Nat : ss[1] < ss[2]}
<1>1. OpToRel(<, Nat) = R
  BY Zenon DEF OpToRel
<1>2. PICK x \in S : \A y \in S : ~(<<y, x>> \in R)
  <2> HIDE DEF R
  <2>1. IsWellFoundedOn(R, Nat)
    BY <1>1, NatLessThanWellFounded
  <2> QED BY <2>1, WFMin
<1>3. ASSUME NEW y \in S, y < x PROVE FALSE
  <2>1. <<y, x>> \in Nat \X Nat
    OBVIOUS
  <2>2. <<y, x>>[1] < <<y, x>>[2]
    BY <1>3
  <2> QED BY <1>2, <2>1, <2>2
<1>4. \A y \in S : x <= y
  BY <1>3
<1> QED BY <1>4 DEF Min

(* The records of the proof-of-work thread.                                  *)
PowMoved(x, at) == [x EXCEPT !.at = at]

(* They are records of the type.                                             *)
LEMMA PowRecords ==
  /\ \A r \in SUBSET Msg : \A at \in {"idle", "ended"} :
       PowAt(at, r) \in PowRecord /\ PowAt(at, r).at = at /\ PowAt(at, r).rest = r
  /\ \A x \in PowRecord : \A at \in {"store", "scan"} :
       /\ PowMoved(x, at) \in PowRecord /\ PowMoved(x, at).at = at
       /\ PowMoved(x, at).m = x.m /\ PowMoved(x, at).rest = x.rest
  /\ \A m \in Nat : \A r \in SUBSET Msg :
       /\ [at |-> "hash", m |-> m, rest |-> r] \in PowRecord
       /\ [at |-> "hash", m |-> m, rest |-> r].at = "hash"
       /\ [at |-> "hash", m |-> m, rest |-> r].m = m
       /\ [at |-> "hash", m |-> m, rest |-> r].rest = r
<1>1. \A x \in PowRecord : \A at \in {"store", "scan"} :
        PowMoved(x, at) = [at |-> at, m |-> x.m, rest |-> x.rest]
  BY DEF PowMoved, PowRecord
<1> QED BY <1>1 DEF PowAt, PowRecord

(* What the invariant says of the thread.                                    *)
LEMMA PowParts ==
  ASSUME SmsgInv, NEW n \in Node
  PROVE  /\ pow \in [Node -> PowRecord] /\ pow[n] \in PowRecord
         /\ pow[n].rest \subseteq Mine(n) /\ pow[n].rest \in SUBSET Msg
         /\ pow[n].at \in {"hash", "store", "scan"} =>
              pow[n].m \in sent /\ From[pow[n].m] = n /\ pow[n].m \in Msg
BY DEF SmsgInv, TypesInv, Globals, Threads, KeptInv, Own, Mine, PowRecord

(* The thread goes on, to a record x of which the same is true, and leaves   *)
(* the rest of the node alone.                                               *)
LEMMA PowMoves ==
  ASSUME SmsgInv, NEW n \in Node, NEW x \in PowRecord, pow' = [pow EXCEPT ![n] = x],
         x.rest \subseteq Mine(n),
         x.at \in {"hash", "store", "scan"} => x.m \in Mine(n),
         fSecMsgEnabled[n] \/ Joining(n) \/ x.at = "ended",
         queue' = queue, pow[n].at # "store",
         UNCHANGED <<fSecMsgEnabled, disabling, bucket, file, smsgVars, workVars, linkVars,
                     sent, expired, troubles, gone, lost, released>>
  PROVE  SmsgInv'
<1>1. /\ pow' \in [Node -> PowRecord] /\ pow'[n] = x
      /\ \A q \in Node : q # n => pow'[q] = pow[q]
  BY DEF SmsgInv, TypesInv, Threads
<1>2. UNCHANGED <<smsg, ignored, work, scanning, holds>>
  BY DEF smsgVars, workVars
<1>3. Globals' /\ Threads' /\ Stock'
  BY <1>1, <1>2 DEF SmsgInv, TypesInv, Globals, Threads, Stock
<1>4. Links' /\ QuietNet
  BY LinksLeftAlone
<1>5. Off'
  BY <1>1 DEF SmsgInv, KeptInv, Off, Joining
<1>6. Own'
  BY <1>1 DEF SmsgInv, KeptInv, Own, Mine
<1>7. BucketIsStored'
  BY <1>2 DEF SmsgInv, KeptInv, BucketIsStored
<1>8. QueuedOrStored'
  <2>1. \A y \in sent : From[y] \in Node
    BY SecureMessagesAssumption DEF SmsgInv, TypesInv, Globals
  <2>2. ASSUME NEW y \in sent, Kept(y) PROVE Kept(y)'
    BY <1>1, <2>1, <2>2 DEF Kept
  <2> QED BY <2>2, StaysKept
<1>9. OneFetch'
  BY <1>2, <1>4, FetchesLeftAlone DEF LockKept
<1> QED BY <1>3, <1>4, <1>5, <1>6, <1>7, <1>8, <1>9 DEF SmsgInv, TypesInv, KeptInv

(* The proof-of-work thread reads a message from the queue.                  *)
LEMMA PowReadKeeps ==
  ASSUME SmsgInv, NEW n \in Node, PowRead(n)
  PROVE  SmsgInv'
<1> DEFINE rest == IF pow[n].rest = {} THEN queue[n] ELSE pow[n].rest
           m == Min(rest)
           x == [at |-> "hash", m |-> m, rest |-> rest \ {m}]
<1>1. /\ pow[n].at = "idle" /\ rest # {} /\ pow' = [pow EXCEPT ![n] = x]
      /\ UNCHANGED <<fSecMsgEnabled, disabling, bucket, file, queue, smsgVars, workVars,
                     linkVars, sent, expired, troubles, gone, lost, released>>
  BY DEF PowRead
<1>2. rest \subseteq Mine(n) /\ Mine(n) \subseteq Msg /\ Msg \subseteq Nat
  BY SecureMessagesAssumption DEF SmsgInv, TypesInv, Globals, KeptInv, Own, Mine
<1> HIDE DEF rest
<1>3. m \in rest
  BY <1>1, <1>2, MinIn
<1> HIDE DEF m
<1>4. x \in PowRecord /\ x.at = "hash" /\ x.m = m /\ x.rest = rest \ {m}
  <2>1. m \in Nat /\ rest \ {m} \in SUBSET Msg
    BY <1>2, <1>3
  <2> QED BY <2>1, PowRecords
<1> HIDE DEF x
<1>5. fSecMsgEnabled[n] \/ Joining(n)
  BY <1>1 DEF SmsgInv, KeptInv, Off
<1>6. x.rest \subseteq Mine(n) /\ x.m \in Mine(n)
  BY <1>2, <1>3, <1>4
<1> QED BY <1>1, <1>4, <1>5, <1>6, PowMoves

(* It has scanned its message.                                               *)
LEMMA PowScanKeeps ==
  ASSUME SmsgInv, NEW n \in Node, PowScan(n)
  PROVE  SmsgInv'
<1> DEFINE x == PowAt("idle", pow[n].rest)
<1>1. /\ pow[n].at = "scan" /\ pow' = [pow EXCEPT ![n] = x]
      /\ UNCHANGED <<fSecMsgEnabled, disabling, bucket, file, queue, smsgVars, workVars,
                     linkVars, sent, expired, troubles, gone, lost, released>>
  BY DEF PowScan
<1>2. x \in PowRecord /\ x.at = "idle" /\ x.rest = pow[n].rest
  BY PowParts, PowRecords
<1> HIDE DEF x
<1>3. fSecMsgEnabled[n] \/ Joining(n)
  BY <1>1 DEF SmsgInv, KeptInv, Off
<1>4. x.rest \subseteq Mine(n)
  BY <1>2, PowParts
<1> QED BY <1>1, <1>2, <1>3, <1>4, PowMoves

(* It erases from the queue what is under the key of its message.            *)
LEMMA PowEraseKeeps ==
  ASSUME SmsgInv, NEW n \in Node, PowErase(n)
  PROVE  SmsgInv'
<1> DEFINE x == PowMoved(pow[n], "store")
<1> PICK m : m = pow[n].m
  OBVIOUS
<1>0. /\ pow[n].at = "hash" /\ pow' = [pow EXCEPT ![n] = x]
      /\ queue' = [queue EXCEPT ![n] = queue[n] \ SameKey(queue[n], m)]
      /\ UNCHANGED <<fSecMsgEnabled, disabling, bucket, file, smsg, ignored, work,
                     scanning, holds, linkVars, sent, expired, troubles, gone, lost,
                     released>>
  BY DEF PowErase, PowMoved, smsgVars, workVars
<1>1. Links' /\ QuietNet
  BY <1>0, LinksLeftAlone
<1>2. m \in sent /\ From[m] = n /\ m \in Msg /\ m \in Mine(n)
  BY <1>0, PowParts DEF Mine
<1>3. x \in PowRecord /\ x.at = "store" /\ x.m = m /\ x.rest = pow[n].rest
  BY PowParts, PowRecords
<1> HIDE DEF x
<1>4. /\ queue' \in [Node -> SUBSET Msg] /\ queue'[n] = queue[n] \ SameKey(queue[n], m)
      /\ \A q \in Node : q # n => queue'[q] = queue[q]
  BY <1>0 DEF SmsgInv, TypesInv, Stock
<1>5. /\ pow' \in [Node -> PowRecord] /\ pow'[n] = x
      /\ \A q \in Node : q # n => pow'[q] = pow[q]
  BY <1>0, <1>3 DEF SmsgInv, TypesInv, Threads
<1>6. Globals' /\ Threads'
  BY <1>0, <1>5 DEF SmsgInv, TypesInv, Globals, Threads
<1>7. Stock'
  BY <1>0, <1>4 DEF SmsgInv, TypesInv, Stock
<1>8. Off'
  <2>1. fSecMsgEnabled[n] \/ Joining(n)
    BY <1>0 DEF SmsgInv, KeptInv, Off
  <2> QED BY <1>0, <1>5, <2>1 DEF SmsgInv, KeptInv, Off, Joining
<1>9. BucketIsStored'
  BY <1>0 DEF SmsgInv, KeptInv, BucketIsStored
<1>10. QueuedOrStored'
  <2>1. \A y \in sent : From[y] \in Node
    BY SecureMessagesAssumption DEF SmsgInv, TypesInv, Globals
  <2>2. Kept(m)'
    BY <1>2, <1>3, <1>5 DEF Kept
  <2>3. ASSUME NEW y \in sent, Kept(y), ~(From[y] = From[m] /\ KeyOf[y] = KeyOf[m])
        PROVE  Kept(y)'
    BY <1>0, <1>2, <1>4, <1>5, <2>1, <2>3 DEF Kept, SameKey
  <2>4. sent' = sent \cup {m} /\ expired' = expired
    BY <1>0, <1>2
  <2> QED BY <2>2, <2>3, <2>4, KeptForKey
<1>11. OneFetch'
  BY <1>0, <1>1, FetchesLeftAlone DEF LockKept
<1>12. Own'
  <2>1. /\ \A q \in Node : queue'[q] \subseteq queue[q] /\ Mine(q)' = Mine(q)
        /\ pow'[n].rest = pow[n].rest /\ pow'[n].m \in Mine(n)
    BY <1>0, <1>2, <1>3, <1>4, <1>5 DEF Mine
  <2> QED BY <1>5, <2>1 DEF SmsgInv, KeptInv, Own
<1> QED BY <1>1, <1>6, <1>7, <1>8, <1>9, <1>10, <1>11, <1>12 DEF SmsgInv, TypesInv, KeptInv

(* The records of a bucket that takes a message, that is hashed, and of the  *)
(* ones that are empty or read from the file.                                *)
LEMMA BucketRecords ==
  ASSUME NEW b \in Bucket
  PROVE  /\ \A m \in Msg : /\ Stored(b, m) \in Bucket
                           /\ Stored(b, m).setTokens = b.setTokens \cup {m}
                           /\ Stored(b, m).hash = b.hash
                           /\ Stored(b, m).nLockCount = b.nLockCount
                           /\ Stored(b, m).nLockPeer = b.nLockPeer
         /\ Hashed(b) \in Bucket
         /\ Hashed(b).setTokens = b.setTokens /\ Hashed(b).hash = b.setTokens
         /\ Hashed(b).nLockCount = b.nLockCount /\ Hashed(b).nLockPeer = b.nLockPeer
<1>1. b = [setTokens |-> b.setTokens, hash |-> b.hash,
           nLockCount |-> b.nLockCount, nLockPeer |-> b.nLockPeer]
  BY DEF Bucket
<1>2. \A m \in Msg : Stored(b, m) = [setTokens |-> b.setTokens \cup {m}, hash |-> b.hash,
                                     nLockCount |-> b.nLockCount, nLockPeer |-> b.nLockPeer]
  BY <1>1 DEF Stored
<1>3. Hashed(b) = [setTokens |-> b.setTokens, hash |-> b.setTokens,
                   nLockCount |-> b.nLockCount, nLockPeer |-> b.nLockPeer]
  BY <1>1 DEF Hashed
<1> QED BY <1>2, <1>3 DEF Bucket

(* The bucket and the work that are not there.                               *)
LEMMA EmptyBucket ==
  /\ NoBucket \in Bucket /\ NoBucket.setTokens = {} /\ NoBucket.hash = {}
  /\ NoBucket.nLockCount = 0 /\ NoBucket.nLockPeer = NoPeer
  /\ NoWork \in [peer : Node \cup {NoPeer}, msgs : SUBSET Msg]
  /\ NoWork.peer = NoPeer /\ NoWork.msgs = {}
BY SecureMessagesAssumption DEF NoBucket, Bucket, NoWork

(* The bucket that is read has no lock, and its hash is right.               *)
LEMMA ReadBucket ==
  ASSUME NEW n \in Node, file[n] \subseteq Msg
  PROVE  /\ BuildBucketSet(n) \in Bucket
         /\ BuildBucketSet(n).nLockCount = 0 /\ BuildBucketSet(n).nLockPeer = NoPeer
         /\ BuildBucketSet(n).hash = BuildBucketSet(n).setTokens
         /\ BuildBucketSet(n).setTokens = IF expired THEN {} ELSE file[n]
<1> DEFINE b == [NoBucket EXCEPT !.setTokens = file[n]]
<1>1. b = [setTokens |-> file[n], hash |-> {}, nLockCount |-> 0, nLockPeer |-> NoPeer]
  BY DEF NoBucket
<1>2. b \in Bucket /\ b.setTokens = file[n] /\ b.nLockCount = 0 /\ b.nLockPeer = NoPeer
  BY <1>1, SecureMessagesAssumption DEF Bucket
<1>3. BuildBucketSet(n) = IF expired THEN NoBucket ELSE Hashed(b)
  BY Zenon DEF BuildBucketSet
<1> HIDE DEF b
<1>4. /\ Hashed(b) \in Bucket /\ Hashed(b).setTokens = file[n] /\ Hashed(b).hash = file[n]
      /\ Hashed(b).nLockCount = 0 /\ Hashed(b).nLockPeer = NoPeer
  BY <1>2, BucketRecords
<1> QED BY <1>3, <1>4, EmptyBucket

(* One bucket is replaced.                                                   *)
LEMMA StockParts ==
  ASSUME SmsgInv
  PROVE  /\ file \in [Node -> SUBSET Msg] /\ bucket \in [Node -> Bucket]
         /\ \A n \in Node : bucket[n] \in Bucket /\ file[n] \subseteq Msg
         /\ \A m \in sent : From[m] \in Node
BY SecureMessagesAssumption DEF SmsgInv, TypesInv, Stock, Globals

(* The proof-of-work thread stores its message, or gives it up when it has   *)
(* expired.                                                                  *)
LEMMA PowStoreKeeps ==
  ASSUME SmsgInv, NEW n \in Node, PowStore(n)
  PROVE  SmsgInv'
<1> DEFINE m == pow[n].m
           b == Stored(bucket[n], m)
           c == Hashed(b)
<1>0. UNCHANGED <<fSecMsgEnabled, disabling, queue, smsg, ignored, work, scanning, holds, net,
                  sent, expired, troubles, gone, lost, released>>
  BY DEF PowStore, smsgVars, workVars
<1>1. m \in Msg /\ pow[n].at = "store"
  BY PowParts DEF PowStore
<1>2. bucket[n] \in Bucket
  BY StockParts
<1> HIDE DEF m
<1>3. /\ c \in Bucket /\ c.setTokens = bucket[n].setTokens \cup {m} /\ c.hash = c.setTokens
      /\ c.nLockCount = bucket[n].nLockCount /\ c.nLockPeer = bucket[n].nLockPeer
  <2>1. b \in Bucket /\ b.setTokens = bucket[n].setTokens \cup {m}
        /\ b.nLockCount = bucket[n].nLockCount /\ b.nLockPeer = bucket[n].nLockPeer
    BY <1>1, <1>2, BucketRecords
  <2> HIDE DEF b
  <2> QED BY <2>1, BucketRecords
<1>4. /\ pow' \in [Node -> PowRecord] /\ pow'[n].at \in {"idle", "scan"}
      /\ pow'[n].rest = pow[n].rest /\ (pow'[n].at = "scan" => pow'[n].m = m)
      /\ \A q \in Node : q # n => pow'[q] = pow[q]
  <2> DEFINE x == PowMoved(pow[n], "scan")
             y == PowAt("idle", pow[n].rest)
  <2>1. pow' = [pow EXCEPT ![n] = x] \/ pow' = [pow EXCEPT ![n] = y]
    BY DEF PowStore, PowMoved
  <2>2. /\ x \in PowRecord /\ x.at = "scan" /\ x.m = m /\ x.rest = pow[n].rest
        /\ y \in PowRecord /\ y.at = "idle" /\ y.rest = pow[n].rest
    BY PowParts, PowRecords DEF m
  <2>3. pow \in [Node -> PowRecord]
    BY PowParts
  <2> HIDE DEF x, y
  <2>4. \E z \in {x, y} : pow' = [pow EXCEPT ![n] = z]
    BY <2>1
  <2> QED BY <2>2, <2>3, <2>4
<1>5. Globals' /\ Threads'
  BY <1>0, <1>4 DEF SmsgInv, TypesInv, Globals, Threads
<1>6. Links' /\ QuietNet
  <2>1. QuietNet
    BY SmsgInvLinks, UnchangedNet DEF PowStore
  <2>2. FlagsOK([smsgData EXCEPT ![n] = Marked(b, smsgData[n])])
    <3> HIDE DEF b
    <3> QED BY SmsgInvLinks, MarkedFlags
  <2>3. smsgData' = smsgData \/ smsgData' = [smsgData EXCEPT ![n] = Marked(b, smsgData[n])]
    BY DEF PowStore, m
  <2>4. FlagsOK(smsgData')
    BY Zenon, <2>2, <2>3, SmsgInvLinks
  <2> QED BY <2>1, <2>4, LinksParts
<1>7. \/ bucket' = bucket /\ file' = file /\ expired
      \/ bucket' = [bucket EXCEPT ![n] = c] /\ file' = [file EXCEPT ![n] = @ \cup {m}]
  BY DEF PowStore, m
<1> HIDE DEF c, b
<1>8. Off' /\ BucketIsStored' /\ Stock' /\ \A q \in Node : LockKept(q)
  <2>9. /\ \/ bucket'[n] = bucket[n] /\ file'[n] = file[n]
           \/ bucket'[n] = c /\ file'[n] = file[n] \cup {m}
        /\ \A q \in Node : q # n => bucket'[q] = bucket[q] /\ file'[q] = file[q]
    BY <1>7, StockParts
  <2>0. \A q \in Node :
          /\ \/ bucket'[q].setTokens = bucket[q].setTokens /\ file'[q] = file[q]
             \/ /\ bucket'[q].setTokens = bucket[q].setTokens \cup {m}
                /\ file'[q] = file[q] \cup {m}
          /\ \/ bucket'[q].hash = bucket[q].hash /\ bucket'[q].setTokens = bucket[q].setTokens
             \/ bucket'[q].hash = bucket'[q].setTokens
          /\ bucket'[q].nLockCount = bucket[q].nLockCount
          /\ bucket'[q].nLockPeer = bucket[q].nLockPeer
    BY <1>3, <2>9
  <2>1. bucket' \in [Node -> Bucket] /\ file' \in [Node -> SUBSET Msg]
    BY <1>1, <1>3, <1>7, StockParts
  <2>2. Stock'
    BY <1>0, <2>0, <2>1 DEF SmsgInv, TypesInv, Stock
  <2>3. Off'
    BY <1>0, <1>1, <1>4, <2>0 DEF SmsgInv, KeptInv, Off, Joining
  <2>4. BucketIsStored'
    <3>1. fSecMsgEnabled' = fSecMsgEnabled /\ work' = work
      BY <1>0
    <3>2. ASSUME NEW q \in Node, fSecMsgEnabled[q]
          PROVE  /\ bucket'[q].setTokens = file'[q]
                 /\ work[q] = NoWork => bucket'[q].hash = bucket'[q].setTokens
      <4>1. /\ bucket[q].setTokens = file[q]
            /\ work[q] = NoWork => bucket[q].hash = bucket[q].setTokens
        BY <3>2, Zenon DEF SmsgInv, KeptInv, BucketIsStored
      <4>2. /\ \/ bucket'[q].setTokens = bucket[q].setTokens /\ file'[q] = file[q]
               \/ /\ bucket'[q].setTokens = bucket[q].setTokens \cup {m}
                  /\ file'[q] = file[q] \cup {m}
            /\ \/ bucket'[q].hash = bucket[q].hash
                  /\ bucket'[q].setTokens = bucket[q].setTokens
               \/ bucket'[q].hash = bucket'[q].setTokens
        BY <2>0, Zenon
      <4> QED BY <4>1, <4>2, Zenon
    <3> QED BY <3>1, <3>2, Zenon DEF BucketIsStored
  <2>5. \A q \in Node : LockKept(q)
    BY <2>0 DEF LockKept
  <2> QED BY <2>2, <2>3, <2>4, <2>5
<1>9. QueuedOrStored'
  <2>1. ASSUME ~expired, NEW x \in sent, Kept(x) PROVE Kept(x)'
    <3>1. file'[n] = file[n] \cup {m} /\ \A q \in Node : q # n => file'[q] = file[q]
      BY <1>7, <2>1, StockParts
    <3>2. From[x] \in Node
      BY StockParts
    <3> QED BY <1>0, <1>4, <2>1, <3>1, <3>2 DEF Kept, m
  <2> QED BY <1>0, <2>1, StaysKept
<1>10. OneFetch'
  BY <1>0, <1>6, <1>8, FetchesLeftAlone
<1>11. Own'
  <2>1. m \in Mine(n)
    BY <1>1, PowParts DEF Mine, m
  <2>2. \A q \in Node : queue'[q] = queue[q] /\ Mine(q)' = Mine(q)
    BY <1>0 DEF Mine
  <2> QED BY <1>4, <2>1, <2>2 DEF SmsgInv, KeptInv, Own
<1> QED BY <1>5, <1>6, <1>8, <1>9, <1>10, <1>11 DEF SmsgInv, TypesInv, KeptInv

(* The message thread that is storing works for a peer.                      *)
Work == [peer : Node \cup {NoPeer}, msgs : SUBSET Msg]

(* It has a peer whenever it has work.                                       *)
LEMMA Working ==
  ASSUME SmsgInv, NEW n \in Node
  PROVE  /\ work \in [Node -> Work] /\ work[n] \in Work
         /\ work[n] # NoWork => work[n].peer # NoPeer /\ work[n].peer \in Peers[n]
         /\ \A q \in Node : work[q] = NoWork <=> work[q].peer = NoPeer
<1>1. work \in [Node -> Work]
  BY DEF SmsgInv, TypesInv, Stock, Work
<1>2. \A q \in Node : /\ work[q].peer \in Peers[q] \cup {NoPeer}
                      /\ work[q].peer = NoPeer => work[q].msgs = {}
  BY DEF SmsgInv, TypesInv, Stock
<1>3. \A q \in Node : work[q] = [peer |-> work[q].peer, msgs |-> work[q].msgs]
  BY <1>1 DEF Work
<1>4. \A q \in Node : work[q] = NoWork <=> work[q].peer = NoPeer
  <2>1. ASSUME NEW q \in Node, work[q].peer = NoPeer PROVE work[q] = NoWork
    <3>1. work[q].msgs = {}
      BY <1>2, <2>1
    <3> QED BY Zenon, <1>3, <2>1, <3>1 DEF NoWork
  <2>2. NoWork.peer = NoPeer
    BY EmptyBucket
  <2> QED BY Zenon, <2>1, <2>2
<1> QED BY <1>1, <1>2, <1>4

(* Its peer stays while its messages get fewer.                              *)
LEMMA WorkRecord ==
  ASSUME NEW w \in Work, NEW S \in SUBSET Msg
  PROVE  [w EXCEPT !.msgs = S] \in Work /\ [w EXCEPT !.msgs = S].peer = w.peer
BY DEF Work

(* A message is stored, or the rest is given up.                             *)
LEMMA StoreNextKeeps ==
  ASSUME SmsgInv, NEW n \in Node, StoreNext(n)
  PROVE  SmsgInv'
<1> DEFINE m == Min(work[n].msgs)
           w == [work[n] EXCEPT !.msgs = {}]
           v == [work[n] EXCEPT !.msgs = @ \ {m}]
           c == Stored(bucket[n], m)
<1>1. /\ work[n] # NoWork /\ work[n].msgs # {} /\ ~Joining(n)
      /\ UNCHANGED <<fSecMsgEnabled, disabling, queue, pow, smsg, ignored, holds, linkVars,
                     sent, expired, troubles, gone, released>>
      /\ (scanning' = scanning \/ scanning' = [scanning EXCEPT ![n] = TRUE])
  BY DEF StoreNext, SmsgFree, smsgVars
<1>2. \/ work' = [work EXCEPT ![n] = w] /\ bucket' = bucket /\ file' = file
      \/ /\ work' = [work EXCEPT ![n] = v] /\ bucket' = [bucket EXCEPT ![n] = c]
         /\ file' = [file EXCEPT ![n] = @ \cup {m}]
  BY DEF StoreNext
<1>3. work \in [Node -> Work] /\ work[n] \in Work /\ work[n].peer # NoPeer
  BY <1>1, Working
<1>4. m \in Msg
  <2>1. work[n].msgs \subseteq Msg /\ Msg \subseteq Nat
    BY <1>3, SecureMessagesAssumption DEF Work
  <2>2. work[n].msgs \subseteq Nat
    BY <2>1
  <2> QED BY <1>1, <2>1, <2>2, MinIn
<1> HIDE DEF m
<1>5. w \in Work /\ v \in Work /\ w.peer = work[n].peer /\ v.peer = work[n].peer
  <2>1. work[n].msgs \ {m} \in SUBSET Msg /\ {} \in SUBSET Msg
    BY <1>3 DEF Work
  <2> QED BY <1>3, <2>1, WorkRecord
<1>6. /\ c \in Bucket /\ c.setTokens = bucket[n].setTokens \cup {m} /\ c.hash = bucket[n].hash
      /\ c.nLockCount = bucket[n].nLockCount /\ c.nLockPeer = bucket[n].nLockPeer
  BY <1>4, StockParts, BucketRecords
<1> HIDE DEF w, v, c
<1>7. work' \in [Node -> Work] /\ \A q \in Node : work'[q].peer = work[q].peer
  BY <1>2, <1>3, <1>5
<1>8. bucket' \in [Node -> Bucket] /\ file' \in [Node -> SUBSET Msg]
  BY <1>2, <1>4, <1>6, StockParts
<1>9. \A q \in Node :
        /\ bucket[q].setTokens = file[q] => bucket'[q].setTokens = file'[q]
        /\ q # n => bucket'[q] = bucket[q] /\ work'[q] = work[q]
        /\ file[q] \subseteq file'[q]
        /\ bucket'[q].nLockCount = bucket[q].nLockCount
        /\ bucket'[q].nLockPeer = bucket[q].nLockPeer
  <2>1. /\ \/ bucket'[n] = bucket[n] /\ file'[n] = file[n]
           \/ bucket'[n] = c /\ file'[n] = file[n] \cup {m}
        /\ \A q \in Node : q # n => bucket'[q] = bucket[q] /\ file'[q] = file[q] /\ work'[q] = work[q]
    BY <1>2, <1>3, StockParts
  <2> QED BY <1>6, <2>1
<1>10. Globals' /\ Threads'
  <2>1. lost' \in BOOLEAN
    <3>1. lost' = lost \/ lost' = (lost \/ ~(work[n].msgs \subseteq bucket[n].setTokens))
      BY DEF StoreNext
    <3> QED BY Zenon, <3>1 DEF SmsgInv, TypesInv, Globals
  <2>2. scanning' \in [Node -> BOOLEAN]
    BY <1>1 DEF SmsgInv, TypesInv, Threads
  <2> QED BY <1>1, <2>1, <2>2 DEF SmsgInv, TypesInv, Globals, Threads
<1>11. Stock'
  <2>1. \A q \in Node : work'[q].peer = NoPeer => work'[q].msgs = {}
    BY <1>3, <1>7, <1>9 DEF SmsgInv, TypesInv, Stock
  <2> QED BY <1>1, <1>7, <1>8, <1>9, <2>1 DEF SmsgInv, TypesInv, Stock, Work
<1>12. Links' /\ QuietNet
  BY <1>1, LinksLeftAlone
<1>13. Off'
  BY <1>1, <1>9 DEF SmsgInv, KeptInv, Off, Joining
<1>14. BucketIsStored'
  <2>1. work'[n] # NoWork
    BY <1>3, <1>7, EmptyBucket
  <2> QED BY <1>1, <1>9, <2>1 DEF SmsgInv, KeptInv, BucketIsStored
<1>15. QueuedOrStored'
  <2>1. ASSUME NEW x \in sent, Kept(x) PROVE Kept(x)'
    BY <1>1, <1>9, <2>1, StockParts DEF Kept
  <2> QED BY <1>1, <2>1, StaysKept
<1>16. OneFetch'
  <2>1. \A q \in Node : LockKept(q)
    BY <1>9 DEF LockKept
  <2> QED BY <1>1, <1>7, <1>12, <2>1, FetchesLeftAlone
<1>17. Own'
  BY <1>1 DEF SmsgInv, KeptInv, Own, Mine
<1> QED BY <1>10, <1>11, <1>12, <1>13, <1>14, <1>15, <1>16, <1>17
        DEF SmsgInv, TypesInv, KeptInv

(* A step of the threads that changes neither messages nor locks.            *)
LEMMA ThreadsStep ==
  ASSUME SmsgInv, QuietNet, FlagsOK(smsgData'), Threads', Off', troubles' \subseteq Trouble,
         \A n \in Node : fSecMsgEnabled'[n] => fSecMsgEnabled[n],
         UNCHANGED <<bucket, file, queue, pow, work, sent, expired, gone, lost, released>>
  PROVE  SmsgInv'
<1>1. Globals' /\ Stock'
  BY DEF SmsgInv, TypesInv, Globals, Stock
<1>2. Links'
  BY LinksParts
<1>3. BucketIsStored'
  BY DEF SmsgInv, KeptInv, BucketIsStored
<1>4. QueuedOrStored'
  BY DEF SmsgInv, KeptInv, QueuedOrStored, Kept
<1>5. Own'
  BY DEF SmsgInv, KeptInv, Own, Mine
<1>6. OneFetch'
  BY FetchesLeftAlone DEF LockKept
<1> QED BY <1>1, <1>2, <1>3, <1>4, <1>5, <1>6 DEF SmsgInv, TypesInv, KeptInv

(* The message thread has scanned a message.                                 *)
LEMMA ScanNextKeeps ==
  ASSUME SmsgInv, NEW n \in Node, ScanNext(n)
  PROVE  SmsgInv'
<1>1. /\ scanning' = [scanning EXCEPT ![n] = FALSE]
      /\ UNCHANGED <<fSecMsgEnabled, disabling, bucket, file, queue, pow, smsg, ignored, work,
                     holds, linkVars, sent, expired, troubles, gone, lost, released>>
  BY DEF ScanNext, smsgVars
<1>2. Threads'
  BY <1>1 DEF SmsgInv, TypesInv, Threads
<1>3. Off' /\ troubles' \subseteq Trouble
  BY <1>1 DEF SmsgInv, TypesInv, Globals, KeptInv, Off, Joining
<1>4. QuietNet /\ FlagsOK(smsgData')
  BY <1>1, LinksLeftAlone DEF Links, FlagsOK
<1> QED BY <1>1, <1>2, <1>3, <1>4, ThreadsStep

(* The lock is released: the fetch that ends was the only one.               *)
LEMMA ReceiveEndKeeps ==
  ASSUME SmsgInv, NEW n \in Node, ReceiveEnd(n)
  PROVE  SmsgInv'
<1> DEFINE b == bucket[n]
           h == Hashed(b)
           c == Relocked(h, 0, NoPeer)
           p == work[n].peer
<1>1. /\ work[n] # NoWork /\ work' = [work EXCEPT ![n] = NoWork]
      /\ bucket' = [bucket EXCEPT ![n] = c]
      /\ UNCHANGED <<fSecMsgEnabled, disabling, file, queue, pow, smsg, ignored, scanning,
                     holds, net, sent, expired, troubles, gone, lost, released>>
  BY DEF ReceiveEnd, Relocked, smsgVars
<1>2. /\ work \in [Node -> Work] /\ p # NoPeer /\ p \in Peers[n]
  BY <1>1, Working
<1>3. /\ c \in Bucket /\ c.setTokens = bucket[n].setTokens /\ c.hash = c.setTokens
      /\ c.nLockCount = 0 /\ c.nLockPeer = NoPeer
  <2>1. h \in Bucket /\ h.setTokens = bucket[n].setTokens /\ h.hash = h.setTokens
    BY StockParts, BucketRecords
  <2> HIDE DEF h
  <2>2. 0 \in 0..LockCount /\ NoPeer \in Node \cup {NoPeer}
    BY SecureMessagesAssumption
  <2> QED BY <2>1, <2>2, LockRecord
<1> HIDE DEF c, h
<1>4. /\ bucket' \in [Node -> Bucket] /\ bucket'[n] = c
      /\ \A q \in Node : q # n => bucket'[q] = bucket[q]
  BY <1>1, <1>3, StockParts
<1>5. /\ work' \in [Node -> Work] /\ work'[n] = NoWork
      /\ \A q \in Node : q # n => work'[q] = work[q]
  BY <1>1, <1>2, EmptyBucket DEF Work
<1>6. Globals' /\ Threads'
  BY <1>1 DEF SmsgInv, TypesInv, Globals, Threads
<1>7. Stock'
  <2>1. \A q \in Node : bucket'[q].nLockPeer \in Peers[q] \cup {NoPeer}
    BY <1>3, <1>4 DEF SmsgInv, TypesInv, Stock
  <2>2. \A q \in Node : /\ work'[q].peer \in Peers[q] \cup {NoPeer}
                        /\ work'[q].peer = NoPeer => work'[q].msgs = {}
    BY <1>5, EmptyBucket DEF SmsgInv, TypesInv, Stock
  <2> QED BY <1>1, <1>4, <1>5, <2>1, <2>2 DEF SmsgInv, TypesInv, Stock, Work
<1>8. Links' /\ QuietNet
  <2>1. QuietNet
    BY <1>1, SmsgInvLinks, UnchangedNet
  <2>2. FlagsOK([smsgData EXCEPT ![n] = Marked(b, smsgData[n])])
    <3> HIDE DEF b
    <3> QED BY SmsgInvLinks, MarkedFlags
  <2>3. smsgData' = [smsgData EXCEPT ![n] = Marked(b, smsgData[n])]
    BY DEF ReceiveEnd
  <2>4. FlagsOK(smsgData')
    BY Zenon, <2>2, <2>3
  <2> QED BY <2>1, <2>4, LinksParts
<1>9. Off' /\ Own'
  BY <1>1, <1>3, <1>4 DEF SmsgInv, KeptInv, Off, Joining, Own, Mine
<1>10. BucketIsStored'
  BY <1>1, <1>3, <1>4, <1>5 DEF SmsgInv, KeptInv, BucketIsStored
<1>11. QueuedOrStored'
  BY <1>1 DEF SmsgInv, KeptInv, QueuedOrStored, Kept
<1>12. ASSUME NEW q \in Node, q # n, FetchOK(q) PROVE FetchOK(q)'
  <2>1. LinksQuiet(q)
    BY <1>8, QuietLinks
  <2>2. LockKept(q) /\ work'[q].peer = work[q].peer
    BY <1>4, <1>5, <1>12 DEF LockKept
  <2> QED BY <1>12, <2>1, <2>2, FetchKept
<1>13. ASSUME FetchOK(n) PROVE FetchOK(n)'
  <2>1. FetchAt(n, p)
    BY DEF FetchAt
  <2>2. ~Some(net[n][p], "smsgWant") /\ ~Some(net[p][n], "smsgMsg")
    BY <1>2, <1>13 DEF FetchOK, OnePlace
  <2>3. \A q \in Peers[n] : q # p => ~FetchAt(n, q)
    BY <1>2, <1>13, <2>1 DEF FetchOK, OnePeer
  <2>4. ASSUME NEW q \in Peers[n] PROVE ~FetchAt(n, q)'
    <3>1. work'[n].peer # q
      BY <1>5, EmptyBucket, Ends
    <3>2. ~Some(net[n][q], "smsgWant") /\ ~Some(net[q][n], "smsgMsg")
      BY <2>2, <2>3 DEF FetchAt
    <3> QED BY <1>1, <3>1, <3>2 DEF FetchAt
  <2> QED BY <2>4, FetchOver
<1>14. OneFetch'
  BY <1>1, <1>12, <1>13 DEF SmsgInv, OneFetch
<1> QED BY <1>6, <1>7, <1>8, <1>9, <1>10, <1>11, <1>14 DEF SmsgInv, TypesInv, KeptInv

(* An expired bucket is removed with its file.                               *)
LEMMA PurgeKeeps ==
  ASSUME SmsgInv, NEW n \in Node, Purge(n)
  PROVE  SmsgInv'
<1>1. /\ expired
      /\ bucket' = [bucket EXCEPT ![n] = NoBucket] /\ file' = [file EXCEPT ![n] = {}]
      /\ UNCHANGED <<fSecMsgEnabled, disabling, queue, pow, smsg, ignored, work, scanning,
                     holds, linkVars, sent, expired, troubles, gone, lost, released>>
  BY DEF Purge, smsgVars, workVars
<1>2. /\ bucket' \in [Node -> Bucket] /\ bucket'[n] = NoBucket /\ file' \in [Node -> SUBSET Msg]
      /\ file'[n] = {} /\ \A q \in Node : q # n => bucket'[q] = bucket[q] /\ file'[q] = file[q]
  BY <1>1, StockParts, EmptyBucket
<1>3. Globals' /\ Threads'
  BY <1>1 DEF SmsgInv, TypesInv, Globals, Threads
<1>4. Stock'
  <2>1. \A q \in Node : bucket'[q].nLockPeer \in Peers[q] \cup {NoPeer}
    BY <1>2, EmptyBucket DEF SmsgInv, TypesInv, Stock
  <2> QED BY <1>1, <1>2, <2>1 DEF SmsgInv, TypesInv, Stock
<1>5. Links'
  BY <1>1, LinksLeftAlone
<1>6. Off' /\ Own'
  BY <1>1, <1>2, EmptyBucket DEF SmsgInv, KeptInv, Off, Joining, Own, Mine
<1>7. BucketIsStored'
  BY <1>1, <1>2, EmptyBucket DEF SmsgInv, KeptInv, BucketIsStored
<1>8. QueuedOrStored' /\ OneFetch'
  BY <1>1 DEF QueuedOrStored, OneFetch
<1> QED BY <1>3, <1>4, <1>5, <1>6, <1>7, <1>8 DEF SmsgInv, TypesInv, KeptInv

(* A lock ticks; with its last tick it is given up.                          *)
LEMMA TickKeeps ==
  ASSUME SmsgInv, NEW n \in Node, Tick(n)
  PROVE  SmsgInv'
<1> DEFINE b == bucket[n]
           p == b.nLockPeer
           k == b.nLockCount - 1
           l == IF b.nLockCount = 1 THEN NoPeer ELSE p
           c == Relocked(b, k, l)
<1>1. /\ b.nLockCount > 0 /\ ~expired /\ ~Joining(n)
      /\ troubles' \subseteq troubles \cup {"timeout"}
      /\ released' = (released \/ b.nLockCount = 1)
      /\ UNCHANGED <<fSecMsgEnabled, disabling, file, queue, pow, work, scanning, holds,
                     linkVars, sent, expired, gone, lost>>
  BY DEF Tick, IsLocked, SmsgFree, workVars
<1>14. /\ smsg' = smsg \/ smsg' = [smsg EXCEPT ![n] = "ignore"]
       /\ ignored' = ignored \/ ignored' = [ignored EXCEPT ![n] = p]
  BY DEF Tick
<1>2. bucket' = [bucket EXCEPT ![n] = c]
  BY DEF Tick, Relocked
<1>3. /\ b \in Bucket /\ b.nLockCount \in 0..LockCount /\ LockCount \in Nat
      /\ p \in Peers[n] \cup {NoPeer} /\ p \in Node \cup {NoPeer}
  BY StockParts, SecureMessagesAssumption DEF SmsgInv, TypesInv, Stock, Bucket
<1>4. k \in 0..LockCount /\ l \in {p, NoPeer} /\ (b.nLockCount # 1 => k > 0)
  BY <1>1, <1>3
<1>5. /\ c \in Bucket /\ c.setTokens = b.setTokens /\ c.hash = b.hash
      /\ c.nLockCount = k /\ c.nLockPeer = l
  <2> HIDE DEF k, l
  <2> QED BY <1>3, <1>4, LockRecord
<1> HIDE DEF c, k, l
<1>6. /\ bucket' \in [Node -> Bucket] /\ bucket'[n] = c
      /\ \A q \in Node : q # n => bucket'[q] = bucket[q]
  BY <1>2, <1>5, StockParts
<1>7. Globals' /\ Threads'
  <2>1. troubles' \subseteq Trouble
    BY <1>1 DEF SmsgInv, TypesInv, Globals, Trouble
  <2>2. released' \in BOOLEAN
    BY Zenon, <1>1
  <2>3. Globals'
    BY <1>1, <2>1, <2>2 DEF SmsgInv, TypesInv, Globals
  <2>4. smsg' \in [Node -> Smsg]
    BY <1>14 DEF SmsgInv, TypesInv, Threads, Smsg
  <2> HIDE DEF p
  <2>5. /\ ignored' \in [Node -> Node \cup {NoPeer}]
        /\ \A q \in Node : ignored'[q] \in Peers[q] \cup {NoPeer}
    BY <1>3, <1>14 DEF SmsgInv, TypesInv, Threads
  <2> QED BY <1>1, <2>3, <2>4, <2>5 DEF SmsgInv, TypesInv, Threads
<1>8. Stock'
  <2>1. \A q \in Node : bucket'[q].nLockPeer \in Peers[q] \cup {NoPeer}
    BY <1>3, <1>4, <1>5, <1>6 DEF SmsgInv, TypesInv, Stock
  <2> QED BY <1>1, <1>6, <2>1 DEF SmsgInv, TypesInv, Stock
<1>9. Links' /\ QuietNet
  BY <1>1, LinksLeftAlone
<1>10. Off' /\ Own'
  <2>1. fSecMsgEnabled[n]
    BY <1>1 DEF SmsgInv, KeptInv, Off
  <2> QED BY <1>1, <1>6, <2>1 DEF SmsgInv, KeptInv, Off, Joining, Own, Mine
<1>11. BucketIsStored'
  BY <1>1, <1>5, <1>6 DEF SmsgInv, KeptInv, BucketIsStored
<1>12. QueuedOrStored'
  BY <1>1 DEF SmsgInv, KeptInv, QueuedOrStored, Kept
<1>13. OneFetch'
  <2>1. released => released'
    BY Zenon, <1>1
  <2>2. ASSUME NEW q \in Node, ~released' PROVE LockKept(q)
    <3>1. b.nLockCount # 1
      BY <1>1, <2>2
    <3> QED BY <1>4, <1>5, <1>6, <3>1 DEF LockKept
  <2>3. \A q \in Node : work'[q].peer = work[q].peer
    BY <1>1
  <2>4. OneFetch /\ (expired => expired')
    BY <1>1 DEF SmsgInv
  <2> QED BY <1>9, <2>1, <2>2, <2>3, <2>4, QuietStep
<1> QED BY <1>7, <1>8, <1>9, <1>10, <1>11, <1>12, <1>13 DEF SmsgInv, TypesInv, KeptInv

(* The peer whose lock has timed out is ignored and told so.                 *)
LEMMA IgnoreKeeps ==
  ASSUME SmsgInv, NEW n \in Node, Ignore(n)
  PROVE  SmsgInv'
<1> DEFINE p == ignored[n]
<1>1. /\ smsg' = [smsg EXCEPT ![n] = "run"] /\ ignored' = [ignored EXCEPT ![n] = NoPeer]
      /\ UNCHANGED <<fSecMsgEnabled, disabling, bucket, file, queue, pow, work, scanning,
                     holds, sent, expired, troubles, gone, lost, released>>
  BY DEF Ignore, workVars
<1>2. Threads'
  BY <1>1 DEF SmsgInv, TypesInv, Threads, Smsg
<1>3. Off' /\ troubles' \subseteq Trouble
  BY <1>1 DEF SmsgInv, TypesInv, Globals, KeptInv, Off, Joining
<1>4. QuietNet /\ FlagsOK(smsgData')
  <2>1. CASE UNCHANGED linkVars
    BY <2>1, LinksLeftAlone DEF Links, FlagsOK
  <2>2. CASE /\ p # NoPeer /\ smsgData' = [smsgData EXCEPT ![n][p].fIgnore = TRUE]
             /\ net' = [net EXCEPT ![n][p] = Append(@, [type |-> "smsgIgnore"])]
    <3> DEFINE x == [type |-> "smsgIgnore"]
    <3>1. x \in Packet /\ x.type \notin Fetch
      BY Packets DEF Signals, Fetch
    <3>2. p \in Peers[n]
      BY <2>2 DEF SmsgInv, TypesInv, Threads
    <3>3. net' = [net EXCEPT ![n][p] = Append(@, x)]
      BY Zenon, <2>2
    <3> HIDE DEF x, p
    <3>4. QuietNet
      BY <3>1, <3>2, <3>3, SmsgInvLinks, QuietSend
    <3>5. FlagsOK([smsgData EXCEPT ![n][p].fIgnore = TRUE])
      BY Zenon, <3>2, SmsgInvLinks, FlagsUpdate
    <3>6. FlagsOK(smsgData')
      BY Zenon, <2>2, <3>5
    <3> QED BY <3>4, <3>6
  <2> QED BY Zenon, <2>1, <2>2 DEF Ignore
<1> QED BY <1>1, <1>2, <1>3, <1>4, ThreadsStep

(* smsgdisable is called.                                                    *)
LEMMA DisableAskKeeps ==
  ASSUME SmsgInv, NEW n \in Node, DisableAsk(n)
  PROVE  SmsgInv'
<1>1. /\ fSecMsgEnabled[n] /\ troubles' = troubles \cup {"rpc"}
      /\ disabling' = [disabling EXCEPT ![n] = "asked"]
      /\ UNCHANGED <<fSecMsgEnabled, bucket, file, queue, pow, smsg, ignored, work, scanning,
                     holds, linkVars, sent, expired, gone, lost, released>>
  BY DEF DisableAsk, Happens, smsgVars, workVars
<1>2. /\ disabling' \in [Node -> Callers] /\ disabling'[n] = "asked"
      /\ \A q \in Node : q # n => disabling'[q] = disabling[q]
  BY <1>1 DEF SmsgInv, TypesInv, Threads, Callers
<1>3. Threads'
  BY <1>1, <1>2 DEF SmsgInv, TypesInv, Threads
<1>4. Off' /\ troubles' \subseteq Trouble
  BY <1>1, <1>2 DEF SmsgInv, TypesInv, Globals, KeptInv, Off, Joining, Trouble
<1>5. QuietNet /\ FlagsOK(smsgData')
  BY <1>1, LinksLeftAlone DEF Links, FlagsOK
<1> QED BY <1>1, <1>3, <1>4, <1>5, ThreadsStep

(* SecureMsgDisable clears the flag and takes cs_smsg.                       *)
LEMMA DisableBeginKeeps ==
  ASSUME SmsgInv, NEW n \in Node, NEW by \in {"rpc", "gui"}, DisableBegin(n, by)
  PROVE  SmsgInv'
<1>1. /\ troubles' \subseteq troubles \cup {"gui"}
      /\ fSecMsgEnabled' = [fSecMsgEnabled EXCEPT ![n] = FALSE]
      /\ disabling' = [disabling EXCEPT ![n] = by]
      /\ UNCHANGED <<bucket, file, queue, pow, ignored, work, scanning, linkVars, sent,
                     expired, gone, lost, released>>
  BY DEF DisableBegin, Happens
<1>2. /\ smsg' = smsg \/ smsg' = [smsg EXCEPT ![n] = "blocked"]
      /\ holds' = holds \/ \E p \in Peers[n] : holds' = [holds EXCEPT ![n] = p]
  BY DEF DisableBegin
<1>3. /\ fSecMsgEnabled' \in [Node -> BOOLEAN] /\ disabling' \in [Node -> Callers]
      /\ fSecMsgEnabled'[n] = FALSE /\ disabling'[n] = by
      /\ \A q \in Node : q # n => /\ fSecMsgEnabled'[q] = fSecMsgEnabled[q]
                                  /\ disabling'[q] = disabling[q]
  BY <1>1 DEF SmsgInv, TypesInv, Threads, Callers
<1>4. smsg' \in [Node -> Smsg]
  BY <1>2 DEF SmsgInv, TypesInv, Threads, Smsg
<1>5. /\ holds' \in [Node -> Node \cup {NoPeer}]
      /\ \A q \in Node : holds'[q] \in Peers[q] \cup {NoPeer}
  BY <1>2, Ends DEF SmsgInv, TypesInv, Threads
<1>6. Threads'
  BY <1>1, <1>3, <1>4, <1>5 DEF SmsgInv, TypesInv, Threads
<1>7. Off' /\ troubles' \subseteq Trouble
  BY <1>1, <1>3 DEF SmsgInv, TypesInv, Globals, KeptInv, Off, Joining, Trouble
<1>8. QuietNet /\ FlagsOK(smsgData')
  BY <1>1, LinksLeftAlone DEF Links, FlagsOK
<1>9. \A q \in Node : fSecMsgEnabled'[q] => fSecMsgEnabled[q]
  BY <1>3
<1> QED BY <1>1, <1>6, <1>7, <1>8, <1>9, ThreadsStep

(* The thread of the buckets ends.                                           *)
LEMMA SmsgStopsKeeps ==
  ASSUME SmsgInv, NEW n \in Node, SmsgStops(n)
  PROVE  SmsgInv'
<1>1. /\ smsg' = [smsg EXCEPT ![n] = "ended"]
      /\ UNCHANGED <<fSecMsgEnabled, disabling, bucket, file, queue, pow, ignored, work,
                     scanning, holds, linkVars, sent, expired, troubles, gone, lost,
                     released>>
  BY DEF SmsgStops, workVars
<1>2. Threads'
  BY <1>1 DEF SmsgInv, TypesInv, Threads, Smsg
<1>3. Off' /\ troubles' \subseteq Trouble
  BY <1>1 DEF SmsgInv, TypesInv, Globals, KeptInv, Off, Joining
<1>4. QuietNet /\ FlagsOK(smsgData')
  BY <1>1, LinksLeftAlone DEF Links, FlagsOK
<1> QED BY <1>1, <1>2, <1>3, <1>4, ThreadsStep

(* The thread that stops leaves its message in the queue.                    *)
LEMMA PowStopsKeeps ==
  ASSUME SmsgInv, NEW n \in Node, PowStops(n)
  PROVE  SmsgInv'
<1> DEFINE x == PowAt("ended", {})
<1>1. /\ pow[n].at \in {"idle", "hash"} /\ pow' = [pow EXCEPT ![n] = x]
      /\ UNCHANGED <<fSecMsgEnabled, disabling, bucket, file, smsgVars, workVars, linkVars,
                     sent, expired, troubles, gone, lost, released>>
  BY DEF PowStops
<1>2. queue' = queue
  <2>1. queue' = [queue EXCEPT ![n] = queue[n]]
    BY DEF PowStops, LeaveInQueue
  <2> QED BY <2>1 DEF SmsgInv, TypesInv, Stock
<1>3. x \in PowRecord /\ x.at = "ended" /\ x.rest = {}
  BY PowRecords
<1> HIDE DEF x
<1>4. x.rest \subseteq Mine(n)
  BY <1>3
<1> QED BY <1>1, <1>2, <1>3, <1>4, PowMoves

-----------------------------------------------------------------------------
(* smsgdisable and smsgenable, lost connections and crashes.                 *)

(* All that a node sends is replaced.                                        *)
LEMMA QuietNode ==
  ASSUME Links, NEW n \in Node, NEW d, d = [p \in Peers[n] |-> d[p]],
         \A p \in Peers[n] : Quieter(net[n][p], d[p]),
         net' = [net EXCEPT ![n] = d]
  PROVE  QuietNet
<1>1. LinkShape(net')
  BY DEF Links, LinkShape
<1>2. \A p \in Peers[n] : net'[n][p] = d[p]
  BY DEF Links, LinkShape
<1>3. \A a \in Node : a # n => net'[a] = net[a]
  BY DEF Links, LinkShape
<1>4. \A a \in Node : \A p \in Peers[a] : Quieter(net[a][p], net[a][p])
  BY QuietQueues DEF Links
<1> QED BY <1>1, <1>2, <1>3, <1>4 DEF QuietNet

(* smsgdisable clears the buckets, with a lock if there is one, and tells    *)
(* the peers.                                                                *)
LEMMA DisableEndKeeps ==
  ASSUME SmsgInv, NEW n \in Node, DisableEnd(n)
  PROVE  SmsgInv'
<1> DEFINE x == [type |-> "smsgDisabled"]
           told == {p \in Peers[n] : smsgData[n][p].fEnabled}
           d == [p \in Peers[n] |-> IF p \in told THEN Append(net[n][p], x) ELSE net[n][p]]
           e == [p \in Peers[n] |-> [smsgData[n][p] EXCEPT !.fEnabled = FALSE]]
<1>1. /\ Joining(n) /\ pow[n].at = "ended"
      /\ disabling' = [disabling EXCEPT ![n] = "no"]
      /\ holds' = [holds EXCEPT ![n] = NoPeer]
      /\ bucket' = [bucket EXCEPT ![n] = NoBucket]
      /\ released' = (released \/ bucket[n].nLockCount > 0)
      /\ UNCHANGED <<fSecMsgEnabled, file, queue, pow, smsg, ignored, work, scanning, sent,
                     expired, troubles, gone, lost>>
  BY DEF DisableEnd, smsgVars
<1>2. net' = [net EXCEPT ![n] = d] /\ smsgData' = [smsgData EXCEPT ![n] = e]
  BY DEF DisableEnd
<1>3. fSecMsgEnabled[n] = FALSE
  BY <1>1 DEF SmsgInv, KeptInv, Off, TypesInv, Threads
<1>4. /\ bucket' \in [Node -> Bucket] /\ bucket'[n] = NoBucket
      /\ \A q \in Node : q # n => bucket'[q] = bucket[q]
  BY <1>1, StockParts, EmptyBucket
<1>5. /\ disabling' \in [Node -> Callers] /\ disabling'[n] = "no"
      /\ \A q \in Node : q # n => disabling'[q] = disabling[q]
      /\ holds' \in [Node -> Node \cup {NoPeer}]
      /\ \A q \in Node : holds'[q] \in Peers[q] \cup {NoPeer}
  BY <1>1 DEF SmsgInv, TypesInv, Threads, Callers
<1>6. Globals' /\ Threads'
  <2>1. released' \in BOOLEAN
    BY Zenon, <1>1
  <2> QED BY <1>1, <1>5, <2>1 DEF SmsgInv, TypesInv, Globals, Threads
<1>7. Stock'
  <2>1. \A q \in Node : bucket'[q].nLockPeer \in Peers[q] \cup {NoPeer}
    BY <1>4, EmptyBucket DEF SmsgInv, TypesInv, Stock
  <2> QED BY <1>1, <1>4, <2>1 DEF SmsgInv, TypesInv, Stock
<1>8. QuietNet
  <2>1. x \in Packet /\ x.type \notin Fetch
    BY Packets DEF Signals, Fetch
  <2>2. \A p \in Peers[n] : d[p] = net[n][p] \/ d[p] = Append(net[n][p], x)
    BY Zenon
  <2>3. d = [p \in Peers[n] |-> d[p]]
    BY Zenon
  <2> HIDE DEF x, d
  <2>4. \A p \in Peers[n] : Quieter(net[n][p], d[p])
    <3>1. \A p \in Peers[n] : net[n][p] \in Seq(Packet)
      BY SmsgInvLinks DEF Links
    <3>2. \A p \in Peers[n] : Quieter(net[n][p], net[n][p]) /\ Quieter(net[n][p], Append(net[n][p], x))
      BY <2>1, <3>1, QuietQueues
    <3> QED BY Zenon, <2>2, <3>2
  <2> QED BY <1>2, <2>3, <2>4, SmsgInvLinks, QuietNode
<1>9. Links'
  <2>1. e = [p \in Peers[n] |-> e[p]]
    BY Zenon
  <2>2. \A p \in Peers[n] : e[p] \in Flags
    <3>1. \A p \in Peers[n] : smsgData[n][p] \in Flags
      BY SmsgInvLinks DEF FlagsOK
    <3>2. \A p \in Peers[n] : [smsgData[n][p] EXCEPT !.fEnabled = FALSE] \in Flags
      BY Zenon, <3>1, FlagUpdate
    <3> QED BY Zenon, <3>2
  <2> HIDE DEF e
  <2>3. FlagsOK([smsgData EXCEPT ![n] = e])
    BY <2>1, <2>2, SmsgInvLinks, FlagsReplaced
  <2>4. FlagsOK(smsgData')
    BY Zenon, <1>2, <2>3
  <2> QED BY <1>8, <2>4, LinksParts
<1>10. Off' /\ Own'
  BY <1>1, <1>4, <1>5, EmptyBucket DEF SmsgInv, KeptInv, Off, Joining, Own, Mine
<1>11. BucketIsStored'
  BY <1>1, <1>3, <1>4 DEF SmsgInv, KeptInv, BucketIsStored
<1>12. QueuedOrStored'
  BY <1>1 DEF SmsgInv, KeptInv, QueuedOrStored, Kept
<1>13. OneFetch'
  <2>1. released => released'
    BY Zenon, <1>1
  <2>2. ASSUME NEW q \in Node, ~released' PROVE LockKept(q)
    <3>1. ~(bucket[n].nLockCount > 0)
      BY <1>1, <2>2
    <3> QED BY <1>4, <3>1, EmptyBucket DEF LockKept
  <2>3. \A q \in Node : work'[q].peer = work[q].peer
    BY <1>1
  <2>4. OneFetch /\ (expired => expired')
    BY <1>1 DEF SmsgInv
  <2> QED BY <1>8, <2>1, <2>2, <2>3, <2>4, QuietStep
<1> QED BY <1>6, <1>7, <1>9, <1>10, <1>11, <1>12, <1>13 DEF SmsgInv, TypesInv, KeptInv

(* SecureMsgEnable reads the bucket from its file again.                     *)
LEMMA SecureMsgEnableKeeps ==
  ASSUME SmsgInv, NEW n \in Node, SecureMsgEnable(n)
  PROVE  SmsgInv'
<1> DEFINE x == [type |-> "smsgPing"]
           y == [type |-> "smsgPong"]
           d == [p \in Peers[n] |-> net[n][p] \o <<x, y>>]
           e == [p \in Peers[n] |-> [smsgData[n][p] EXCEPT !.fUnsent = @ \/ file[n] # {}]]
           c == BuildBucketSet(n)
<1>1. /\ ~fSecMsgEnabled[n] /\ ~Joining(n)
      /\ troubles' = troubles \cup {"enable"}
      /\ fSecMsgEnabled' = [fSecMsgEnabled EXCEPT ![n] = TRUE]
      /\ bucket' = [bucket EXCEPT ![n] = c]
      /\ file' = IF expired THEN [file EXCEPT ![n] = {}] ELSE file
      /\ smsg' = [smsg EXCEPT ![n] = "run"]
      /\ pow' = [pow EXCEPT ![n] = PowAt("idle", {})]
      /\ UNCHANGED <<disabling, queue, ignored, work, scanning, holds, sent, expired, gone,
                     lost, released>>
  BY DEF SecureMsgEnable, Happens, SmsgFree, workVars
<1>2. net' = [net EXCEPT ![n] = d] /\ smsgData' = [smsgData EXCEPT ![n] = e]
  <2>1. net' = [net EXCEPT ![n] = d]
    BY DEF SecureMsgEnable
  <2>2. smsgData' = [smsgData EXCEPT ![n] = e]
    BY Zenon DEF SecureMsgEnable
  <2> QED BY <2>1, <2>2
<1>3. /\ c \in Bucket /\ c.nLockCount = 0 /\ c.nLockPeer = NoPeer /\ c.hash = c.setTokens
      /\ c.setTokens = IF expired THEN {} ELSE file[n]
  BY StockParts, ReadBucket
<1> HIDE DEF c
<1>4. /\ bucket' \in [Node -> Bucket] /\ bucket'[n] = c
      /\ \A q \in Node : q # n => bucket'[q] = bucket[q]
  BY <1>1, <1>3, StockParts
<1>5. /\ file' \in [Node -> SUBSET Msg] /\ file'[n] = c.setTokens
      /\ \A q \in Node : q # n => file'[q] = file[q]
      /\ ~expired => file' = file
  BY <1>1, <1>3, StockParts
<1>6. /\ fSecMsgEnabled' \in [Node -> BOOLEAN] /\ fSecMsgEnabled'[n] = TRUE
      /\ \A q \in Node : q # n => fSecMsgEnabled'[q] = fSecMsgEnabled[q]
      /\ smsg' \in [Node -> Smsg]
  BY <1>1 DEF SmsgInv, TypesInv, Threads, Smsg
<1>7. /\ pow' \in [Node -> PowRecord] /\ pow'[n].at = "idle" /\ pow'[n].rest = {}
      /\ \A q \in Node : q # n => pow'[q] = pow[q]
  <2> DEFINE z == PowAt("idle", {})
  <2>1. z \in PowRecord /\ z.at = "idle" /\ z.rest = {} /\ pow' = [pow EXCEPT ![n] = z]
    BY <1>1, PowRecords
  <2> HIDE DEF z
  <2> QED BY <2>1 DEF SmsgInv, TypesInv, Threads
<1>8. pow[n].at = "ended" /\ bucket[n].nLockCount = 0
  BY <1>1 DEF SmsgInv, KeptInv, Off
<1>9. Globals' /\ Threads'
  <2>1. troubles' \subseteq Trouble
    BY <1>1 DEF SmsgInv, TypesInv, Globals, Trouble
  <2> QED BY <1>1, <1>6, <1>7, <2>1 DEF SmsgInv, TypesInv, Globals, Threads
<1>10. Stock'
  <2>1. \A q \in Node : bucket'[q].nLockPeer \in Peers[q] \cup {NoPeer}
    BY <1>3, <1>4 DEF SmsgInv, TypesInv, Stock
  <2> QED BY <1>1, <1>4, <1>5, <2>1 DEF SmsgInv, TypesInv, Stock
<1>11. QuietNet
  <2>1. x \in Packet /\ x.type \notin Fetch /\ y \in Packet /\ y.type \notin Fetch
    BY Packets DEF Signals, Fetch
  <2>2. \A p \in Peers[n] : d[p] = net[n][p] \o <<x, y>>
    BY Zenon
  <2>3. d = [p \in Peers[n] |-> d[p]]
    BY Zenon
  <2> HIDE DEF x, y, d
  <2>4. \A p \in Peers[n] : Quieter(net[n][p], d[p])
    <3>1. \A p \in Peers[n] : net[n][p] \in Seq(Packet)
      BY SmsgInvLinks DEF Links
    <3>2. \A p \in Peers[n] : Quieter(net[n][p], net[n][p] \o <<x, y>>)
      BY Zenon, <2>1, <3>1, QuietQueues
    <3> QED BY Zenon, <2>2, <3>2
  <2> QED BY <1>2, <2>3, <2>4, SmsgInvLinks, QuietNode
<1>12. Links'
  <2>1. e = [p \in Peers[n] |-> e[p]]
    BY Zenon
  <2>2. \A p \in Peers[n] : e[p] \in Flags
    <3>1. \A p \in Peers[n] : smsgData[n][p] \in Flags
      BY SmsgInvLinks DEF FlagsOK
    <3>2. \A p \in Peers[n] : (smsgData[n][p].fUnsent \/ file[n] # {}) \in BOOLEAN
      BY Zenon
    <3>3. \A p \in Peers[n] :
            [smsgData[n][p] EXCEPT !.fUnsent = (smsgData[n][p].fUnsent \/ file[n] # {})] \in Flags
      BY Zenon, <3>1, <3>2, FlagUpdate
    <3> QED BY Zenon, <3>3
  <2> HIDE DEF e
  <2>3. FlagsOK([smsgData EXCEPT ![n] = e])
    BY <2>1, <2>2, SmsgInvLinks, FlagsReplaced
  <2>4. FlagsOK(smsgData')
    BY Zenon, <1>2, <2>3
  <2> QED BY <1>11, <2>4, LinksParts
<1>13. Off' /\ Own'
  BY <1>1, <1>4, <1>6, <1>7 DEF SmsgInv, KeptInv, Off, Joining, Own, Mine
<1>14. BucketIsStored'
  BY <1>1, <1>3, <1>4, <1>5, <1>6 DEF SmsgInv, KeptInv, BucketIsStored
<1>15. QueuedOrStored'
  <2>1. ASSUME ~expired, NEW m \in sent, Kept(m) PROVE Kept(m)'
    BY <1>1, <1>5, <1>7, <1>8, <2>1, StockParts DEF Kept
  <2> QED BY <1>1, <2>1, StaysKept
<1>16. OneFetch'
  <2>1. \A q \in Node : LockKept(q)
    BY <1>3, <1>4, <1>8 DEF LockKept
  <2> QED BY <1>1, <1>11, <2>1, FetchesLeftAlone
<1> QED BY <1>9, <1>10, <1>12, <1>13, <1>14, <1>15, <1>16 DEF SmsgInv, TypesInv, KeptInv

(* A lock whose peer is gone is for nobody.                                  *)
Orphaned(b, p) == [b EXCEPT !.nLockPeer = p]

(* Nothing but the peer of the lock is changed.                              *)
LEMMA OrphanedRecord ==
  ASSUME NEW b \in Bucket, NEW p \in Node \cup {NoPeer}
  PROVE  /\ Orphaned(b, p) \in Bucket
         /\ Orphaned(b, p).setTokens = b.setTokens /\ Orphaned(b, p).hash = b.hash
         /\ Orphaned(b, p).nLockCount = b.nLockCount /\ Orphaned(b, p).nLockPeer = p
<1>1. b = [setTokens |-> b.setTokens, hash |-> b.hash,
           nLockCount |-> b.nLockCount, nLockPeer |-> b.nLockPeer]
  BY DEF Bucket
<1>2. Orphaned(b, p) = [setTokens |-> b.setTokens, hash |-> b.hash,
                        nLockCount |-> b.nLockCount, nLockPeer |-> p]
  BY <1>1 DEF Orphaned
<1> QED BY <1>2 DEF Bucket

(* A lock changes to one for nobody, if at all.                              *)
LEMMA LockForPeers ==
  ASSUME SmsgInv, NEW q \in Node, NEW L
  PROVE  /\ LockFor(q, L) \in {bucket[q].nLockPeer, NoPeer}
         /\ LockFor(q, L) \in Node \cup {NoPeer} /\ LockFor(q, L) \in Peers[q] \cup {NoPeer}
<1>1. /\ bucket[q].nLockPeer \in Peers[q] \cup {NoPeer}
      /\ bucket[q].nLockPeer \in Node \cup {NoPeer}
  BY StockParts DEF SmsgInv, TypesInv, Stock, Bucket
<1> QED BY <1>1 DEF LockFor

(* The connections that are lost begin anew, with nothing on the way.        *)
LEMMA UnlinkedLinks ==
  ASSUME SmsgInv, NEW L, Unlinked(L)
  PROVE  /\ Links' /\ QuietNet
         /\ \A a \in Node : \A b \in Peers[a] : {a, b} \in L => net'[a][b] = <<>>
<1>1. LinkShape(net') /\ LinkShape(smsgData')
  BY DEF Unlinked, LinkShape
<1>2. ASSUME NEW a \in Node, NEW b \in Peers[a]
      PROVE  /\ net'[a][b] = IF {a, b} \in L THEN <<>> ELSE net[a][b]
             /\ smsgData'[a][b] = IF {a, b} \in L THEN NewSecMsgNode ELSE smsgData[a][b]
  BY DEF Unlinked
<1>3. NewSecMsgNode \in Flags
  BY DEF NewSecMsgNode, Flags
<1>4. \A a \in Node : \A b \in Peers[a] : net[a][b] \in Seq(Packet) /\ smsgData[a][b] \in Flags
  BY SmsgInvLinks DEF Links
<1>5. FlagsOK(smsgData')
  BY <1>1, <1>2, <1>3, <1>4 DEF FlagsOK
<1>6. QuietNet
  <2>1. \A a \in Node : \A b \in Peers[a] :
          Quieter(net[a][b], <<>>) /\ Quieter(net[a][b], net[a][b])
    BY <1>4, QuietQueues
  <2> QED BY <1>1, <1>2, <2>1 DEF QuietNet
<1> QED BY <1>2, <1>5, <1>6, LinksParts

(* So does the peer that is to be ignored.                                   *)
LEMMA IgnoredForPeers ==
  ASSUME SmsgInv, NEW q \in Node, NEW L
  PROVE  IgnoredFor(q, L) \in Node \cup {NoPeer} /\ IgnoredFor(q, L) \in Peers[q] \cup {NoPeer}
BY DEF SmsgInv, TypesInv, Threads, IgnoredFor

(* A connection is lost and made again.                                      *)
LEMMA ReconnectKeeps ==
  ASSUME SmsgInv, NEW n \in Node, NEW p \in Peers[n], Reconnect(n, p)
  PROVE  SmsgInv'
<1> DEFINE L == {{n, p}}
<1>1. /\ troubles' = troubles \cup {"cut"} /\ Unlinked(L)
      /\ bucket' = [q \in Node |-> Orphaned(bucket[q], LockFor(q, L))]
      /\ ignored' = [q \in Node |-> IgnoredFor(q, L)]
      /\ UNCHANGED <<fSecMsgEnabled, disabling, file, queue, pow, smsg, work, scanning, holds,
                     sent, expired, gone, lost, released>>
  BY DEF Reconnect, Happens, Orphaned, workVars
<1> HIDE DEF L
<1>2. ASSUME NEW q \in Node
      PROVE  /\ bucket'[q] \in Bucket /\ bucket'[q].setTokens = bucket[q].setTokens
             /\ bucket'[q].hash = bucket[q].hash
             /\ bucket'[q].nLockCount = bucket[q].nLockCount
             /\ bucket'[q].nLockPeer = LockFor(q, L)
  <2>1. bucket'[q] = Orphaned(bucket[q], LockFor(q, L))
    BY <1>1
  <2> QED BY <2>1, StockParts, LockForPeers, OrphanedRecord
<1>3. bucket' \in [Node -> Bucket]
  BY <1>1, <1>2
<1>4. Globals' /\ Threads'
  <2>1. troubles' \subseteq Trouble
    BY <1>1 DEF SmsgInv, TypesInv, Globals, Trouble
  <2>2. /\ ignored' \in [Node -> Node \cup {NoPeer}]
        /\ \A q \in Node : ignored'[q] \in Peers[q] \cup {NoPeer}
    BY <1>1, IgnoredForPeers
  <2> QED BY <1>1, <2>1, <2>2 DEF SmsgInv, TypesInv, Globals, Threads
<1>5. Stock'
  <2>1. \A q \in Node : bucket'[q].nLockPeer \in Peers[q] \cup {NoPeer}
    BY <1>2, LockForPeers
  <2> QED BY <1>1, <1>3, <2>1 DEF SmsgInv, TypesInv, Stock
<1>6. Links' /\ QuietNet
  BY <1>1, UnlinkedLinks
<1>7. Off' /\ Own' /\ BucketIsStored'
  BY <1>1, <1>2 DEF SmsgInv, KeptInv, Off, Joining, Own, Mine, BucketIsStored
<1>8. QueuedOrStored'
  BY <1>1 DEF SmsgInv, KeptInv, QueuedOrStored, Kept
<1>9. OneFetch'
  <2>1. \A q \in Node : LockKept(q)
    BY <1>2, LockForPeers DEF LockKept
  <2> QED BY <1>1, <1>6, <2>1, FetchesLeftAlone
<1> QED BY <1>4, <1>5, <1>6, <1>7, <1>8, <1>9 DEF SmsgInv, TypesInv, KeptInv

(* A crash takes the message that is in the thread's hands, and ends the     *)
(* node's fetch with its connections.                                        *)
LEMMA CrashKeeps ==
  ASSUME SmsgInv, NEW n \in Node, Crash(n)
  PROVE  SmsgInv'
<1> DEFINE L == {{n, p} : p \in Peers[n]}
           c == BuildBucketSet(n)
<1>1. /\ troubles' = troubles \cup {"crash"} /\ Unlinked(L)
      /\ fSecMsgEnabled' = [fSecMsgEnabled EXCEPT ![n] = TRUE]
      /\ disabling' = [disabling EXCEPT ![n] = "no"]
      /\ file' = IF expired THEN [file EXCEPT ![n] = {}] ELSE file
      /\ pow' = [pow EXCEPT ![n] = PowAt("idle", {})]
      /\ smsg' = [smsg EXCEPT ![n] = "run"]
      /\ ignored' = [q \in Node |-> IF q = n THEN NoPeer ELSE IgnoredFor(q, L)]
      /\ work' = [work EXCEPT ![n] = NoWork]
      /\ scanning' = [scanning EXCEPT ![n] = FALSE] /\ holds' = [holds EXCEPT ![n] = NoPeer]
      /\ gone' = IF pow[n].at = "store" THEN gone \cup {pow[n].m} ELSE gone
      /\ UNCHANGED <<queue, sent, expired, lost, released>>
  BY DEF Crash, Happens
<1>2. bucket' = [q \in Node |-> IF q = n THEN c ELSE Orphaned(bucket[q], LockFor(q, L))]
  BY DEF Crash, Orphaned
<1>3. /\ c \in Bucket /\ c.nLockCount = 0 /\ c.nLockPeer = NoPeer /\ c.hash = c.setTokens
      /\ c.setTokens = IF expired THEN {} ELSE file[n]
  BY StockParts, ReadBucket
<1>4. \A p \in Peers[n] : {n, p} \in L /\ {p, n} \in L
  OBVIOUS
<1> HIDE DEF L, c
<1>5. ASSUME NEW q \in Node, q # n
      PROVE  /\ bucket'[q] \in Bucket /\ bucket'[q].setTokens = bucket[q].setTokens
             /\ bucket'[q].hash = bucket[q].hash
             /\ bucket'[q].nLockCount = bucket[q].nLockCount
             /\ bucket'[q].nLockPeer = LockFor(q, L)
  <2>1. bucket'[q] = Orphaned(bucket[q], LockFor(q, L))
    BY <1>2, <1>5
  <2> QED BY <2>1, StockParts, LockForPeers, OrphanedRecord
<1>6. bucket'[n] = c
  BY <1>2
<1>7. bucket' \in [Node -> Bucket]
  <2>1. \A q \in Node : bucket'[q] \in Bucket
    BY <1>3, <1>5, <1>6
  <2> QED BY <1>2, <2>1
<1>8. /\ file' \in [Node -> SUBSET Msg] /\ file'[n] = c.setTokens
      /\ \A q \in Node : q # n => file'[q] = file[q]
      /\ ~expired => file' = file
  BY <1>1, <1>3, StockParts
<1>9. /\ fSecMsgEnabled' \in [Node -> BOOLEAN] /\ disabling' \in [Node -> Callers]
      /\ fSecMsgEnabled'[n] = TRUE /\ disabling'[n] = "no"
      /\ \A q \in Node : q # n => /\ fSecMsgEnabled'[q] = fSecMsgEnabled[q]
                                  /\ disabling'[q] = disabling[q]
      /\ smsg' \in [Node -> Smsg] /\ scanning' \in [Node -> BOOLEAN]
  BY <1>1 DEF SmsgInv, TypesInv, Threads, Callers, Smsg
<1>10. /\ pow' \in [Node -> PowRecord] /\ pow'[n].at = "idle" /\ pow'[n].rest = {}
       /\ \A q \in Node : q # n => pow'[q] = pow[q]
  <2> DEFINE z == PowAt("idle", {})
  <2>1. z \in PowRecord /\ z.at = "idle" /\ z.rest = {} /\ pow' = [pow EXCEPT ![n] = z]
    BY <1>1, PowRecords
  <2> HIDE DEF z
  <2> QED BY <2>1 DEF SmsgInv, TypesInv, Threads
<1>11. /\ work' \in [Node -> Work] /\ work'[n] = NoWork
       /\ \A q \in Node : q # n => work'[q] = work[q]
  BY <1>1, Working, EmptyBucket DEF Work
<1>12. Globals'
  <2>1. gone' \subseteq Msg
    BY <1>1, PowParts DEF SmsgInv, TypesInv, Globals
  <2>2. troubles' \subseteq Trouble
    BY <1>1 DEF SmsgInv, TypesInv, Globals, Trouble
  <2> QED BY <1>1, <2>1, <2>2 DEF SmsgInv, TypesInv, Globals
<1>13. Threads'
  <2>1. /\ ignored' \in [Node -> Node \cup {NoPeer}]
        /\ \A q \in Node : ignored'[q] \in Peers[q] \cup {NoPeer}
    BY <1>1, IgnoredForPeers
  <2>2. /\ holds' \in [Node -> Node \cup {NoPeer}]
        /\ \A q \in Node : holds'[q] \in Peers[q] \cup {NoPeer}
    BY <1>1 DEF SmsgInv, TypesInv, Threads
  <2> QED BY <1>9, <1>10, <2>1, <2>2 DEF Threads
<1>14. Stock'
  <2>1. \A q \in Node : bucket'[q].nLockPeer \in Peers[q] \cup {NoPeer}
    BY <1>3, <1>5, <1>6, LockForPeers
  <2>2. \A q \in Node : /\ work'[q].peer \in Peers[q] \cup {NoPeer}
                        /\ work'[q].peer = NoPeer => work'[q].msgs = {}
    BY <1>11, EmptyBucket DEF SmsgInv, TypesInv, Stock
  <2> QED BY <1>1, <1>7, <1>8, <1>11, <2>1, <2>2 DEF SmsgInv, TypesInv, Stock, Work
<1>15. /\ Links' /\ QuietNet
       /\ \A a \in Node : \A b \in Peers[a] : {a, b} \in L => net'[a][b] = <<>>
  BY <1>1, UnlinkedLinks
<1>16. Off' /\ Own'
  BY <1>1, <1>5, <1>9, <1>10 DEF SmsgInv, KeptInv, Off, Joining, Own, Mine
<1>17. BucketIsStored'
  <2>1. bucket'[n].setTokens = file'[n] /\ bucket'[n].hash = bucket'[n].setTokens
    BY <1>3, <1>6, <1>8
  <2>2. ASSUME NEW q \in Node, q # n, fSecMsgEnabled'[q]
        PROVE  /\ bucket'[q].setTokens = file'[q]
               /\ work'[q] = NoWork => bucket'[q].hash = bucket'[q].setTokens
    BY <1>5, <1>8, <1>9, <1>11, <2>2 DEF SmsgInv, KeptInv, BucketIsStored
  <2> QED BY <2>1, <2>2 DEF BucketIsStored
<1>18. QueuedOrStored'
  <2>1. ASSUME ~expired, NEW x \in sent, Kept(x) PROVE Kept(x)'
    <3>1. From[x] = n /\ pow[n].at = "store" /\ pow[n].m = x => x \in gone'
      BY <1>1
    <3>2. gone \subseteq gone' /\ queue' = queue /\ file' = file
      BY <1>1, <1>8, <2>1
    <3> QED BY <1>10, <2>1, <3>1, <3>2, StockParts DEF Kept
  <2> QED BY <1>1, <2>1, StaysKept
<1>19. ASSUME NEW q \in Node, q # n, FetchOK(q) PROVE FetchOK(q)'
  <2>1. LinksQuiet(q)
    BY <1>15, QuietLinks
  <2>2. LockKept(q) /\ work'[q].peer = work[q].peer
    BY <1>5, <1>11, <1>19, LockForPeers DEF LockKept
  <2> QED BY <1>19, <2>1, <2>2, FetchKept
<1>20. FetchOK(n)'
  <2>1. ASSUME NEW p \in Peers[n] PROVE ~FetchAt(n, p)'
    <3>1. p \in Node /\ n \in Peers[p] /\ p # NoPeer
      BY Ends
    <3>2. net'[n][p] = <<>> /\ net'[p][n] = <<>>
      BY <1>4, <1>15, <3>1
    <3>3. work'[n].peer # p
      BY <1>11, <3>1, EmptyBucket
    <3> QED BY <3>2, <3>3, ShortQueues DEF FetchAt
  <2> QED BY <2>1, FetchOver
<1>21. OneFetch'
  BY <1>1, <1>19, <1>20 DEF SmsgInv, OneFetch
<1> QED BY <1>12, <1>13, <1>14, <1>15, <1>16, <1>17, <1>18, <1>21
        DEF SmsgInv, TypesInv, KeptInv

-----------------------------------------------------------------------------
(* The first state: each node has its old messages, in memory and on disk.   *)
LEMMA SmsgInit == Init => SmsgInv
<1> SUFFICES ASSUME Init PROVE SmsgInv
  OBVIOUS
<1> DEFINE b(n) == [NoBucket EXCEPT !.setTokens = file[n], !.hash = file[n]]
<1>1. file = [n \in Node |-> {m \in Old : From[m] = n}] /\ bucket = [n \in Node |-> b(n)]
  BY DEF Init
<1>2. file \in [Node -> SUBSET Msg]
  BY <1>1, SecureMessagesAssumption
<1>3. ASSUME NEW n \in Node
      PROVE  b(n) = [setTokens |-> file[n], hash |-> file[n], nLockCount |-> 0, nLockPeer |-> NoPeer]
  <2> DEFINE u == [NoBucket EXCEPT !.setTokens = file[n]]
  <2>1. b(n) = [u EXCEPT !.hash = file[n]]
    BY Zenon
  <2>2. u = [setTokens |-> file[n], hash |-> {}, nLockCount |-> 0, nLockPeer |-> NoPeer]
    BY DEF NoBucket
  <2> HIDE DEF u
  <2>3. [u EXCEPT !.hash = file[n]] =
          [setTokens |-> file[n], hash |-> file[n], nLockCount |-> 0, nLockPeer |-> NoPeer]
    BY <2>2
  <2> QED BY <2>1, <2>3
<1>4. ASSUME NEW n \in Node
      PROVE  /\ b(n) \in Bucket /\ b(n).setTokens = file[n] /\ b(n).hash = file[n]
             /\ b(n).nLockPeer = NoPeer
  <2> HIDE DEF b
  <2>1. file[n] \in SUBSET Msg /\ 0 \in 0..LockCount
    BY <1>2, SecureMessagesAssumption
  <2> QED BY <1>3, <2>1 DEF Bucket
<1> HIDE DEF b
<1>5. Globals
  <2>1. sent = Old /\ gone = {} /\ troubles = {}
    BY DEF Init
  <2>3. sent \subseteq Msg /\ gone \subseteq Msg /\ troubles \subseteq Trouble
    BY <2>1, SecureMessagesAssumption
  <2>2. expired \in BOOLEAN /\ lost \in BOOLEAN /\ released \in BOOLEAN
    BY DEF Init
  <2> QED BY <2>2, <2>3 DEF Globals
<1>6. Threads
  <2>1. pow = [n \in Node |-> PowAt("idle", {})]
    BY DEF Init
  <2>2. pow \in [Node -> PowRecord]
    BY <2>1, PowRecords
  <2> QED BY <2>2 DEF Init, Threads, Callers, Smsg
<1>14. Own
  <2>1. PowAt("idle", {}).at = "idle" /\ PowAt("idle", {}).rest = {}
    BY PowRecords
  <2> QED BY <2>1 DEF Init, Own
<1>7. work \in [Node -> Work] /\ \A n \in Node : work[n] = NoWork
  BY EmptyBucket DEF Init, Work
<1>8. Stock
  <2>1. queue \in [Node -> SUBSET Msg]
    BY DEF Init
  <2>2. bucket \in [Node -> Bucket] /\ \A n \in Node : bucket[n].nLockPeer \in Peers[n] \cup {NoPeer}
    BY <1>1, <1>4
  <2>3. \A n \in Node : /\ work[n].peer \in Peers[n] \cup {NoPeer}
                        /\ work[n].peer = NoPeer => work[n].msgs = {}
    BY <1>7, EmptyBucket
  <2> QED BY <1>2, <1>7, <2>1, <2>2, <2>3 DEF Stock, Work
<1>9. Links /\ \A a \in Node : \A c \in Peers[a] : net[a][c] = <<>>
  <2> DEFINE x == [fSeen |-> TRUE, fEnabled |-> TRUE, fIgnore |-> FALSE, fUnsent |-> TRUE]
  <2>1. x \in Flags
    BY DEF Flags
  <2>2. smsgData = [n \in Node |-> [p \in Peers[n] |-> x]]
    BY Zenon DEF Init
  <2>3. net = [n \in Node |-> [p \in Peers[n] |-> <<>>]]
    BY DEF Init
  <2> HIDE DEF x
  <2>4. LinkShape(smsgData) /\ LinkShape(net)
    BY <2>2, <2>3 DEF LinkShape
  <2>5. \A a \in Node : \A c \in Peers[a] : smsgData[a][c] \in Flags /\ net[a][c] = <<>>
    BY <2>1, <2>2, <2>3
  <2>6. \A a \in Node : \A c \in Peers[a] : net[a][c] \in Seq(Packet)
    <3>1. <<>> \in Seq(Packet)
      BY ShortQueues
    <3> QED BY <2>5, <3>1
  <2> QED BY <2>4, <2>5, <2>6 DEF Links
<1>10. Off
  BY DEF Init, Off, Joining
<1>11. BucketIsStored
  BY <1>1, <1>4 DEF BucketIsStored
<1>12. QueuedOrStored
  <2>1. ASSUME NEW m \in sent PROVE m \in file[From[m]]
    <3>1. m \in Old /\ From[m] \in Node
      BY SecureMessagesAssumption DEF Init
    <3> QED BY <1>1, <3>1
  <2> QED BY <2>1 DEF QueuedOrStored, Kept
<1>13. OneFetch
  <2>1. ASSUME NEW n \in Node, NEW p \in Peers[n] PROVE ~FetchAt(n, p)
    <3>1. p \in Node /\ n \in Peers[p] /\ p # NoPeer
      BY Ends
    <3>2. net[n][p] = <<>> /\ net[p][n] = <<>> /\ work[n].peer # p
      BY <1>7, <1>9, <3>1, EmptyBucket
    <3> QED BY <3>2, ShortQueues DEF FetchAt
  <2>2. ASSUME NEW n \in Node, NEW p \in Peers[n] PROVE OnePlace(n, p)
    BY <2>1 DEF FetchAt, OnePlace, One, Some
  <2> QED BY <2>1, <2>2 DEF OneFetch, FetchOK, Covered, OnePeer
<1> QED BY <1>5, <1>6, <1>8, <1>9, <1>10, <1>11, <1>12, <1>13, <1>14
        DEF SmsgInv, TypesInv, KeptInv

(* Every step keeps the invariant.                                           *)
LEMMA SmsgStep == SmsgInv /\ [Next]_vars => SmsgInv'
<1> SUFFICES ASSUME SmsgInv, [Next]_vars PROVE SmsgInv'
  OBVIOUS
<1>1. CASE UNCHANGED vars
  <2>1. /\ UNCHANGED <<nodeVars, sent, expired, troubles, gone, released>>
        /\ lost' = lost /\ UNCHANGED linkVars
    BY <1>1 DEF vars
  <2>2. FlagsOK(smsgData') /\ QuietNet
    BY <2>1, LinksLeftAlone DEF Links, FlagsOK
  <2>3. lost' \in BOOLEAN
    BY <2>1 DEF SmsgInv, TypesInv, Globals
  <2> QED BY <2>1, <2>2, <2>3, LinkStep
<1>2. CASE Expire
  BY <1>2, ExpireKeeps
<1>3. ASSUME NEW n \in Node, NEW m \in Msg, SecureMsgSend(n, m) PROVE SmsgInv'
  BY <1>3, SecureMsgSendKeeps
<1>4. ASSUME NEW n \in Node, Pow(n) PROVE SmsgInv'
  BY <1>4, PowReadKeeps, PowEraseKeeps, PowStoreKeeps, PowScanKeeps DEF Pow
<1>9. ASSUME NEW n \in Node, Stores(n) PROVE SmsgInv'
  BY <1>9, StoreNextKeeps, ScanNextKeeps, ReceiveEndKeeps DEF Stores
<1>5. ASSUME NEW n \in Node, Buckets(n) PROVE SmsgInv'
  BY <1>5, PurgeKeeps, TickKeeps, IgnoreKeeps DEF Buckets
<1>6. ASSUME NEW n \in Node,
             \/ DisableAsk(n) \/ DisableBegin(n, "gui") \/ Disables(n) \/ PowStops(n)
             \/ SecureMsgEnable(n) \/ Crash(n)
      PROVE  SmsgInv'
  BY <1>6, DisableAskKeeps, DisableBeginKeeps, SmsgStopsKeeps, PowStopsKeeps, DisableEndKeeps,
     SecureMsgEnableKeeps, CrashKeeps DEF Disables
<1>7. ASSUME NEW n \in Node, NEW p \in Peers[n], Receive(n, p) PROVE SmsgInv'
  BY <1>7, ReceivePingKeeps, ReceivePongKeeps, ReceiveDisabledKeeps, ReceiveIgnoreKeeps,
     ReceiveInvKeeps, ReceiveShowKeeps, ReceiveHaveKeeps, ReceiveWantKeeps, ReceiveMsgKeeps,
     DropMessageKeeps DEF Receive
<1>8. ASSUME NEW n \in Node, NEW p \in Peers[n],
             SecureMsgSendData(n, p) \/ IgnoreEnds(n, p) \/ Reconnect(n, p)
      PROVE  SmsgInv'
  BY <1>8, SendPingKeeps, SendInvKeeps, IgnoreEndsKeeps, ReconnectKeeps DEF SecureMsgSendData
<1> QED BY <1>1, <1>2, <1>3, <1>4, <1>5, <1>6, <1>7, <1>8, <1>9 DEF Next

(* What the invariant says in the words of the runs' property.               *)
LEMMA SmsgInvKeeps == SmsgInv => MessagesKept
<1> SUFFICES ASSUME SmsgInv PROVE MessagesKept
  OBVIOUS
<1>1. SmsgTypeOK
  <2>1. sent \subseteq Msg /\ troubles \subseteq Trouble /\ gone \subseteq Msg
        /\ {expired, lost, released} \subseteq BOOLEAN
    BY DEF SmsgInv, TypesInv, Globals
  <2>2. ASSUME NEW n \in Node
        PROVE  /\ fSecMsgEnabled[n] \in BOOLEAN /\ scanning[n] \in BOOLEAN
               /\ disabling[n] \in {"no", "asked", "rpc", "gui"}
               /\ pow[n].at \in {"idle", "hash", "store", "scan", "ended"}
               /\ pow[n].rest \subseteq Msg
               /\ smsg[n] \in {"run", "ignore", "blocked", "ended"}
               /\ {ignored[n], holds[n]} \subseteq Peers[n] \cup {NoPeer}
    BY DEF SmsgInv, TypesInv, Threads, Callers, Smsg, PowRecord
  <2>3. ASSUME NEW n \in Node
        PROVE  bucket[n] \in [setTokens : SUBSET Msg, hash : SUBSET Msg,
                              nLockCount : 0..LockCount, nLockPeer : Peers[n] \cup {NoPeer}]
    BY DEF SmsgInv, TypesInv, Stock, Bucket
  <2>4. ASSUME NEW n \in Node
        PROVE  /\ file[n] \subseteq Msg /\ queue[n] \subseteq Msg
               /\ work[n].peer \in Peers[n] \cup {NoPeer} /\ work[n].msgs \subseteq Msg
    BY DEF SmsgInv, TypesInv, Stock
  <2>5. ASSUME NEW n \in Node, NEW p \in Peers[n]
        PROVE  smsgData[n][p] \in [fSeen : BOOLEAN, fEnabled : BOOLEAN,
                                   fIgnore : BOOLEAN, fUnsent : BOOLEAN]
    BY DEF SmsgInv, TypesInv, Links, Flags
  <2> QED BY Zenon, <2>1, <2>2, <2>3, <2>4, <2>5 DEF SmsgTypeOK
<1>2. LockCoversFetch
  <2>1. ASSUME NEW n \in Node, NEW p \in Peers[n], Fetches(n, p) PROVE FetchAt(n, p)
    BY <2>1 DEF Fetches, FetchAt, Some
  <2> QED BY <2>1 DEF LockCoversFetch, SmsgInv, OneFetch, FetchOK, Covered
<1> QED BY <1>1, <1>2 DEF MessagesKept, SmsgInv, KeptInv

(* Whatever crashes, lost connections, time-outs and uses of smsgdisable     *)
(* come between the steps of the threads and the messages of the peers: what *)
(* a node offers is what its file holds; of the messages written with one    *)
(* key of the send queue, one at least is in the queue, in the hands of the  *)
(* proof-of-work thread or in the file until its bucket expires or a crash   *)
(* takes it between EraseSmesg and SecureMsgStore; and while a node waits    *)
(* for messages of a peer its bucket is locked for that peer, until a lock   *)
(* was given up before its answer came.                                      *)
THEOREM MessagesAlwaysKept == Spec => []MessagesKept
<1>1. Init => SmsgInv
  BY SmsgInit
<1>2. SmsgInv /\ [Next]_vars => SmsgInv'
  BY SmsgStep
<1>3. SmsgInv => MessagesKept
  BY SmsgInvKeeps
<1> QED BY <1>1, <1>2, <1>3, PTL DEF Spec

(* The comment on nLockCount asks for more than the run's property: until a  *)
(* lock was given up, a node fetches from one peer at a time, and there is   *)
(* one smsgWant, smsgMsg or batch in SecureMsgReceive for it in all.         *)
THEOREM OneFetchAtATime == Spec => []OneFetch
<1>1. Init => SmsgInv
  BY SmsgInit
<1>2. SmsgInv /\ [Next]_vars => SmsgInv'
  BY SmsgStep
<1>3. SmsgInv => OneFetch
  BY DEF SmsgInv
<1> QED BY <1>1, <1>2, <1>3, PTL DEF Spec
=============================================================================
