------------------------------ MODULE AddrMan ------------------------------
(***************************************************************************)
(* The address manager of addrman.cpp: CAddrMan keeps the addresses of     *)
(* peers in "new" and "tried" buckets and in three indexes over them.      *)
(*                                                                         *)
(* Every public operation holds cs from beginning to end, so each is one   *)
(* step.  Of an entry's times only nLastSuccess is kept.  nTime, nLastTry  *)
(* and nAttempts are read by IsTerrible and by the choice of the oldest of *)
(* four entries drawn at random, and these two together may pick any entry *)
(* of a bucket; so Attempt_ and Connected_, which write nothing else, are  *)
(* no steps here, nor is Select_, which only reads.                        *)
(***************************************************************************)
EXTENDS Integers, FiniteSets, Functions, SequencesExt

CONSTANTS
  Addr,                  \* network addresses
  Source,                \* peers that tell of addresses
  NewBuckets,            \* how many "new" buckets there are
  TriedBuckets,          \* how many "tried" buckets there are
  GetNewBucket,          \* bucket of an address as heard from a source
  GetTriedBucket,        \* bucket of an address
  NewBucketSize,         \* ADDRMAN_NEW_BUCKET_SIZE
  TriedBucketSize,       \* ADDRMAN_TRIED_BUCKET_SIZE
  NewBucketsPerAddress,  \* ADDRMAN_NEW_BUCKETS_PER_ADDRESS
  InspectOnEvict,        \* ADDRMAN_TRIED_ENTRIES_INSPECT_ON_EVICT
  GetAddrMaxPct,         \* ADDRMAN_GETADDR_MAX_PCT
  GetAddrMax,            \* ADDRMAN_GETADDR_MAX
  MaxTime,               \* bound on the clock
  MaxId                  \* bound on nIdCount between two restarts

NewBucket == 0 .. NewBuckets - 1
TriedBucket == 0 .. TriedBuckets - 1

ASSUME AddrManAssumption ==
  /\ {NewBuckets, TriedBuckets} \subseteq Nat
  /\ GetNewBucket \in [Addr \X Source -> NewBucket]
  /\ GetTriedBucket \in [Addr -> TriedBucket]
  /\ {NewBucketSize, TriedBucketSize, NewBucketsPerAddress, InspectOnEvict}
       \subseteq Nat \ {0}
  /\ {GetAddrMaxPct, GetAddrMax, MaxTime, MaxId} \subseteq Nat

VARIABLE am   \* the members of the CAddrMan object

(* An entry as Create makes it.                                            *)
NewInfo(a, s, nRandomPos) ==
  [addr |-> a, source |-> s, nLastSuccess |-> 0, nRefCount |-> 0, fInTried |-> FALSE,
   nRandomPos |-> nRandomPos]

(* CAddrMan::CAddrMan.                                                     *)
EmptyAddrMan ==
  [nIdCount |-> 0, mapInfo |-> <<>>, mapAddr |-> <<>>, vRandom |-> <<>>,
   nTried |-> 0, vvTried |-> [b \in TriedBucket |-> <<>>],
   nNew |-> 0, vvNew |-> [b \in NewBucket |-> {}]]

(* The elements of a function with k, or without it.                       *)
Put(f, k, v) == [x \in DOMAIN f \cup {k} |-> IF x = k THEN v ELSE f[x]]
Erase(f, k) == Restrict(f, DOMAIN f \ {k})

-----------------------------------------------------------------------------
(* The helpers of CAddrMan, from one content m of the object to the next.  *)
(* Positions in vRandom and in a tried bucket count from 1.                *)

Create(m, a, s) ==
  [m EXCEPT !.nIdCount = @ + 1,
            !.mapInfo  = Put(@, m.nIdCount, NewInfo(a, s, Len(m.vRandom) + 1)),
            !.mapAddr  = Put(@, a, m.nIdCount),
            !.vRandom  = Append(@, m.nIdCount)]

(* Mutant of SwapRandom: one of the two entries is not told its position.  *)
SwapRandomOneWay(m, i, j) ==
  [m EXCEPT !.mapInfo[m.vRandom[i]].nRandomPos = j,
            !.vRandom[i] = m.vRandom[j],
            !.vRandom[j] = m.vRandom[i]]

SwapRandom(m, i, j) ==
  [m EXCEPT !.mapInfo[m.vRandom[j]].nRandomPos = i,
            !.mapInfo[m.vRandom[i]].nRandomPos = j,
            !.vRandom[i] = m.vRandom[j],
            !.vRandom[j] = m.vRandom[i]]

(* An entry with no reference left is deleted: it leaves vRandom from the  *)
(* end, after it has changed places with the last one.                     *)
Delete(m, id) ==
  LET w == SwapRandom(m, m.mapInfo[id].nRandomPos, Len(m.vRandom)) IN
    [w EXCEPT !.vRandom = Front(@),
              !.mapAddr = Erase(@, m.mapInfo[id].addr),
              !.mapInfo = Erase(@, id),
              !.nNew = @ - 1]

(* ShrinkNew, once it has chosen entry id of bucket b.                     *)
ShrinkNew(m, b, id) ==
  LET w == [m EXCEPT !.mapInfo[id].nRefCount = @ - 1,
                     !.vvNew[b] = @ \ {id}]
  IN IF w.mapInfo[id].nRefCount = 0 THEN Delete(w, id) ELSE w

(* A round of SelectTried: the i-th entry changes places with the one at   *)
(* nPos; nOldestPos is where that one was, if it is the oldest so far.     *)
SelectRound(m, st, i, nPos) ==
  LET v == [st.v EXCEPT ![nPos] = st.v[i], ![i] = st.v[nPos]] IN
    IF st.nOldest = -1
         \/ m.mapInfo[v[i]].nLastSuccess < m.mapInfo[st.nOldest].nLastSuccess
    THEN [v |-> v, nOldest |-> v[i], nOldestPos |-> nPos]
    ELSE [st EXCEPT !.v = v]

(* Its rounds with the random positions draw.                              *)
SelectingTried(m, b, draw) ==
  LET after[i \in 0 .. Len(draw)] ==
        IF i = 0 THEN [v |-> m.vvTried[b], nOldest |-> -1, nOldestPos |-> -1]
        ELSE SelectRound(m, after[i - 1], i, draw[i])
  IN  after

SelectTried(m, b, draw) == SelectingTried(m, b, draw)[Len(draw)]

(* The random positions that SelectTried may draw in a bucket of n.        *)
Draws(n) ==
  {d \in [1 .. (IF n < InspectOnEvict THEN n ELSE InspectOnEvict) -> 1 .. n] :
     \A i \in DOMAIN d : d[i] >= i}

(* The entry old moves back from "tried" to the "new" bucket it came from  *)
(* or, if that one is full, to the one that entry id has just left.        *)
Evict(m, id, old, nOrigin) ==
  LET nUBucket == GetNewBucket[<<m.mapInfo[old].addr, m.mapInfo[old].source>>]
      to == IF Cardinality(m.vvNew[nUBucket]) < NewBucketSize
            THEN nUBucket ELSE nOrigin
  IN [m EXCEPT !.mapInfo[old].fInTried = FALSE,
               !.mapInfo[old].nRefCount = 1,
               !.vvNew[to] = @ \cup {old},
               !.nNew = @ + 1]

(* MakeTried, with the draw of its SelectTried.                            *)
MakeTried(m, id, nOrigin, draw) ==
  LET held == {b \in NewBucket : id \in m.vvNew[b]}
      b == GetTriedBucket[m.mapInfo[id].addr]
      left == [m EXCEPT !.mapInfo[id].nRefCount = @ - Cardinality(held),
                        !.mapInfo[id].fInTried = TRUE,
                        !.vvNew = [n \in NewBucket |-> @[n] \ {id}],
                        !.nNew = @ - 1]
      sel == SelectTried(left, b, draw)
  IN IF Len(m.vvTried[b]) < TriedBucketSize
     THEN [left EXCEPT !.vvTried[b] = Append(@, id), !.nTried = @ + 1]
     ELSE [Evict(left, id, sel.v[sel.nOldestPos], nOrigin)
             EXCEPT !.vvTried[b] = [sel.v EXCEPT ![sel.nOldestPos] = id]]

-----------------------------------------------------------------------------
(* The operations.                                                         *)

(* Add_ from the choice of a bucket on.                                    *)
AddToBucket(m, id, a, s) ==
  LET b == GetNewBucket[<<a, s>>]
      w == [m EXCEPT !.mapInfo[id].nRefCount = @ + 1]
  IN IF id \in m.vvNew[b] THEN am' = m
     ELSE IF Cardinality(m.vvNew[b]) # NewBucketSize
     THEN am' = [w EXCEPT !.vvNew[b] = @ \cup {id}]
     ELSE \E victim \in m.vvNew[b] :
            am' = [ShrinkNew(w, b, victim) EXCEPT !.vvNew[b] = @ \cup {id}]

(* Add_ of an address that is not known yet.                               *)
AddNew(a, s) ==
  /\ a \notin DOMAIN am.mapAddr
  /\ am.nIdCount < MaxId
  /\ AddToBucket([Create(am, a, s) EXCEPT !.nNew = @ + 1], am.nIdCount, a, s)

(* Add_ of a known address with newer information, when the stochastic     *)
(* test lets it into one more bucket.                                      *)
AddKnown(a, s) ==
  /\ a \in DOMAIN am.mapAddr
  /\ LET id == am.mapAddr[a] IN
       /\ ~am.mapInfo[id].fInTried
       /\ am.mapInfo[id].nRefCount # NewBucketsPerAddress
       /\ AddToBucket(am, id, a, s)

(* Good_: a connection to the address has been made at time nTime.         *)
Good(a, nTime) ==
  /\ a \in DOMAIN am.mapAddr
  /\ LET id == am.mapAddr[a]
         m == [am EXCEPT !.mapInfo[id].nLastSuccess = nTime]
     IN \/ am.mapInfo[id].fInTried /\ am' = m
        \/ /\ ~am.mapInfo[id].fInTried
           /\ \E nUBucket \in NewBucket :
                /\ id \in m.vvNew[nUBucket]
                /\ \E draw \in Draws(Len(m.vvTried[GetTriedBucket[a]])) :
                     am' = MakeTried(m, id, nUBucket, draw)

(* GetAddr_ shuffles the first entries of vRandom.  A step is one round of *)
(* its loop: an entry may change places with itself, so that one round, or *)
(* any sequence of them, is also what the whole loop can do.               *)
GetAddr(n, nRndPos) ==
  /\ n <= (GetAddrMaxPct * Len(am.vRandom)) \div 100
  /\ n <= GetAddrMax
  /\ n < nRndPos
  /\ nRndPos <= Len(am.vRandom)
  /\ am' = SwapRandom(am, n, nRndPos)

-----------------------------------------------------------------------------
(* peers.dat.                                                              *)

(* The entries of ids in the order of mapInfo, up to the n that the header *)
(* of the file counts.                                                     *)
Writing(m, ids, n) ==
  LET after[k \in 0 .. m.nIdCount] ==
        IF k = 0 THEN <<>>
        ELSE IF k - 1 \in ids /\ Len(after[k - 1]) # n THEN Append(after[k - 1], k - 1)
        ELSE after[k - 1]
  IN  after

Written(m, ids, n) == Writing(m, ids, n)[m.nIdCount]

(* Mutant of Serialize: every entry counts in mapUnkIds.                   *)
SerializeCountAll(m) ==
  LET ids == Written(m, DOMAIN m.mapInfo, Len(m.vRandom))
      news == Written(m, {n \in DOMAIN m.mapInfo : m.mapInfo[n].nRefCount # 0}, m.nNew)
      trieds == Written(m, {n \in DOMAIN m.mapInfo : m.mapInfo[n].fInTried}, m.nTried)
  IN [vNew |-> [k \in DOMAIN news |-> m.mapInfo[news[k]]],
      vTried |-> [k \in DOMAIN trieds |-> m.mapInfo[trieds[k]]],
      buckets |-> [b \in NewBucket |->
                     {k - 1 : k \in {k \in DOMAIN ids : ids[k] \in m.vvNew[b]}}]]

(* What is written: the entries with a reference and those in the tried    *)
(* table, and the content of the new buckets in terms of the positions,    *)
(* from 0 on, among the former.                                            *)
Serialize(m) ==
  LET news == Written(m, {n \in DOMAIN m.mapInfo : m.mapInfo[n].nRefCount # 0}, m.nNew)
      trieds == Written(m, {n \in DOMAIN m.mapInfo : m.mapInfo[n].fInTried}, m.nTried)
  IN [vNew |-> [k \in DOMAIN news |-> m.mapInfo[news[k]]],
      vTried |-> [k \in DOMAIN trieds |-> m.mapInfo[trieds[k]]],
      buckets |-> [b \in NewBucket |->
                     {k - 1 : k \in {k \in DOMAIN news : news[k] \in m.vvNew[b]}}]]

(* An entry is read back: the counters, flags and positions are not in the *)
(* file.                                                                   *)
ReadInfo(m, info, fInTried) ==
  [Create(m, info.addr, info.source)
     EXCEPT !.mapInfo[m.nIdCount].nLastSuccess = info.nLastSuccess,
            !.mapInfo[m.nIdCount].fInTried = fInTried]

(* Mutant of ReadTried: the last place of a bucket is not used.            *)
ReadTriedShort(m, info) ==
  LET b == GetTriedBucket[info.addr] IN
    IF Len(m.vvTried[b]) + 1 < TriedBucketSize
    THEN [ReadInfo(m, info, TRUE) EXCEPT !.vvTried[b] = Append(@, m.nIdCount),
                                         !.nTried = @ + 1]
    ELSE m

(* An entry of the tried table is lost when its bucket is full.            *)
ReadTried(m, info) ==
  LET b == GetTriedBucket[info.addr] IN
    IF Len(m.vvTried[b]) < TriedBucketSize
    THEN [ReadInfo(m, info, TRUE) EXCEPT !.vvTried[b] = Append(@, m.nIdCount),
                                         !.nTried = @ + 1]
    ELSE m

(* The entries of a new bucket go back to it, unless one is in too many.   *)
ReadBucket(m, b, ids) ==
  LET back == {n \in ids : m.mapInfo[n].nRefCount < NewBucketsPerAddress} IN
    [m EXCEPT !.mapInfo = [n \in DOMAIN m.mapInfo |->
                             IF n \in back THEN [m.mapInfo[n] EXCEPT !.nRefCount = @ + 1]
                             ELSE m.mapInfo[n]],
              !.vvNew[b] = @ \cup back]

(* The three loops that read the file.                                     *)
ReadingNew(f) ==
  LET after[k \in 0 .. Len(f.vNew)] ==
        IF k = 0 THEN [EmptyAddrMan EXCEPT !.nNew = Len(f.vNew)]
        ELSE ReadInfo(after[k - 1], f.vNew[k], FALSE)
  IN  after

ReadingTried(m, f) ==
  LET after[k \in 0 .. Len(f.vTried)] ==
        IF k = 0 THEN m ELSE ReadTried(after[k - 1], f.vTried[k])
  IN  after

ReadingBuckets(m, f) ==
  LET after[b \in 0 .. NewBuckets] ==
        IF b = 0 THEN m ELSE ReadBucket(after[b - 1], b - 1, f.buckets[b - 1])
  IN  after

Unserialize(f) ==
  LET news == ReadingNew(f)[Len(f.vNew)]
      trieds == ReadingTried(news, f)[Len(f.vTried)]
  IN  ReadingBuckets(trieds, f)[NewBuckets]

(* The node dumps its addresses, stops and starts again.                   *)
Restart == am' = Unserialize(Serialize(am))

AddrManInit == am = EmptyAddrMan

AddrManNext ==
  \/ \E a \in Addr, s \in Source : AddNew(a, s) \/ AddKnown(a, s)
  \/ \E a \in Addr, t \in 1 .. MaxTime : Good(a, t)
  \/ \E n, p \in DOMAIN am.vRandom : GetAddr(n, p)
  \/ Restart

AddrManSpec == AddrManInit /\ [][AddrManNext]_am

-----------------------------------------------------------------------------
(* Properties.                                                             *)

TriedIds(m) == {n \in DOMAIN m.mapInfo : m.mapInfo[n].fInTried}
NewIds(m) == DOMAIN m.mapInfo \ TriedIds(m)
InNew(m, n) == {b \in NewBucket : n \in m.vvNew[b]}
InTried(m, n) == {p \in TriedBucket \X (1 .. TriedBucketSize) :
                    p[2] <= Len(m.vvTried[p[1]]) /\ m.vvTried[p[1]][p[2]] = n}

(* CAddrMan::Check_, which is compiled only with DEBUG_ADDRMAN, finds      *)
(* nothing wrong: the counters count, every entry is found through mapAddr *)
(* and through vRandom, it is in as many new buckets as nRefCount says, or *)
(* once in a tried bucket, and no bucket holds anything else.              *)
CheckPasses ==
  /\ Len(am.vRandom) = am.nTried + am.nNew
  /\ am.nTried = Cardinality(TriedIds(am))
  /\ am.nNew = Cardinality(NewIds(am))
  /\ \A n \in DOMAIN am.mapInfo : LET info == am.mapInfo[n] IN
       /\ am.mapAddr[info.addr] = n
       /\ info.nRandomPos \in DOMAIN am.vRandom
       /\ am.vRandom[info.nRandomPos] = n
       /\ info.nRefCount = Cardinality(InNew(am, n))
       /\ IF info.fInTried
          THEN info.nLastSuccess # 0 /\ info.nRefCount = 0
          ELSE info.nRefCount \in 1 .. NewBucketsPerAddress
       /\ Cardinality(InTried(am, n)) = IF info.fInTried THEN 1 ELSE 0
  /\ \A b \in NewBucket : am.vvNew[b] \subseteq NewIds(am)
  /\ \A b \in TriedBucket : ToSet(am.vvTried[b]) \subseteq TriedIds(am)

(* "Only keep a limited number of addresses around": no bucket outgrows    *)
(* its size, not even the one that takes an evicted entry whose own bucket *)
(* is full ("there is certainly place there").                             *)
BucketsBounded ==
  /\ \A b \in NewBucket : Cardinality(am.vvNew[b]) <= NewBucketSize
  /\ \A b \in TriedBucket : Len(am.vvTried[b]) <= TriedBucketSize

(* What the tables say of every address, whatever the ids and positions.   *)
View(m) ==
  [a \in DOMAIN m.mapAddr |->
     LET n == m.mapAddr[a] IN
       [source |-> m.mapInfo[n].source, nLastSuccess |-> m.mapInfo[n].nLastSuccess,
        fInTried |-> m.mapInfo[n].fInTried, buckets |-> InNew(m, n)]]

(* The tables survive a restart: ids are given anew, and vvTried, mapAddr  *)
(* and vRandom are not in the file, but no address is lost and each comes  *)
(* back to the buckets it was in.                                          *)
RestartKeepsTables == [][Restart => View(am') = View(am)]_am

(* The comment on ShrinkNew: "They are never deleted while in the "tried"  *)
(* table, only possibly evicted back to the "new" table", and that only    *)
(* when the bucket is full.                                                *)
TriedNeverDeleted ==
  [][\A n \in TriedIds(am) : LET a == am.mapInfo[n].addr IN
       /\ a \in DOMAIN am'.mapAddr
       /\ am'.mapInfo[am'.mapAddr[a]].fInTried
            \/ Len(am.vvTried[GetTriedBucket[a]]) = TriedBucketSize]_am

(* The tables as a whole: buckets, indexes and counters agree, at the      *)
(* limits too.                                                             *)
TablesConsistent == CheckPasses /\ BucketsBounded
=============================================================================
