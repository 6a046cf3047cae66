--------------------------- MODULE AddrManProofs ---------------------------
EXTENDS AddrMan, FiniteSetTheorems, WellFoundedInduction, TLAPS

-----------------------------------------------------------------------------
(* Induction and recursion *)

(* Induction, for a set of numbers: the least one outside it would follow  *)
(* one inside.                                                             *)
LEMMA SetInduction ==
  ASSUME NEW S, S \subseteq Nat, 0 \in S, \A n \in S : n + 1 \in S
  PROVE  S = Nat
<1> DEFINE R == {ss \in Nat \X Nat : ss[1] < ss[2]}
<1>1. OpToRel(<, Nat) = R
  BY Zenon DEF OpToRel
<1>2. SUFFICES ASSUME Nat \ S # {} PROVE FALSE
  OBVIOUS
<1>3. PICK x \in Nat \ S : \A y \in Nat \ S : ~(<<y, x>> \in R)
  <2>1. IsWellFoundedOn(R, Nat)
    <3> HIDE DEF R
    <3> QED BY <1>1, NatLessThanWellFounded, Zenon
  <2>2. Nat \ S \subseteq Nat
    OBVIOUS
  <2> HIDE DEF R
  <2> QED BY <1>2, <2>1, <2>2, WFMin
<1>4. x # 0 /\ x - 1 \in Nat
  OBVIOUS
<1>5. <<x - 1, x>> \in R
  BY <1>4
<1>6. x - 1 \in S
  BY <1>3, <1>4, <1>5
<1> QED BY <1>4, <1>6

(* What holds of nothing and of one more holds of all.                     *)
LEMMA UpTo ==
  ASSUME NEW n \in Nat, NEW S, 0 \in S, \A k \in 1 .. n : k - 1 \in S => k \in S
  PROVE  \A k \in 0 .. n : k \in S
<1> DEFINE U == {k \in Nat : k <= n => k \in S}
<1>1. 0 \in U
  OBVIOUS
<1>2. ASSUME NEW k \in U PROVE k + 1 \in U
  <2>1. k \in Nat /\ (k + 1 <= n => k + 1 \in 1 .. n /\ (k + 1) - 1 \in S)
    BY <1>2
  <2> QED BY <2>1
<1>3. U = Nat
  <2> HIDE DEF U
  <2>1. U \subseteq Nat
    BY DEF U
  <2> QED BY <1>1, <1>2, <2>1, SetInduction
<1> QED BY <1>3

(* f takes the first n steps of g from a.                                  *)
IsFold(f, n, X, a, g) ==
  /\ f \in [0 .. n -> X]
  /\ f[0] = a
  /\ \A k \in 1 .. n : f[k] = g[k][f[k - 1]]

(* A loop of n rounds has a value at every step.                           *)
LEMMA FoldRecursion ==
  ASSUME NEW n \in Nat, NEW X, NEW a \in X, NEW g \in [1 .. n -> [X -> X]]
  PROVE  \E f : IsFold(f, n, X, a, g)
<1> DEFINE S == {m \in Nat : m <= n => \E f : IsFold(f, m, X, a, g)}
<1>1. 0 \in S
  <2> DEFINE f == [k \in 0 .. 0 |-> a]
  <2>1. IsFold(f, 0, X, a, g)
    BY DEF IsFold
  <2> QED BY <2>1
<1>2. ASSUME NEW m \in S PROVE m + 1 \in S
  <2>1. CASE ~(m + 1 <= n)
    BY <1>2, <2>1
  <2>2. CASE m + 1 <= n
    <3>1. PICK f : IsFold(f, m, X, a, g)
      BY <1>2, <2>2
    <3> DEFINE h == [k \in 0 .. m + 1 |-> IF k = m + 1 THEN g[m + 1][f[m]] ELSE f[k]]
    <3>2. m \in Nat /\ m + 1 \in 1 .. n /\ f[m] \in X
      BY <1>2, <2>2, <3>1 DEF IsFold
    <3>3. g[m + 1][f[m]] \in X
      BY <3>2
    <3>4. h \in [0 .. m + 1 -> X] /\ h[0] = a
      BY <3>1, <3>2, <3>3 DEF IsFold
    <3>5. ASSUME NEW k \in 1 .. m + 1 PROVE h[k] = g[k][h[k - 1]]
      <4>1. h[k - 1] = f[k - 1]
        BY <3>2
      <4>2. CASE k = m + 1
        BY <3>2, <4>1, <4>2
      <4>3. CASE k # m + 1
        BY <3>1, <3>2, <4>1, <4>3 DEF IsFold
      <4> QED BY <4>2, <4>3
    <3>6. IsFold(h, m + 1, X, a, g)
      <4> HIDE DEF h
      <4> QED BY <3>4, <3>5 DEF IsFold
    <3> QED BY <3>2, <3>6
  <2> QED BY <2>1, <2>2
<1>3. S = Nat
  <2> HIDE DEF S
  <2>1. S \subseteq Nat
    BY DEF S
  <2> QED BY <1>1, <1>2, <2>1, SetInduction
<1> QED BY <1>3

-----------------------------------------------------------------------------
(* The address manager.                                                    *)

Info == [addr : Addr, source : Source, nLastSuccess : Nat, nRefCount : Int,
         fInTried : BOOLEAN, nRandomPos : Int]

(* The maps of the object are functions on part of the ids and addresses.  *)
InfoMaps == UNION {[D -> Info] : D \in SUBSET Nat}
AddrMaps == UNION {[D -> Nat] : D \in SUBSET Addr}

(* What the members of a CAddrMan can be.                                  *)
AddrMen ==
  [nIdCount : Nat, mapInfo : InfoMaps, mapAddr : AddrMaps, vRandom : Seq(Nat),
   nTried : Int, vvTried : [TriedBucket -> Seq(Nat)],
   nNew : Int, vvNew : [NewBucket -> SUBSET Nat]]

(* mapAddr and vRandom are inverse to the entries.                         *)
Indexed(m) ==
  /\ \A n \in DOMAIN m.mapInfo :
       /\ n < m.nIdCount
       /\ m.mapInfo[n].addr \in DOMAIN m.mapAddr
       /\ m.mapAddr[m.mapInfo[n].addr] = n
       /\ m.mapInfo[n].nRandomPos \in 1 .. Len(m.vRandom)
       /\ m.vRandom[m.mapInfo[n].nRandomPos] = n
  /\ \A a \in DOMAIN m.mapAddr :
       /\ m.mapAddr[a] \in DOMAIN m.mapInfo
       /\ m.mapInfo[m.mapAddr[a]].addr = a
  /\ \A i \in 1 .. Len(m.vRandom) :
       /\ m.vRandom[i] \in DOMAIN m.mapInfo
       /\ m.mapInfo[m.vRandom[i]].nRandomPos = i

(* No entry.                                                               *)
NoId == -1

(* nRefCount counts the new buckets of an entry.  Entry x has one counted  *)
(* that it is not in yet (Add_).                                           *)
NewTable(m, x) ==
  /\ \A b \in NewBucket :
       /\ m.vvNew[b] \subseteq NewIds(m)
       /\ Cardinality(m.vvNew[b]) <= NewBucketSize
  /\ \A n \in DOMAIN m.mapInfo :
       m.mapInfo[n].nRefCount = Cardinality(InNew(m, n)) + (IF n = x THEN 1 ELSE 0)
  /\ \A n \in NewIds(m) : m.mapInfo[n].nRefCount \in 1 .. NewBucketsPerAddress

(* A tried entry has one place, in its own bucket.  Entry y has none yet   *)
(* (MakeTried).                                                            *)
TriedTable(m, y) ==
  /\ \A b \in TriedBucket :
       /\ Len(m.vvTried[b]) <= TriedBucketSize
       /\ \A k \in 1 .. Len(m.vvTried[b]) :
            /\ m.vvTried[b][k] \in TriedIds(m) \ {y}
            /\ GetTriedBucket[m.mapInfo[m.vvTried[b][k]].addr] = b
       /\ \A j, k \in 1 .. Len(m.vvTried[b]) : m.vvTried[b][j] = m.vvTried[b][k] => j = k
  /\ \A n \in TriedIds(m) :
       /\ m.mapInfo[n].nLastSuccess # 0
       /\ n # y => LET b == GetTriedBucket[m.mapInfo[n].addr]
                   IN  \E k \in 1 .. Len(m.vvTried[b]) : m.vvTried[b][k] = n

Counters(m, y) ==
  /\ m.nNew = Cardinality(NewIds(m))
  /\ m.nTried = Cardinality(TriedIds(m) \ {y})

Tables(m, x, y) ==
  /\ m \in AddrMen
  /\ Indexed(m)
  /\ NewTable(m, x)
  /\ TriedTable(m, y)
  /\ Counters(m, y)

AddrManInv == Tables(am, NoId, NoId)

(* Two forms of an entry that may differ in their place in vRandom.        *)
SameEntry(i, j) ==
  /\ i.addr = j.addr /\ i.source = j.source /\ i.nLastSuccess = j.nLastSuccess
  /\ i.nRefCount = j.nRefCount /\ i.fInTried = j.fInTried

(* What an operation leaves of the tried table.                            *)
KeepsTried(m, w) ==
  \A n \in TriedIds(m) : n \in TriedIds(w) /\ w.mapInfo[n].addr = m.mapInfo[n].addr

-----------------------------------------------------------------------------
(* What the helpers of CAddrMan do to its members.                         *)

(* Functions into a set, on part of another one.                           *)
LEMMA InfoMapIs ==
  ASSUME NEW f
  PROVE  f \in InfoMaps <=> /\ f = [n \in DOMAIN f |-> f[n]]
                            /\ DOMAIN f \subseteq Nat
                            /\ \A n \in DOMAIN f : f[n] \in Info
<1>1. ASSUME f \in InfoMaps
      PROVE  f = [n \in DOMAIN f |-> f[n]] /\ DOMAIN f \subseteq Nat
               /\ \A n \in DOMAIN f : f[n] \in Info
  <2>1. PICK D \in SUBSET Nat : f \in [D -> Info]
    BY <1>1 DEF InfoMaps
  <2> QED BY <2>1
<1>2. ASSUME f = [n \in DOMAIN f |-> f[n]], DOMAIN f \subseteq Nat,
             \A n \in DOMAIN f : f[n] \in Info
      PROVE  f \in InfoMaps
  <2>1. f \in [DOMAIN f -> Info]
    BY <1>2
  <2> QED BY <1>2, <2>1 DEF InfoMaps
<1> QED BY <1>1, <1>2

LEMMA AddrMapIs ==
  ASSUME NEW f
  PROVE  f \in AddrMaps <=> /\ f = [a \in DOMAIN f |-> f[a]]
                            /\ DOMAIN f \subseteq Addr
                            /\ \A a \in DOMAIN f : f[a] \in Nat
<1>1. ASSUME f \in AddrMaps
      PROVE  f = [a \in DOMAIN f |-> f[a]] /\ DOMAIN f \subseteq Addr
               /\ \A a \in DOMAIN f : f[a] \in Nat
  <2>1. PICK D \in SUBSET Addr : f \in [D -> Nat]
    BY <1>1 DEF AddrMaps
  <2> QED BY <2>1
<1>2. ASSUME f = [a \in DOMAIN f |-> f[a]], DOMAIN f \subseteq Addr,
             \A a \in DOMAIN f : f[a] \in Nat
      PROVE  f \in AddrMaps
  <2>1. f \in [DOMAIN f -> Nat]
    BY <1>2
  <2> QED BY <1>2, <2>1 DEF AddrMaps
<1> QED BY <1>1, <1>2

(* The members of an object, one by one.                                   *)
LEMMA AddrManIs ==
  ASSUME NEW m \in AddrMen
  PROVE  /\ m.nIdCount \in Nat
         /\ m.mapInfo \in InfoMaps /\ DOMAIN m.mapInfo \subseteq Nat
         /\ \A n \in DOMAIN m.mapInfo : m.mapInfo[n] \in Info
         /\ m.mapAddr \in AddrMaps /\ DOMAIN m.mapAddr \subseteq Addr
         /\ \A a \in DOMAIN m.mapAddr : m.mapAddr[a] \in Nat
         /\ m.vRandom \in Seq(Nat)
         /\ m.nTried \in Int /\ m.vvTried \in [TriedBucket -> Seq(Nat)]
         /\ m.nNew \in Int /\ m.vvNew \in [NewBucket -> SUBSET Nat]
<1>1. m.mapInfo \in InfoMaps /\ m.mapAddr \in AddrMaps
  BY DEF AddrMen
<1> QED BY <1>1, InfoMapIs, AddrMapIs DEF AddrMen

(* Create, member by member.                                               *)
LEMMA CreateIs ==
  ASSUME NEW m \in AddrMen, NEW a \in Addr, NEW s \in Source, NEW w, w = Create(m, a, s)
  PROVE  /\ w \in AddrMen
         /\ w.nIdCount = m.nIdCount + 1
         /\ DOMAIN w.mapInfo = DOMAIN m.mapInfo \cup {m.nIdCount}
         /\ w.mapInfo[m.nIdCount] = NewInfo(a, s, Len(m.vRandom) + 1)
         /\ \A n \in DOMAIN m.mapInfo : n # m.nIdCount => w.mapInfo[n] = m.mapInfo[n]
         /\ DOMAIN w.mapAddr = DOMAIN m.mapAddr \cup {a}
         /\ w.mapAddr[a] = m.nIdCount
         /\ \A c \in DOMAIN m.mapAddr : c # a => w.mapAddr[c] = m.mapAddr[c]
         /\ w.vRandom = Append(m.vRandom, m.nIdCount)
         /\ w.nTried = m.nTried /\ w.vvTried = m.vvTried
         /\ w.nNew = m.nNew /\ w.vvNew = m.vvNew
<1> DEFINE info == NewInfo(a, s, Len(m.vRandom) + 1)
           f == Put(m.mapInfo, m.nIdCount, info)
           g == Put(m.mapAddr, a, m.nIdCount)
<1>1. /\ w.nIdCount = m.nIdCount + 1 /\ w.mapInfo = f /\ w.mapAddr = g
      /\ w.vRandom = Append(m.vRandom, m.nIdCount)
      /\ w.nTried = m.nTried /\ w.vvTried = m.vvTried
      /\ w.nNew = m.nNew /\ w.vvNew = m.vvNew
      /\ w = [nIdCount |-> w.nIdCount, mapInfo |-> w.mapInfo, mapAddr |-> w.mapAddr,
              vRandom |-> w.vRandom, nTried |-> w.nTried, vvTried |-> w.vvTried,
              nNew |-> w.nNew, vvNew |-> w.vvNew]
  BY DEF Create, AddrMen
<1>2. info \in Info
  <2>1. Len(m.vRandom) + 1 \in Int
    BY AddrManIs
  <2> QED BY <2>1 DEF NewInfo, Info
<1>3. DOMAIN f = DOMAIN m.mapInfo \cup {m.nIdCount} /\ f[m.nIdCount] = info
      /\ (\A n \in DOMAIN m.mapInfo : n # m.nIdCount => f[n] = m.mapInfo[n])
      /\ f = [x \in DOMAIN f |-> f[x]]
  <2> HIDE DEF info
  <2> QED BY DEF Put
<1>4. DOMAIN g = DOMAIN m.mapAddr \cup {a} /\ g[a] = m.nIdCount
      /\ (\A c \in DOMAIN m.mapAddr : c # a => g[c] = m.mapAddr[c])
      /\ g = [x \in DOMAIN g |-> g[x]]
  <2> HIDE DEF info
  <2> QED BY DEF Put
<1> HIDE DEF info, f, g
<1>5. f \in InfoMaps
  <2>1. DOMAIN f \subseteq Nat /\ \A n \in DOMAIN f : f[n] \in Info
    BY <1>2, <1>3, AddrManIs
  <2> QED BY <1>3, <2>1, InfoMapIs
<1>6. g \in AddrMaps
  <2>1. DOMAIN g \subseteq Addr /\ \A c \in DOMAIN g : g[c] \in Nat
    BY <1>4, AddrManIs
  <2> QED BY <1>4, <2>1, AddrMapIs
<1>7. w \in AddrMen
  <2>1. m.nIdCount + 1 \in Nat /\ Append(m.vRandom, m.nIdCount) \in Seq(Nat)
    BY AddrManIs
  <2> QED BY <1>1, <1>5, <1>6, <2>1, AddrManIs DEF AddrMen
<1> QED BY <1>1, <1>3, <1>4, <1>7 DEF info

(* SwapRandom, member by member.                                           *)
LEMMA SwapRandomIs ==
  ASSUME NEW m \in AddrMen, Indexed(m), NEW i \in 1 .. Len(m.vRandom),
         NEW j \in 1 .. Len(m.vRandom), NEW w, w = SwapRandom(m, i, j)
  PROVE  /\ w \in AddrMen /\ Indexed(w)
         /\ w.nIdCount = m.nIdCount
         /\ DOMAIN w.mapInfo = DOMAIN m.mapInfo
         /\ \A n \in DOMAIN m.mapInfo :
              SameEntry(w.mapInfo[n], m.mapInfo[n])
         /\ w.mapInfo[m.vRandom[i]].nRandomPos = j
         /\ w.mapAddr = m.mapAddr
         /\ Len(w.vRandom) = Len(m.vRandom) /\ w.vRandom[j] = m.vRandom[i]
         /\ w.nTried = m.nTried /\ w.vvTried = m.vvTried
         /\ w.nNew = m.nNew /\ w.vvNew = m.vvNew
<1> DEFINE p == m.vRandom[i]
           q == m.vRandom[j]
           f == [m.mapInfo EXCEPT ![q].nRandomPos = i, ![p].nRandomPos = j]
           r == [m.vRandom EXCEPT ![i] = q, ![j] = p]
<1>1. /\ w.nIdCount = m.nIdCount /\ w.mapInfo = f /\ w.mapAddr = m.mapAddr /\ w.vRandom = r
      /\ w.nTried = m.nTried /\ w.vvTried = m.vvTried
      /\ w.nNew = m.nNew /\ w.vvNew = m.vvNew
      /\ w = [nIdCount |-> w.nIdCount, mapInfo |-> w.mapInfo, mapAddr |-> w.mapAddr,
              vRandom |-> w.vRandom, nTried |-> w.nTried, vvTried |-> w.vvTried,
              nNew |-> w.nNew, vvNew |-> w.vvNew]
  BY Zenon DEF SwapRandom, AddrMen
<1>2. /\ p \in DOMAIN m.mapInfo /\ q \in DOMAIN m.mapInfo
      /\ m.mapInfo[p].nRandomPos = i /\ m.mapInfo[q].nRandomPos = j
      /\ \A n \in DOMAIN m.mapInfo : m.mapInfo[n] \in Info
      /\ i \in Int /\ j \in Int
  BY AddrManIs DEF Indexed
<1>3. /\ DOMAIN f = DOMAIN m.mapInfo
      /\ \A n \in DOMAIN m.mapInfo :
           /\ SameEntry(f[n], m.mapInfo[n])
           /\ f[n].nRandomPos = IF n = p THEN j ELSE IF n = q THEN i
                                ELSE m.mapInfo[n].nRandomPos
           /\ f[n] \in Info
           /\ f[n].addr = m.mapInfo[n].addr
      /\ f = [n \in DOMAIN f |-> f[n]]
  BY <1>2, Zenon DEF Info, SameEntry
<1>4. /\ r \in Seq(Nat) /\ Len(r) = Len(m.vRandom)
      /\ \A k \in 1 .. Len(r) :
           r[k] = IF k = j THEN p ELSE IF k = i THEN q ELSE m.vRandom[k]
  BY AddrManIs
<1> HIDE DEF f, r, p, q
<1>5. w \in AddrMen
  <2>1. f \in InfoMaps
    BY <1>3, AddrManIs, InfoMapIs
  <2> QED BY <1>1, <1>4, <2>1, AddrManIs DEF AddrMen
<1>6. Indexed(w)
  <2>1. ASSUME NEW n \in DOMAIN m.mapInfo
        PROVE  /\ f[n].nRandomPos \in 1 .. Len(r) /\ r[f[n].nRandomPos] = n
               /\ n < m.nIdCount
               /\ f[n].addr \in DOMAIN m.mapAddr /\ m.mapAddr[f[n].addr] = n
    <3>1. /\ m.mapInfo[n].nRandomPos \in 1 .. Len(m.vRandom)
          /\ m.vRandom[m.mapInfo[n].nRandomPos] = n
          /\ n < m.nIdCount
          /\ m.mapInfo[n].addr \in DOMAIN m.mapAddr /\ m.mapAddr[m.mapInfo[n].addr] = n
      BY DEF Indexed
    <3>2. n = p \/ n = q \/ (m.mapInfo[n].nRandomPos # i /\ m.mapInfo[n].nRandomPos # j)
      BY <3>1 DEF p, q
    <3>3. i = j => p = q
      BY DEF p, q
    <3> QED BY <1>2, <1>3, <1>4, <3>1, <3>2, <3>3
  <2>2. ASSUME NEW c \in DOMAIN m.mapAddr
        PROVE  m.mapAddr[c] \in DOMAIN f /\ f[m.mapAddr[c]].addr = c
    BY <1>3 DEF Indexed
  <2>3. ASSUME NEW k \in 1 .. Len(r)
        PROVE  r[k] \in DOMAIN f /\ f[r[k]].nRandomPos = k
    <3>1. /\ m.vRandom[k] \in DOMAIN m.mapInfo
          /\ m.mapInfo[m.vRandom[k]].nRandomPos = k
      BY <1>4 DEF Indexed
    <3>3. CASE k = j
      BY <1>2, <1>3, <1>4, <3>3
    <3>4. CASE k # j /\ k = i
      BY <1>2, <1>3, <1>4, <3>4
    <3>5. CASE k # j /\ k # i
      <4>1. r[k] = m.vRandom[k] /\ r[k] # p /\ r[k] # q
        BY <1>2, <1>4, <3>1, <3>5
      <4> QED BY <1>3, <3>1, <4>1
    <3> QED BY <3>3, <3>4, <3>5
  <2> QED BY <1>1, <1>3, <2>1, <2>2, <2>3 DEF Indexed
<1>7. f[p].nRandomPos = j /\ r[j] = p
  BY <1>2, <1>3, <1>4
<1> QED BY <1>1, <1>3, <1>4, <1>5, <1>6, <1>7 DEF p

(* There are finitely many entries.                                        *)
LEMMA IdsFinite ==
  ASSUME NEW m \in AddrMen, Indexed(m)
  PROVE  /\ IsFiniteSet(DOMAIN m.mapInfo)
         /\ \A S \in SUBSET DOMAIN m.mapInfo : IsFiniteSet(S) /\ Cardinality(S) \in Nat
<1>1. DOMAIN m.mapInfo \subseteq 0 .. m.nIdCount /\ m.nIdCount \in Nat
  BY AddrManIs DEF Indexed
<1>2. IsFiniteSet(0 .. m.nIdCount)
  BY <1>1, FS_Interval
<1>3. IsFiniteSet(DOMAIN m.mapInfo)
  BY <1>1, <1>2, FS_Subset
<1>4. ASSUME NEW S \in SUBSET DOMAIN m.mapInfo
      PROVE  IsFiniteSet(S) /\ Cardinality(S) \in Nat
  BY <1>3, FS_Subset, FS_CardinalityType
<1> QED BY <1>3, <1>4

(* The buckets of an entry can be counted.                                 *)
LEMMA InNewFinite ==
  ASSUME NEW m, NEW n
  PROVE  IsFiniteSet(InNew(m, n)) /\ Cardinality(InNew(m, n)) \in Nat
<1>1. IsFiniteSet(NewBucket)
  <2>1. 0 \in Int /\ NewBuckets - 1 \in Int
    BY AddrManAssumption
  <2> QED BY <2>1, FS_Interval DEF NewBucket
<1>2. InNew(m, n) \in SUBSET NewBucket
  BY DEF InNew
<1>3. IsFiniteSet(InNew(m, n))
  BY <1>1, <1>2, FS_Subset
<1> QED BY <1>3, FS_CardinalityType

(* The indexes do not look at what else is in an entry.                    *)
LEMMA IndexedSame ==
  ASSUME NEW m, NEW w, Indexed(m),
         w.nIdCount = m.nIdCount, w.mapAddr = m.mapAddr, w.vRandom = m.vRandom,
         DOMAIN w.mapInfo = DOMAIN m.mapInfo,
         \A n \in DOMAIN m.mapInfo : /\ w.mapInfo[n].addr = m.mapInfo[n].addr
                                     /\ w.mapInfo[n].nRandomPos = m.mapInfo[n].nRandomPos
  PROVE  Indexed(w)
<1>1. ASSUME NEW n \in DOMAIN w.mapInfo
      PROVE  /\ n < w.nIdCount
             /\ w.mapInfo[n].addr \in DOMAIN w.mapAddr
             /\ w.mapAddr[w.mapInfo[n].addr] = n
             /\ w.mapInfo[n].nRandomPos \in 1 .. Len(w.vRandom)
             /\ w.vRandom[w.mapInfo[n].nRandomPos] = n
  BY DEF Indexed
<1>2. ASSUME NEW a \in DOMAIN w.mapAddr
      PROVE  w.mapAddr[a] \in DOMAIN w.mapInfo /\ w.mapInfo[w.mapAddr[a]].addr = a
  BY DEF Indexed
<1>3. ASSUME NEW i \in 1 .. Len(w.vRandom)
      PROVE  w.vRandom[i] \in DOMAIN w.mapInfo /\ w.mapInfo[w.vRandom[i]].nRandomPos = i
  BY DEF Indexed
<1> QED BY <1>1, <1>2, <1>3 DEF Indexed

(* Every entry has kept its place in the indexes.                          *)
SamePlaces(m, w) ==
  /\ w.nIdCount = m.nIdCount /\ w.mapAddr = m.mapAddr /\ w.vRandom = m.vRandom
  /\ DOMAIN w.mapInfo = DOMAIN m.mapInfo
  /\ \A n \in DOMAIN m.mapInfo : /\ w.mapInfo[n].addr = m.mapInfo[n].addr
                                  /\ w.mapInfo[n].nRandomPos = m.mapInfo[n].nRandomPos

LEMMA IndexedSamePlaces ==
  ASSUME NEW m, NEW w, Indexed(m), SamePlaces(m, w)
  PROVE  Indexed(w)
<1>1. /\ w.nIdCount = m.nIdCount /\ w.mapAddr = m.mapAddr /\ w.vRandom = m.vRandom
      /\ DOMAIN w.mapInfo = DOMAIN m.mapInfo
  BY DEF SamePlaces
<1>2. \A n \in DOMAIN m.mapInfo : /\ w.mapInfo[n].addr = m.mapInfo[n].addr
                                  /\ w.mapInfo[n].nRandomPos = m.mapInfo[n].nRandomPos
  BY DEF SamePlaces
<1> QED BY <1>1, <1>2, IndexedSame

(* An entry is replaced by another, and buckets and counters change.       *)
Replaced(m, id, info, vvNew, nNew) ==
  [m EXCEPT !.mapInfo[id] = info, !.vvNew = vvNew, !.nNew = nNew]

LEMMA ReplaceIs ==
  ASSUME NEW m \in AddrMen, NEW id \in DOMAIN m.mapInfo, NEW info \in Info,
         NEW vvNew \in [NewBucket -> SUBSET Nat], NEW nNew \in Int,
         NEW w, w = Replaced(m, id, info, vvNew, nNew)
  PROVE  /\ w \in AddrMen
         /\ w.nIdCount = m.nIdCount /\ w.mapAddr = m.mapAddr /\ w.vRandom = m.vRandom
         /\ DOMAIN w.mapInfo = DOMAIN m.mapInfo
         /\ w.mapInfo[id] = info
         /\ \A n \in DOMAIN m.mapInfo : n # id => w.mapInfo[n] = m.mapInfo[n]
         /\ w.nTried = m.nTried /\ w.vvTried = m.vvTried
         /\ w.nNew = nNew /\ w.vvNew = vvNew
<1> DEFINE f == [m.mapInfo EXCEPT ![id] = info]
<1>1. /\ w.nIdCount = m.nIdCount /\ w.mapInfo = f /\ w.mapAddr = m.mapAddr
      /\ w.vRandom = m.vRandom
      /\ w.nTried = m.nTried /\ w.vvTried = m.vvTried
      /\ w.nNew = nNew /\ w.vvNew = vvNew
      /\ w = [nIdCount |-> w.nIdCount, mapInfo |-> w.mapInfo, mapAddr |-> w.mapAddr,
              vRandom |-> w.vRandom, nTried |-> w.nTried, vvTried |-> w.vvTried,
              nNew |-> w.nNew, vvNew |-> w.vvNew]
  BY DEF AddrMen, Replaced
<1>2. /\ DOMAIN f = DOMAIN m.mapInfo /\ f[id] = info
      /\ \A n \in DOMAIN m.mapInfo : n # id => f[n] = m.mapInfo[n]
      /\ f = [n \in DOMAIN f |-> f[n]]
  OBVIOUS
<1> HIDE DEF f
<1>3. f \in InfoMaps
  <2>1. \A n \in DOMAIN f : f[n] \in Info
    BY <1>2, AddrManIs
  <2> QED BY <1>2, <2>1, AddrManIs, InfoMapIs
<1>4. w \in AddrMen
  BY <1>1, <1>3, AddrManIs DEF AddrMen
<1> QED BY <1>1, <1>2, <1>4

(* Delete, member by member.                                               *)
LEMMA DeleteIs ==
  ASSUME NEW m \in AddrMen, Indexed(m), NEW id \in DOMAIN m.mapInfo,
         NEW w, w = Delete(m, id)
  PROVE  /\ w \in AddrMen /\ Indexed(w)
         /\ DOMAIN w.mapInfo = DOMAIN m.mapInfo \ {id}
         /\ \A n \in DOMAIN w.mapInfo :
              SameEntry(w.mapInfo[n], m.mapInfo[n])
         /\ w.nTried = m.nTried /\ w.vvTried = m.vvTried
         /\ w.nNew = m.nNew - 1 /\ w.vvNew = m.vvNew
<1> DEFINE last == Len(m.vRandom)
           pos == m.mapInfo[id].nRandomPos
           v == SwapRandom(m, pos, last)
           a == m.mapInfo[id].addr
           r == Front(v.vRandom)
           f == [n \in DOMAIN v.mapInfo \ {id} |-> v.mapInfo[n]]
           g == [c \in DOMAIN v.mapAddr \ {a} |-> v.mapAddr[c]]
<1>1. /\ pos \in 1 .. last /\ last \in 1 .. last /\ m.vRandom[pos] = id
      /\ a \in DOMAIN m.mapAddr /\ m.mapAddr[a] = id
  BY AddrManIs DEF Indexed
<1>2. /\ v \in AddrMen /\ Indexed(v)
      /\ v.nIdCount = m.nIdCount
      /\ DOMAIN v.mapInfo = DOMAIN m.mapInfo
      /\ \A n \in DOMAIN m.mapInfo :
           SameEntry(v.mapInfo[n], m.mapInfo[n])
      /\ v.mapInfo[id].nRandomPos = last
      /\ v.mapAddr = m.mapAddr
      /\ Len(v.vRandom) = last /\ v.vRandom[last] = id
      /\ v.nTried = m.nTried /\ v.vvTried = m.vvTried
      /\ v.nNew = m.nNew /\ v.vvNew = m.vvNew
  <2> HIDE DEF pos, last, v
  <2>1. v = SwapRandom(m, pos, last)
    BY DEF v
  <2>2. pos \in 1 .. Len(m.vRandom) /\ last \in 1 .. Len(m.vRandom)
    BY <1>1 DEF last
  <2>3. /\ v \in AddrMen /\ Indexed(v)
        /\ v.nIdCount = m.nIdCount
        /\ DOMAIN v.mapInfo = DOMAIN m.mapInfo
        /\ \A n \in DOMAIN m.mapInfo :
             SameEntry(v.mapInfo[n], m.mapInfo[n])
        /\ v.mapInfo[m.vRandom[pos]].nRandomPos = last
        /\ v.mapAddr = m.mapAddr
        /\ Len(v.vRandom) = Len(m.vRandom) /\ v.vRandom[last] = m.vRandom[pos]
        /\ v.nTried = m.nTried /\ v.vvTried = m.vvTried
        /\ v.nNew = m.nNew /\ v.vvNew = m.vvNew
    BY <2>1, <2>2, SwapRandomIs
  <2> QED BY <1>1, <2>3 DEF last
<1>3. w = [v EXCEPT !.vRandom = r, !.mapAddr = g, !.mapInfo = f, !.nNew = @ - 1]
  BY DEF Delete, Erase, Restrict
<1> HIDE DEF v
<1>4. /\ w.nIdCount = v.nIdCount /\ w.mapInfo = f /\ w.mapAddr = g /\ w.vRandom = r
      /\ w.nTried = v.nTried /\ w.vvTried = v.vvTried
      /\ w.nNew = v.nNew - 1 /\ w.vvNew = v.vvNew
      /\ w = [nIdCount |-> w.nIdCount, mapInfo |-> w.mapInfo, mapAddr |-> w.mapAddr,
              vRandom |-> w.vRandom, nTried |-> w.nTried, vvTried |-> w.vvTried,
              nNew |-> w.nNew, vvNew |-> w.vvNew]
  <2> HIDE DEF r, f, g
  <2> QED BY <1>2, <1>3 DEF AddrMen
<1>5. /\ DOMAIN f = DOMAIN m.mapInfo \ {id}
      /\ \A n \in DOMAIN f : f[n] = v.mapInfo[n]
      /\ f = [n \in DOMAIN f |-> f[n]]
  BY <1>2
<1>6. /\ DOMAIN g = DOMAIN m.mapAddr \ {a}
      /\ \A c \in DOMAIN g : g[c] = m.mapAddr[c]
      /\ g = [c \in DOMAIN g |-> g[c]]
  BY <1>2
<1>7. /\ r \in Seq(Nat) /\ Len(r) = last - 1
      /\ \A k \in 1 .. Len(r) : r[k] = v.vRandom[k]
  <2>1. v.vRandom \in Seq(Nat) /\ Len(v.vRandom) = last /\ last \in Nat \ {0}
    BY <1>1, <1>2, AddrManIs
  <2> HIDE DEF last
  <2> QED BY <2>1 DEF Front
<1> HIDE DEF f, g, r
<1>8. w \in AddrMen
  <2>1. f \in InfoMaps
    <3>1. DOMAIN f \subseteq Nat /\ \A n \in DOMAIN f : f[n] \in Info
      BY <1>2, <1>5, AddrManIs
    <3> QED BY <1>5, <3>1, InfoMapIs
  <2>2. g \in AddrMaps
    <3>1. DOMAIN g \subseteq Addr /\ \A c \in DOMAIN g : g[c] \in Nat
      BY <1>6, AddrManIs
    <3> QED BY <1>6, <3>1, AddrMapIs
  <2>3. v.nNew - 1 \in Int
    BY <1>2, AddrManIs
  <2> QED BY <1>2, <1>4, <1>7, <2>1, <2>2, <2>3, AddrManIs DEF AddrMen
<1>9. Indexed(w)
  <2>1. ASSUME NEW n \in DOMAIN f
        PROVE  /\ n < v.nIdCount
               /\ f[n].addr \in DOMAIN g /\ g[f[n].addr] = n
               /\ f[n].nRandomPos \in 1 .. Len(r) /\ r[f[n].nRandomPos] = n
    <3>1. /\ n \in DOMAIN v.mapInfo /\ n # id /\ f[n] = v.mapInfo[n]
      BY <1>2, <1>5
    <3>2. /\ n < v.nIdCount /\ f[n].addr \in DOMAIN m.mapAddr /\ m.mapAddr[f[n].addr] = n
          /\ f[n].nRandomPos \in 1 .. last /\ v.vRandom[f[n].nRandomPos] = n
      BY <1>2, <3>1 DEF Indexed
    <3>3. f[n].addr # a /\ f[n].nRandomPos # last
      BY <1>1, <1>2, <3>1, <3>2
    <3>4. f[n].nRandomPos \in 1 .. last - 1
      BY <1>1, <3>2, <3>3
    <3> QED BY <1>6, <1>7, <3>2, <3>3, <3>4
  <2>2. ASSUME NEW c \in DOMAIN g
        PROVE  g[c] \in DOMAIN f /\ f[g[c]].addr = c
    <3>1. c \in DOMAIN v.mapAddr /\ c # a /\ g[c] = v.mapAddr[c]
      BY <1>2, <1>6
    <3>2. g[c] \in DOMAIN v.mapInfo /\ v.mapInfo[g[c]].addr = c
      BY <1>2, <3>1 DEF Indexed
    <3>3. g[c] # id
      <4>1. v.mapInfo[id].addr = a
        BY <1>2 DEF SameEntry
      <4> QED BY <3>1, <3>2, <4>1
    <3> QED BY <1>2, <1>5, <3>2, <3>3
  <2>3. ASSUME NEW k \in 1 .. Len(r)
        PROVE  r[k] \in DOMAIN f /\ f[r[k]].nRandomPos = k
    <3>1. k \in 1 .. Len(v.vRandom) /\ k # last /\ r[k] = v.vRandom[k]
      BY <1>1, <1>2, <1>7
    <3>2. r[k] \in DOMAIN v.mapInfo /\ v.mapInfo[r[k]].nRandomPos = k
      BY <1>2, <3>1 DEF Indexed
    <3>3. r[k] # id
      BY <1>2, <3>1, <3>2
    <3> QED BY <1>2, <1>5, <3>2, <3>3
  <2> QED BY <1>4, <2>1, <2>2, <2>3 DEF Indexed
<1>10. \A n \in DOMAIN f : SameEntry(f[n], m.mapInfo[n])
  BY <1>2, <1>5
<1> QED BY <1>2, <1>4, <1>5, <1>8, <1>9, <1>10


(* The indexes find an entry of a new address too.                         *)
LEMMA CreateIndexed ==
  ASSUME NEW m \in AddrMen, Indexed(m), NEW a \in Addr, a \notin DOMAIN m.mapAddr,
         NEW s \in Source, NEW w, w = Create(m, a, s)
  PROVE  Indexed(w)
<1> DEFINE id == m.nIdCount
           last == Len(m.vRandom)
<1>1. /\ DOMAIN w.mapInfo = DOMAIN m.mapInfo \cup {id}
      /\ w.mapInfo[id] = NewInfo(a, s, last + 1)
      /\ \A n \in DOMAIN m.mapInfo : n # id => w.mapInfo[n] = m.mapInfo[n]
      /\ DOMAIN w.mapAddr = DOMAIN m.mapAddr \cup {a}
      /\ w.mapAddr[a] = id
      /\ \A e \in DOMAIN m.mapAddr : e # a => w.mapAddr[e] = m.mapAddr[e]
      /\ w.vRandom = Append(m.vRandom, id)
      /\ w.nIdCount = id + 1
  BY CreateIs
<1>2. m.vRandom \in Seq(Nat) /\ id \in Nat /\ last \in Nat
  BY AddrManIs
<1>3. /\ Len(w.vRandom) = last + 1 /\ w.vRandom[last + 1] = id
      /\ \A k \in 1 .. last : w.vRandom[k] = m.vRandom[k]
  BY <1>1, <1>2
<1>4. w.mapInfo[id].addr = a /\ w.mapInfo[id].nRandomPos = last + 1
  BY <1>1 DEF NewInfo
<1>5. id \notin DOMAIN m.mapInfo
  BY <1>2 DEF Indexed
<1>6. ASSUME NEW n \in DOMAIN m.mapInfo
      PROVE  /\ n \in Nat /\ n < id /\ m.mapInfo[n].addr \in DOMAIN m.mapAddr
             /\ m.mapAddr[m.mapInfo[n].addr] = n /\ m.mapInfo[n].addr # a
             /\ m.mapInfo[n].nRandomPos \in 1 .. last
             /\ m.vRandom[m.mapInfo[n].nRandomPos] = n
  BY AddrManIs DEF Indexed
<1> HIDE DEF id, last
<1>7. ASSUME NEW n \in DOMAIN w.mapInfo
      PROVE  /\ n < w.nIdCount
             /\ w.mapInfo[n].addr \in DOMAIN w.mapAddr
             /\ w.mapAddr[w.mapInfo[n].addr] = n
             /\ w.mapInfo[n].nRandomPos \in 1 .. Len(w.vRandom)
             /\ w.vRandom[w.mapInfo[n].nRandomPos] = n
  <2>1. CASE n = id
    BY <1>1, <1>2, <1>3, <1>4, <2>1
  <2>2. CASE n # id
    <3>1. n \in DOMAIN m.mapInfo /\ w.mapInfo[n] = m.mapInfo[n]
      BY <1>1, <2>2
    <3> QED BY <1>1, <1>2, <1>3, <1>6, <3>1, SMTT(20)
  <2> QED BY <2>1, <2>2
<1>8. ASSUME NEW e \in DOMAIN w.mapAddr
      PROVE  w.mapAddr[e] \in DOMAIN w.mapInfo /\ w.mapInfo[w.mapAddr[e]].addr = e
  <2>1. CASE e = a
    BY <1>1, <1>4, <2>1
  <2>2. CASE e # a
    <3>1. e \in DOMAIN m.mapAddr /\ w.mapAddr[e] = m.mapAddr[e]
      BY <1>1, <2>2
    <3>2. m.mapAddr[e] \in DOMAIN m.mapInfo /\ m.mapInfo[m.mapAddr[e]].addr = e
      BY <3>1 DEF Indexed
    <3> QED BY <1>1, <1>5, <3>1, <3>2
  <2> QED BY <2>1, <2>2
<1>9. ASSUME NEW k \in 1 .. Len(w.vRandom)
      PROVE  w.vRandom[k] \in DOMAIN w.mapInfo /\ w.mapInfo[w.vRandom[k]].nRandomPos = k
  <2>1. CASE k = last + 1
    BY <1>1, <1>3, <1>4, <2>1
  <2>2. CASE k # last + 1
    <3>1. k \in 1 .. last /\ w.vRandom[k] = m.vRandom[k]
      BY <1>2, <1>3, <2>2
    <3>2. m.vRandom[k] \in DOMAIN m.mapInfo /\ m.mapInfo[m.vRandom[k]].nRandomPos = k
      BY <3>1 DEF Indexed, last
    <3> QED BY <1>1, <1>5, <3>1, <3>2
  <2> QED BY <2>1, <2>2
<1> QED BY <1>7, <1>8, <1>9 DEF Indexed

(* An entry, member by member.                                             *)
LEMMA InfoIs ==
  ASSUME NEW i \in Info
  PROVE  /\ i.addr \in Addr /\ i.source \in Source /\ i.nLastSuccess \in Nat
         /\ i.nRefCount \in Int /\ i.fInTried \in BOOLEAN /\ i.nRandomPos \in Int
BY DEF Info

(* The tried table does not look at the new one.                           *)
LEMMA TriedSame ==
  ASSUME NEW m, NEW w, NEW y, TriedTable(m, y), w.vvTried = m.vvTried,
         TriedIds(w) = TriedIds(m),
         \A n \in TriedIds(m) : /\ w.mapInfo[n].addr = m.mapInfo[n].addr
                                /\ w.mapInfo[n].nLastSuccess # 0
  PROVE  TriedTable(w, y)
<1>1. ASSUME NEW b \in TriedBucket
      PROVE  /\ Len(w.vvTried[b]) <= TriedBucketSize
             /\ \A k \in 1 .. Len(w.vvTried[b]) :
                  /\ w.vvTried[b][k] \in TriedIds(w) \ {y}
                  /\ GetTriedBucket[w.mapInfo[w.vvTried[b][k]].addr] = b
             /\ \A j, k \in 1 .. Len(w.vvTried[b]) :
                  w.vvTried[b][j] = w.vvTried[b][k] => j = k
  <2>1. /\ Len(m.vvTried[b]) <= TriedBucketSize
        /\ \A k \in 1 .. Len(m.vvTried[b]) :
             /\ m.vvTried[b][k] \in TriedIds(m) \ {y}
             /\ GetTriedBucket[m.mapInfo[m.vvTried[b][k]].addr] = b
        /\ \A j, k \in 1 .. Len(m.vvTried[b]) : m.vvTried[b][j] = m.vvTried[b][k] => j = k
    BY DEF TriedTable
  <2> QED BY <2>1
<1>2. ASSUME NEW n \in TriedIds(w), n # y
      PROVE  \E k \in 1 .. Len(w.vvTried[GetTriedBucket[w.mapInfo[n].addr]]) :
               w.vvTried[GetTriedBucket[w.mapInfo[n].addr]][k] = n
  BY <1>2 DEF TriedTable
<1> QED BY <1>1, <1>2 DEF TriedTable

(* An entry leaves a new bucket, or enters it.                             *)
LEMMA BucketLeft ==
  ASSUME NEW m \in AddrMen, NEW w, NEW b \in NewBucket, NEW id \in m.vvNew[b],
         w.vvNew = [m.vvNew EXCEPT ![b] = @ \ {id}]
  PROVE  /\ w.vvNew \in [NewBucket -> SUBSET Nat]
         /\ Cardinality(InNew(w, id)) = Cardinality(InNew(m, id)) - 1
         /\ \A n : n # id => InNew(w, n) = InNew(m, n)
<1>1. m.vvNew \in [NewBucket -> SUBSET Nat]
  BY AddrManIs
<1>2. InNew(w, id) = InNew(m, id) \ {b} /\ b \in InNew(m, id)
  BY <1>1 DEF InNew
<1>3. Cardinality(InNew(w, id)) = Cardinality(InNew(m, id)) - 1
  BY <1>2, InNewFinite, FS_RemoveElement
<1>4. ASSUME NEW n, n # id PROVE InNew(w, n) = InNew(m, n)
  BY <1>1, <1>4 DEF InNew
<1> QED BY <1>1, <1>3, <1>4

Enters(m, w, b, id) ==
  /\ id \notin m.vvNew[b]
  /\ \A c \in NewBucket : w.vvNew[c] = IF c = b THEN m.vvNew[c] \cup {id} ELSE m.vvNew[c]

LEMMA BucketEntered ==
  ASSUME NEW m \in AddrMen, NEW w, NEW b \in NewBucket, NEW id, Enters(m, w, b, id)
  PROVE  /\ Cardinality(InNew(w, id)) = Cardinality(InNew(m, id)) + 1
         /\ \A n : n # id => InNew(w, n) = InNew(m, n)
<1>1. m.vvNew \in [NewBucket -> SUBSET Nat]
  BY AddrManIs
<1>2. InNew(w, id) = InNew(m, id) \cup {b} /\ b \notin InNew(m, id)
  BY <1>1 DEF InNew, Enters
<1>3. Cardinality(InNew(w, id)) = Cardinality(InNew(m, id)) + 1
  BY <1>2, InNewFinite, FS_AddElement
<1>4. ASSUME NEW n, n # id PROVE InNew(w, n) = InNew(m, n)
  BY <1>1, <1>4 DEF InNew, Enters
<1> QED BY <1>3, <1>4

(* The buckets hold finitely many entries.                                 *)
LEMMA BucketFinite ==
  ASSUME NEW m \in AddrMen, NEW x, Indexed(m), NewTable(m, x), NEW b \in NewBucket
  PROVE  /\ IsFiniteSet(m.vvNew[b]) /\ Cardinality(m.vvNew[b]) \in Nat
         /\ m.vvNew[b] \subseteq NewIds(m) /\ NewIds(m) \subseteq DOMAIN m.mapInfo
         /\ m.vvNew[b] \subseteq DOMAIN m.mapInfo
         /\ Cardinality(m.vvNew[b]) <= NewBucketSize
<1>1. /\ m.vvNew[b] \subseteq NewIds(m) /\ NewIds(m) \subseteq DOMAIN m.mapInfo
      /\ Cardinality(m.vvNew[b]) <= NewBucketSize
  BY DEF NewTable, NewIds
<1>2. m.vvNew[b] \in SUBSET DOMAIN m.mapInfo
  BY <1>1
<1>3. IsFiniteSet(m.vvNew[b]) /\ Cardinality(m.vvNew[b]) \in Nat
  BY <1>2, IdsFinite
<1> QED BY <1>1, <1>2, <1>3

(* ShrinkNew makes room in a bucket, for entry x or for none, and keeps    *)
(* the tables.                                                             *)
LEMMA ShrinkHeld ==
  ASSUME NEW m, NEW x, Tables(m, x, NoId), NEW b \in NewBucket, NEW id \in m.vvNew[b],
         id # x, NEW w, w = ShrinkNew(m, b, id)
  PROVE  /\ Tables(w, x, NoId)
         /\ w.vvNew = [m.vvNew EXCEPT ![b] = @ \ {id}]
         /\ NewIds(m) \ {id} \subseteq NewIds(w)
         /\ TriedIds(w) = TriedIds(m)
         /\ \A n \in DOMAIN w.mapInfo : (n \in DOMAIN m.mapInfo /\ SameEntry(w.mapInfo[n], m.mapInfo[n])) \/ n = id
         /\ \A n \in TriedIds(m) : w.mapInfo[n].addr = m.mapInfo[n].addr
<1> DEFINE info == [m.mapInfo[id] EXCEPT !.nRefCount = @ - 1]
           vvNew == [m.vvNew EXCEPT ![b] = @ \ {id}]
           v == Replaced(m, id, info, vvNew, m.nNew)
<1>1. m \in AddrMen /\ Indexed(m) /\ NewTable(m, x) /\ TriedTable(m, NoId) /\ Counters(m, NoId)
  BY DEF Tables
<1>2. /\ id \in NewIds(m) /\ id \in DOMAIN m.mapInfo /\ ~m.mapInfo[id].fInTried
      /\ m.mapInfo[id] \in Info /\ m.mapInfo[id].nRefCount \in Int
      /\ m.mapInfo[id].nRefCount = Cardinality(InNew(m, id))
      /\ m.vvNew \in [NewBucket -> SUBSET Nat] /\ m.nNew \in Int
  <2>1. id \in NewIds(m) /\ id \in DOMAIN m.mapInfo
    BY <1>1, BucketFinite
  <2>2. m.mapInfo[id].nRefCount = Cardinality(InNew(m, id)) + 0
    BY <1>1, <2>1 DEF NewTable
  <2> QED BY <1>1, <2>1, <2>2, AddrManIs, InfoIs, InNewFinite DEF NewIds, TriedIds
<1>3. v = [m EXCEPT !.mapInfo[id].nRefCount = @ - 1, !.vvNew[b] = @ \ {id}]
  BY <1>1, <1>2 DEF AddrMen, Replaced
<1>4. /\ info \in Info /\ info.nRefCount = m.mapInfo[id].nRefCount - 1
      /\ info.addr = m.mapInfo[id].addr /\ info.nRandomPos = m.mapInfo[id].nRandomPos
      /\ info.fInTried = m.mapInfo[id].fInTried
  BY <1>2 DEF Info
<1>5. vvNew \in [NewBucket -> SUBSET Nat]
  BY <1>2
<1>6. w = IF v.mapInfo[id].nRefCount = 0 THEN Delete(v, id) ELSE v
  <2> HIDE DEF v
  <2> QED BY <1>3 DEF ShrinkNew
<1> HIDE DEF info, vvNew
<1>7. /\ v \in AddrMen
      /\ v.nIdCount = m.nIdCount /\ v.mapAddr = m.mapAddr /\ v.vRandom = m.vRandom
      /\ DOMAIN v.mapInfo = DOMAIN m.mapInfo
      /\ v.mapInfo[id] = info
      /\ \A n \in DOMAIN m.mapInfo : n # id => v.mapInfo[n] = m.mapInfo[n]
      /\ v.nTried = m.nTried /\ v.vvTried = m.vvTried
      /\ v.nNew = m.nNew /\ v.vvNew = vvNew
  <2>1. v = Replaced(m, id, info, vvNew, m.nNew)
    OBVIOUS
  <2> HIDE DEF v
  <2> QED BY <1>1, <1>2, <1>4, <1>5, <2>1, ReplaceIs
<1> HIDE DEF v
<1>8. Indexed(v)
  BY <1>1, <1>4, <1>7, IndexedSame
<1>9. /\ TriedIds(v) = TriedIds(m) /\ NewIds(v) = NewIds(m)
      /\ \A n \in TriedIds(m) : n # id /\ v.mapInfo[n] = m.mapInfo[n]
  BY <1>2, <1>4, <1>7 DEF TriedIds, NewIds
<1>10. /\ Cardinality(InNew(v, id)) = Cardinality(InNew(m, id)) - 1
       /\ \A n : n # id => InNew(v, n) = InNew(m, n)
  BY <1>1, <1>7, BucketLeft DEF vvNew
<1>11. ASSUME NEW c \in NewBucket
       PROVE  /\ vvNew[c] \subseteq m.vvNew[c] /\ Cardinality(vvNew[c]) <= NewBucketSize
              /\ vvNew[c] \subseteq NewIds(m)
  <2>1. vvNew[c] \subseteq m.vvNew[c]
    BY <1>2 DEF vvNew
  <2>2. /\ IsFiniteSet(m.vvNew[c]) /\ Cardinality(m.vvNew[c]) \in Nat
        /\ Cardinality(m.vvNew[c]) <= NewBucketSize
        /\ m.vvNew[c] \subseteq NewIds(m)
    BY <1>1, BucketFinite
  <2>3. IsFiniteSet(vvNew[c]) /\ Cardinality(vvNew[c]) <= Cardinality(m.vvNew[c])
    BY <2>1, <2>2, FS_Subset
  <2>4. Cardinality(vvNew[c]) \in Nat /\ NewBucketSize \in Nat
    BY <2>3, FS_CardinalityType, AddrManAssumption
  <2> QED BY <2>1, <2>2, <2>3, <2>4
<1>12. CASE info.nRefCount # 0
  <2>1. w = v
    BY <1>6, <1>7, <1>12
  <2>2. NewTable(v, x)
    <3>1. ASSUME NEW n \in DOMAIN v.mapInfo
          PROVE  v.mapInfo[n].nRefCount = Cardinality(InNew(v, n)) + (IF n = x THEN 1 ELSE 0)
      <4>1. CASE n = id
        BY <1>2, <1>4, <1>7, <1>10, <4>1, InNewFinite
      <4>2. CASE n # id
        BY <1>1, <1>7, <1>10, <4>2 DEF NewTable
      <4> QED BY <4>1, <4>2
    <3>2. ASSUME NEW n \in NewIds(v)
          PROVE  v.mapInfo[n].nRefCount \in 1 .. NewBucketsPerAddress
      <4>1. n \in NewIds(m) /\ n \in DOMAIN m.mapInfo
            /\ m.mapInfo[n].nRefCount \in 1 .. NewBucketsPerAddress
        BY <1>1, <1>9 DEF NewTable, NewIds
      <4>2. CASE n = id
        <5>1. NewBucketsPerAddress \in Nat
          BY AddrManAssumption
        <5> QED BY <1>2, <1>4, <1>7, <1>12, <4>1, <4>2, <5>1
      <4>3. CASE n # id
        BY <1>7, <4>1, <4>3
      <4> QED BY <4>2, <4>3
    <3> QED BY <1>7, <1>9, <1>11, <3>1, <3>2 DEF NewTable
  <2>3. TriedTable(v, NoId)
    <3>1. \A n \in TriedIds(m) : m.mapInfo[n].nLastSuccess # 0
      BY <1>1 DEF TriedTable
    <3> QED BY <1>1, <1>7, <1>9, <3>1, TriedSame
  <2>4. Counters(v, NoId)
    BY <1>1, <1>7, <1>9 DEF Counters
  <2>5. Tables(w, x, NoId)
    BY <1>7, <1>8, <2>1, <2>2, <2>3, <2>4 DEF Tables
  <2> QED BY <1>7, <1>9, <2>1, <2>5 DEF SameEntry, vvNew
<1>13. CASE info.nRefCount = 0
  <2>1. w = Delete(v, id)
    BY <1>6, <1>7, <1>13
  <2>2. /\ w \in AddrMen /\ Indexed(w)
        /\ DOMAIN w.mapInfo = DOMAIN v.mapInfo \ {id}
        /\ \A n \in DOMAIN w.mapInfo : SameEntry(w.mapInfo[n], v.mapInfo[n])
        /\ w.nTried = v.nTried /\ w.vvTried = v.vvTried
        /\ w.nNew = v.nNew - 1 /\ w.vvNew = v.vvNew
    BY <1>2, <1>7, <1>8, <2>1, DeleteIs
  <2>3. \A n \in DOMAIN w.mapInfo : /\ n \in DOMAIN m.mapInfo /\ n # id
                                    /\ SameEntry(w.mapInfo[n], m.mapInfo[n])
                                    /\ w.mapInfo[n].fInTried = m.mapInfo[n].fInTried
                                    /\ w.mapInfo[n].nRefCount = m.mapInfo[n].nRefCount
                                    /\ w.mapInfo[n].addr = m.mapInfo[n].addr
                                    /\ w.mapInfo[n].nLastSuccess = m.mapInfo[n].nLastSuccess
    BY <1>7, <2>2 DEF SameEntry
  <2>4. TriedIds(w) = TriedIds(m) /\ NewIds(w) = NewIds(m) \ {id}
    BY <1>2, <1>7, <2>2, <2>3 DEF TriedIds, NewIds
  <2>5. \A n : n # id => InNew(w, n) = InNew(m, n)
    BY <1>10, <2>2 DEF InNew
  <2>6. InNew(v, id) = {}
    <3>1. Cardinality(InNew(v, id)) = 0
      BY <1>2, <1>4, <1>10, <1>13, InNewFinite
    <3> QED BY <3>1, InNewFinite, FS_EmptySet
  <2>7. NewTable(w, x)
    <3>1. ASSUME NEW c \in NewBucket
          PROVE  w.vvNew[c] \subseteq NewIds(w) /\ Cardinality(w.vvNew[c]) <= NewBucketSize
      <4>1. id \notin vvNew[c]
        BY <1>7, <2>6 DEF InNew
      <4> QED BY <1>7, <1>11, <2>2, <2>4, <4>1
    <3>2. ASSUME NEW n \in DOMAIN w.mapInfo
          PROVE  w.mapInfo[n].nRefCount = Cardinality(InNew(w, n)) + (IF n = x THEN 1 ELSE 0)
      BY <1>1, <2>3, <2>5 DEF NewTable
    <3>3. ASSUME NEW n \in NewIds(w)
          PROVE  w.mapInfo[n].nRefCount \in 1 .. NewBucketsPerAddress
      <4>1. n \in NewIds(m) /\ n \in DOMAIN w.mapInfo
        BY <2>4 DEF NewIds
      <4> QED BY <1>1, <2>3, <4>1 DEF NewTable
    <3> QED BY <3>1, <3>2, <3>3 DEF NewTable
  <2>8. TriedTable(w, NoId)
    <3>1. \A n \in TriedIds(m) : /\ w.mapInfo[n].addr = m.mapInfo[n].addr
                                 /\ w.mapInfo[n].nLastSuccess # 0
      BY <1>1, <2>3, <2>4 DEF TriedTable, TriedIds
    <3> QED BY <1>1, <1>7, <2>2, <2>4, <3>1, TriedSame
  <2>9. Counters(w, NoId)
    <3>1. IsFiniteSet(NewIds(m)) /\ Cardinality(NewIds(m)) \in Nat
      <4>1. NewIds(m) \in SUBSET DOMAIN m.mapInfo
        BY DEF NewIds
      <4> QED BY <1>1, <4>1, IdsFinite
    <3>2. Cardinality(NewIds(w)) = Cardinality(NewIds(m)) - 1
      BY <1>2, <2>4, <3>1, FS_RemoveElement
    <3> QED BY <1>1, <1>7, <2>2, <2>4, <3>2 DEF Counters
  <2>10. Tables(w, x, NoId)
    BY <2>2, <2>7, <2>8, <2>9 DEF Tables
  <2>11. \A n \in TriedIds(m) : w.mapInfo[n].addr = m.mapInfo[n].addr
    BY <2>3, <2>4 DEF TriedIds
  <2> QED BY <1>7, <2>2, <2>3, <2>4, <2>10, <2>11 DEF vvNew
<1> QED BY <1>12, <1>13

(* Add_ puts the entry it has counted into a bucket with room.             *)
Entered(m, b, id) == [m EXCEPT !.vvNew[b] = @ \cup {id}]

LEMMA EnterHeld ==
  ASSUME NEW m, NEW id \in NewIds(m), Tables(m, id, NoId), NEW b \in NewBucket,
         id \notin m.vvNew[b], Cardinality(m.vvNew[b]) < NewBucketSize,
         NEW w, w = Entered(m, b, id)
  PROVE  Tables(w, NoId, NoId) /\ w.mapInfo = m.mapInfo
<1>1. m \in AddrMen /\ Indexed(m) /\ NewTable(m, id) /\ TriedTable(m, NoId) /\ Counters(m, NoId)
  BY DEF Tables
<1> DEFINE vvNew == [m.vvNew EXCEPT ![b] = @ \cup {id}]
<1>2. /\ w.nIdCount = m.nIdCount /\ w.mapInfo = m.mapInfo /\ w.mapAddr = m.mapAddr
      /\ w.vRandom = m.vRandom /\ w.nTried = m.nTried /\ w.vvTried = m.vvTried
      /\ w.nNew = m.nNew /\ w.vvNew = vvNew
      /\ w = [nIdCount |-> w.nIdCount, mapInfo |-> w.mapInfo, mapAddr |-> w.mapAddr,
              vRandom |-> w.vRandom, nTried |-> w.nTried, vvTried |-> w.vvTried,
              nNew |-> w.nNew, vvNew |-> w.vvNew]
  BY <1>1 DEF AddrMen, Entered
<1>3. id \in DOMAIN m.mapInfo /\ id \in Nat /\ NoId \notin Nat
  BY <1>1, AddrManIs DEF NewIds, NoId
<1>4. /\ w.vvNew \in [NewBucket -> SUBSET Nat]
      /\ Cardinality(InNew(w, id)) = Cardinality(InNew(m, id)) + 1
      /\ \A n : n # id => InNew(w, n) = InNew(m, n)
  <2>1. /\ w.vvNew \in [NewBucket -> SUBSET Nat]
        /\ \A c \in NewBucket : w.vvNew[c] = IF c = b THEN m.vvNew[c] \cup {id} ELSE m.vvNew[c]
    <3>1. m.vvNew \in [NewBucket -> SUBSET Nat]
      BY <1>1, AddrManIs
    <3>2. vvNew \in [NewBucket -> SUBSET Nat]
      BY <1>3, <3>1
    <3>3. \A c \in NewBucket : vvNew[c] = IF c = b THEN m.vvNew[c] \cup {id} ELSE m.vvNew[c]
      BY <3>1
    <3> HIDE DEF vvNew
    <3> QED BY <1>2, <3>2, <3>3
  <2> HIDE DEF vvNew
  <2>2. /\ Cardinality(InNew(w, id)) = Cardinality(InNew(m, id)) + 1
        /\ \A n : n # id => InNew(w, n) = InNew(m, n)
    <3>1. Enters(m, w, b, id)
      BY <2>1 DEF Enters
    <3> QED BY <1>1, <3>1, BucketEntered
  <2> QED BY <2>1, <2>2
<1>5. w \in AddrMen
  <2> HIDE DEF vvNew
  <2> QED BY <1>1, <1>2, <1>4, AddrManIs DEF AddrMen
<1>6. Indexed(w)
  BY <1>1, <1>2, IndexedSame
<1>7. TriedIds(w) = TriedIds(m) /\ NewIds(w) = NewIds(m)
  BY <1>2 DEF TriedIds, NewIds
<1>8. NewTable(w, NoId)
  <2>1. ASSUME NEW c \in NewBucket
        PROVE  w.vvNew[c] \subseteq NewIds(w) /\ Cardinality(w.vvNew[c]) <= NewBucketSize
    <3>1. /\ IsFiniteSet(m.vvNew[c]) /\ Cardinality(m.vvNew[c]) \in Nat
          /\ m.vvNew[c] \subseteq NewIds(m) /\ Cardinality(m.vvNew[c]) <= NewBucketSize
      BY <1>1, BucketFinite
    <3>2. NewBucketSize \in Nat
      BY AddrManAssumption
    <3>3. CASE c = b
      <4>1. w.vvNew[c] = m.vvNew[c] \cup {id}
        BY <1>1, <1>2, <3>3, AddrManIs
      <4>2. Cardinality(w.vvNew[c]) = Cardinality(m.vvNew[c]) + 1
        BY <3>1, <3>3, <4>1, FS_AddElement
      <4> QED BY <1>7, <3>1, <3>2, <3>3, <4>1, <4>2
    <3>4. CASE c # b
      BY <1>1, <1>2, <1>7, <3>1, <3>4, AddrManIs
    <3> QED BY <3>3, <3>4
  <2>2. ASSUME NEW n \in DOMAIN w.mapInfo
        PROVE  w.mapInfo[n].nRefCount = Cardinality(InNew(w, n)) + (IF n = NoId THEN 1 ELSE 0)
    <3>1. n # NoId /\ m.mapInfo[n].nRefCount = Cardinality(InNew(m, n)) + (IF n = id THEN 1 ELSE 0)
      BY <1>1, <1>2, <1>3, AddrManIs DEF NewTable
    <3>2. CASE n = id
      BY <1>2, <1>4, <3>1, <3>2, InNewFinite
    <3>3. CASE n # id
      BY <1>2, <1>4, <3>1, <3>3, InNewFinite
    <3> QED BY <3>2, <3>3
  <2> QED BY <1>1, <1>2, <1>7, <2>1, <2>2 DEF NewTable
<1>9. TriedTable(w, NoId)
  <2>1. \A n \in TriedIds(m) : m.mapInfo[n].nLastSuccess # 0
    BY <1>1 DEF TriedTable
  <2> QED BY <1>1, <1>2, <1>7, <2>1, TriedSame
<1>10. Counters(w, NoId)
  BY <1>1, <1>2, <1>7 DEF Counters
<1> QED BY <1>2, <1>5, <1>6, <1>8, <1>9, <1>10 DEF Tables

(* Tried entries keep their place, and their address finds them.           *)
LEMMA KeepsTriedTwice ==
  ASSUME NEW m, NEW v, NEW w, KeepsTried(m, v), KeepsTried(v, w)
  PROVE  KeepsTried(m, w)
BY DEF KeepsTried

(* Add_ once the entry has been counted.                                   *)
LEMMA AddRoom ==
  ASSUME NEW m, NEW id \in NewIds(m), Tables(m, id, NoId), NEW b \in NewBucket,
         id \notin m.vvNew[b], NEW w,
         \/ Cardinality(m.vvNew[b]) # NewBucketSize /\ w = [m EXCEPT !.vvNew[b] = @ \cup {id}]
         \/ /\ Cardinality(m.vvNew[b]) = NewBucketSize
            /\ \E victim \in m.vvNew[b] :
                 w = [ShrinkNew(m, b, victim) EXCEPT !.vvNew[b] = @ \cup {id}]
  PROVE  Tables(w, NoId, NoId) /\ KeepsTried(m, w)
<1>1. /\ m \in AddrMen /\ Indexed(m) /\ NewTable(m, id)
      /\ m.vvNew \in [NewBucket -> SUBSET Nat]
  BY AddrManIs DEF Tables
<1>2. /\ IsFiniteSet(m.vvNew[b]) /\ Cardinality(m.vvNew[b]) \in Nat
      /\ Cardinality(m.vvNew[b]) <= NewBucketSize /\ NewBucketSize \in Nat
  BY <1>1, BucketFinite, AddrManAssumption
<1>3. CASE Cardinality(m.vvNew[b]) # NewBucketSize /\ w = [m EXCEPT !.vvNew[b] = @ \cup {id}]
  <2>1. Cardinality(m.vvNew[b]) < NewBucketSize
    BY <1>2, <1>3
  <2>2. Tables(w, NoId, NoId) /\ w.mapInfo = m.mapInfo
    BY <1>3, <2>1, EnterHeld DEF Entered
  <2> QED BY <2>2 DEF KeepsTried, TriedIds
<1>4. CASE /\ Cardinality(m.vvNew[b]) = NewBucketSize
           /\ \E victim \in m.vvNew[b] :
                w = [ShrinkNew(m, b, victim) EXCEPT !.vvNew[b] = @ \cup {id}]
  <2>1. PICK victim \in m.vvNew[b] : w = [ShrinkNew(m, b, victim) EXCEPT !.vvNew[b] = @ \cup {id}]
    BY <1>4
  <2> DEFINE v == ShrinkNew(m, b, victim)
  <2>2. victim # id
    OBVIOUS
  <2>3. /\ Tables(v, id, NoId)
        /\ v.vvNew = [m.vvNew EXCEPT ![b] = @ \ {victim}]
        /\ NewIds(m) \ {victim} \subseteq NewIds(v)
        /\ TriedIds(v) = TriedIds(m)
        /\ \A n \in TriedIds(m) : v.mapInfo[n].addr = m.mapInfo[n].addr
    <3>1. v = ShrinkNew(m, b, victim)
      OBVIOUS
    <3> HIDE DEF v
    <3> QED BY <2>2, <3>1, ShrinkHeld
  <2>4. w = Entered(v, b, id)
    BY <2>1 DEF Entered
  <2> HIDE DEF v
  <2>5. /\ v.vvNew[b] = m.vvNew[b] \ {victim} /\ id \in NewIds(v) /\ id \notin v.vvNew[b]
    BY <1>1, <2>2, <2>3
  <2>6. Cardinality(v.vvNew[b]) < NewBucketSize
    <3>1. Cardinality(m.vvNew[b] \ {victim}) = Cardinality(m.vvNew[b]) - 1
      BY <1>2, FS_RemoveElement
    <3> QED BY <1>2, <1>4, <2>5, <3>1
  <2>7. Tables(w, NoId, NoId) /\ w.mapInfo = v.mapInfo
    BY <2>3, <2>4, <2>5, <2>6, EnterHeld
  <2> QED BY <2>3, <2>7 DEF KeepsTried, TriedIds
<1> QED BY <1>3, <1>4

(* Add_ of a known address counts one more bucket.                         *)
LEMMA AddKnownHeld ==
  ASSUME AddrManInv, NEW a \in Addr, NEW s \in Source, AddKnown(a, s)
  PROVE  AddrManInv' /\ KeepsTried(am, am')
<1> DEFINE id == am.mapAddr[a]
           b == GetNewBucket[<<a, s>>]
           info == [am.mapInfo[id] EXCEPT !.nRefCount = @ + 1]
           w == Replaced(am, id, info, am.vvNew, am.nNew)
<1>1. /\ am \in AddrMen /\ Indexed(am) /\ NewTable(am, NoId)
      /\ TriedTable(am, NoId) /\ Counters(am, NoId)
  BY DEF AddrManInv, Tables
<1>2. /\ id \in DOMAIN am.mapInfo /\ ~am.mapInfo[id].fInTried
      /\ am.mapInfo[id].nRefCount # NewBucketsPerAddress
      /\ AddToBucket(am, id, a, s)
  BY <1>1 DEF AddKnown, Indexed
<1>3. /\ b \in NewBucket /\ am.mapInfo[id] \in Info /\ id \in NewIds(am) /\ id \in Nat
      /\ am.mapInfo[id].nRefCount \in 1 .. NewBucketsPerAddress /\ NewBucketsPerAddress \in Nat
      /\ am.vvNew \in [NewBucket -> SUBSET Nat] /\ am.nNew \in Int
  <2>1. b \in NewBucket
    BY AddrManAssumption
  <2>2. id \in NewIds(am)
    BY <1>2 DEF NewIds, TriedIds
  <2> QED BY <1>1, <1>2, <2>1, <2>2, AddrManIs, AddrManAssumption DEF NewTable
<1>4. /\ info \in Info /\ info.nRefCount = am.mapInfo[id].nRefCount + 1
      /\ info.addr = am.mapInfo[id].addr /\ info.nRandomPos = am.mapInfo[id].nRandomPos
      /\ info.fInTried = am.mapInfo[id].fInTried
  <2> HIDE DEF id
  <2> QED BY <1>3 DEF Info
<1>5. w = [am EXCEPT !.mapInfo[id].nRefCount = @ + 1]
  <2> HIDE DEF id
  <2> QED BY <1>1, <1>2 DEF AddrMen, Replaced
<1>6. \/ am' = am
      \/ /\ id \notin am.vvNew[b]
         /\ \/ Cardinality(am.vvNew[b]) # NewBucketSize /\ am' = [w EXCEPT !.vvNew[b] = @ \cup {id}]
            \/ /\ Cardinality(am.vvNew[b]) = NewBucketSize
               /\ \E victim \in am.vvNew[b] :
                    am' = [ShrinkNew(w, b, victim) EXCEPT !.vvNew[b] = @ \cup {id}]
  <2> HIDE DEF id, w, info
  <2> QED BY <1>2, <1>5 DEF AddToBucket
<1>7. CASE am' = am
  <2>1. AddrManInv'
    BY <1>7 DEF AddrManInv
  <2> QED BY <1>7, <2>1 DEF KeepsTried
<1>8. CASE am' # am
  <2> HIDE DEF info, id
  <2>1. /\ w \in AddrMen
        /\ w.nIdCount = am.nIdCount /\ w.mapAddr = am.mapAddr /\ w.vRandom = am.vRandom
        /\ DOMAIN w.mapInfo = DOMAIN am.mapInfo
        /\ w.mapInfo[id] = info
        /\ \A n \in DOMAIN am.mapInfo : n # id => w.mapInfo[n] = am.mapInfo[n]
        /\ w.nTried = am.nTried /\ w.vvTried = am.vvTried
        /\ w.nNew = am.nNew /\ w.vvNew = am.vvNew
    <3>1. w = Replaced(am, id, info, am.vvNew, am.nNew)
      OBVIOUS
    <3> HIDE DEF w
    <3> QED BY <1>1, <1>2, <1>3, <1>4, <3>1, ReplaceIs
  <2> HIDE DEF w
  <2>2. Indexed(w)
    BY <1>1, <1>4, <2>1, IndexedSame
  <2>3. TriedIds(w) = TriedIds(am) /\ NewIds(w) = NewIds(am)
        /\ \A n \in TriedIds(am) : n # id /\ w.mapInfo[n] = am.mapInfo[n]
    BY <1>2, <1>4, <2>1 DEF TriedIds, NewIds
  <2>4. \A n : InNew(w, n) = InNew(am, n)
    BY <2>1 DEF InNew
  <2>5. NewTable(w, id)
    <3>1. ASSUME NEW n \in DOMAIN w.mapInfo
          PROVE  /\ w.mapInfo[n].nRefCount = Cardinality(InNew(w, n)) + (IF n = id THEN 1 ELSE 0)
                 /\ n \in NewIds(w) => w.mapInfo[n].nRefCount \in 1 .. NewBucketsPerAddress
      <4>1. n # NoId
        BY <1>1, <2>1, AddrManIs DEF NoId
      <4>2. am.mapInfo[n].nRefCount = Cardinality(InNew(am, n)) + 0
        BY <1>1, <2>1, <4>1 DEF NewTable
      <4>3. CASE n = id
        <5>1. w.mapInfo[n].nRefCount = am.mapInfo[id].nRefCount + 1
          BY <1>4, <2>1, <4>3
        <5>2. w.mapInfo[n].nRefCount \in 1 .. NewBucketsPerAddress
          BY <1>2, <1>3, <5>1
        <5> QED BY <2>4, <4>2, <4>3, <5>1, <5>2, InNewFinite
      <4>4. CASE n # id
        BY <1>1, <2>1, <2>3, <2>4, <4>2, <4>4 DEF NewTable
      <4> QED BY <4>3, <4>4
    <3>2. NewIds(w) \subseteq DOMAIN w.mapInfo
      BY DEF NewIds
    <3> QED BY <1>1, <2>1, <2>3, <3>1, <3>2 DEF NewTable
  <2>6. TriedTable(w, NoId)
    <3>1. \A n \in TriedIds(am) : am.mapInfo[n].nLastSuccess # 0
      BY <1>1 DEF TriedTable
    <3> QED BY <1>1, <2>1, <2>3, <3>1, TriedSame
  <2>7. Counters(w, NoId)
    BY <1>1, <2>1, <2>3 DEF Counters
  <2>8. Tables(w, id, NoId) /\ id \in NewIds(w)
    BY <1>3, <2>1, <2>2, <2>3, <2>5, <2>6, <2>7 DEF Tables
  <2>9. Tables(am', NoId, NoId) /\ KeepsTried(w, am')
    <3>1. \/ Cardinality(w.vvNew[b]) # NewBucketSize /\ am' = [w EXCEPT !.vvNew[b] = @ \cup {id}]
          \/ /\ Cardinality(w.vvNew[b]) = NewBucketSize
             /\ \E victim \in w.vvNew[b] :
                  am' = [ShrinkNew(w, b, victim) EXCEPT !.vvNew[b] = @ \cup {id}]
      BY <1>6, <1>8, <2>1
    <3>2. id \notin w.vvNew[b]
      BY <1>6, <1>8, <2>1
    <3> QED BY <1>3, <2>8, <3>1, <3>2, AddRoom
  <2>10. KeepsTried(am, w)
    BY <2>3 DEF KeepsTried
  <2> QED BY <2>9, <2>10, KeepsTriedTwice DEF AddrManInv
<1> QED BY <1>7, <1>8

(* Add_ of a new address counts its first bucket.                          *)
LEMMA AddNewHeld ==
  ASSUME AddrManInv, NEW a \in Addr, NEW s \in Source, AddNew(a, s)
  PROVE  AddrManInv' /\ KeepsTried(am, am')
<1> DEFINE id == am.nIdCount
           b == GetNewBucket[<<a, s>>]
           c == Create(am, a, s)
           old == NewInfo(a, s, Len(am.vRandom) + 1)
           info == [old EXCEPT !.nRefCount = @ + 1]
           w == Replaced(c, id, info, c.vvNew, c.nNew + 1)
<1>1. /\ am \in AddrMen /\ Indexed(am) /\ NewTable(am, NoId)
      /\ TriedTable(am, NoId) /\ Counters(am, NoId)
  BY DEF AddrManInv, Tables
<1>2. a \notin DOMAIN am.mapAddr /\ AddToBucket([c EXCEPT !.nNew = @ + 1], id, a, s)
  BY DEF AddNew
<1>3. /\ b \in NewBucket /\ am.vvNew \in [NewBucket -> SUBSET Nat] /\ am.nNew \in Int /\ id \in Nat
      /\ am.vRandom \in Seq(Nat)
  BY <1>1, AddrManIs, AddrManAssumption
<1>4. id \notin DOMAIN am.mapInfo
  BY <1>1, <1>3 DEF Indexed
<1>5. id \notin am.vvNew[b]
  BY <1>1, <1>3, <1>4, BucketFinite
<1>6. /\ c \in AddrMen
      /\ c.nIdCount = id + 1
      /\ DOMAIN c.mapInfo = DOMAIN am.mapInfo \cup {id}
      /\ c.mapInfo[id] = old
      /\ \A n \in DOMAIN am.mapInfo : n # id => c.mapInfo[n] = am.mapInfo[n]
      /\ DOMAIN c.mapAddr = DOMAIN am.mapAddr \cup {a}
      /\ c.mapAddr[a] = id
      /\ \A e \in DOMAIN am.mapAddr : e # a => c.mapAddr[e] = am.mapAddr[e]
      /\ c.vRandom = Append(am.vRandom, id)
      /\ c.nTried = am.nTried /\ c.vvTried = am.vvTried
      /\ c.nNew = am.nNew /\ c.vvNew = am.vvNew
  <2>1. c = Create(am, a, s)
    OBVIOUS
  <2> HIDE DEF c
  <2> QED BY <1>1, <2>1, CreateIs
<1>7. /\ old.addr = a /\ old.nRefCount = 0 /\ old.fInTried = FALSE
      /\ old.nRandomPos = Len(am.vRandom) + 1 /\ old \in Info
  <2>1. Len(am.vRandom) + 1 \in Int
    BY <1>3
  <2> QED BY <2>1 DEF NewInfo, Info
<1> HIDE DEF old
<1>8. /\ info \in Info /\ info.nRefCount = 1 /\ info.addr = a
      /\ info.nRandomPos = Len(am.vRandom) + 1 /\ info.fInTried = FALSE
  BY <1>7 DEF Info
<1> HIDE DEF c, id
<1>9. w = [[c EXCEPT !.nNew = @ + 1] EXCEPT !.mapInfo[id].nRefCount = @ + 1]
  BY <1>6 DEF AddrMen, Replaced
<1> HIDE DEF info, w
<1>10. \/ Cardinality(am.vvNew[b]) # NewBucketSize /\ am' = [w EXCEPT !.vvNew[b] = @ \cup {id}]
       \/ /\ Cardinality(am.vvNew[b]) = NewBucketSize
          /\ \E victim \in am.vvNew[b] :
                am' = [ShrinkNew(w, b, victim) EXCEPT !.vvNew[b] = @ \cup {id}]
  <2> DEFINE m == [c EXCEPT !.nNew = @ + 1]
  <2>1. m.vvNew = am.vvNew
    BY <1>6 DEF AddrMen
  <2>2. w = [m EXCEPT !.mapInfo[id].nRefCount = @ + 1] /\ AddToBucket(m, id, a, s)
    BY <1>2, <1>9
  <2> HIDE DEF m
  <2> QED BY <1>5, <2>1, <2>2 DEF AddToBucket
<1>11. /\ w \in AddrMen
       /\ w.nIdCount = c.nIdCount /\ w.mapAddr = c.mapAddr /\ w.vRandom = c.vRandom
       /\ DOMAIN w.mapInfo = DOMAIN c.mapInfo
       /\ w.mapInfo[id] = info
       /\ \A n \in DOMAIN c.mapInfo : n # id => w.mapInfo[n] = c.mapInfo[n]
       /\ w.nTried = c.nTried /\ w.vvTried = c.vvTried
       /\ w.nNew = c.nNew + 1 /\ w.vvNew = c.vvNew
  <2>1. w = Replaced(c, id, info, c.vvNew, c.nNew + 1)
    BY DEF w
  <2>2. /\ id \in DOMAIN c.mapInfo /\ c.vvNew \in [NewBucket -> SUBSET Nat] /\ c.nNew + 1 \in Int
    BY <1>3, <1>6
  <2> QED BY SMTT(40), <1>6, <1>8, <2>1, <2>2, ReplaceIs
<1>12. Indexed(w)
  <2>1. Indexed(c)
    BY <1>1, <1>2, CreateIndexed DEF c
  <2>2. SamePlaces(c, w)
    BY <1>6, <1>7, <1>8, <1>11 DEF SamePlaces
  <2> QED BY <2>1, <2>2, IndexedSamePlaces
<1>13. /\ \A n \in DOMAIN am.mapInfo : n # id /\ w.mapInfo[n] = am.mapInfo[n]
       /\ DOMAIN w.mapInfo = DOMAIN am.mapInfo \cup {id}
  BY <1>4, <1>6, <1>11
<1>14. TriedIds(w) = TriedIds(am) /\ NewIds(w) = NewIds(am) \cup {id} /\ id \notin NewIds(am)
  BY <1>4, <1>8, <1>11, <1>13 DEF TriedIds, NewIds
<1>15. \A n : InNew(w, n) = InNew(am, n)
  BY <1>6, <1>11 DEF InNew
<1>16. InNew(am, id) = {} /\ Cardinality(InNew(am, id)) = 0
  <2>1. InNew(am, id) = {}
    BY <1>1, <1>4, BucketFinite DEF InNew
  <2> QED BY <2>1, FS_EmptySet
<1>17. NewTable(w, id)
  <2>1. ASSUME NEW n \in DOMAIN w.mapInfo
        PROVE  /\ w.mapInfo[n].nRefCount = Cardinality(InNew(w, n)) + (IF n = id THEN 1 ELSE 0)
               /\ n \in NewIds(w) => w.mapInfo[n].nRefCount \in 1 .. NewBucketsPerAddress
    <3>1. CASE n = id
      <4>1. NewBucketsPerAddress \in Nat \ {0}
        BY AddrManAssumption
      <4>2. w.mapInfo[n].nRefCount = 1 /\ Cardinality(InNew(w, n)) = 0
        BY <1>8, <1>11, <1>15, <1>16, <3>1
      <4> QED BY <3>1, <4>1, <4>2
    <3>2. CASE n # id
      <4>1. n \in DOMAIN am.mapInfo /\ w.mapInfo[n] = am.mapInfo[n] /\ n # NoId
        BY <1>1, <1>13, <3>2, AddrManIs DEF NoId
      <4>2. am.mapInfo[n].nRefCount = Cardinality(InNew(am, n)) + 0
        BY <1>1, <4>1 DEF NewTable
      <4> QED BY <1>1, <1>14, <1>15, <3>2, <4>1, <4>2 DEF NewTable
    <3> QED BY <3>1, <3>2
  <2>2. NewIds(w) \subseteq DOMAIN w.mapInfo
    BY DEF NewIds
  <2> QED BY <1>1, <1>6, <1>11, <1>14, <2>1, <2>2 DEF NewTable
<1>18. TriedTable(w, NoId)
  <2>1. \A n \in TriedIds(am) : w.mapInfo[n] = am.mapInfo[n] /\ am.mapInfo[n].nLastSuccess # 0
    BY <1>1, <1>13 DEF TriedTable, TriedIds
  <2> QED BY <1>1, <1>6, <1>11, <1>14, <2>1, TriedSame
<1>19. Counters(w, NoId)
  <2>1. NewIds(am) \in SUBSET DOMAIN am.mapInfo
    BY DEF NewIds
  <2>2. Cardinality(NewIds(w)) = Cardinality(NewIds(am)) + 1
    BY <1>1, <1>14, <2>1, IdsFinite, FS_AddElement
  <2> QED BY <1>1, <1>6, <1>11, <1>14, <2>2 DEF Counters
<1>20. Tables(w, id, NoId) /\ id \in NewIds(w)
  BY <1>11, <1>12, <1>14, <1>17, <1>18, <1>19 DEF Tables
<1>21. Tables(am', NoId, NoId) /\ KeepsTried(w, am')
  <2>1. w.vvNew = am.vvNew
    BY <1>6, <1>11
  <2> QED BY <1>3, <1>5, <1>10, <1>20, <2>1, AddRoom
<1>22. KeepsTried(am, w)
  BY <1>13, <1>14 DEF KeepsTried, TriedIds
<1> QED BY <1>21, <1>22, KeepsTriedTwice DEF AddrManInv

(* The tables do not look at the order of vRandom.                         *)
LEMMA TablesSame ==
  ASSUME NEW m, Tables(m, NoId, NoId), NEW w \in AddrMen, Indexed(w),
         DOMAIN w.mapInfo = DOMAIN m.mapInfo,
         \A n \in DOMAIN m.mapInfo : SameEntry(w.mapInfo[n], m.mapInfo[n]),
         w.nTried = m.nTried, w.vvTried = m.vvTried, w.nNew = m.nNew, w.vvNew = m.vvNew
  PROVE  Tables(w, NoId, NoId) /\ KeepsTried(m, w)
<1>1. m \in AddrMen /\ NewTable(m, NoId) /\ TriedTable(m, NoId) /\ Counters(m, NoId)
  BY DEF Tables
<1>2. \A n \in DOMAIN m.mapInfo : /\ w.mapInfo[n].addr = m.mapInfo[n].addr
                                  /\ w.mapInfo[n].nLastSuccess = m.mapInfo[n].nLastSuccess
                                  /\ w.mapInfo[n].nRefCount = m.mapInfo[n].nRefCount
                                  /\ w.mapInfo[n].fInTried = m.mapInfo[n].fInTried
  BY DEF SameEntry
<1>3. TriedIds(w) = TriedIds(m) /\ NewIds(w) = NewIds(m)
  BY <1>2 DEF TriedIds, NewIds
<1>4. \A n : InNew(w, n) = InNew(m, n)
  BY DEF InNew
<1>5. \A n \in TriedIds(m) : /\ w.mapInfo[n].addr = m.mapInfo[n].addr
                             /\ w.mapInfo[n].nLastSuccess # 0
  BY <1>1, <1>2 DEF TriedTable, TriedIds
<1>6. TriedTable(w, NoId)
  BY <1>1, <1>3, <1>5, TriedSame
<1>7. NewTable(w, NoId)
  <2>1. ASSUME NEW n \in DOMAIN w.mapInfo
        PROVE  w.mapInfo[n].nRefCount = Cardinality(InNew(w, n)) + (IF n = NoId THEN 1 ELSE 0)
    BY <1>1, <1>2, <1>4 DEF NewTable
  <2>2. ASSUME NEW n \in NewIds(w)
        PROVE  w.mapInfo[n].nRefCount \in 1 .. NewBucketsPerAddress
    <3>1. n \in NewIds(m) /\ n \in DOMAIN m.mapInfo
      BY <1>3 DEF NewIds
    <3> QED BY <1>1, <1>2, <3>1 DEF NewTable
  <2> QED BY <1>1, <1>3, <2>1, <2>2 DEF NewTable
<1>8. Counters(w, NoId)
  BY <1>1, <1>3 DEF Counters
<1> QED BY <1>3, <1>5, <1>6, <1>7, <1>8 DEF Tables, KeepsTried

LEMMA GetAddrHeld ==
  ASSUME AddrManInv, NEW n \in DOMAIN am.vRandom, NEW p \in DOMAIN am.vRandom, GetAddr(n, p)
  PROVE  AddrManInv' /\ KeepsTried(am, am')
<1>1. Tables(am, NoId, NoId) /\ am \in AddrMen /\ Indexed(am)
  BY DEF AddrManInv, Tables
<1>2. n \in 1 .. Len(am.vRandom) /\ p \in 1 .. Len(am.vRandom)
  BY <1>1, AddrManIs
<1>3. am' = SwapRandom(am, n, p)
  BY DEF GetAddr
<1>4. /\ am' \in AddrMen /\ Indexed(am')
      /\ DOMAIN am'.mapInfo = DOMAIN am.mapInfo
      /\ \A k \in DOMAIN am.mapInfo : SameEntry(am'.mapInfo[k], am.mapInfo[k])
      /\ am'.nTried = am.nTried /\ am'.vvTried = am.vvTried
      /\ am'.nNew = am.nNew /\ am'.vvNew = am.vvNew
  BY <1>1, <1>2, <1>3, SwapRandomIs
<1> QED BY <1>1, <1>4, TablesSame DEF AddrManInv

(* Good_ notes the time of success.                                        *)
Succeeded(m, id, t) == [m EXCEPT !.mapInfo[id].nLastSuccess = t]

LEMMA SuccessHeld ==
  ASSUME NEW m, Tables(m, NoId, NoId), NEW id \in DOMAIN m.mapInfo, NEW t \in Nat \ {0},
         NEW w, w = Succeeded(m, id, t)
  PROVE  /\ Tables(w, NoId, NoId) /\ KeepsTried(m, w)
         /\ w.vvTried = m.vvTried /\ w.vvNew = m.vvNew
         /\ DOMAIN w.mapInfo = DOMAIN m.mapInfo
         /\ w.mapInfo[id].addr = m.mapInfo[id].addr
         /\ w.mapInfo[id].fInTried = m.mapInfo[id].fInTried
         /\ w.mapInfo[id].nLastSuccess = t
         /\ TriedIds(w) = TriedIds(m)
<1> DEFINE info == [m.mapInfo[id] EXCEPT !.nLastSuccess = t]
<1>1. m \in AddrMen /\ Indexed(m) /\ NewTable(m, NoId) /\ TriedTable(m, NoId) /\ Counters(m, NoId)
  BY DEF Tables
<1>2. /\ m.mapInfo[id] \in Info /\ m.vvNew \in [NewBucket -> SUBSET Nat] /\ m.nNew \in Int
  BY <1>1, AddrManIs
<1>3. w = Replaced(m, id, info, m.vvNew, m.nNew)
  BY <1>1 DEF AddrMen, Replaced, Succeeded
<1>4. /\ info \in Info /\ info.nRefCount = m.mapInfo[id].nRefCount
      /\ info.addr = m.mapInfo[id].addr /\ info.nRandomPos = m.mapInfo[id].nRandomPos
      /\ info.fInTried = m.mapInfo[id].fInTried /\ info.nLastSuccess = t
  BY <1>2 DEF Info
<1> HIDE DEF info
<1>5. /\ w \in AddrMen
      /\ w.nIdCount = m.nIdCount /\ w.mapAddr = m.mapAddr /\ w.vRandom = m.vRandom
      /\ DOMAIN w.mapInfo = DOMAIN m.mapInfo
      /\ w.mapInfo[id] = info
      /\ \A n \in DOMAIN m.mapInfo : n # id => w.mapInfo[n] = m.mapInfo[n]
      /\ w.nTried = m.nTried /\ w.vvTried = m.vvTried
      /\ w.nNew = m.nNew /\ w.vvNew = m.vvNew
  BY <1>1, <1>2, <1>3, <1>4, ReplaceIs
<1>6. Indexed(w)
  BY <1>1, <1>4, <1>5, IndexedSame
<1>7. TriedIds(w) = TriedIds(m) /\ NewIds(w) = NewIds(m)
  BY <1>4, <1>5 DEF TriedIds, NewIds
<1>8. \A n : InNew(w, n) = InNew(m, n)
  BY <1>5 DEF InNew
<1>9. \A n \in DOMAIN m.mapInfo : /\ w.mapInfo[n].addr = m.mapInfo[n].addr
                                  /\ w.mapInfo[n].nRefCount = m.mapInfo[n].nRefCount
  BY <1>4, <1>5
<1>10. NewTable(w, NoId)
  <2>1. ASSUME NEW n \in DOMAIN w.mapInfo
        PROVE  w.mapInfo[n].nRefCount = Cardinality(InNew(w, n)) + (IF n = NoId THEN 1 ELSE 0)
    BY <1>1, <1>5, <1>8, <1>9 DEF NewTable
  <2>2. ASSUME NEW n \in NewIds(w)
        PROVE  w.mapInfo[n].nRefCount \in 1 .. NewBucketsPerAddress
    <3>1. n \in NewIds(m) /\ n \in DOMAIN m.mapInfo
      BY <1>7 DEF NewIds
    <3> QED BY <1>1, <1>9, <3>1 DEF NewTable
  <2> QED BY <1>1, <1>5, <1>7, <2>1, <2>2 DEF NewTable
<1>11. \A n \in TriedIds(m) : /\ w.mapInfo[n].addr = m.mapInfo[n].addr
                              /\ w.mapInfo[n].nLastSuccess # 0
  <2>1. TAKE n \in TriedIds(m)
  <2>2. n \in DOMAIN m.mapInfo /\ m.mapInfo[n].nLastSuccess # 0
    BY <1>1 DEF TriedTable, TriedIds
  <2>3. t # 0
    OBVIOUS
  <2> QED BY <1>4, <1>5, <1>9, <2>2, <2>3
<1>12. TriedTable(w, NoId)
  BY <1>1, <1>5, <1>7, <1>11, TriedSame
<1>13. Counters(w, NoId)
  BY <1>1, <1>5, <1>7 DEF Counters
<1> QED BY <1>4, <1>5, <1>6, <1>7, <1>10, <1>11, <1>12, <1>13 DEF Tables, KeepsTried

(* MakeTried once the entry has left the new table.                        *)
Left(m, id) ==
  [m EXCEPT !.mapInfo[id].nRefCount = @ - Cardinality(InNew(m, id)),
            !.mapInfo[id].fInTried = TRUE,
            !.vvNew = [n \in NewBucket |-> @[n] \ {id}],
            !.nNew = @ - 1]

(* The entry is in no bucket then.                                         *)
LEMMA LeftHeld ==
  ASSUME NEW m, Tables(m, NoId, NoId), NEW id \in NewIds(m), m.mapInfo[id].nLastSuccess # 0,
         NEW w, w = Left(m, id)
  PROVE  /\ Tables(w, NoId, id)
         /\ id \in TriedIds(w) /\ w.mapInfo[id].addr = m.mapInfo[id].addr
         /\ w.vvTried = m.vvTried
         /\ w.vvNew = [n \in NewBucket |-> m.vvNew[n] \ {id}]
         /\ KeepsTried(m, w)
<1> DEFINE info == [m.mapInfo[id] EXCEPT !.nRefCount = @ - Cardinality(InNew(m, id)),
                                         !.fInTried = TRUE]
           vvNew == [n \in NewBucket |-> m.vvNew[n] \ {id}]
<1>1. m \in AddrMen /\ Indexed(m) /\ NewTable(m, NoId) /\ TriedTable(m, NoId) /\ Counters(m, NoId)
  BY DEF Tables
<1>2. /\ id \in DOMAIN m.mapInfo /\ id \in Nat /\ ~m.mapInfo[id].fInTried
      /\ m.mapInfo[id] \in Info /\ m.vvNew \in [NewBucket -> SUBSET Nat] /\ m.nNew \in Int
      /\ m.mapInfo[id].nRefCount = Cardinality(InNew(m, id))
      /\ Cardinality(InNew(m, id)) \in Nat
  <2>1. id \in DOMAIN m.mapInfo /\ ~m.mapInfo[id].fInTried
    BY DEF NewIds, TriedIds
  <2>2. id \in Nat /\ id # NoId
    BY <1>1, <2>1, AddrManIs DEF NoId
  <2>3. m.mapInfo[id].nRefCount = Cardinality(InNew(m, id)) + 0
    BY <1>1, <2>1, <2>2 DEF NewTable
  <2> QED BY <1>1, <2>1, <2>2, <2>3, AddrManIs, InNewFinite
<1>3. w = Replaced(m, id, info, vvNew, m.nNew - 1)
  BY <1>1, <1>2 DEF AddrMen, Replaced, Left
<1>4. /\ info \in Info /\ info.nRefCount = 0
      /\ info.addr = m.mapInfo[id].addr /\ info.nRandomPos = m.mapInfo[id].nRandomPos
      /\ info.fInTried = TRUE /\ info.nLastSuccess = m.mapInfo[id].nLastSuccess
  <2> DEFINE i == m.mapInfo[id]
             c == Cardinality(InNew(m, id))
  <2>1. /\ i = [addr |-> i.addr, source |-> i.source, nLastSuccess |-> i.nLastSuccess,
                nRefCount |-> i.nRefCount, fInTried |-> i.fInTried, nRandomPos |-> i.nRandomPos]
        /\ i.addr \in Addr /\ i.source \in Source /\ i.nLastSuccess \in Nat
        /\ i.nRandomPos \in Int
    BY <1>2 DEF Info
  <2>2. i.nRefCount = c /\ c \in Nat
    BY <1>2
  <2> HIDE DEF i, c
  <2>3. info = [addr |-> i.addr, source |-> i.source, nLastSuccess |-> i.nLastSuccess,
                nRefCount |-> i.nRefCount - c, fInTried |-> TRUE, nRandomPos |-> i.nRandomPos]
    <3>1. info = [i EXCEPT !.nRefCount = @ - c, !.fInTried = TRUE]
      BY DEF i, c
    <3> HIDE DEF info
    <3> QED BY <2>1, <3>1
  <2> HIDE DEF info
  <2>4. i.nRefCount - c = 0
    BY <2>2
  <2>5. info \in Info
    BY <2>1, <2>3, <2>4 DEF Info
  <2> QED BY <2>3, <2>4, <2>5 DEF i
<1>5. /\ vvNew \in [NewBucket -> SUBSET Nat]
      /\ \A b \in NewBucket : vvNew[b] = m.vvNew[b] \ {id}
  BY <1>2
<1> HIDE DEF info, vvNew
<1>6. /\ w \in AddrMen
      /\ w.nIdCount = m.nIdCount /\ w.mapAddr = m.mapAddr /\ w.vRandom = m.vRandom
      /\ DOMAIN w.mapInfo = DOMAIN m.mapInfo
      /\ w.mapInfo[id] = info
      /\ \A n \in DOMAIN m.mapInfo : n # id => w.mapInfo[n] = m.mapInfo[n]
      /\ w.nTried = m.nTried /\ w.vvTried = m.vvTried
      /\ w.nNew = m.nNew - 1 /\ w.vvNew = vvNew
  <2>1. m.nNew - 1 \in Int
    BY <1>2
  <2> QED BY <1>1, <1>2, <1>3, <1>4, <1>5, <2>1, ReplaceIs
<1>7. Indexed(w)
  BY <1>1, <1>4, <1>6, IndexedSame
<1>8. /\ TriedIds(w) = TriedIds(m) \cup {id} /\ NewIds(w) = NewIds(m) \ {id}
      /\ id \notin TriedIds(m)
  BY <1>2, <1>4, <1>6 DEF TriedIds, NewIds
<1>9. /\ InNew(w, id) = {} /\ Cardinality(InNew(w, id)) = 0
      /\ \A n : n # id => InNew(w, n) = InNew(m, n)
  <2>1. InNew(w, id) = {}
    BY <1>5, <1>6 DEF InNew
  <2>2. ASSUME NEW n, n # id PROVE InNew(w, n) = InNew(m, n)
    BY <1>5, <1>6, <2>2 DEF InNew
  <2> QED BY <2>1, <2>2, FS_EmptySet
<1>10. NewTable(w, NoId)
  <2>1. ASSUME NEW b \in NewBucket
        PROVE  w.vvNew[b] \subseteq NewIds(w) /\ Cardinality(w.vvNew[b]) <= NewBucketSize
    <3>1. /\ IsFiniteSet(m.vvNew[b]) /\ Cardinality(m.vvNew[b]) \in Nat
          /\ m.vvNew[b] \subseteq NewIds(m) /\ Cardinality(m.vvNew[b]) <= NewBucketSize
      BY <1>1, BucketFinite
    <3>2. w.vvNew[b] \subseteq m.vvNew[b] /\ w.vvNew[b] \subseteq NewIds(w)
      BY <1>5, <1>6, <1>8, <3>1
    <3>3. IsFiniteSet(w.vvNew[b]) /\ Cardinality(w.vvNew[b]) <= Cardinality(m.vvNew[b])
      BY <3>1, <3>2, FS_Subset
    <3>4. Cardinality(w.vvNew[b]) \in Nat /\ NewBucketSize \in Nat
      BY <3>3, FS_CardinalityType, AddrManAssumption
    <3> QED BY <3>1, <3>2, <3>3, <3>4
  <2>2. ASSUME NEW n \in DOMAIN w.mapInfo
        PROVE  w.mapInfo[n].nRefCount = Cardinality(InNew(w, n)) + (IF n = NoId THEN 1 ELSE 0)
    <3>1. n # NoId
      BY <1>6, <1>1, AddrManIs DEF NoId
    <3>2. CASE n = id
      BY <1>4, <1>6, <1>9, <3>1, <3>2
    <3>3. CASE n # id
      BY <1>1, <1>6, <1>9, <3>3 DEF NewTable
    <3> QED BY <3>2, <3>3
  <2>3. ASSUME NEW n \in NewIds(w)
        PROVE  w.mapInfo[n].nRefCount \in 1 .. NewBucketsPerAddress
    <3>1. n \in NewIds(m) /\ n \in DOMAIN m.mapInfo /\ n # id
      BY <1>8 DEF NewIds
    <3> QED BY <1>1, <1>6, <3>1 DEF NewTable
  <2> QED BY <2>1, <2>2, <2>3 DEF NewTable
<1>11. \A n \in TriedIds(m) : n \in TriedIds(w) /\ w.mapInfo[n] = m.mapInfo[n]
  BY <1>6, <1>8 DEF TriedIds
<1>12. TriedTable(w, id)
  <2>1. ASSUME NEW b \in TriedBucket
        PROVE  /\ Len(w.vvTried[b]) <= TriedBucketSize
               /\ \A k \in 1 .. Len(w.vvTried[b]) :
                    /\ w.vvTried[b][k] \in TriedIds(w) \ {id}
                    /\ GetTriedBucket[w.mapInfo[w.vvTried[b][k]].addr] = b
               /\ \A j, k \in 1 .. Len(w.vvTried[b]) :
                    w.vvTried[b][j] = w.vvTried[b][k] => j = k
    <3>1. /\ Len(m.vvTried[b]) <= TriedBucketSize
          /\ \A k \in 1 .. Len(m.vvTried[b]) :
               /\ m.vvTried[b][k] \in TriedIds(m)
               /\ GetTriedBucket[m.mapInfo[m.vvTried[b][k]].addr] = b
          /\ \A j, k \in 1 .. Len(m.vvTried[b]) : m.vvTried[b][j] = m.vvTried[b][k] => j = k
      BY <1>1 DEF TriedTable
    <3> QED BY <1>6, <1>8, <1>11, <3>1
  <2>2. ASSUME NEW n \in TriedIds(w)
        PROVE  w.mapInfo[n].nLastSuccess # 0
    <3>1. CASE n = id
      BY <1>4, <1>6, <3>1
    <3>2. CASE n # id
      BY <1>1, <1>8, <1>11, <3>2 DEF TriedTable
    <3> QED BY <3>1, <3>2
  <2>3. ASSUME NEW n \in TriedIds(w), n # id
        PROVE  \E k \in 1 .. Len(w.vvTried[GetTriedBucket[w.mapInfo[n].addr]]) :
                 w.vvTried[GetTriedBucket[w.mapInfo[n].addr]][k] = n
    <3>1. n \in TriedIds(m) /\ w.mapInfo[n] = m.mapInfo[n] /\ n # NoId
      <4>1. n \in TriedIds(m)
        BY <1>8, <2>3
      <4>2. n \in DOMAIN m.mapInfo
        BY <4>1 DEF TriedIds
      <4> QED BY <1>1, <1>11, <4>1, <4>2, AddrManIs DEF NoId
    <3>2. \E k \in 1 .. Len(m.vvTried[GetTriedBucket[m.mapInfo[n].addr]]) :
            m.vvTried[GetTriedBucket[m.mapInfo[n].addr]][k] = n
      <4>1. n \in TriedIds(m) \ {NoId}
        BY <3>1
      <4> QED BY <1>1, <4>1, Zenon DEF TriedTable
    <3>3. w.vvTried = m.vvTried /\ w.mapInfo[n] = m.mapInfo[n]
      BY <1>6, <3>1
    <3> QED BY <3>2, <3>3, Zenon
  <2> QED BY <2>1, <2>2, <2>3 DEF TriedTable
<1>13. Counters(w, id)
  <2>1. NewIds(m) \in SUBSET DOMAIN m.mapInfo /\ NoId \notin TriedIds(m)
    BY <1>1, AddrManIs DEF NewIds, TriedIds, NoId
  <2>2. Cardinality(NewIds(m) \ {id}) = Cardinality(NewIds(m)) - 1
    BY <1>1, <2>1, IdsFinite, FS_RemoveElement
  <2>3. TriedIds(w) \ {id} = TriedIds(m) \ {NoId}
    BY <1>8, <2>1
  <2> QED BY <1>1, <1>6, <1>8, <2>2, <2>3 DEF Counters
<1>14. Tables(w, NoId, id)
  BY <1>6, <1>7, <1>10, <1>12, <1>13 DEF Tables
<1> QED BY <1>4, <1>6, <1>8, <1>11, <1>14 DEF KeepsTried, vvNew

(* The tried table changes alone.                                          *)
Moved(m, vvTried, nTried) == [m EXCEPT !.vvTried = vvTried, !.nTried = nTried]

LEMMA MovedIs ==
  ASSUME NEW m \in AddrMen, NEW vvTried \in [TriedBucket -> Seq(Nat)], NEW nTried \in Int,
         NEW w, w = Moved(m, vvTried, nTried)
  PROVE  /\ w \in AddrMen
         /\ w.nIdCount = m.nIdCount /\ w.mapAddr = m.mapAddr /\ w.vRandom = m.vRandom
         /\ w.mapInfo = m.mapInfo
         /\ w.nTried = nTried /\ w.vvTried = vvTried
         /\ w.nNew = m.nNew /\ w.vvNew = m.vvNew
<1>1. /\ w.nIdCount = m.nIdCount /\ w.mapInfo = m.mapInfo /\ w.mapAddr = m.mapAddr
      /\ w.vRandom = m.vRandom
      /\ w.nTried = nTried /\ w.vvTried = vvTried
      /\ w.nNew = m.nNew /\ w.vvNew = m.vvNew
      /\ w = [nIdCount |-> w.nIdCount, mapInfo |-> w.mapInfo, mapAddr |-> w.mapAddr,
              vRandom |-> w.vRandom, nTried |-> w.nTried, vvTried |-> w.vvTried,
              nNew |-> w.nNew, vvNew |-> w.vvNew]
  BY DEF AddrMen, Moved
<1>2. w \in AddrMen
  BY <1>1, AddrManIs DEF AddrMen
<1> QED BY <1>1, <1>2

(* No id is negative.                                                      *)
LEMMA NoIdIs ==
  ASSUME NEW m \in AddrMen
  PROVE  /\ NoId \notin DOMAIN m.mapInfo /\ NoId \notin TriedIds(m) /\ NoId \notin NewIds(m)
         /\ TriedIds(m) \subseteq DOMAIN m.mapInfo /\ NewIds(m) \subseteq DOMAIN m.mapInfo
<1>1. NoId \notin DOMAIN m.mapInfo
  BY AddrManIs DEF NoId
<1> QED BY <1>1 DEF TriedIds, NewIds

(* The entries of tried bucket c are s.                                    *)
TriedHolds(m, c, s, y) ==
  /\ Len(s) <= TriedBucketSize
  /\ \A k \in 1 .. Len(s) : /\ s[k] \in TriedIds(m) \ {y}
                            /\ GetTriedBucket[m.mapInfo[s[k]].addr] = c
  /\ \A j, k \in 1 .. Len(s) : s[j] = s[k] => j = k

(* MakeTried appends to a bucket with room.                                *)
Appended(m, b, id) == [m EXCEPT !.vvTried[b] = Append(@, id), !.nTried = @ + 1]

LEMMA AppendTried ==
  ASSUME NEW m \in AddrMen, NEW id \in TriedIds(m), TriedTable(m, id),
         NEW b, b = GetTriedBucket[m.mapInfo[id].addr], Len(m.vvTried[b]) < TriedBucketSize,
         NEW w, w = Appended(m, b, id)
  PROVE  /\ w \in AddrMen
         /\ w.nIdCount = m.nIdCount /\ w.mapAddr = m.mapAddr /\ w.vRandom = m.vRandom
         /\ w.mapInfo = m.mapInfo
         /\ w.nTried = m.nTried + 1
         /\ w.nNew = m.nNew /\ w.vvNew = m.vvNew
         /\ TriedTable(w, NoId)
<1> DEFINE u == m.vvTried[b]
           v == Append(u, id)
           vvTried == [m.vvTried EXCEPT ![b] = v]
<1>1. m \in AddrMen /\ TriedTable(m, id)
  OBVIOUS
<1>2. /\ id \in DOMAIN m.mapInfo /\ id \in Nat /\ m.mapInfo[id].addr \in Addr
      /\ m.vvTried \in [TriedBucket -> Seq(Nat)] /\ m.nTried \in Int
      /\ b \in TriedBucket /\ TriedBucketSize \in Nat
  <2>1. id \in DOMAIN m.mapInfo
    BY DEF TriedIds
  <2>2. id \in Nat /\ m.mapInfo[id].addr \in Addr
    BY <1>1, <2>1, AddrManIs, InfoIs
  <2> QED BY <1>1, <2>1, <2>2, AddrManIs, AddrManAssumption
<1>3. /\ u \in Seq(Nat) /\ v \in Seq(Nat) /\ Len(u) \in Nat /\ Len(v) = Len(u) + 1
      /\ \A k \in 1 .. Len(u) : v[k] = u[k]
      /\ v[Len(u) + 1] = id
  <2>1. u \in Seq(Nat)
    BY <1>2
  <2> HIDE DEF u
  <2> QED BY <1>2, <2>1
<1>4. Len(u) < TriedBucketSize
  OBVIOUS
<1>5. w = Moved(m, vvTried, m.nTried + 1)
  BY <1>1 DEF AddrMen, Moved, Appended
<1> HIDE DEF v, u
<1>6. /\ vvTried \in [TriedBucket -> Seq(Nat)] /\ vvTried[b] = v
      /\ \A c \in TriedBucket : c # b => vvTried[c] = m.vvTried[c]
  BY <1>2, <1>3
<1> HIDE DEF vvTried
<1>7. /\ w \in AddrMen
      /\ w.nIdCount = m.nIdCount /\ w.mapAddr = m.mapAddr /\ w.vRandom = m.vRandom
      /\ w.mapInfo = m.mapInfo
      /\ w.nTried = m.nTried + 1 /\ w.vvTried = vvTried
      /\ w.nNew = m.nNew /\ w.vvNew = m.vvNew
  <2>1. m.nTried + 1 \in Int
    BY <1>2
  <2> QED BY <1>1, <1>5, <1>6, <2>1, MovedIs, SMTT(20)
<1>9. TriedIds(w) = TriedIds(m)
  BY <1>7 DEF TriedIds
<1>11. TriedTable(w, NoId)
  <2>1. ASSUME NEW c \in TriedBucket
        PROVE  /\ Len(w.vvTried[c]) <= TriedBucketSize
               /\ \A k \in 1 .. Len(w.vvTried[c]) :
                    /\ w.vvTried[c][k] \in TriedIds(w) \ {NoId}
                    /\ GetTriedBucket[w.mapInfo[w.vvTried[c][k]].addr] = c
               /\ \A j, k \in 1 .. Len(w.vvTried[c]) :
                    w.vvTried[c][j] = w.vvTried[c][k] => j = k
    <3>1. /\ Len(m.vvTried[c]) <= TriedBucketSize
          /\ \A k \in 1 .. Len(m.vvTried[c]) :
               /\ m.vvTried[c][k] \in TriedIds(m) \ {id}
               /\ GetTriedBucket[m.mapInfo[m.vvTried[c][k]].addr] = c
          /\ \A j, k \in 1 .. Len(m.vvTried[c]) : m.vvTried[c][j] = m.vvTried[c][k] => j = k
      BY <1>1, Zenon DEF TriedTable
    <3>2. NoId \notin TriedIds(m)
      BY <1>1, NoIdIs
    <3>3. CASE c # b
      <4>1. w.vvTried[c] = m.vvTried[c]
        BY <1>6, <1>7, <3>3
      <4>2. \A k \in 1 .. Len(m.vvTried[c]) :
              /\ m.vvTried[c][k] \in TriedIds(w) \ {NoId}
              /\ GetTriedBucket[w.mapInfo[m.vvTried[c][k]].addr] = c
        BY <1>7, <1>9, <3>1, <3>2, Zenon
      <4>3. TriedHolds(w, c, m.vvTried[c], NoId)
        BY <3>1, <4>2, Zenon DEF TriedHolds
      <4>4. TriedHolds(w, c, w.vvTried[c], NoId)
        BY <4>1, <4>3
      <4> QED BY <4>4, Zenon DEF TriedHolds
    <3>4. CASE c = b
      <4>1. w.vvTried[c] = v /\ m.vvTried[c] = u
        BY <1>6, <1>7, <3>4 DEF u
      <4>2. Len(v) <= TriedBucketSize
        BY <1>2, <1>3, <1>4
      <4>3. ASSUME NEW k \in 1 .. Len(v)
            PROVE  v[k] \in TriedIds(m) /\ GetTriedBucket[m.mapInfo[v[k]].addr] = c
        <5>1. CASE k = Len(u) + 1
          BY <1>3, <3>4, <5>1
        <5>2. CASE k # Len(u) + 1
          BY <1>3, <3>1, <4>1, <5>2, SMTT(20)
        <5> QED BY <5>1, <5>2
      <4>4. ASSUME NEW j \in 1 .. Len(v), NEW k \in 1 .. Len(v), v[j] = v[k] PROVE j = k
        <5>1. \A i \in 1 .. Len(u) : v[i] = u[i] /\ v[i] # id
          BY <1>3, <3>1, <4>1
        <5> QED BY <1>3, <3>1, <4>1, <4>4, <5>1
      <4>5. ASSUME NEW k \in 1 .. Len(v)
            PROVE  /\ v[k] \in TriedIds(w) \ {NoId}
                   /\ GetTriedBucket[w.mapInfo[v[k]].addr] = c
        <5>1. v[k] \in TriedIds(m) /\ GetTriedBucket[m.mapInfo[v[k]].addr] = c
          BY <4>3
        <5>2. w.mapInfo = m.mapInfo
          BY <1>7
        <5> QED BY <1>9, <3>2, <5>1, <5>2
      <4>6. TriedHolds(w, c, v, NoId)
        BY <4>2, <4>4, <4>5, Zenon DEF TriedHolds
      <4>7. TriedHolds(w, c, w.vvTried[c], NoId)
        BY <4>1, <4>6
      <4> QED BY <4>7, Zenon DEF TriedHolds
    <3> QED BY <3>3, <3>4, Zenon
  <2>2. ASSUME NEW n \in TriedIds(w)
        PROVE  /\ w.mapInfo[n].nLastSuccess # 0
               /\ \E k \in 1 .. Len(w.vvTried[GetTriedBucket[w.mapInfo[n].addr]]) :
                    w.vvTried[GetTriedBucket[w.mapInfo[n].addr]][k] = n
    <3>1. w.mapInfo[n].nLastSuccess # 0
      BY <1>1, <1>7, <1>9, ZenonT(30) DEF TriedTable
    <3>2. CASE n = id
      <4>1. Len(u) + 1 \in 1 .. Len(v)
        BY <1>3
      <4>2. GetTriedBucket[w.mapInfo[n].addr] = b /\ w.vvTried[b] = v
        BY <1>6, <1>7, <3>2
      <4> QED BY <1>3, <3>1, <3>2, <4>1, <4>2, ZenonT(30)
    <3>3. CASE n # id
      <4> DEFINE c == GetTriedBucket[m.mapInfo[n].addr]
      <4>1. PICK k \in 1 .. Len(m.vvTried[c]) : m.vvTried[c][k] = n
        BY <1>1, <1>9, <3>3, Zenon DEF TriedTable
      <4>2. c \in TriedBucket
        <5>1. n \in DOMAIN m.mapInfo
          BY <1>9 DEF TriedIds
        <5>2. m.mapInfo[n].addr \in Addr
          BY <1>1, <5>1, AddrManIs, InfoIs
        <5> QED BY <5>2, AddrManAssumption
      <4> HIDE DEF c
      <4>3. k \in 1 .. Len(w.vvTried[c]) /\ w.vvTried[c][k] = n
        <5>1. CASE c = b
          <6>1. w.vvTried[c] = v /\ m.vvTried[c] = u
            BY <1>6, <1>7, <5>1 DEF u
          <6> QED BY <1>3, <4>1, <6>1
        <5>2. CASE c # b
          BY <1>6, <1>7, <4>1, <4>2, <5>2
        <5> QED BY <5>1, <5>2
      <4> QED BY <1>7, <3>1, <4>3, Zenon DEF c
    <3> QED BY <3>2, <3>3, Zenon
  <2> QED BY <2>1, <2>2, ZenonT(30) DEF TriedTable
<1> QED BY <1>7, <1>11

LEMMA AppendHeld ==
  ASSUME NEW m, NEW id \in TriedIds(m), Tables(m, NoId, id),
         NEW b, b = GetTriedBucket[m.mapInfo[id].addr], Len(m.vvTried[b]) < TriedBucketSize,
         NEW w, w = Appended(m, b, id)
  PROVE  Tables(w, NoId, NoId) /\ KeepsTried(m, w)
<1>1. m \in AddrMen /\ Indexed(m) /\ NewTable(m, NoId) /\ TriedTable(m, id) /\ Counters(m, id)
  BY DEF Tables
<1>2. /\ w \in AddrMen
      /\ w.nIdCount = m.nIdCount /\ w.mapAddr = m.mapAddr /\ w.vRandom = m.vRandom
      /\ w.mapInfo = m.mapInfo
      /\ w.nTried = m.nTried + 1
      /\ w.nNew = m.nNew /\ w.vvNew = m.vvNew
      /\ TriedTable(w, NoId)
  BY <1>1, AppendTried
<1>3. Indexed(w)
  BY <1>1, <1>2, IndexedSame
<1>4. TriedIds(w) = TriedIds(m) /\ NewIds(w) = NewIds(m) /\ \A n : InNew(w, n) = InNew(m, n)
  BY <1>2 DEF TriedIds, NewIds, InNew
<1>5. NewTable(w, NoId)
  BY <1>1, <1>2, <1>4, ZenonT(60) DEF NewTable
<1>6. Counters(w, NoId)
  <2>1. TriedIds(m) \in SUBSET DOMAIN m.mapInfo /\ NoId \notin TriedIds(m)
    BY <1>1, NoIdIs
  <2>2. IsFiniteSet(TriedIds(m)) /\ Cardinality(TriedIds(m)) \in Nat
    BY <1>1, <2>1, IdsFinite
  <2>3. Cardinality(TriedIds(m) \ {id}) = Cardinality(TriedIds(m)) - 1
    BY <2>2, FS_RemoveElement
  <2>4. TriedIds(w) \ {NoId} = TriedIds(m)
    BY <1>4, <2>1
  <2>5. w.nTried = Cardinality(TriedIds(w) \ {NoId})
    <3>1. m.nTried = Cardinality(TriedIds(m)) - 1
      BY <1>1, <2>3 DEF Counters
    <3>2. Cardinality(TriedIds(w) \ {NoId}) = Cardinality(TriedIds(m))
      BY <2>4
    <3>3. w.nTried = m.nTried + 1 /\ m.nTried \in Int
      BY <1>1, <1>2, AddrManIs
    <3> QED BY <2>2, <3>1, <3>2, <3>3
  <2> QED BY <1>1, <1>2, <1>4, <2>5 DEF Counters
<1> QED BY <1>2, <1>3, <1>4, <1>5, <1>6 DEF Tables, KeepsTried

(* v holds what u holds, in another order.                                 *)
Rearranged(u, v) ==
  /\ v \in Seq(Nat) /\ Len(v) = Len(u)
  /\ \A k \in 1 .. Len(u) : \E j \in 1 .. Len(u) : v[k] = u[j]
  /\ \A j \in 1 .. Len(u) : \E k \in 1 .. Len(u) : v[k] = u[j]
  /\ \A j, k \in 1 .. Len(u) : v[j] = v[k] => j = k

Swapped(v, i, j) == [v EXCEPT ![j] = v[i], ![i] = v[j]]

LEMMA RearrangedSwap ==
  ASSUME NEW u \in Seq(Nat), NEW v, Rearranged(u, v),
         NEW i \in 1 .. Len(u), NEW j \in 1 .. Len(u), NEW w, w = Swapped(v, i, j)
  PROVE  Rearranged(u, w)
<1> DEFINE n == Len(u)
           at == [k \in 1 .. n |-> IF k = i THEN j ELSE IF k = j THEN i ELSE k]
<1>1. n = Len(u) /\ n \in Nat /\ i \in 1 .. n /\ j \in 1 .. n
  OBVIOUS
<1> HIDE DEF n
<1>2. v \in Seq(Nat) /\ Len(v) = n
  BY <1>1 DEF Rearranged
<1>3. /\ \A k \in 1 .. n : \E l \in 1 .. n : v[k] = u[l]
      /\ \A l \in 1 .. n : \E k \in 1 .. n : v[k] = u[l]
      /\ \A k, l \in 1 .. n : v[k] = v[l] => k = l
  BY <1>1, Zenon DEF Rearranged
<1>4. w \in Seq(Nat) /\ Len(w) = n
      /\ \A k \in 1 .. n : w[k] = IF k = i THEN v[j] ELSE IF k = j THEN v[i] ELSE v[k]
  <2>1. v \in [1 .. n -> Nat]
    BY <1>2
  <2>2. /\ w \in [1 .. n -> Nat]
        /\ \A k \in 1 .. n : w[k] = IF k = i THEN v[j] ELSE IF k = j THEN v[i] ELSE v[k]
    BY <1>1, <2>1 DEF Swapped
  <2> QED BY <1>1, <2>2, SMTT(20)
<1>5. \A k \in 1 .. n : at[k] \in 1 .. n /\ w[k] = v[at[k]] /\ at[at[k]] = k
  BY <1>1, <1>4
<1> HIDE DEF at
<1>6. ASSUME NEW k \in 1 .. n PROVE \E l \in 1 .. n : w[k] = u[l]
  <2>1. at[k] \in 1 .. n /\ w[k] = v[at[k]]
    BY <1>5
  <2>2. PICK l \in 1 .. n : v[at[k]] = u[l]
    BY <1>3, <2>1, Zenon
  <2> QED BY <2>1, <2>2
<1>7. ASSUME NEW l \in 1 .. n PROVE \E k \in 1 .. n : w[k] = u[l]
  <2>1. PICK k \in 1 .. n : v[k] = u[l]
    BY <1>3
  <2>2. at[k] \in 1 .. n /\ w[at[k]] = v[k]
    BY <1>5
  <2> QED BY <2>1, <2>2
<1>8. ASSUME NEW k \in 1 .. n, NEW l \in 1 .. n, w[k] = w[l] PROVE k = l
  <2>1. at[k] = at[l]
    <3>1. at[k] \in 1 .. n /\ at[l] \in 1 .. n /\ v[at[k]] = v[at[l]]
      BY <1>5, <1>8
    <3> QED BY <1>3, <3>1
  <2> QED BY <1>5, <2>1
<1>9. w \in Seq(Nat) /\ Len(w) = Len(u)
  BY <1>1, <1>4
<1>10. /\ \A k \in 1 .. Len(u) : \E l \in 1 .. Len(u) : w[k] = u[l]
       /\ \A l \in 1 .. Len(u) : \E k \in 1 .. Len(u) : w[k] = u[l]
       /\ \A k, l \in 1 .. Len(u) : w[k] = w[l] => k = l
  BY <1>1, <1>6, <1>7, <1>8, Zenon
<1> QED BY <1>9, <1>10, Zenon DEF Rearranged

(* The states of the loop of SelectTried.                                  *)
Selections(u) ==
  {st \in [v : Seq(Nat), nOldest : Int, nOldestPos : Int] : Rearranged(u, st.v)}

LEMMA SelectRoundIs ==
  ASSUME NEW m, NEW u \in Seq(Nat), NEW st \in Selections(u),
         NEW i \in 1 .. Len(u), NEW nPos \in 1 .. Len(u),
         NEW z, z = SelectRound(m, st, i, nPos)
  PROVE  /\ z \in Selections(u)
         /\ (st.nOldest = -1 \/ st.nOldestPos \in 1 .. Len(u)) => z.nOldestPos \in 1 .. Len(u)
<1> DEFINE v == Swapped(st.v, i, nPos)
           y == [v |-> v, nOldest |-> v[i], nOldestPos |-> nPos]
           x == [st EXCEPT !.v = v]
<1>1. /\ st \in [v : Seq(Nat), nOldest : Int, nOldestPos : Int] /\ Rearranged(u, st.v)
      /\ st.v \in Seq(Nat) /\ st.nOldest \in Int /\ st.nOldestPos \in Int
  BY DEF Selections
<1>2. z = y \/ (z = x /\ st.nOldest # -1)
  <2> HIDE DEF x, y, v
  <2>1. z = IF st.nOldest = -1
                 \/ m.mapInfo[v[i]].nLastSuccess < m.mapInfo[st.nOldest].nLastSuccess
            THEN y ELSE x
    BY DEF SelectRound, Swapped, x, y, v
  <2> QED BY <2>1
<1>3. Rearranged(u, v)
  <2>1. v = Swapped(st.v, i, nPos)
    OBVIOUS
  <2> HIDE DEF v
  <2> QED BY <1>1, <2>1, RearrangedSwap
<1> HIDE DEF v
<1>4. v \in Seq(Nat) /\ v[i] \in Int /\ nPos \in Int
  <2>1. v \in Seq(Nat) /\ Len(v) = Len(u)
    BY <1>3 DEF Rearranged
  <2>2. i \in 1 .. Len(v)
    BY <2>1
  <2> QED BY <2>1, <2>2
<1>5. y \in [v : Seq(Nat), nOldest : Int, nOldestPos : Int] /\ y.v = v /\ y.nOldestPos = nPos
  BY <1>4
<1>6. /\ x \in [v : Seq(Nat), nOldest : Int, nOldestPos : Int] /\ x.v = v
      /\ x.nOldestPos = st.nOldestPos
  BY <1>1, <1>4
<1> HIDE DEF x, y
<1>7. y \in Selections(u) /\ x \in Selections(u)
  BY <1>3, <1>5, <1>6 DEF Selections
<1> QED BY <1>2, <1>5, <1>6, <1>7

(* SelectTried finds a place of the bucket, whose entries it rearranges.   *)
LEMMA SelectTriedIs ==
  ASSUME NEW m, NEW b, NEW u \in Seq(Nat), m.vvTried[b] = u, u # <<>>,
         \A j, k \in 1 .. Len(u) : u[j] = u[k] => j = k,
         NEW draw \in Draws(Len(u)), NEW sel, sel = SelectTried(m, b, draw)
  PROVE  /\ Rearranged(u, sel.v)
         /\ sel.nOldestPos \in 1 .. Len(u)
<1> DEFINE n == Len(draw)
           X == Selections(u)
           a == [v |-> m.vvTried[b], nOldest |-> -1, nOldestPos |-> -1]
           g == [k \in 1 .. n |-> [st \in X |-> SelectRound(m, st, k, draw[k])]]
<1>1. /\ n \in Nat \ {0}
      /\ \A k \in 1 .. n : k \in 1 .. Len(u) /\ draw[k] \in 1 .. Len(u)
  <2> DEFINE l == Len(u)
             c == IF l < InspectOnEvict THEN l ELSE InspectOnEvict
  <2>1. l \in Nat \ {0} /\ InspectOnEvict \in Nat \ {0}
    BY AddrManAssumption
  <2>2. draw \in [1 .. c -> 1 .. l]
    BY DEF Draws
  <2> HIDE DEF l
  <2>3. c \in Nat \ {0} /\ c <= l
    BY <2>1
  <2> HIDE DEF c
  <2>4. Len(draw) = c
    BY <2>2, <2>3
  <2>5. \A k \in 1 .. c : k \in 1 .. l /\ draw[k] \in 1 .. l
    BY <2>1, <2>2, <2>3
  <2> QED BY <2>3, <2>4, <2>5 DEF l
<1>2. a \in X /\ a.nOldest = -1
  <2>1. Rearranged(u, u)
    BY DEF Rearranged
  <2> QED BY <2>1 DEF Selections
<1>3. g \in [1 .. n -> [X -> X]]
  <2>1. ASSUME NEW k \in 1 .. n, NEW st \in X PROVE SelectRound(m, st, k, draw[k]) \in X
    BY <1>1, SelectRoundIs
  <2> HIDE DEF n, X
  <2> QED BY <2>1
<1>4. \A k \in 1 .. n, st \in X : g[k][st] = SelectRound(m, st, k, draw[k])
  OBVIOUS
<1> HIDE DEF g, n, X, a
<1>5. PICK f : IsFold(f, n, X, a, g)
  BY <1>1, <1>2, <1>3, FoldRecursion
<1>6. /\ f \in [0 .. n -> X] /\ f[0] = a
      /\ \A k \in 1 .. n : f[k - 1] \in X /\ f[k] = SelectRound(m, f[k - 1], k, draw[k])
  <2>1. \A k \in 1 .. n : f[k - 1] \in X
    BY <1>1, <1>5 DEF IsFold
  <2> QED BY <1>4, <1>5, <2>1 DEF IsFold
<1>7. f = [k \in 0 .. n |-> IF k = 0 THEN a ELSE SelectRound(m, f[k - 1], k, draw[k])]
  BY <1>1, <1>6
<1> DEFINE h == CHOOSE h : h = [k \in 0 .. n |->
                                  IF k = 0 THEN a ELSE SelectRound(m, h[k - 1], k, draw[k])]
<1>8. h = [k \in 0 .. n |-> IF k = 0 THEN a ELSE SelectRound(m, h[k - 1], k, draw[k])]
  BY <1>7
<1>9. sel = h[n]
  BY Zenon DEF SelectTried, SelectingTried, n, a
<1> HIDE DEF h
<1>10. \A k \in 0 .. n : h[k] = f[k]
  <2> DEFINE S == {k \in 0 .. n : h[k] = f[k]}
  <2>1. 0 \in S
    BY <1>1, <1>6, <1>8
  <2>2. ASSUME NEW k \in 1 .. n, k - 1 \in S PROVE k \in S
    BY <1>1, <1>6, <1>8, <2>2
  <2> HIDE DEF S
  <2>3. \A k \in 0 .. n : k \in S
    BY <1>1, <2>1, <2>2, UpTo
  <2> QED BY <2>3 DEF S
<1>11. \A k \in 0 .. n : k # 0 => f[k].nOldestPos \in 1 .. Len(u)
  <2> DEFINE S == {k \in 0 .. n : k # 0 => f[k].nOldestPos \in 1 .. Len(u)}
  <2>1. 0 \in S
    BY <1>1
  <2>2. ASSUME NEW k \in 1 .. n, k - 1 \in S PROVE k \in S
    <3>1. f[k - 1].nOldest = -1 \/ f[k - 1].nOldestPos \in 1 .. Len(u)
      <4>1. CASE k = 1
        BY <1>2, <1>6, <4>1
      <4>2. CASE k # 1
        BY <2>2, <4>2
      <4> QED BY <4>1, <4>2
    <3>2. f[k].nOldestPos \in 1 .. Len(u)
      <4>1. /\ f[k - 1] \in Selections(u) /\ f[k] = SelectRound(m, f[k - 1], k, draw[k])
            /\ k \in 1 .. Len(u) /\ draw[k] \in 1 .. Len(u)
        BY <1>1, <1>6 DEF X
      <4> QED BY <3>1, <4>1, SelectRoundIs
    <3> QED BY <3>2
  <2> HIDE DEF S
  <2>3. \A k \in 0 .. n : k \in S
    BY <1>1, <2>1, <2>2, UpTo
  <2> QED BY <2>3 DEF S
<1>12. sel = f[n] /\ sel \in X /\ sel.nOldestPos \in 1 .. Len(u)
  <2>1. n \in 0 .. n /\ n # 0
    BY <1>1
  <2>2. sel = f[n]
    BY <1>9, <1>10, <2>1
  <2>3. f[n] \in X
    BY <1>6, <2>1
  <2>4. f[n].nOldestPos \in 1 .. Len(u)
    BY <1>11, <2>1
  <2> QED BY <2>2, <2>3, <2>4
<1> QED BY <1>12 DEF X, Selections

(* Sequences are functions on an interval.                                 *)
LEMMA SeqIs ==
  ASSUME NEW v \in Seq(Nat)
  PROVE  Len(v) \in Nat /\ v \in [1 .. Len(v) -> Nat]
OBVIOUS

LEMMA IsSeq ==
  ASSUME NEW n \in Nat, NEW f \in [1 .. n -> Nat]
  PROVE  f \in Seq(Nat) /\ Len(f) = n
OBVIOUS

(* The tried table, bucket by bucket.                                      *)
LEMMA TriedTableHolds ==
  ASSUME NEW m, NEW y, TriedTable(m, y), NEW b \in TriedBucket
  PROVE  TriedHolds(m, b, m.vvTried[b], y)
BY Zenon DEF TriedTable, TriedHolds

(* MakeTried puts entry id at place pos of a full tried bucket, rearranged *)
(* as v, and the entry there back into new bucket to.                      *)
Evicted(m, id, to, b, v, pos) ==
  [m EXCEPT !.mapInfo[v[pos]].fInTried = FALSE, !.mapInfo[v[pos]].nRefCount = 1,
            !.vvNew[to] = @ \cup {v[pos]}, !.nNew = @ + 1,
            !.vvTried[b] = [v EXCEPT ![pos] = id]]

CanEvict(m, id, to, b, v, pos) ==
  /\ id \in TriedIds(m) /\ Tables(m, NoId, id) /\ b = GetTriedBucket[m.mapInfo[id].addr]
  /\ Rearranged(m.vvTried[b], v) /\ pos \in 1 .. Len(m.vvTried[b])
  /\ to \in NewBucket /\ Cardinality(m.vvNew[to]) < NewBucketSize

LEMMA RearrangedHolds ==
  ASSUME NEW m, NEW id, NEW b, NEW v, NEW pos, NEW to, CanEvict(m, id, to, b, v, pos),
         NEW u, u = m.vvTried[b]
  PROVE  /\ b \in TriedBucket /\ TriedHolds(m, b, u, id)
         /\ v \in Seq(Nat) /\ Len(v) = Len(u)
         /\ \A k \in 1 .. Len(u) : /\ v[k] \in TriedIds(m) \ {id} /\ v[k] \in Nat
                                   /\ GetTriedBucket[m.mapInfo[v[k]].addr] = b
         /\ \A j, k \in 1 .. Len(u) : v[j] = v[k] => j = k
<1>a. id \in TriedIds(m) /\ b = GetTriedBucket[m.mapInfo[id].addr]
  BY DEF CanEvict
<1>b. Rearranged(u, v)
  BY DEF CanEvict
<1>c. pos \in 1 .. Len(u)
  BY DEF CanEvict
<1>d. to \in NewBucket
  BY DEF CanEvict
<1>e. Cardinality(m.vvNew[to]) < NewBucketSize
  BY DEF CanEvict
<1>1. m \in AddrMen /\ Indexed(m) /\ NewTable(m, NoId) /\ TriedTable(m, id) /\ Counters(m, id)
  BY DEF CanEvict, Tables
<1>2. /\ id \in DOMAIN m.mapInfo /\ id \in Nat /\ m.mapInfo[id].addr \in Addr
      /\ m.vvTried \in [TriedBucket -> Seq(Nat)] /\ m.nTried \in Int /\ m.nNew \in Int
      /\ m.vvNew \in [NewBucket -> SUBSET Nat]
      /\ b \in TriedBucket /\ TriedBucketSize \in Nat
  <2>1. id \in DOMAIN m.mapInfo
    BY <1>a DEF TriedIds
  <2>2. id \in Nat /\ m.mapInfo[id].addr \in Addr
    BY <1>1, <2>1, AddrManIs, InfoIs
  <2> QED BY <1>a, <1>1, <2>1, <2>2, AddrManIs, AddrManAssumption
<1>3. TriedHolds(m, b, u, id)
  BY <1>a, <1>1, <1>2, TriedTableHolds
<1>4. u \in Seq(Nat) /\ Len(u) \in Nat
  BY <1>2
<1>5. /\ v \in Seq(Nat) /\ Len(v) = Len(u)
      /\ \A k \in 1 .. Len(u) : /\ v[k] \in TriedIds(m) \ {id} /\ v[k] \in Nat
                                /\ GetTriedBucket[m.mapInfo[v[k]].addr] = b
      /\ \A j, k \in 1 .. Len(u) : v[j] = v[k] => j = k
  <2>1. v \in Seq(Nat) /\ Len(v) = Len(u)
    BY <1>b DEF Rearranged
  <2>2. ASSUME NEW k \in 1 .. Len(u)
        PROVE  /\ v[k] \in TriedIds(m) \ {id} /\ v[k] \in Nat
               /\ GetTriedBucket[m.mapInfo[v[k]].addr] = b
    <3>1. PICK j \in 1 .. Len(u) : v[k] = u[j]
      BY <1>b, Zenon DEF Rearranged
    <3>2. u[j] \in TriedIds(m) \ {id} /\ GetTriedBucket[m.mapInfo[u[j]].addr] = b
      BY <1>3, Zenon DEF TriedHolds
    <3>3. u[j] \in Nat
      BY <1>4, SeqIs
    <3> QED BY <3>1, <3>2, <3>3
  <2>3. \A j, k \in 1 .. Len(u) : v[j] = v[k] => j = k
    BY <1>b, Zenon DEF Rearranged
  <2> QED BY <2>1, <2>2, <2>3
<1> QED BY <1>2, <1>3, <1>5

(* The entry that makes room, and the state afterwards.                    *)
OldEvicted(m, id, to, b, u, v, pos, old, w) ==
  /\ old \in TriedIds(m) /\ old # id /\ GetTriedBucket[m.mapInfo[old].addr] = b
  /\ w \in AddrMen
  /\ w.nIdCount = m.nIdCount /\ w.mapAddr = m.mapAddr /\ w.vRandom = m.vRandom
  /\ DOMAIN w.mapInfo = DOMAIN m.mapInfo
  /\ w.mapInfo[old].nRefCount = 1 /\ w.mapInfo[old].fInTried = FALSE
  /\ w.mapInfo[old].addr = m.mapInfo[old].addr
  /\ w.mapInfo[old].nRandomPos = m.mapInfo[old].nRandomPos
  /\ \A n \in DOMAIN m.mapInfo : n # old => w.mapInfo[n] = m.mapInfo[n]
  /\ w.nTried = m.nTried /\ w.nNew = m.nNew + 1
  /\ w.vvNew[to] = m.vvNew[to] \cup {old}
  /\ \A c \in NewBucket : c # to => w.vvNew[c] = m.vvNew[c]
  /\ Len(w.vvTried[b]) = Len(u) /\ w.vvTried[b][pos] = id
  /\ \A k \in 1 .. Len(u) : k # pos => w.vvTried[b][k] = v[k]
  /\ \A c \in TriedBucket : c # b => w.vvTried[c] = m.vvTried[c]

LEMMA OldEvictedIs ==
  ASSUME NEW m, NEW id, NEW b, NEW v, NEW pos, NEW to, CanEvict(m, id, to, b, v, pos),
         NEW u, u = m.vvTried[b],
         NEW old, old = v[pos], NEW w, w = Evicted(m, id, to, b, v, pos)
  PROVE  OldEvicted(m, id, to, b, u, v, pos, old, w)
<1>a. id \in TriedIds(m) /\ b = GetTriedBucket[m.mapInfo[id].addr]
  BY DEF CanEvict
<1>b. Rearranged(u, v)
  BY DEF CanEvict
<1>c. pos \in 1 .. Len(u)
  BY DEF CanEvict
<1>d. to \in NewBucket
  BY DEF CanEvict
<1>e. Cardinality(m.vvNew[to]) < NewBucketSize
  BY DEF CanEvict
<1>1. m \in AddrMen /\ Indexed(m) /\ NewTable(m, NoId) /\ TriedTable(m, id) /\ Counters(m, id)
  BY DEF CanEvict, Tables
<1>2. /\ id \in DOMAIN m.mapInfo /\ id \in Nat /\ m.mapInfo[id].addr \in Addr
      /\ m.vvTried \in [TriedBucket -> Seq(Nat)] /\ m.nTried \in Int /\ m.nNew \in Int
      /\ m.vvNew \in [NewBucket -> SUBSET Nat]
      /\ b \in TriedBucket /\ TriedBucketSize \in Nat
  <2>1. id \in DOMAIN m.mapInfo
    BY <1>a DEF TriedIds
  <2>2. id \in Nat /\ m.mapInfo[id].addr \in Addr
    BY <1>1, <2>1, AddrManIs, InfoIs
  <2> QED BY <1>a, <1>1, <2>1, <2>2, AddrManIs, AddrManAssumption
<1>f. b \in TriedBucket /\ m.vvTried \in [TriedBucket -> Seq(Nat)]
  BY <1>2
<1>g. id \in Nat /\ m.vvNew \in [NewBucket -> SUBSET Nat] /\ m.nTried \in Int /\ m.nNew + 1 \in Int
  BY <1>2
<1>3. PICK info : info = [m.mapInfo[old] EXCEPT !.fInTried = FALSE, !.nRefCount = 1]
  OBVIOUS
<1>4. PICK vvNew : vvNew = [m.vvNew EXCEPT ![to] = @ \cup {old}]
  OBVIOUS
<1>5. PICK s : s = [v EXCEPT ![pos] = id]
  OBVIOUS
<1>6. PICK vvTried : vvTried = [m.vvTried EXCEPT ![b] = s]
  OBVIOUS
<1>7. PICK e : e = Replaced(m, old, info, vvNew, m.nNew + 1)
  OBVIOUS
<1>8. /\ v \in Seq(Nat) /\ Len(v) = Len(u) /\ Len(u) \in Nat
      /\ old \in TriedIds(m) /\ old # id /\ old \in DOMAIN m.mapInfo /\ old \in Nat
      /\ GetTriedBucket[m.mapInfo[old].addr] = b /\ m.mapInfo[old] \in Info
  <2>1. /\ v \in Seq(Nat) /\ Len(v) = Len(u)
        /\ old \in TriedIds(m) /\ old # id /\ old \in Nat
        /\ GetTriedBucket[m.mapInfo[old].addr] = b
    <3>1. /\ v \in Seq(Nat) /\ Len(v) = Len(u)
          /\ \A k \in 1 .. Len(u) : /\ v[k] \in TriedIds(m) \ {id} /\ v[k] \in Nat
                                    /\ GetTriedBucket[m.mapInfo[v[k]].addr] = b
      BY RearrangedHolds
    <3> QED BY <1>c, <3>1
  <2>2. old \in DOMAIN m.mapInfo
    BY <2>1 DEF TriedIds
  <2>3. Len(u) \in Nat
    BY <2>1, SeqIs
  <2> QED BY <1>1, <2>1, <2>2, <2>3, AddrManIs
<1>9. /\ s \in Seq(Nat) /\ Len(s) = Len(u) /\ s[pos] = id
      /\ \A k \in 1 .. Len(u) : k # pos => s[k] = v[k]
  <2>1. v \in [1 .. Len(u) -> Nat]
    BY <1>8, SeqIs
  <2>2. s \in [1 .. Len(u) -> Nat] /\ s[pos] = id /\ \A k \in 1 .. Len(u) : k # pos => s[k] = v[k]
    BY <1>c, <1>g, <1>5, <2>1
  <2>3. s \in Seq(Nat) /\ Len(s) = Len(u)
    <3>1. Len(u) \in Nat
      BY <1>8
    <3> QED BY <2>2, <3>1, IsSeq
  <2> QED BY <2>2, <2>3
<1>10. w = Moved(e, vvTried, m.nTried)
  <2>1. w = [m EXCEPT !.mapInfo[old].fInTried = FALSE, !.mapInfo[old].nRefCount = 1,
                      !.vvNew[to] = @ \cup {old}, !.nNew = @ + 1, !.vvTried[b] = s]
    BY <1>5 DEF Evicted
  <2>2. PICK f : f = [m.mapInfo EXCEPT ![old] = info]
    OBVIOUS
  <2>3. PICK g : g = [m.mapInfo EXCEPT ![old].fInTried = FALSE, ![old].nRefCount = 1]
    OBVIOUS
  <2>4. g = f
    BY <1>3, <1>8, <2>2, <2>3
  <2>5. w = [m EXCEPT !.mapInfo = g, !.vvNew = vvNew, !.nNew = @ + 1, !.vvTried = vvTried]
    BY <1>1, <1>4, <1>6, <2>1, <2>3 DEF AddrMen
  <2>6. e = [m EXCEPT !.mapInfo = f, !.vvNew = vvNew, !.nNew = m.nNew + 1]
    BY <1>1, <1>7, <2>2 DEF AddrMen, Replaced
  <2> QED BY <1>1, <2>4, <2>5, <2>6 DEF AddrMen, Moved
<1>11. /\ info \in Info /\ info.nRefCount = 1 /\ info.fInTried = FALSE
       /\ info.addr = m.mapInfo[old].addr /\ info.nRandomPos = m.mapInfo[old].nRandomPos
  <2>1. PICK i \in Info : i = m.mapInfo[old]
    BY <1>8
  <2>2. /\ i = [addr |-> i.addr, source |-> i.source, nLastSuccess |-> i.nLastSuccess,
                nRefCount |-> i.nRefCount, fInTried |-> i.fInTried, nRandomPos |-> i.nRandomPos]
        /\ i.addr \in Addr /\ i.source \in Source /\ i.nLastSuccess \in Nat
        /\ i.nRandomPos \in Int
    BY DEF Info
  <2>3. info = [addr |-> i.addr, source |-> i.source, nLastSuccess |-> i.nLastSuccess,
                nRefCount |-> 1, fInTried |-> FALSE, nRandomPos |-> i.nRandomPos]
    BY <1>3, <2>1, <2>2
  <2>4. info \in Info
    BY <2>2, <2>3 DEF Info
  <2> QED BY <2>1, <2>3, <2>4
<1>12. /\ vvNew \in [NewBucket -> SUBSET Nat] /\ vvNew[to] = m.vvNew[to] \cup {old}
       /\ \A c \in NewBucket : c # to => vvNew[c] = m.vvNew[c]
  <2>1. old \in Nat
    BY <1>8
  <2> QED BY <1>d, <1>g, <1>4, <2>1
<1>13. /\ vvTried \in [TriedBucket -> Seq(Nat)] /\ vvTried[b] = s
       /\ \A c \in TriedBucket : c # b => vvTried[c] = m.vvTried[c]
  BY <1>f, <1>6, <1>9
<1>14. /\ e \in AddrMen
       /\ e.nIdCount = m.nIdCount /\ e.mapAddr = m.mapAddr /\ e.vRandom = m.vRandom
       /\ DOMAIN e.mapInfo = DOMAIN m.mapInfo
       /\ e.mapInfo[old] = info
       /\ \A n \in DOMAIN m.mapInfo : n # old => e.mapInfo[n] = m.mapInfo[n]
       /\ e.nTried = m.nTried /\ e.vvTried = m.vvTried
       /\ e.nNew = m.nNew + 1 /\ e.vvNew = vvNew
  <2>1. m \in AddrMen /\ old \in DOMAIN m.mapInfo
    BY <1>1, <1>8
  <2>2. info \in Info
    BY <1>11
  <2>3. vvNew \in [NewBucket -> SUBSET Nat]
    BY <1>12
  <2> QED BY <1>g, <1>7, <2>1, <2>2, <2>3, ReplaceIs
<1>15. /\ w \in AddrMen
       /\ w.nIdCount = e.nIdCount /\ w.mapAddr = e.mapAddr /\ w.vRandom = e.vRandom
       /\ w.mapInfo = e.mapInfo
       /\ w.nTried = m.nTried /\ w.vvTried = vvTried
       /\ w.nNew = e.nNew /\ w.vvNew = e.vvNew
  <2>1. e \in AddrMen
    BY <1>14
  <2>2. vvTried \in [TriedBucket -> Seq(Nat)] /\ m.nTried \in Int
    BY <1>g, <1>13
  <2> QED BY <1>10, <2>1, <2>2, MovedIs
<1>16. /\ w \in AddrMen
       /\ w.nIdCount = m.nIdCount /\ w.mapAddr = m.mapAddr /\ w.vRandom = m.vRandom
       /\ DOMAIN w.mapInfo = DOMAIN m.mapInfo
       /\ w.mapInfo[old] = info
       /\ \A n \in DOMAIN m.mapInfo : n # old => w.mapInfo[n] = m.mapInfo[n]
       /\ w.nTried = m.nTried /\ w.nNew = m.nNew + 1
       /\ w.vvNew = vvNew /\ w.vvTried = vvTried
  BY <1>14, <1>15
<1>17. /\ w.mapInfo[old].nRefCount = 1 /\ w.mapInfo[old].fInTried = FALSE
       /\ w.mapInfo[old].addr = m.mapInfo[old].addr
       /\ w.mapInfo[old].nRandomPos = m.mapInfo[old].nRandomPos
  BY <1>11, <1>16
<1>18. /\ w.vvNew[to] = m.vvNew[to] \cup {old}
       /\ \A c \in NewBucket : c # to => w.vvNew[c] = m.vvNew[c]
  BY <1>12, <1>16
<1>19. /\ Len(w.vvTried[b]) = Len(u) /\ w.vvTried[b][pos] = id
       /\ \A k \in 1 .. Len(u) : k # pos => w.vvTried[b][k] = v[k]
       /\ \A c \in TriedBucket : c # b => w.vvTried[c] = m.vvTried[c]
  BY <1>9, <1>13, <1>16
<1>20. old \in TriedIds(m) /\ old # id /\ GetTriedBucket[m.mapInfo[old].addr] = b
  BY <1>8
<1> QED BY <1>16, <1>17, <1>18, <1>19, <1>20, Zenon DEF OldEvicted

LEMMA EvictHeld ==
  ASSUME NEW m, NEW id, NEW b, NEW v, NEW pos, NEW to, CanEvict(m, id, to, b, v, pos),
         NEW u, u = m.vvTried[b],
         NEW old, old = v[pos], NEW w, w = Evicted(m, id, to, b, v, pos)
  PROVE  /\ Tables(w, NoId, NoId)
         /\ old \in TriedIds(m) /\ GetTriedBucket[m.mapInfo[old].addr] = b
         /\ \A n \in TriedIds(m) \ {old} :
              n \in TriedIds(w) /\ w.mapInfo[n].addr = m.mapInfo[n].addr
<1>a. id \in TriedIds(m) /\ b = GetTriedBucket[m.mapInfo[id].addr]
  BY DEF CanEvict
<1>b. Rearranged(u, v)
  BY DEF CanEvict
<1>c. pos \in 1 .. Len(u)
  BY DEF CanEvict
<1>d. to \in NewBucket
  BY DEF CanEvict
<1>e. Cardinality(m.vvNew[to]) < NewBucketSize
  BY DEF CanEvict
<1>o. OldEvicted(m, id, to, b, u, v, pos, old, w)
  BY OldEvictedIs
<1>1. m \in AddrMen /\ Indexed(m) /\ NewTable(m, NoId) /\ TriedTable(m, id) /\ Counters(m, id)
  BY DEF CanEvict, Tables
<1>2. /\ id \in DOMAIN m.mapInfo /\ id \in Nat /\ m.mapInfo[id].addr \in Addr
      /\ m.vvTried \in [TriedBucket -> Seq(Nat)] /\ m.nTried \in Int /\ m.nNew \in Int
      /\ m.vvNew \in [NewBucket -> SUBSET Nat]
      /\ b \in TriedBucket /\ TriedBucketSize \in Nat
  <2>1. id \in DOMAIN m.mapInfo
    BY <1>a DEF TriedIds
  <2>2. id \in Nat /\ m.mapInfo[id].addr \in Addr
    BY <1>1, <2>1, AddrManIs, InfoIs
  <2> QED BY <1>a, <1>1, <2>1, <2>2, AddrManIs, AddrManAssumption
<1>3. TriedHolds(m, b, u, id)
  BY RearrangedHolds
<1>4. PICK s : s = w.vvTried[b]
  OBVIOUS
<1>5. /\ v \in Seq(Nat) /\ Len(v) = Len(u)
      /\ \A k \in 1 .. Len(u) : /\ v[k] \in TriedIds(m) \ {id} /\ v[k] \in Nat
                                /\ GetTriedBucket[m.mapInfo[v[k]].addr] = b
      /\ \A j, k \in 1 .. Len(u) : v[j] = v[k] => j = k
  BY RearrangedHolds
<1>13. /\ w \in AddrMen
       /\ w.nIdCount = m.nIdCount /\ w.mapAddr = m.mapAddr /\ w.vRandom = m.vRandom
       /\ DOMAIN w.mapInfo = DOMAIN m.mapInfo
       /\ w.mapInfo[old].nRefCount = 1 /\ w.mapInfo[old].fInTried = FALSE
       /\ w.mapInfo[old].addr = m.mapInfo[old].addr
       /\ w.mapInfo[old].nRandomPos = m.mapInfo[old].nRandomPos
       /\ \A n \in DOMAIN m.mapInfo : n # old => w.mapInfo[n] = m.mapInfo[n]
       /\ w.nTried = m.nTried /\ w.nNew = m.nNew + 1
  BY <1>o, Zenon DEF OldEvicted
<1>6. /\ old \in TriedIds(m) /\ old # id /\ old \in DOMAIN m.mapInfo
      /\ GetTriedBucket[m.mapInfo[old].addr] = b /\ m.mapInfo[old].fInTried
  <2>1. old \in TriedIds(m) /\ old # id /\ GetTriedBucket[m.mapInfo[old].addr] = b
    BY <1>o, Zenon DEF OldEvicted
  <2> QED BY <2>1 DEF TriedIds
<1>7. /\ Len(s) = Len(u) /\ s[pos] = id /\ \A k \in 1 .. Len(u) : k # pos => s[k] = v[k]
  <2>1. /\ Len(w.vvTried[b]) = Len(u) /\ w.vvTried[b][pos] = id
        /\ \A k \in 1 .. Len(u) : k # pos => w.vvTried[b][k] = v[k]
    BY <1>o, Zenon DEF OldEvicted
  <2> QED BY <1>4, <2>1
<1>10. w.vvNew[to] = m.vvNew[to] \cup {old} /\ \A c \in NewBucket : c # to => w.vvNew[c] = m.vvNew[c]
  BY <1>o, Zenon DEF OldEvicted
<1>11. w.vvTried[b] = s /\ \A c \in TriedBucket : c # b => w.vvTried[c] = m.vvTried[c]
  <2>1. \A c \in TriedBucket : c # b => w.vvTried[c] = m.vvTried[c]
    BY <1>o, Zenon DEF OldEvicted
  <2> QED BY <1>4, <2>1
<1>14. Indexed(w)
  <2>1. \A n \in DOMAIN m.mapInfo : /\ w.mapInfo[n].addr = m.mapInfo[n].addr
                                    /\ w.mapInfo[n].nRandomPos = m.mapInfo[n].nRandomPos
    BY <1>13
  <2>2. /\ w.nIdCount = m.nIdCount /\ w.mapAddr = m.mapAddr /\ w.vRandom = m.vRandom
        /\ DOMAIN w.mapInfo = DOMAIN m.mapInfo
    BY <1>13
  <2>3. Indexed(m)
    BY <1>1
  <2>4. SamePlaces(m, w)
    BY <2>1, <2>2 DEF SamePlaces
  <2> QED BY <2>3, <2>4, IndexedSamePlaces
<1>15. TriedIds(w) = TriedIds(m) \ {old} /\ NewIds(w) = NewIds(m) \cup {old}
       /\ old \notin NewIds(m)
  BY <1>6, <1>13 DEF TriedIds, NewIds
<1>16. InNew(m, old) = {} /\ Cardinality(InNew(m, old)) = 0
  <2>1. InNew(m, old) = {}
    BY <1>1, <1>15, BucketFinite DEF InNew
  <2> QED BY <2>1, FS_EmptySet
<1>17. /\ Cardinality(InNew(w, old)) = 1
       /\ \A n : n # old => InNew(w, n) = InNew(m, n)
  <2>1. old \notin m.vvNew[to]
    BY <1>1, <1>d, <1>15, BucketFinite
  <2>2. Enters(m, w, to, old)
    BY <1>10, <1>13, <2>1 DEF Enters
  <2>3. /\ Cardinality(InNew(w, old)) = Cardinality(InNew(m, old)) + 1
        /\ \A n : n # old => InNew(w, n) = InNew(m, n)
    BY <1>1, <1>d, <2>2, BucketEntered
  <2> QED BY <1>16, <2>3
<1>18. NewTable(w, NoId)
  <2>1. ASSUME NEW c \in NewBucket
        PROVE  w.vvNew[c] \subseteq NewIds(w) /\ Cardinality(w.vvNew[c]) <= NewBucketSize
    <3>1. /\ IsFiniteSet(m.vvNew[c]) /\ Cardinality(m.vvNew[c]) \in Nat
          /\ m.vvNew[c] \subseteq NewIds(m) /\ Cardinality(m.vvNew[c]) <= NewBucketSize
      BY <1>1, BucketFinite
    <3>2. NewBucketSize \in Nat
      BY AddrManAssumption
    <3>3. CASE c = to
      <4>1. w.vvNew[c] = m.vvNew[c] \cup {old} /\ old \notin m.vvNew[c]
        BY <1>10, <1>13, <1>15, <3>1, <3>3
      <4>2. Cardinality(m.vvNew[c] \cup {old}) = Cardinality(m.vvNew[c]) + 1
        BY <3>1, <4>1, FS_AddElement
      <4>3. Cardinality(m.vvNew[c]) < NewBucketSize
        BY <1>e, <3>3
      <4>4. Cardinality(w.vvNew[c]) <= NewBucketSize
        <5> DEFINE l == Cardinality(m.vvNew[c])
        <5>1. Cardinality(w.vvNew[c]) = l + 1
          BY <4>1, <4>2
        <5>2. l \in Nat /\ l < NewBucketSize
          BY <3>1, <4>3
        <5> HIDE DEF l
        <5> QED BY <3>2, <5>1, <5>2
      <4> QED BY <1>15, <3>1, <4>1, <4>4
    <3>4. CASE c # to
      BY <1>10, <1>13, <1>15, <3>1, <3>4
    <3> QED BY <3>3, <3>4
  <2>2. ASSUME NEW n \in DOMAIN w.mapInfo
        PROVE  w.mapInfo[n].nRefCount = Cardinality(InNew(w, n)) + (IF n = NoId THEN 1 ELSE 0)
    <3>1. n # NoId
      BY <1>1, <1>13, NoIdIs
    <3>2. CASE n = old
      <4>1. w.mapInfo[n].nRefCount = 1 /\ Cardinality(InNew(w, n)) = 1
        BY <1>13, <1>17, <3>2
      <4> QED BY <3>1, <4>1
    <3>3. CASE n # old
      BY <1>1, <1>13, <1>17, <3>3 DEF NewTable
    <3> QED BY <3>2, <3>3
  <2>3. ASSUME NEW n \in NewIds(w)
        PROVE  w.mapInfo[n].nRefCount \in 1 .. NewBucketsPerAddress
    <3>1. CASE n = old
      <4>1. NewBucketsPerAddress \in Nat \ {0}
        BY AddrManAssumption
      <4>2. w.mapInfo[n].nRefCount = 1
        BY <1>13, <3>1
      <4> QED BY <4>1, <4>2
    <3>2. CASE n # old
      <4>1. n \in NewIds(m) /\ n \in DOMAIN m.mapInfo
        BY <1>15, <3>2 DEF NewIds
      <4> QED BY <1>1, <1>13, <3>2, <4>1 DEF NewTable
    <3> QED BY <3>1, <3>2
  <2> QED BY <2>1, <2>2, <2>3 DEF NewTable
<1>19. \A n \in TriedIds(m) \ {old} : n \in TriedIds(w) /\ w.mapInfo[n] = m.mapInfo[n]
  BY <1>13, <1>15 DEF TriedIds
<1>20. TriedTable(w, NoId)
  <2>1. ASSUME NEW c \in TriedBucket PROVE TriedHolds(w, c, w.vvTried[c], NoId)
    <3>1. NoId \notin TriedIds(m) /\ NoId \notin TriedIds(w)
      BY <1>1, <1>13, NoIdIs
    <3>2. CASE c = b
      <4>1. w.vvTried[c] = s /\ Len(s) <= TriedBucketSize
        BY <1>3, <1>7, <1>11, <1>13, <3>2 DEF TriedHolds
      <4>2. ASSUME NEW k \in 1 .. Len(s)
            PROVE  /\ s[k] \in TriedIds(w) \ {NoId} /\ GetTriedBucket[w.mapInfo[s[k]].addr] = c
                   /\ s[k] = id <=> k = pos
        <5>1. CASE k = pos
          <6>1. s[k] = id /\ id \in TriedIds(m) \ {old}
            <7>1. s[k] = id
              BY <1>7, <5>1
            <7>2. id \in TriedIds(m) /\ id # old
              BY <1>a, <1>6
            <7> QED BY <7>1, <7>2
          <6>2. s[k] \in TriedIds(w) \ {NoId}
            BY <1>19, <3>1, <6>1
          <6>3. GetTriedBucket[w.mapInfo[s[k]].addr] = c
            <7>1. w.mapInfo[s[k]] = m.mapInfo[id]
              BY <1>19, <6>1
            <7> QED BY <1>a, <3>2, <7>1
          <6>4. s[k] = id <=> k = pos
            BY <5>1, <6>1
          <6> QED BY <6>2, <6>3, <6>4
        <5>2. CASE k # pos
          <6>1. k \in 1 .. Len(u) /\ s[k] = v[k] /\ v[k] # old
            BY <1>c, <1>5, <1>7, <5>2
          <6>2. v[k] \in TriedIds(m) \ {old} /\ v[k] # id /\ GetTriedBucket[m.mapInfo[v[k]].addr] = b
            BY <1>5, <6>1
          <6> QED BY <1>19, <3>1, <3>2, <5>2, <6>1, <6>2
        <5> QED BY <5>1, <5>2
      <4>3. ASSUME NEW j \in 1 .. Len(s), NEW k \in 1 .. Len(s), s[j] = s[k] PROVE j = k
        <5>1. CASE j = pos \/ k = pos
          BY <4>2, <4>3, <5>1
        <5>2. CASE j # pos /\ k # pos
          <6>1. j \in 1 .. Len(u) /\ k \in 1 .. Len(u) /\ s[j] = v[j] /\ s[k] = v[k]
            BY <1>7, <5>2
          <6> QED BY <1>5, <4>3, <6>1
        <5> QED BY <5>1, <5>2
      <4>4. TriedHolds(w, c, s, NoId)
        BY <4>1, <4>2, <4>3 DEF TriedHolds
      <4> QED BY <4>1, <4>4
    <3>3. CASE c # b
      <4>1. w.vvTried[c] = m.vvTried[c]
        BY <1>11, <1>13, <3>3
      <4> DEFINE z == m.vvTried[c]
      <4>2. TriedHolds(m, c, z, id)
        BY <1>1 DEF TriedTable, TriedHolds
      <4> HIDE DEF z
      <4>3. ASSUME NEW k \in 1 .. Len(z)
            PROVE  z[k] \in TriedIds(w) \ {NoId} /\ GetTriedBucket[w.mapInfo[z[k]].addr] = c
        <5>1. z[k] \in TriedIds(m) \ {id} /\ GetTriedBucket[m.mapInfo[z[k]].addr] = c
          BY <4>2, Zenon DEF TriedHolds
        <5>2. z[k] # old
          BY <1>6, <3>3, <5>1
        <5> QED BY <1>19, <3>1, <5>1, <5>2
      <4>4. TriedHolds(w, c, z, NoId)
        BY <4>2, <4>3 DEF TriedHolds
      <4> QED BY <4>1, <4>4 DEF z
    <3> QED BY <3>2, <3>3
  <2>2. ASSUME NEW n \in TriedIds(w)
        PROVE  /\ w.mapInfo[n].nLastSuccess # 0
               /\ \E k \in 1 .. Len(w.vvTried[GetTriedBucket[w.mapInfo[n].addr]]) :
                    w.vvTried[GetTriedBucket[w.mapInfo[n].addr]][k] = n
    <3>1. n \in TriedIds(m) /\ n # old /\ w.mapInfo[n] = m.mapInfo[n]
      BY <1>15, <1>19
    <3>2. w.mapInfo[n].nLastSuccess # 0
      BY <1>1, <3>1 DEF TriedTable
    <3>3. CASE n = id
      <4>1. GetTriedBucket[w.mapInfo[n].addr] = b /\ w.vvTried[b] = s
        <5>1. w.mapInfo[n].addr = m.mapInfo[id].addr
          BY <3>1, <3>3
        <5> QED BY <1>a, <1>11, <5>1, Zenon
      <4>2. pos \in 1 .. Len(s) /\ s[pos] = n
        BY <1>c, <1>7, <3>3
      <4> QED BY <3>2, <4>1, <4>2
    <3>4. CASE n # id
      <4> DEFINE c == GetTriedBucket[m.mapInfo[n].addr]
      <4>1. PICK j \in 1 .. Len(m.vvTried[c]) : m.vvTried[c][j] = n
        BY <1>1, <3>1, <3>4 DEF TriedTable
      <4>2. c \in TriedBucket
        <5>1. n \in DOMAIN m.mapInfo
          BY <3>1 DEF TriedIds
        <5>2. m.mapInfo[n].addr \in Addr
          BY <1>1, <5>1, AddrManIs, InfoIs
        <5> QED BY <5>2, AddrManAssumption
      <4> HIDE DEF c
      <4>3. \E k \in 1 .. Len(w.vvTried[c]) : w.vvTried[c][k] = n
        <5>1. CASE c = b
          <6>1. j \in 1 .. Len(u) /\ u[j] = n
            BY <4>1, <5>1
          <6>2. PICK k \in 1 .. Len(u) : v[k] = u[j]
            BY <1>b, <6>1, Zenon DEF Rearranged
          <6>3. k # pos
            BY <3>1, <6>1, <6>2
          <6>4. s[k] = n /\ k \in 1 .. Len(s)
            BY <1>7, <6>1, <6>2, <6>3
          <6>5. w.vvTried[c] = s
            BY <1>11, <1>13, <5>1
          <6> QED BY <6>4, <6>5
        <5>2. CASE c # b
          <6>1. w.vvTried[c] = m.vvTried[c]
            BY <1>11, <1>13, <4>2, <5>2
          <6> QED BY <4>1, <6>1
        <5> QED BY <5>1, <5>2
      <4>4. GetTriedBucket[w.mapInfo[n].addr] = c
        BY <3>1 DEF c
      <4> QED BY <3>2, <4>3, <4>4
    <3> QED BY <3>3, <3>4
  <2> QED BY <2>1, <2>2, Zenon DEF TriedTable, TriedHolds
<1>21. Counters(w, NoId)
  <2>1. TriedIds(m) \in SUBSET DOMAIN m.mapInfo /\ NewIds(m) \in SUBSET DOMAIN m.mapInfo
        /\ NoId \notin TriedIds(w)
    BY <1>1, <1>13, NoIdIs
  <2>2. /\ IsFiniteSet(TriedIds(m)) /\ Cardinality(TriedIds(m)) \in Nat
        /\ IsFiniteSet(NewIds(m)) /\ Cardinality(NewIds(m)) \in Nat
    BY <1>1, <2>1, IdsFinite
  <2>3. /\ Cardinality(TriedIds(m) \ {id}) = Cardinality(TriedIds(m)) - 1
        /\ Cardinality(TriedIds(m) \ {old}) = Cardinality(TriedIds(m)) - 1
    BY <1>a, <1>6, <2>2, FS_RemoveElement
  <2>4. Cardinality(NewIds(m) \cup {old}) = Cardinality(NewIds(m)) + 1
    BY <1>15, <2>2, FS_AddElement
  <2>5. TriedIds(w) \ {NoId} = TriedIds(m) \ {old}
    BY <1>15, <2>1
  <2>6. w.nTried = Cardinality(TriedIds(w) \ {NoId})
    BY <1>1, <1>13, <2>3, <2>5 DEF Counters
  <2>7. w.nNew = Cardinality(NewIds(w))
    <3>1. m.nNew = Cardinality(NewIds(m)) /\ Cardinality(NewIds(w)) = Cardinality(NewIds(m)) + 1
      BY <1>1, <1>15, <2>4 DEF Counters
    <3> QED BY <1>13, <3>1
  <2> QED BY <2>6, <2>7 DEF Counters
<1>22. Tables(w, NoId, NoId)
  BY <1>13, <1>14, <1>18, <1>20, <1>21 DEF Tables
<1>23. \A n \in TriedIds(m) \ {old} : n \in TriedIds(w) /\ w.mapInfo[n].addr = m.mapInfo[n].addr
  BY <1>19
<1> QED BY <1>6, <1>22, <1>23

(* A tried entry that an operation takes out of the table was in a full    *)
(* bucket.                                                                 *)
TriedOrFull(m, w) ==
  \A n \in TriedIds(m) :
    \/ n \in TriedIds(w) /\ w.mapInfo[n].addr = m.mapInfo[n].addr
    \/ /\ n \in DOMAIN w.mapInfo /\ w.mapInfo[n].addr = m.mapInfo[n].addr
       /\ Len(m.vvTried[GetTriedBucket[m.mapInfo[n].addr]]) = TriedBucketSize

LEMMA KeptTried ==
  ASSUME NEW m, NEW w, KeepsTried(m, w)
  PROVE  TriedOrFull(m, w)
BY DEF KeepsTried, TriedOrFull

(* MakeTried, in the terms of the lemmas above.                            *)
EvictTo(m, old, nOrigin) ==
  IF Cardinality(m.vvNew[GetNewBucket[<<m.mapInfo[old].addr, m.mapInfo[old].source>>]])
       < NewBucketSize
  THEN GetNewBucket[<<m.mapInfo[old].addr, m.mapInfo[old].source>>] ELSE nOrigin

EvictedTo(m, id, v, pos, nOrigin, b) ==
  [Evict(m, id, v[pos], nOrigin) EXCEPT !.vvTried[b] = [v EXCEPT ![pos] = id]]

LEMMA MakeTriedIs ==
  ASSUME NEW m, NEW id, NEW nOrigin, NEW draw, NEW w, w = MakeTried(m, id, nOrigin, draw),
         NEW left, left = Left(m, id), NEW b, b = GetTriedBucket[m.mapInfo[id].addr],
         NEW sel, sel = SelectTried(left, b, draw)
  PROVE  /\ Len(m.vvTried[b]) < TriedBucketSize => w = Appended(left, b, id)
         /\ ~(Len(m.vvTried[b]) < TriedBucketSize) =>
              w = EvictedTo(left, id, sel.v, sel.nOldestPos, nOrigin, b)
<1> DEFINE L == [m EXCEPT !.mapInfo[id].nRefCount =
                             @ - Cardinality({n \in NewBucket : id \in m.vvNew[n]}),
                          !.mapInfo[id].fInTried = TRUE,
                          !.vvNew = [n \in NewBucket |-> @[n] \ {id}],
                          !.nNew = @ - 1]
           B == GetTriedBucket[m.mapInfo[id].addr]
           S == SelectTried(L, B, draw)
<1>1. L = left
  BY Zenon DEF Left, InNew
<1>2. w = IF Len(m.vvTried[B]) < TriedBucketSize
          THEN [L EXCEPT !.vvTried[B] = Append(@, id), !.nTried = @ + 1]
          ELSE [Evict(L, id, S.v[S.nOldestPos], nOrigin)
                  EXCEPT !.vvTried[B] = [S.v EXCEPT ![S.nOldestPos] = id]]
  BY Zenon DEF MakeTried
<1> DEFINE T == [L EXCEPT !.vvTried[B] = Append(@, id), !.nTried = @ + 1]
           U == [Evict(L, id, S.v[S.nOldestPos], nOrigin)
                   EXCEPT !.vvTried[B] = [S.v EXCEPT ![S.nOldestPos] = id]]
<1>3. B = b
  OBVIOUS
<1> HIDE DEF L, B
<1>4. S = sel
  BY <1>1, <1>3
<1> HIDE DEF S
<1>5. T = Appended(L, B, id) /\ U = EvictedTo(L, id, S.v, S.nOldestPos, nOrigin, B)
  BY Zenon DEF Appended, EvictedTo
<1> HIDE DEF T, U
<1>6. w = IF Len(m.vvTried[B]) < TriedBucketSize THEN T ELSE U
  BY <1>2 DEF T, U
<1> QED BY <1>1, <1>3, <1>4, <1>5, <1>6, Zenon

BackToNew(m, back, n) ==
  [m EXCEPT !.mapInfo[back].fInTried = FALSE, !.mapInfo[back].nRefCount = 1,
            !.vvNew[n] = @ \cup {back}, !.nNew = @ + 1]

LEMMA EvictIs ==
  ASSUME NEW m \in AddrMen, NEW id, NEW v, NEW pos, NEW nOrigin \in NewBucket,
         NEW b \in TriedBucket, v[pos] \in DOMAIN m.mapInfo,
         NEW w, w = EvictedTo(m, id, v, pos, nOrigin, b)
  PROVE  /\ w = Evicted(m, id, EvictTo(m, v[pos], nOrigin), b, v, pos)
         /\ EvictTo(m, v[pos], nOrigin) \in NewBucket
<1> DEFINE old == v[pos]
           to == EvictTo(m, old, nOrigin)
           s == [v EXCEPT ![pos] = id]
           e == Evict(m, id, old, nOrigin)
<1>1. to \in NewBucket
  <2>1. m.mapInfo[old].addr \in Addr /\ m.mapInfo[old].source \in Source
    BY AddrManIs, InfoIs
  <2>2. GetNewBucket[<<m.mapInfo[old].addr, m.mapInfo[old].source>>] \in NewBucket
    BY <2>1, AddrManAssumption
  <2> HIDE DEF old
  <2> QED BY <2>2 DEF EvictTo
<1>2. e = BackToNew(m, old, to)
  <2> HIDE DEF old
  <2> QED BY Zenon DEF Evict, EvictTo, BackToNew
<1>3. w = [e EXCEPT !.vvTried[b] = s]
  BY DEF EvictedTo
<1>4. Evicted(m, id, to, b, v, pos) =
        [m EXCEPT !.mapInfo[old].fInTried = FALSE, !.mapInfo[old].nRefCount = 1,
                  !.vvNew[to] = @ \cup {old}, !.nNew = @ + 1, !.vvTried[b] = s]
  <2> HIDE DEF to
  <2> QED BY Zenon DEF Evicted
<1> HIDE DEF e, s, to
<1>5. w = Evicted(m, id, to, b, v, pos)
  <2> HIDE DEF old
  <2> DEFINE f == [m.mapInfo EXCEPT ![old].fInTried = FALSE, ![old].nRefCount = 1]
             g == [m.vvNew EXCEPT ![to] = @ \cup {old}]
             z == [m.vvTried EXCEPT ![b] = s]
  <2>1. e = [m EXCEPT !.mapInfo = f, !.vvNew = g, !.nNew = @ + 1]
    <3>1. e.nIdCount = m.nIdCount /\ e.mapAddr = m.mapAddr /\ e.vRandom = m.vRandom
      BY <1>2 DEF AddrMen, BackToNew
    <3>2. e.mapInfo = f
      BY <1>2 DEF AddrMen, BackToNew
    <3>3. e.nTried = m.nTried /\ e.vvTried = m.vvTried
      BY <1>2 DEF AddrMen, BackToNew
    <3>4. e.nNew = m.nNew + 1 /\ e.vvNew = g
      BY <1>2 DEF AddrMen, BackToNew
    <3>5. e = [nIdCount |-> e.nIdCount, mapInfo |-> e.mapInfo, mapAddr |-> e.mapAddr,
               vRandom |-> e.vRandom, nTried |-> e.nTried, vvTried |-> e.vvTried,
               nNew |-> e.nNew, vvNew |-> e.vvNew]
      BY <1>2 DEF AddrMen, BackToNew
    <3> HIDE DEF f, g
    <3> QED BY <3>1, <3>2, <3>3, <3>4, <3>5 DEF AddrMen
  <2>2. Evicted(m, id, to, b, v, pos) =
          [m EXCEPT !.mapInfo = f, !.vvNew = g, !.nNew = @ + 1, !.vvTried = z]
    BY <1>4 DEF AddrMen
  <2> HIDE DEF f, g
  <2>3. e.vvTried = m.vvTried
    BY <2>1 DEF AddrMen
  <2>4. w = [e EXCEPT !.vvTried = z]
    BY <1>3, <2>1, <2>3 DEF AddrMen
  <2> HIDE DEF z
  <2> DEFINE r == [nIdCount |-> m.nIdCount, mapInfo |-> f, mapAddr |-> m.mapAddr,
                   vRandom |-> m.vRandom, nTried |-> m.nTried, vvTried |-> z,
                   nNew |-> m.nNew + 1, vvNew |-> g]
  <2>5. Evicted(m, id, to, b, v, pos) = r
    BY <2>2 DEF AddrMen
  <2>6. e = [nIdCount |-> m.nIdCount, mapInfo |-> f, mapAddr |-> m.mapAddr,
             vRandom |-> m.vRandom, nTried |-> m.nTried, vvTried |-> m.vvTried,
             nNew |-> m.nNew + 1, vvNew |-> g]
    BY <2>1 DEF AddrMen
  <2>7. w = r
    BY <2>4, <2>6
  <2> QED BY <2>5, <2>7
<1>6. w = Evicted(m, id, to, b, v, pos) /\ to \in NewBucket
  BY <1>1, <1>5
<1> QED BY <1>6, Zenon DEF to

(* Good_ moves an entry to the tried table.                                *)
LEMMA MakeTriedHeld ==
  ASSUME NEW m, Tables(m, NoId, NoId), NEW id \in NewIds(m), m.mapInfo[id].nLastSuccess # 0,
         NEW nOrigin \in NewBucket, id \in m.vvNew[nOrigin],
         NEW b, b = GetTriedBucket[m.mapInfo[id].addr], NEW draw \in Draws(Len(m.vvTried[b])),
         NEW w, w = MakeTried(m, id, nOrigin, draw)
  PROVE  Tables(w, NoId, NoId) /\ TriedOrFull(m, w)
<1> DEFINE left == Left(m, id)
           u == left.vvTried[b]
           sel == SelectTried(left, b, draw)
<1>1. /\ Tables(left, NoId, id)
      /\ id \in TriedIds(left) /\ left.mapInfo[id].addr = m.mapInfo[id].addr
      /\ left.vvTried = m.vvTried
      /\ left.vvNew = [n \in NewBucket |-> m.vvNew[n] \ {id}]
      /\ KeepsTried(m, left)
  <2>1. left = Left(m, id)
    OBVIOUS
  <2> HIDE DEF left
  <2> QED BY <2>1, LeftHeld
<1>2. /\ Len(m.vvTried[b]) < TriedBucketSize => w = Appended(left, b, id)
      /\ ~(Len(m.vvTried[b]) < TriedBucketSize) =>
           w = EvictedTo(left, id, sel.v, sel.nOldestPos, nOrigin, b)
  <2>1. left = Left(m, id) /\ sel = SelectTried(left, b, draw)
    OBVIOUS
  <2> HIDE DEF left, sel
  <2> QED BY <2>1, MakeTriedIs
<1>3. u = m.vvTried[b] /\ b = GetTriedBucket[left.mapInfo[id].addr]
  BY <1>1
<1>u. u = left.vvTried[b]
  OBVIOUS
<1>s. sel = SelectTried(left, b, draw)
  OBVIOUS
<1> HIDE DEF left, sel
<1>4. /\ m \in AddrMen /\ left \in AddrMen /\ TriedTable(m, NoId) /\ TriedTable(left, id)
      /\ Indexed(m) /\ NewTable(m, NoId)
  BY <1>1 DEF Tables
<1>5. b \in TriedBucket /\ u \in Seq(Nat) /\ Len(u) \in Nat
  <2>1. id \in DOMAIN m.mapInfo
    BY DEF NewIds
  <2>2. m.mapInfo[id].addr \in Addr
    BY <1>4, <2>1, AddrManIs, InfoIs
  <2>3. b \in TriedBucket
    BY <2>2, AddrManAssumption
  <2>4. u \in Seq(Nat)
    BY <1>4, <2>3, AddrManIs
  <2> QED BY <2>3, <2>4, SeqIs
<1> HIDE DEF u
<1>6. CASE Len(u) < TriedBucketSize
  <2>1. w = Appended(left, b, id)
    BY <1>2, <1>3, <1>6
  <2>2. Tables(w, NoId, NoId) /\ KeepsTried(left, w)
    BY <1>1, <1>3, <1>6, <2>1, AppendHeld DEF u
  <2> QED BY <1>1, <2>2, KeepsTriedTwice, KeptTried
<1>7. CASE ~(Len(u) < TriedBucketSize)
  <2> DEFINE v == sel.v
             pos == sel.nOldestPos
             old == v[pos]
             to == EvictTo(left, old, nOrigin)
  <2>1. w = EvictedTo(left, id, v, pos, nOrigin, b)
    BY <1>2, <1>3, <1>7
  <2>2. TriedHolds(m, b, u, NoId) /\ TriedHolds(left, b, u, id)
    BY <1>3, <1>4, <1>5, TriedTableHolds DEF u
  <2>3. Len(u) = TriedBucketSize /\ u # <<>>
    <3>1. TriedBucketSize \in Nat \ {0}
      BY AddrManAssumption
    <3>2. Len(u) = TriedBucketSize
      BY <1>5, <1>7, <2>2, <3>1 DEF TriedHolds
    <3> QED BY <3>1, <3>2
  <2>4. Rearranged(u, v) /\ pos \in 1 .. Len(u)
    <3>1. \A j, k \in 1 .. Len(u) : u[j] = u[k] => j = k
      BY <2>2, Zenon DEF TriedHolds
    <3>2. draw \in Draws(Len(u)) /\ left.vvTried[b] = u
      BY <1>3 DEF u
    <3> QED BY <1>5, <1>s, <2>3, <3>1, <3>2, SelectTriedIs
  <2>5. old \in DOMAIN left.mapInfo
    <3>1. PICK j \in 1 .. Len(u) : v[pos] = u[j]
      BY <2>4, Zenon DEF Rearranged
    <3>2. u[j] \in TriedIds(left)
      BY <2>2, Zenon DEF TriedHolds
    <3> QED BY <3>1, <3>2 DEF TriedIds
  <2>6. w = Evicted(left, id, to, b, v, pos) /\ to \in NewBucket
    <3> HIDE DEF v, pos
    <3> QED BY <1>4, <1>5, <2>1, <2>5, EvictIs
  <2>7. Cardinality(left.vvNew[to]) < NewBucketSize
    <3>1. CASE Cardinality(left.vvNew[GetNewBucket[<<left.mapInfo[old].addr,
                                                   left.mapInfo[old].source>>]]) < NewBucketSize
      BY <3>1 DEF EvictTo
    <3>2. CASE ~(Cardinality(left.vvNew[GetNewBucket[<<left.mapInfo[old].addr,
                                                   left.mapInfo[old].source>>]]) < NewBucketSize)
      <4>1. to = nOrigin
        BY <3>2 DEF EvictTo
      <4>2. left.vvNew[nOrigin] = m.vvNew[nOrigin] \ {id}
        BY <1>1
      <4>3. /\ IsFiniteSet(m.vvNew[nOrigin]) /\ Cardinality(m.vvNew[nOrigin]) \in Nat
            /\ Cardinality(m.vvNew[nOrigin]) <= NewBucketSize
        BY <1>4, BucketFinite
      <4>4. Cardinality(m.vvNew[nOrigin] \ {id}) = Cardinality(m.vvNew[nOrigin]) - 1
        BY <4>3, FS_RemoveElement
      <4>5. NewBucketSize \in Nat
        BY AddrManAssumption
      <4> HIDE DEF to
      <4> QED BY <4>1, <4>2, <4>3, <4>4, <4>5
    <3> QED BY <3>1, <3>2
  <2> HIDE DEF v, pos, to
  <2>8. /\ Tables(w, NoId, NoId)
        /\ old \in TriedIds(left) /\ GetTriedBucket[left.mapInfo[old].addr] = b
        /\ \A n \in TriedIds(left) \ {old} :
             n \in TriedIds(w) /\ w.mapInfo[n].addr = left.mapInfo[n].addr
    <3>1. CanEvict(left, id, to, b, v, pos)
      BY <1>1, <1>3, <2>4, <2>6, <2>7, <1>u DEF CanEvict
    <3>2. Tables(w, NoId, NoId)
      BY <2>6, <3>1, EvictHeld
    <3>3. old \in TriedIds(left) /\ GetTriedBucket[left.mapInfo[old].addr] = b
      BY <2>6, <3>1, EvictHeld
    <3>4. \A n \in TriedIds(left) \ {old} :
            n \in TriedIds(w) /\ w.mapInfo[n].addr = left.mapInfo[n].addr
      BY <2>6, <3>1, EvictHeld, SMTT(20)
    <3> QED BY <3>2, <3>3, <3>4
  <2>9. old \in DOMAIN w.mapInfo /\ w.mapInfo[old].addr = left.mapInfo[old].addr
    <3> DEFINE i == [[left.mapInfo[old] EXCEPT !.fInTried = FALSE] EXCEPT !.nRefCount = 1]
    <3>1. left.mapInfo[old] \in Info /\ left.mapInfo \in InfoMaps
      BY <1>4, <2>5, AddrManIs
    <3>2. w.mapInfo = [left.mapInfo EXCEPT ![old].fInTried = FALSE, ![old].nRefCount = 1]
      BY <1>4, <2>6 DEF Evicted, AddrMen
    <3>3. DOMAIN w.mapInfo = DOMAIN left.mapInfo /\ w.mapInfo[old] = i
      <4> HIDE DEF old
      <4> QED BY <2>5, <3>1, <3>2
    <3>4. i.addr = left.mapInfo[old].addr
      <4> HIDE DEF old
      <4> QED BY <3>1 DEF Info
    <3> HIDE DEF i
    <3> QED BY <2>5, <3>3, <3>4
  <2> HIDE DEF old
  <2>10. TriedOrFull(m, w)
    <3>1. SUFFICES ASSUME NEW n \in TriedIds(m)
                   PROVE  \/ n \in TriedIds(w) /\ w.mapInfo[n].addr = m.mapInfo[n].addr
                          \/ /\ n \in DOMAIN w.mapInfo /\ w.mapInfo[n].addr = m.mapInfo[n].addr
                             /\ Len(m.vvTried[GetTriedBucket[m.mapInfo[n].addr]]) = TriedBucketSize
      BY Zenon DEF TriedOrFull
    <3>2. n \in TriedIds(left) /\ left.mapInfo[n].addr = m.mapInfo[n].addr
      BY <1>1 DEF KeepsTried
    <3>3. CASE n = old
      <4>1. GetTriedBucket[m.mapInfo[n].addr] = b
        BY <2>8, <3>2, <3>3
      <4>2. Len(m.vvTried[b]) = TriedBucketSize
        BY <1>3, <2>3
      <4> QED BY <2>9, <3>2, <3>3, <4>1, <4>2
    <3>4. CASE n # old
      BY <2>8, <3>2, <3>4
    <3> QED BY <3>3, <3>4
  <2> QED BY <2>8, <2>10
<1> QED BY <1>6, <1>7

LEMMA GoodHeld ==
  ASSUME AddrManInv, NEW a \in Addr, NEW t \in 1 .. MaxTime, Good(a, t)
  PROVE  AddrManInv' /\ TriedOrFull(am, am')
<1> DEFINE id == am.mapAddr[a]
           m == Succeeded(am, id, t)
<1>1. Tables(am, NoId, NoId) /\ am \in AddrMen /\ Indexed(am)
  BY DEF AddrManInv, Tables
<1>2. id \in DOMAIN am.mapInfo /\ am.mapInfo[id].addr = a
  BY <1>1 DEF Good, Indexed
<1>3. t \in Nat \ {0}
  BY AddrManAssumption
<1>4. \/ am' = m
      \/ /\ ~am.mapInfo[id].fInTried
         /\ \E nUBucket \in NewBucket :
              /\ id \in m.vvNew[nUBucket]
              /\ \E draw \in Draws(Len(m.vvTried[GetTriedBucket[a]])) :
                   am' = MakeTried(m, id, nUBucket, draw)
  BY Zenon DEF Good, Succeeded
<1>5. /\ Tables(m, NoId, NoId) /\ KeepsTried(am, m)
      /\ m.vvTried = am.vvTried /\ m.vvNew = am.vvNew
      /\ DOMAIN m.mapInfo = DOMAIN am.mapInfo
      /\ m.mapInfo[id].addr = am.mapInfo[id].addr
      /\ m.mapInfo[id].fInTried = am.mapInfo[id].fInTried
      /\ m.mapInfo[id].nLastSuccess = t
      /\ TriedIds(m) = TriedIds(am)
  <2>1. m = Succeeded(am, id, t)
    OBVIOUS
  <2> HIDE DEF m, id
  <2> QED BY <1>1, <1>2, <1>3, <2>1, SuccessHeld
<1> HIDE DEF m, id
<1>6. CASE am' = m
  BY <1>5, <1>6, KeptTried DEF AddrManInv
<1>7. CASE /\ ~am.mapInfo[id].fInTried
           /\ \E nUBucket \in NewBucket :
                /\ id \in m.vvNew[nUBucket]
                /\ \E draw \in Draws(Len(m.vvTried[GetTriedBucket[a]])) :
                     am' = MakeTried(m, id, nUBucket, draw)
  <2>1. PICK nUBucket \in NewBucket :
          /\ id \in m.vvNew[nUBucket]
          /\ \E draw \in Draws(Len(m.vvTried[GetTriedBucket[a]])) :
               am' = MakeTried(m, id, nUBucket, draw)
    BY <1>7
  <2>2. PICK draw \in Draws(Len(m.vvTried[GetTriedBucket[a]])) :
          am' = MakeTried(m, id, nUBucket, draw)
    BY <2>1
  <2>3. id \in NewIds(m) /\ m.mapInfo[id].nLastSuccess # 0
    BY <1>2, <1>3, <1>5, <1>7 DEF NewIds, TriedIds
  <2>4. GetTriedBucket[a] = GetTriedBucket[m.mapInfo[id].addr]
    BY <1>2, <1>5
  <2>5. Tables(am', NoId, NoId) /\ TriedOrFull(m, am')
    BY <1>5, <2>1, <2>2, <2>3, <2>4, MakeTriedHeld
  <2>6. TriedOrFull(am, am')
    <3>1. SUFFICES ASSUME NEW n \in TriedIds(am)
                   PROVE  \/ n \in TriedIds(am') /\ am'.mapInfo[n].addr = am.mapInfo[n].addr
                          \/ /\ n \in DOMAIN am'.mapInfo /\ am'.mapInfo[n].addr = am.mapInfo[n].addr
                             /\ Len(am.vvTried[GetTriedBucket[am.mapInfo[n].addr]]) = TriedBucketSize
      BY Zenon DEF TriedOrFull
    <3>2. n \in TriedIds(m) /\ m.mapInfo[n].addr = am.mapInfo[n].addr
      BY <1>5 DEF KeepsTried
    <3>3. \/ n \in TriedIds(am') /\ am'.mapInfo[n].addr = m.mapInfo[n].addr
          \/ /\ n \in DOMAIN am'.mapInfo /\ am'.mapInfo[n].addr = m.mapInfo[n].addr
             /\ Len(m.vvTried[GetTriedBucket[m.mapInfo[n].addr]]) = TriedBucketSize
      BY <2>5, <3>2, Zenon DEF TriedOrFull
    <3>4. m.vvTried = am.vvTried
      BY <1>5
    <3> QED BY <3>2, <3>3, <3>4
  <2> QED BY <2>5, <2>6 DEF AddrManInv
<1> QED BY <1>4, <1>6, <1>7

-----------------------------------------------------------------------------
(* Writing and reading the file.                                           *)

(* The sequence s has every element of S once.                             *)
Enumerates(s, S) ==
  /\ s \in Seq(Nat)
  /\ \A k \in 1 .. Len(s) : s[k] \in S
  /\ \A x \in S : \E k \in 1 .. Len(s) : s[k] = x
  /\ \A j, k \in 1 .. Len(s) : s[j] = s[k] => j = k

LEMMA EnumerateAppend ==
  ASSUME NEW s, NEW S, Enumerates(s, S), NEW x \in Nat, x \notin S,
         NEW t, t = Append(s, x)
  PROVE  Enumerates(t, S \cup {x})
<1> DEFINE n == Len(s)
<1>1. s \in Seq(Nat) /\ n \in Nat
  BY DEF Enumerates
<1>2. /\ t \in Seq(Nat) /\ Len(t) = n + 1 /\ t[n + 1] = x
      /\ \A k \in 1 .. n : t[k] = s[k]
  BY <1>1
<1>3. /\ \A k \in 1 .. n : s[k] \in S
      /\ \A y \in S : \E k \in 1 .. n : s[k] = y
      /\ \A j, k \in 1 .. n : s[j] = s[k] => j = k
  BY DEF Enumerates
<1> HIDE DEF n
<1>4. ASSUME NEW k \in 1 .. n + 1 PROVE t[k] \in S \cup {x}
  BY <1>1, <1>2, <1>3
<1>5. ASSUME NEW y \in S \cup {x} PROVE \E k \in 1 .. n + 1 : t[k] = y
  <2>1. CASE y = x
    BY <1>1, <1>2, <2>1
  <2>2. CASE y # x
    <3>1. PICK k \in 1 .. n : s[k] = y
      BY <1>3, <2>2
    <3>2. k \in 1 .. n + 1 /\ t[k] = y
      BY <1>1, <1>2, <3>1
    <3> QED BY <3>2
  <2> QED BY <2>1, <2>2
<1>6. ASSUME NEW j \in 1 .. n + 1, NEW k \in 1 .. n + 1, t[j] = t[k] PROVE j = k
  <2>1. \A i \in 1 .. n + 1 : i # n + 1 => i \in 1 .. n /\ t[i] = s[i] /\ s[i] # x
    BY <1>1, <1>2, <1>3
  <2> QED BY <1>2, <1>3, <1>6, <2>1
<1> QED BY <1>2, <1>4, <1>5, <1>6, Zenon DEF Enumerates

LEMMA EnumerateCount ==
  ASSUME NEW s, NEW S, Enumerates(s, S)
  PROVE  IsFiniteSet(S) /\ Cardinality(S) = Len(s) /\ Len(s) \in Nat
<1> DEFINE n == Len(s)
           f == [k \in 1 .. n |-> s[k]]
<1>1. n \in Nat
  BY DEF Enumerates
<1>2. /\ \A k \in 1 .. n : s[k] \in S
      /\ \A y \in S : \E k \in 1 .. n : s[k] = y
      /\ \A j, k \in 1 .. n : s[j] = s[k] => j = k
  BY DEF Enumerates
<1> HIDE DEF n
<1>3. f \in Bijection(1 .. n, S)
  <2>1. f \in [1 .. n -> S]
    BY <1>2
  <2>2. \A j, k \in 1 .. n : f[j] = f[k] => j = k
    BY <1>2
  <2>3. \A y \in S : \E k \in 1 .. n : f[k] = y
    <3>1. ASSUME NEW y \in S PROVE \E k \in 1 .. n : f[k] = y
      <4>1. PICK k \in 1 .. n : s[k] = y
        BY <1>2
      <4> QED BY <4>1
    <3> QED BY <3>1
  <2> HIDE DEF f
  <2> QED BY <2>1, <2>2, <2>3 DEF Bijection, Injection, Surjection, IsInjective
<1>4. IsFiniteSet(1 .. n) /\ Cardinality(1 .. n) = n
  BY <1>1, FS_Interval
<1> QED BY <1>1, <1>3, <1>4, FS_Bijection DEF n, ExistsBijection

(* Elements that no two places share fit in where they all are.            *)
Apart(z, n) == \A j, k \in 1 .. n : z[j] = z[k] => j = k
Among(z, n, t, l) == \A k \in 1 .. n : \E i \in 1 .. l : t[i] = z[k]

LEMMA Fit ==
  ASSUME NEW n \in Nat, NEW l \in Nat, NEW z, NEW t, Apart(z, n), Among(z, n, t, l)
  PROVE  n <= l
<1> DEFINE f == [k \in 1 .. n |-> CHOOSE i \in 1 .. l : t[i] = z[k]]
<1>1. \A k \in 1 .. n : f[k] \in 1 .. l /\ t[f[k]] = z[k]
  BY DEF Among
<1>2. f \in [1 .. n -> 1 .. l]
  BY <1>1
<1> HIDE DEF f
<1>3. f \in Injection(1 .. n, 1 .. l)
  <2>1. \A j, k \in 1 .. n : f[j] = f[k] => j = k
    BY <1>1 DEF Apart
  <2> QED BY <1>2, <2>1 DEF Injection, IsInjective
<1>4. /\ IsFiniteSet(1 .. l) /\ Cardinality(1 .. l) = l
      /\ Cardinality(1 .. n) = n
  BY FS_Interval
<1> QED BY <1>3, <1>4, FS_Injection

(* One sequence after another.                                             *)
LEMMA EnumerateBoth ==
  ASSUME NEW s, NEW S, Enumerates(s, S), NEW t, NEW T, Enumerates(t, T), S \cap T = {}
  PROVE  /\ Enumerates(s \o t, S \cup T)
         /\ Len(s \o t) = Len(s) + Len(t)
         /\ \A k \in 1 .. Len(s) : (s \o t)[k] = s[k]
         /\ \A k \in 1 .. Len(t) : (s \o t)[Len(s) + k] = t[k]
<1> DEFINE n == Len(s)
           l == Len(t)
           q == s \o t
<1>1. s \in Seq(Nat) /\ n \in Nat /\ t \in Seq(Nat) /\ l \in Nat
  BY DEF Enumerates
<1>2. /\ q \in Seq(Nat) /\ Len(q) = n + l
      /\ \A k \in 1 .. n : q[k] = s[k]
      /\ \A k \in 1 .. l : q[n + k] = t[k]
      /\ \A k \in 1 .. n + l : ~(k \in 1 .. n) => k - n \in 1 .. l /\ q[k] = t[k - n]
  BY <1>1
<1>3. /\ \A k \in 1 .. n : s[k] \in S
      /\ \A y \in S : \E k \in 1 .. n : s[k] = y
      /\ \A j, k \in 1 .. n : s[j] = s[k] => j = k
  BY DEF Enumerates
<1>4. /\ \A k \in 1 .. l : t[k] \in T
      /\ \A y \in T : \E k \in 1 .. l : t[k] = y
      /\ \A j, k \in 1 .. l : t[j] = t[k] => j = k
  BY DEF Enumerates
<1> HIDE DEF n, l, q
<1>5. ASSUME NEW k \in 1 .. n + l PROVE q[k] \in S \cup T
  BY <1>2, <1>3, <1>4
<1>6. ASSUME NEW y \in S \cup T PROVE \E k \in 1 .. n + l : q[k] = y
  <2>1. CASE y \in S
    <3>1. PICK k \in 1 .. n : s[k] = y
      BY <1>3, <2>1
    <3>2. k \in 1 .. n + l /\ q[k] = y
      BY <1>1, <1>2, <3>1
    <3> QED BY <3>2
  <2>2. CASE y \in T
    <3>1. PICK k \in 1 .. l : t[k] = y
      BY <1>4, <2>2
    <3>2. n + k \in 1 .. n + l /\ q[n + k] = y
      BY <1>1, <1>2, <3>1
    <3> QED BY <3>2
  <2> QED BY <2>1, <2>2
<1>7. ASSUME NEW j \in 1 .. n + l, NEW k \in 1 .. n + l, q[j] = q[k] PROVE j = k
  <2>1. \A i \in 1 .. n + l : IF i \in 1 .. n THEN q[i] = s[i] /\ q[i] \in S
                              ELSE i - n \in 1 .. l /\ q[i] = t[i - n] /\ q[i] \in T
    BY <1>2, <1>3, <1>4
  <2>2. CASE j \in 1 .. n
    BY <1>3, <1>7, <2>1, <2>2
  <2>3. CASE j \notin 1 .. n
    <3>1. k \notin 1 .. n
      BY <1>7, <2>1, <2>3
    <3>2. j - n = k - n
      BY <1>4, <1>7, <2>1, <2>3, <3>1
    <3> QED BY <1>1, <3>2
  <2> QED BY <2>2, <2>3
<1>8. Enumerates(q, S \cup T)
  BY <1>2, <1>5, <1>6, <1>7, Zenon DEF Enumerates
<1> QED BY <1>2, <1>8 DEF n, l, q

(* Written names the entries of a set, if the header counts them all.      *)
LEMMA WrittenIs ==
  ASSUME NEW m \in AddrMen, Indexed(m), NEW ids \in SUBSET DOMAIN m.mapInfo,
         NEW c, c = Cardinality(ids), NEW s, s = Written(m, ids, c)
  PROVE  Enumerates(s, ids)
<1> DEFINE n == m.nIdCount
           X == Seq(Nat)
           Next1(k, t) == IF k - 1 \in ids /\ Len(t) # c THEN Append(t, k - 1) ELSE t
           g == [k \in 1 .. n |-> [t \in X |-> Next1(k, t)]]
           Below(k) == {x \in ids : x < k}
<1>1. n \in Nat /\ ids \subseteq Nat /\ (\A x \in ids : x < n)
  BY AddrManIs DEF Indexed
<1>2. IsFiniteSet(ids) /\ c \in Nat
  BY IdsFinite
<1>3. g \in [1 .. n -> [X -> X]]
  <2>1. ASSUME NEW k \in 1 .. n, NEW t \in X PROVE Next1(k, t) \in X
    <3>1. k - 1 \in Nat
      OBVIOUS
    <3> QED BY <3>1
  <2> HIDE DEF Next1, X, n
  <2> QED BY <2>1
<1>4. \A k \in 1 .. n, t \in X : g[k][t] = Next1(k, t)
  <2> HIDE DEF Next1, n, X
  <2> QED OBVIOUS
<1>5. <<>> \in X
  OBVIOUS
<1> HIDE DEF g, n, X
<1>6. PICK f : IsFold(f, n, X, <<>>, g)
  BY <1>1, <1>3, <1>5, FoldRecursion
<1>7. /\ f \in [0 .. n -> X] /\ f[0] = <<>>
      /\ \A k \in 1 .. n : f[k - 1] \in X /\ f[k] = Next1(k, f[k - 1])
  <2> HIDE DEF Next1
  <2>1. \A k \in 1 .. n : f[k - 1] \in X
    BY <1>1, <1>6 DEF IsFold
  <2> QED BY <1>4, <1>6, <2>1 DEF IsFold
<1>8. f = [k \in 0 .. n |-> IF k = 0 THEN <<>>
                            ELSE IF k - 1 \in ids /\ Len(f[k - 1]) # c
                            THEN Append(f[k - 1], k - 1) ELSE f[k - 1]]
  <2> HIDE DEF Next1
  <2>1. f = [k \in 0 .. n |-> IF k = 0 THEN <<>> ELSE Next1(k, f[k - 1])]
    BY <1>1, <1>7
  <2> QED BY <2>1, Zenon DEF Next1
<1> DEFINE h == CHOOSE h : h = [k \in 0 .. n |-> IF k = 0 THEN <<>>
                                  ELSE IF k - 1 \in ids /\ Len(h[k - 1]) # c
                                  THEN Append(h[k - 1], k - 1) ELSE h[k - 1]]
<1>9. h = [k \in 0 .. n |-> IF k = 0 THEN <<>>
                            ELSE IF k - 1 \in ids /\ Len(h[k - 1]) # c
                            THEN Append(h[k - 1], k - 1) ELSE h[k - 1]]
  BY <1>8, Zenon
<1>10. s = h[n]
  BY Zenon DEF Written, Writing, n
<1> HIDE DEF h
<1>11. h[0] = <<>> /\ \A k \in 1 .. n : h[k] = Next1(k, h[k - 1])
  <2>1. h = [k \in 0 .. n |-> IF k = 0 THEN <<>> ELSE Next1(k, h[k - 1])]
    BY <1>9, Zenon DEF Next1
  <2> HIDE DEF Next1
  <2> QED BY <1>1, <2>1
<1>12. \A k \in 0 .. n : h[k] = f[k]
  <2> DEFINE S == {k \in 0 .. n : h[k] = f[k]}
  <2> HIDE DEF Next1
  <2>1. 0 \in S
    BY <1>1, <1>7, <1>11
  <2>2. ASSUME NEW k \in 1 .. n, k - 1 \in S PROVE k \in S
    BY <1>1, <1>7, <1>11, <2>2
  <2> HIDE DEF S
  <2>3. \A k \in 0 .. n : k \in S
    BY <1>1, <2>1, <2>2, UpTo
  <2> QED BY <2>3 DEF S
<1>13. \A k \in 0 .. n : Enumerates(f[k], Below(k))
  <2> DEFINE S == {k \in 0 .. n : Enumerates(f[k], Below(k))}
  <2>1. 0 \in S
    <3>1. Below(0) = {}
      BY <1>1
    <3>2. Enumerates(<<>>, {})
      BY DEF Enumerates
    <3> HIDE DEF Below
    <3>3. 0 \in 0 .. n /\ f[0] = <<>>
      BY <1>1, <1>7
    <3> QED BY <3>1, <3>2, <3>3
  <2>2. ASSUME NEW k \in 1 .. n, k - 1 \in S PROVE k \in S
    <3>1. Enumerates(f[k - 1], Below(k - 1)) /\ k \in 0 .. n /\ k \in Nat /\ k - 1 \in Nat
      BY <1>1, <2>2
    <3>2. CASE k - 1 \in ids
      <4>1. k - 1 \notin Below(k - 1) /\ Below(k) = Below(k - 1) \cup {k - 1}
        BY <1>1, <3>1, <3>2
      <4>2. Len(f[k - 1]) # c
        <5>1. Below(k - 1) \in SUBSET ids /\ Below(k - 1) # ids
          BY <3>2, <4>1
        <5>2. Cardinality(Below(k - 1)) # Cardinality(ids)
          BY <1>2, <5>1, FS_Subset
        <5> QED BY <3>1, <5>2, EnumerateCount
      <4>3. f[k] = Append(f[k - 1], k - 1)
        BY <1>7, <3>2, <4>2
      <4> HIDE DEF Below
      <4>4. Enumerates(f[k], Below(k - 1) \cup {k - 1})
        BY <3>1, <4>1, <4>3, EnumerateAppend
      <4> QED BY <3>1, <4>1, <4>4
    <3>3. CASE k - 1 \notin ids
      <4>1. Below(k) = Below(k - 1)
        BY <1>1, <3>1, <3>3
      <4>2. f[k] = f[k - 1]
        BY <1>7, <3>3
      <4> HIDE DEF Below
      <4> QED BY <3>1, <4>1, <4>2
    <3> QED BY <3>2, <3>3
  <2> HIDE DEF S
  <2>3. \A k \in 0 .. n : k \in S
    BY <1>1, <2>1, <2>2, UpTo
  <2> QED BY <2>3 DEF S
<1>14. Below(n) = ids
  BY <1>1
<1> HIDE DEF Below
<1> QED BY <1>1, <1>10, <1>12, <1>13, <1>14

(* ReadInfo, member by member.                                             *)
InfoRead(m, info, tried, w) ==
  /\ w \in AddrMen
  /\ w.nIdCount = m.nIdCount + 1
  /\ DOMAIN w.mapInfo = DOMAIN m.mapInfo \cup {m.nIdCount}
  /\ w.mapInfo[m.nIdCount].addr = info.addr
  /\ w.mapInfo[m.nIdCount].source = info.source
  /\ w.mapInfo[m.nIdCount].nLastSuccess = info.nLastSuccess
  /\ w.mapInfo[m.nIdCount].nRefCount = 0
  /\ w.mapInfo[m.nIdCount].fInTried = tried
  /\ \A n \in DOMAIN m.mapInfo : n # m.nIdCount => w.mapInfo[n] = m.mapInfo[n]
  /\ w.nTried = m.nTried /\ w.vvTried = m.vvTried
  /\ w.nNew = m.nNew /\ w.vvNew = m.vvNew
  /\ Indexed(m) /\ info.addr \notin DOMAIN m.mapAddr => Indexed(w)

LEMMA ReadInfoIs ==
  ASSUME NEW m \in AddrMen, NEW info \in Info, NEW tried \in BOOLEAN,
         NEW w, w = ReadInfo(m, info, tried)
  PROVE  InfoRead(m, info, tried, w)
<1> DEFINE id == m.nIdCount
           a == info.addr
           s == info.source
           v == Create(m, a, s)
           i == v.mapInfo[id]
           last == [i EXCEPT !.nLastSuccess = info.nLastSuccess, !.fInTried = tried]
           e == Replaced(v, id, last, v.vvNew, v.nNew)
<1>1. a \in Addr /\ s \in Source /\ info.nLastSuccess \in Nat
  BY InfoIs
<1> HIDE DEF a, s
<1>2. /\ v \in AddrMen
      /\ v.nIdCount = id + 1
      /\ DOMAIN v.mapInfo = DOMAIN m.mapInfo \cup {id}
      /\ v.mapInfo[id] = NewInfo(a, s, Len(m.vRandom) + 1)
      /\ \A n \in DOMAIN m.mapInfo : n # id => v.mapInfo[n] = m.mapInfo[n]
      /\ v.nTried = m.nTried /\ v.vvTried = m.vvTried
      /\ v.nNew = m.nNew /\ v.vvNew = m.vvNew
  BY <1>1, CreateIs
<1>3. i = [addr |-> a, source |-> s, nLastSuccess |-> 0, nRefCount |-> 0,
           fInTried |-> FALSE, nRandomPos |-> Len(m.vRandom) + 1]
  <2> HIDE DEF v
  <2> QED BY <1>2, Zenon DEF NewInfo
<1>4. Indexed(m) /\ a \notin DOMAIN m.mapAddr => Indexed(v)
  BY <1>1, CreateIndexed
<1>5. w = e
  <2> HIDE DEF v
  <2> DEFINE f == [v.mapInfo EXCEPT ![id] = last]
             g == [v.mapInfo EXCEPT ![id].nLastSuccess = info.nLastSuccess,
                                    ![id].fInTried = tried]
  <2>1. w = [v EXCEPT !.mapInfo[id].nLastSuccess = info.nLastSuccess,
                      !.mapInfo[id].fInTried = tried]
    BY Zenon DEF ReadInfo, v, id, a, s
  <2>2. g = f
    BY <1>2
  <2>3. w = [v EXCEPT !.mapInfo = g]
    BY <1>2, <2>1 DEF AddrMen
  <2>4. e = [v EXCEPT !.mapInfo = f]
    BY <1>2 DEF AddrMen, Replaced
  <2> HIDE DEF g, f, e
  <2> QED BY <2>2, <2>3, <2>4
<1> HIDE DEF v, i
<1>6. last = [addr |-> a, source |-> s, nLastSuccess |-> info.nLastSuccess, nRefCount |-> 0,
              fInTried |-> tried, nRandomPos |-> Len(m.vRandom) + 1]
  <2> DEFINE pos == Len(m.vRandom) + 1
             t == info.nLastSuccess
  <2>1. last = [i EXCEPT !.nLastSuccess = t, !.fInTried = tried]
    OBVIOUS
  <2> HIDE DEF last, pos, t
  <2>2. i = [addr |-> a, source |-> s, nLastSuccess |-> 0, nRefCount |-> 0,
             fInTried |-> FALSE, nRandomPos |-> pos]
    BY <1>3 DEF pos
  <2>3. last = [addr |-> a, source |-> s, nLastSuccess |-> t, nRefCount |-> 0,
                fInTried |-> tried, nRandomPos |-> pos]
    BY <2>1, <2>2
  <2> QED BY <2>3 DEF pos, t
<1>7. Len(m.vRandom) + 1 \in Int
  BY AddrManIs
<1>8. last \in Info /\ last.addr = a /\ last.source = s
      /\ last.nLastSuccess = info.nLastSuccess /\ last.nRefCount = 0 /\ last.fInTried = tried
      /\ last.nRandomPos = i.nRandomPos /\ i.addr = a
  <2> HIDE DEF last
  <2> QED BY <1>1, <1>3, <1>6, <1>7 DEF Info
<1> HIDE DEF last
<1>9. /\ e \in AddrMen
      /\ e.nIdCount = v.nIdCount /\ e.mapAddr = v.mapAddr /\ e.vRandom = v.vRandom
      /\ DOMAIN e.mapInfo = DOMAIN v.mapInfo
      /\ e.mapInfo[id] = last
      /\ \A n \in DOMAIN v.mapInfo : n # id => e.mapInfo[n] = v.mapInfo[n]
      /\ e.nTried = v.nTried /\ e.vvTried = v.vvTried
      /\ e.nNew = v.nNew /\ e.vvNew = v.vvNew
  <2>1. e = Replaced(v, id, last, v.vvNew, v.nNew)
    OBVIOUS
  <2>2. id \in DOMAIN v.mapInfo /\ v.vvNew \in [NewBucket -> SUBSET Nat] /\ v.nNew \in Int
    BY <1>2, AddrManIs
  <2> HIDE DEF e, id
  <2> QED BY <1>2, <1>8, <2>1, <2>2, ReplaceIs
<1> HIDE DEF e
<1>10. ASSUME Indexed(m) /\ a \notin DOMAIN m.mapAddr PROVE Indexed(w)
  <2>1. SamePlaces(v, e)
    <3>1. i = v.mapInfo[id]
      BY DEF i
    <3> QED BY <1>8, <1>9, <3>1 DEF SamePlaces
  <2> QED BY <1>4, <1>5, <1>10, <2>1, IndexedSamePlaces
<1> QED BY <1>2, <1>5, <1>8, <1>9, <1>10 DEF InfoRead, a, s

(* The first k of the entries q of m have been read.                       *)
ReadSoFar(m, q, r, k) ==
  /\ r \in AddrMen /\ Indexed(r) /\ r.nIdCount = k
  /\ DOMAIN r.mapInfo = 0 .. k - 1
  /\ \A i \in 0 .. k - 1 :
       /\ r.mapInfo[i].addr = m.mapInfo[q[i + 1]].addr
       /\ r.mapInfo[i].source = m.mapInfo[q[i + 1]].source
       /\ r.mapInfo[i].nLastSuccess = m.mapInfo[q[i + 1]].nLastSuccess
       /\ r.mapInfo[i].fInTried = m.mapInfo[q[i + 1]].fInTried
       /\ r.mapInfo[i].nRefCount = 0

(* Only the entries and their count say how far the reading is.             *)
LEMMA SameInfosRead ==
  ASSUME NEW m, NEW q, NEW v, NEW w, NEW k, ReadSoFar(m, q, v, k),
         w \in AddrMen, Indexed(w), w.nIdCount = v.nIdCount, w.mapInfo = v.mapInfo
  PROVE  ReadSoFar(m, q, w, k)
BY ZenonT(30) DEF ReadSoFar

LEMMA ReadMore ==
  ASSUME NEW m \in AddrMen, Indexed(m), NEW q, Enumerates(q, DOMAIN m.mapInfo),
         NEW k \in Nat, k < Len(q), NEW r, ReadSoFar(m, q, r, k),
         NEW info, info = m.mapInfo[q[k + 1]], NEW w, w = ReadInfo(r, info, info.fInTried)
  PROVE  /\ ReadSoFar(m, q, w, k + 1)
         /\ w.nTried = r.nTried /\ w.vvTried = r.vvTried
         /\ w.nNew = r.nNew /\ w.vvNew = r.vvNew
<1>1. /\ r \in AddrMen /\ Indexed(r) /\ r.nIdCount = k
      /\ DOMAIN r.mapInfo = 0 .. k - 1
  BY DEF ReadSoFar
<1>2. /\ \A j \in 1 .. Len(q) : q[j] \in DOMAIN m.mapInfo
      /\ \A i, j \in 1 .. Len(q) : q[i] = q[j] => i = j
      /\ Len(q) \in Nat
  BY SMTT(20) DEF Enumerates
<1>3. info \in Info /\ info.fInTried \in BOOLEAN
  <2>1. k + 1 \in 1 .. Len(q)
    BY <1>2
  <2>2. info \in Info
    BY <1>2, <2>1, AddrManIs
  <2> QED BY <2>2, InfoIs
<1>4. info.addr \notin DOMAIN r.mapAddr
  <2>1. SUFFICES ASSUME info.addr \in DOMAIN r.mapAddr PROVE FALSE
    OBVIOUS
  <2>2. PICK i \in 0 .. k - 1 : r.mapInfo[i].addr = info.addr
    BY <1>1, <2>1 DEF Indexed
  <2>3. i + 1 \in 1 .. Len(q) /\ k + 1 \in 1 .. Len(q) /\ i + 1 # k + 1
    BY <1>2
  <2>4. m.mapInfo[q[i + 1]].addr = m.mapInfo[q[k + 1]].addr
    BY <2>2 DEF ReadSoFar
  <2>5. q[i + 1] = q[k + 1]
    <3>1. q[i + 1] \in DOMAIN m.mapInfo /\ q[k + 1] \in DOMAIN m.mapInfo
      BY <1>2, <2>3
    <3> QED BY <2>4, <3>1 DEF Indexed
  <2> QED BY <1>2, <2>3, <2>5
<1>5. /\ w \in AddrMen
      /\ w.nIdCount = k + 1
      /\ DOMAIN w.mapInfo = DOMAIN r.mapInfo \cup {k}
      /\ w.mapInfo[k].addr = info.addr
      /\ w.mapInfo[k].source = info.source
      /\ w.mapInfo[k].nLastSuccess = info.nLastSuccess
      /\ w.mapInfo[k].nRefCount = 0
      /\ w.mapInfo[k].fInTried = info.fInTried
      /\ \A n \in DOMAIN r.mapInfo : n # k => w.mapInfo[n] = r.mapInfo[n]
      /\ w.nTried = r.nTried /\ w.vvTried = r.vvTried
      /\ w.nNew = r.nNew /\ w.vvNew = r.vvNew
      /\ Indexed(w)
  <2> DEFINE tried == info.fInTried
  <2>1. w = ReadInfo(r, info, tried) /\ tried \in BOOLEAN
    BY <1>3
  <2> HIDE DEF tried
  <2>2. InfoRead(r, info, tried, w)
    BY <1>1, <1>3, <2>1, ReadInfoIs
  <2> QED BY <1>1, <1>4, <2>2, Zenon DEF InfoRead, tried
<1>6. DOMAIN w.mapInfo = 0 .. (k + 1) - 1
  <2>1. (0 .. k - 1) \cup {k} = 0 .. (k + 1) - 1
    OBVIOUS
  <2> QED BY <1>1, <1>5, <2>1, Zenon
<1>7. ASSUME NEW i \in 0 .. (k + 1) - 1
      PROVE  /\ w.mapInfo[i].addr = m.mapInfo[q[i + 1]].addr
             /\ w.mapInfo[i].source = m.mapInfo[q[i + 1]].source
             /\ w.mapInfo[i].nLastSuccess = m.mapInfo[q[i + 1]].nLastSuccess
             /\ w.mapInfo[i].fInTried = m.mapInfo[q[i + 1]].fInTried
             /\ w.mapInfo[i].nRefCount = 0
  <2>1. CASE i = k
    BY <1>5, <2>1, Zenon
  <2>2. CASE i # k
    <3>1. i \in 0 .. k - 1
      BY <2>2
    <3>2. w.mapInfo[i] = r.mapInfo[i]
      BY <1>1, <1>5, <2>2, <3>1, Zenon
    <3> QED BY <3>1, <3>2 DEF ReadSoFar
  <2> QED BY <2>1, <2>2, Zenon
<1>8. ReadSoFar(m, q, w, k + 1)
  BY <1>5, <1>6, <1>7, Zenon DEF ReadSoFar
<1> QED BY <1>5, <1>8, Zenon

(* The file of m has its entries in the order of q, those in new buckets   *)
(* first.                                                                  *)
Filed(m, q, f) ==
  /\ Enumerates(q, DOMAIN m.mapInfo)
  /\ Len(f.vNew) \in Nat /\ Len(f.vTried) \in Nat
  /\ Len(q) = Len(f.vNew) + Len(f.vTried)
  /\ \A k \in 1 .. Len(f.vNew) : f.vNew[k] = m.mapInfo[q[k]] /\ q[k] \in NewIds(m)
  /\ \A k \in 1 .. Len(f.vTried) :
       /\ f.vTried[k] = m.mapInfo[q[Len(f.vNew) + k]]
       /\ q[Len(f.vNew) + k] \in TriedIds(m)
  /\ \A b \in NewBucket :
       f.buckets[b] = {i \in 0 .. Len(f.vNew) - 1 : q[i + 1] \in m.vvNew[b]}

LEMMA AnySeq ==
  ASSUME NEW n \in Nat, NEW T, NEW e \in [1 .. n -> T]
  PROVE  e \in Seq(T) /\ Len(e) = n
OBVIOUS

(* The entries that a sequence of ids names.                               *)
LEMMA EntriesLen ==
  ASSUME NEW m, NEW s \in Seq(Nat), NEW v, v = [k \in DOMAIN s |-> m.mapInfo[s[k]]]
  PROVE  Len(v) = Len(s) /\ Len(v) \in Nat /\ \A k \in 1 .. Len(s) : v[k] = m.mapInfo[s[k]]
<1>1. DOMAIN s = 1 .. Len(s) /\ Len(s) \in Nat
  OBVIOUS
<1> DEFINE n == Len(s)
           e == [k \in 1 .. n |-> m.mapInfo[s[k]]]
<1>2. v = e
  BY <1>1
<1>3. n \in Nat
  BY <1>1
<1> HIDE DEF n
<1>4. e \in Seq({e[k] : k \in 1 .. n}) /\ Len(e) = n
  <2> DEFINE T == {e[k] : k \in 1 .. n}
  <2>1. e \in [1 .. n -> T]
    OBVIOUS
  <2> HIDE DEF e, T
  <2>2. e \in Seq(T) /\ Len(e) = n
    BY <1>3, <2>1, AnySeq
  <2> QED BY <2>2 DEF T
<1>5. \A k \in 1 .. n : e[k] = m.mapInfo[s[k]]
  OBVIOUS
<1> HIDE DEF e
<1> QED BY <1>2, <1>3, <1>4, <1>5 DEF n

LEMMA SerializeIs ==
  ASSUME NEW m, Tables(m, NoId, NoId), NEW f, f = Serialize(m)
  PROVE  \E q : Filed(m, q, f)
<1>1. m \in AddrMen /\ Indexed(m) /\ NewTable(m, NoId) /\ Counters(m, NoId)
  BY DEF Tables
<1> DEFINE newIds == {n \in DOMAIN m.mapInfo : m.mapInfo[n].nRefCount # 0}
           triedIds == {n \in DOMAIN m.mapInfo : m.mapInfo[n].fInTried}
           news == Written(m, newIds, m.nNew)
           trieds == Written(m, triedIds, m.nTried)
           q == news \o trieds
           vNew == [k \in DOMAIN news |-> m.mapInfo[news[k]]]
           vTried == [k \in DOMAIN trieds |-> m.mapInfo[trieds[k]]]
           buckets == [b \in NewBucket |->
                         {k - 1 : k \in {k \in DOMAIN news : news[k] \in m.vvNew[b]}}]
<1>2. f.vNew = vNew /\ f.vTried = vTried /\ f.buckets = buckets
  <2> HIDE DEF vNew, vTried, buckets
  <2>1. f = [vNew |-> vNew, vTried |-> vTried, buckets |-> buckets]
    BY Zenon DEF Serialize, vNew, vTried, buckets, news, trieds, newIds, triedIds
  <2> QED BY <2>1
<1>3. triedIds = TriedIds(m)
  BY DEF TriedIds
<1>4. newIds = NewIds(m)
  <2>1. ASSUME NEW n \in NewIds(m) PROVE n \in newIds
    <3>1. n \in DOMAIN m.mapInfo /\ m.mapInfo[n].nRefCount \in 1 .. NewBucketsPerAddress
      BY <1>1 DEF NewTable, NewIds
    <3> QED BY <3>1
  <2>2. ASSUME NEW n \in TriedIds(m) PROVE n \notin newIds
    <3>1. n \in DOMAIN m.mapInfo /\ n # NoId
      BY <1>1, NoIdIs
    <3>2. InNew(m, n) = {}
      BY <1>1, BucketFinite DEF InNew, NewIds
    <3>3. m.mapInfo[n].nRefCount = 0
      <4>1. m.mapInfo[n].nRefCount = Cardinality(InNew(m, n)) + (IF n = NoId THEN 1 ELSE 0)
        BY <1>1, <3>1 DEF NewTable
      <4>2. Cardinality(InNew(m, n)) = 0
        BY <3>2, FS_EmptySet
      <4> QED BY <3>1, <4>1, <4>2
    <3> QED BY <3>3
  <2> HIDE DEF newIds
  <2>3. newIds \subseteq DOMAIN m.mapInfo
    BY DEF newIds
  <2> QED BY <2>1, <2>2, <2>3 DEF NewIds
<1> HIDE DEF newIds, triedIds
<1>5. NewIds(m) \in SUBSET DOMAIN m.mapInfo /\ TriedIds(m) \in SUBSET DOMAIN m.mapInfo
      /\ NewIds(m) \cap TriedIds(m) = {} /\ NewIds(m) \cup TriedIds(m) = DOMAIN m.mapInfo
  BY DEF NewIds, TriedIds
<1>6. Enumerates(news, NewIds(m))
  <2>1. m.nNew = Cardinality(NewIds(m))
    BY <1>1 DEF Counters
  <2> QED BY <1>1, <1>4, <1>5, <2>1, WrittenIs
<1>7. Enumerates(trieds, TriedIds(m))
  <2>1. TriedIds(m) \ {NoId} = TriedIds(m)
    BY <1>1, NoIdIs
  <2>2. m.nTried = Cardinality(TriedIds(m))
    BY <1>1, <2>1 DEF Counters
  <2> QED BY <1>1, <1>3, <1>5, <2>2, WrittenIs
<1> HIDE DEF news, trieds
<1>8. /\ Enumerates(q, DOMAIN m.mapInfo)
      /\ Len(q) = Len(news) + Len(trieds)
      /\ \A k \in 1 .. Len(news) : q[k] = news[k]
      /\ \A k \in 1 .. Len(trieds) : q[Len(news) + k] = trieds[k]
  BY <1>5, <1>6, <1>7, EnumerateBoth
<1> HIDE DEF q
<1>9. /\ news \in Seq(Nat) /\ \A k \in 1 .. Len(news) : news[k] \in NewIds(m)
      /\ trieds \in Seq(Nat) /\ \A k \in 1 .. Len(trieds) : trieds[k] \in TriedIds(m)
  BY <1>6, <1>7 DEF Enumerates
<1>10. /\ Len(vNew) = Len(news) /\ Len(vNew) \in Nat
       /\ \A k \in 1 .. Len(news) : vNew[k] = m.mapInfo[news[k]]
       /\ Len(vTried) = Len(trieds) /\ Len(vTried) \in Nat
       /\ \A k \in 1 .. Len(trieds) : vTried[k] = m.mapInfo[trieds[k]]
  BY <1>9, EntriesLen
<1>11. ASSUME NEW b \in NewBucket
       PROVE  buckets[b] = {i \in 0 .. Len(news) - 1 : q[i + 1] \in m.vvNew[b]}
  <2>1. DOMAIN news = 1 .. Len(news) /\ Len(news) \in Nat
    BY <1>9
  <2>2. buckets[b] = {k - 1 : k \in {k \in 1 .. Len(news) : news[k] \in m.vvNew[b]}}
    BY <2>1
  <2>3. ASSUME NEW i \in 0 .. Len(news) - 1 PROVE i + 1 \in 1 .. Len(news) /\ (i + 1) - 1 = i
    BY <2>1
  <2> HIDE DEF buckets
  <2>4. ASSUME NEW i \in 0 .. Len(news) - 1, q[i + 1] \in m.vvNew[b] PROVE i \in buckets[b]
    <3>1. i + 1 \in {k \in 1 .. Len(news) : news[k] \in m.vvNew[b]}
      BY <1>8, <2>3, <2>4
    <3> QED BY <2>2, <2>3, <3>1
  <2>5. ASSUME NEW i \in buckets[b] PROVE i \in 0 .. Len(news) - 1 /\ q[i + 1] \in m.vvNew[b]
    <3>1. PICK k \in 1 .. Len(news) : news[k] \in m.vvNew[b] /\ i = k - 1
      BY <2>2, <2>5
    <3>2. i \in 0 .. Len(news) - 1 /\ i + 1 = k
      BY <2>1, <3>1
    <3> QED BY <1>8, <3>1, <3>2
  <2> QED BY <2>4, <2>5
<1> HIDE DEF buckets, vNew, vTried
<1>12. Filed(m, q, f)
  <2>1. /\ Len(f.vNew) = Len(news) /\ Len(f.vTried) = Len(trieds)
        /\ Len(news) \in Nat /\ Len(trieds) \in Nat
    BY <1>2, <1>10
  <2>2. ASSUME NEW k \in 1 .. Len(news) PROVE f.vNew[k] = m.mapInfo[q[k]] /\ q[k] \in NewIds(m)
    BY <1>2, <1>8, <1>9, <1>10
  <2>3. ASSUME NEW k \in 1 .. Len(trieds)
        PROVE  /\ f.vTried[k] = m.mapInfo[q[Len(news) + k]]
               /\ q[Len(news) + k] \in TriedIds(m)
    BY <1>2, <1>8, <1>9, <1>10
  <2> QED BY <1>2, <1>8, <1>11, <2>1, <2>2, <2>3 DEF Filed
<1> QED BY <1>12

(* The first loop reads the entries of the new table.                      *)
NewRead(m, q, f, r) ==
  /\ ReadSoFar(m, q, r, Len(f.vNew))
  /\ r.nTried = 0 /\ r.vvTried = [b \in TriedBucket |-> <<>>]
  /\ r.nNew = Len(f.vNew) /\ r.vvNew = [b \in NewBucket |-> {}]

LEMMA ReadingNewIs ==
  ASSUME NEW m \in AddrMen, Indexed(m), NEW q, NEW f, Filed(m, q, f),
         NEW r, r = ReadingNew(f)[Len(f.vNew)]
  PROVE  NewRead(m, q, f, r)
<1> DEFINE n == Len(f.vNew)
           a == [EmptyAddrMan EXCEPT !.nNew = n]
           Step(k, t) == ReadInfo(t, f.vNew[k], FALSE)
           g == [k \in 1 .. n |-> [t \in AddrMen |-> Step(k, t)]]
<1>1. /\ n \in Nat /\ Len(f.vTried) \in Nat /\ Len(q) = n + Len(f.vTried)
      /\ Enumerates(q, DOMAIN m.mapInfo)
      /\ \A k \in 1 .. n : f.vNew[k] = m.mapInfo[q[k]] /\ q[k] \in NewIds(m)
  BY DEF Filed
<1>2. /\ a.nIdCount = 0 /\ a.mapInfo = <<>> /\ a.mapAddr = <<>> /\ a.vRandom = <<>>
      /\ a.nTried = 0 /\ a.vvTried = [b \in TriedBucket |-> <<>>]
      /\ a.nNew = n /\ a.vvNew = [b \in NewBucket |-> {}]
      /\ a = [nIdCount |-> a.nIdCount, mapInfo |-> a.mapInfo, mapAddr |-> a.mapAddr,
              vRandom |-> a.vRandom, nTried |-> a.nTried, vvTried |-> a.vvTried,
              nNew |-> a.nNew, vvNew |-> a.vvNew]
  <2> DEFINE none == <<>>
             vvTried == [b \in TriedBucket |-> <<>>]
             vvNew == [b \in NewBucket |-> {}]
             empty == [nIdCount |-> 0, mapInfo |-> none, mapAddr |-> none, vRandom |-> none,
                       nTried |-> 0, vvTried |-> vvTried, nNew |-> 0, vvNew |-> vvNew]
  <2>1. a = [empty EXCEPT !.nNew = n]
    BY Zenon DEF EmptyAddrMan
  <2> HIDE DEF n, none, vvTried, vvNew, a
  <2>2. /\ a.nIdCount = 0 /\ a.mapInfo = none /\ a.mapAddr = none /\ a.vRandom = none
        /\ a.nTried = 0 /\ a.vvTried = vvTried
        /\ a.nNew = n /\ a.vvNew = vvNew
        /\ a = [nIdCount |-> a.nIdCount, mapInfo |-> a.mapInfo, mapAddr |-> a.mapAddr,
                vRandom |-> a.vRandom, nTried |-> a.nTried, vvTried |-> a.vvTried,
                nNew |-> a.nNew, vvNew |-> a.vvNew]
    BY <2>1
  <2> QED BY <2>2 DEF none, vvTried, vvNew
<1> HIDE DEF a, n
<1>3. /\ a \in AddrMen /\ DOMAIN a.mapInfo = {} /\ DOMAIN a.mapAddr = {}
  <2>1. DOMAIN a.mapInfo = {} /\ DOMAIN a.mapAddr = {}
    BY <1>2
  <2>2. a.mapInfo \in InfoMaps
    <3>1. a.mapInfo = [x \in {} |-> a.mapInfo[x]]
      BY <1>2
    <3> QED BY <2>1, <3>1, InfoMapIs
  <2>3. a.mapAddr \in AddrMaps
    <3>1. a.mapAddr = [x \in {} |-> a.mapAddr[x]]
      BY <1>2
    <3> QED BY <2>1, <3>1, AddrMapIs
  <2>4. /\ a.nIdCount \in Nat /\ a.vRandom \in Seq(Nat) /\ a.nTried \in Int /\ a.nNew \in Int
        /\ a.vvTried \in [TriedBucket -> Seq(Nat)]
        /\ a.vvNew \in [NewBucket -> SUBSET Nat]
    <3>1. <<>> \in Seq(Nat)
      OBVIOUS
    <3> QED BY <1>1, <1>2, <3>1
  <2>5. a = [nIdCount |-> a.nIdCount, mapInfo |-> a.mapInfo, mapAddr |-> a.mapAddr,
             vRandom |-> a.vRandom, nTried |-> a.nTried, vvTried |-> a.vvTried,
             nNew |-> a.nNew, vvNew |-> a.vvNew]
    BY <1>2, Zenon
  <2>6. a \in AddrMen
    BY <2>2, <2>3, <2>4, <2>5 DEF AddrMen
  <2> QED BY <2>1, <2>6
<1>4. Indexed(a)
  BY <1>2, <1>3 DEF Indexed
<1>5. ASSUME NEW k \in 1 .. n
      PROVE  f.vNew[k] \in Info /\ f.vNew[k].fInTried = FALSE
             /\ k - 1 \in Nat /\ k - 1 < Len(q) /\ f.vNew[k] = m.mapInfo[q[(k - 1) + 1]]
  <2>1. q[k] \in DOMAIN m.mapInfo /\ ~m.mapInfo[q[k]].fInTried
    BY <1>1 DEF NewIds, TriedIds
  <2>2. m.mapInfo[q[k]] \in Info
    BY <2>1, AddrManIs
  <2>3. m.mapInfo[q[k]].fInTried \in BOOLEAN
    BY <2>2, InfoIs
  <2>4. f.vNew[k] = m.mapInfo[q[k]] /\ f.vNew[k].fInTried = FALSE
    BY <1>1, <2>1, <2>3
  <2>5. k - 1 \in Nat /\ k - 1 < Len(q) /\ (k - 1) + 1 = k
    BY <1>1
  <2> QED BY <2>2, <2>4, <2>5
<1>6. g \in [1 .. n -> [AddrMen -> AddrMen]]
  <2>1. ASSUME NEW k \in 1 .. n, NEW t \in AddrMen PROVE Step(k, t) \in AddrMen
    <3> DEFINE z == Step(k, t)
               tried == FALSE
               info == f.vNew[k]
    <3>1. z = ReadInfo(t, info, tried) /\ tried \in BOOLEAN /\ info \in Info
      BY <1>5
    <3> HIDE DEF z, tried, info
    <3>2. InfoRead(t, info, tried, z)
      BY <3>1, ReadInfoIs
    <3>3. z \in AddrMen
      BY <3>2 DEF InfoRead
    <3> QED BY <3>3 DEF z
  <2> HIDE DEF Step
  <2> QED BY <2>1
<1>7. \A k \in 1 .. n, t \in AddrMen : g[k][t] = Step(k, t)
  <2> HIDE DEF Step
  <2> QED OBVIOUS
<1> HIDE DEF g, Step
<1>8. PICK e : IsFold(e, n, AddrMen, a, g)
  BY <1>1, <1>3, <1>6, FoldRecursion
<1>9. e = [k \in 0 .. n |-> IF k = 0 THEN a ELSE Step(k, e[k - 1])]
  <2>1. /\ e \in [0 .. n -> AddrMen] /\ e[0] = a
        /\ \A k \in 1 .. n : e[k] = g[k][e[k - 1]]
    BY <1>8 DEF IsFold
  <2>2. \A k \in 1 .. n : e[k - 1] \in AddrMen /\ e[k] = Step(k, e[k - 1])
    BY <1>1, <1>7, <2>1
  <2> QED BY <1>1, <2>1, <2>2
<1> DEFINE h == CHOOSE h : h = [k \in 0 .. n |-> IF k = 0 THEN a ELSE Step(k, h[k - 1])]
<1>10. h = [k \in 0 .. n |-> IF k = 0 THEN a ELSE Step(k, h[k - 1])]
  BY <1>9
<1>11. r = h[n]
  BY Zenon DEF ReadingNew, n, a, Step
<1> HIDE DEF h
<1>12. h[0] = a /\ \A k \in 1 .. n : h[k] = Step(k, h[k - 1])
  BY <1>1, <1>10
<1> DEFINE Good1(t, k) == /\ ReadSoFar(m, q, t, k)
                          /\ t.nTried = a.nTried /\ t.vvTried = a.vvTried
                          /\ t.nNew = a.nNew /\ t.vvNew = a.vvNew
           S == {k \in 0 .. n : Good1(h[k], k)}
<1>13. 0 \in S
  <2>1. ReadSoFar(m, q, a, 0)
    BY <1>2, <1>3, <1>4 DEF ReadSoFar
  <2>2. Good1(h[0], 0)
    BY <1>12, <2>1
  <2> HIDE DEF Good1
  <2> QED BY <1>1, <2>2
<1>14. ASSUME NEW k \in 1 .. n, k - 1 \in S PROVE k \in S
  <2> DEFINE t == h[k - 1]
             w == h[k]
             info == f.vNew[k]
  <2>1. Good1(t, k - 1)
    BY <1>14
  <2>2. w = ReadInfo(t, info, info.fInTried)
    <3>1. w = ReadInfo(t, info, FALSE)
      BY <1>12 DEF Step
    <3> QED BY <1>5, <3>1, Zenon
  <2>3. info = m.mapInfo[q[(k - 1) + 1]] /\ k - 1 \in Nat /\ k - 1 < Len(q) /\ (k - 1) + 1 = k
    <3>1. (k - 1) + 1 = k
      OBVIOUS
    <3> QED BY <1>5, <3>1, Zenon
  <2> HIDE DEF t, w, info
  <2>4. /\ ReadSoFar(m, q, w, (k - 1) + 1)
        /\ w.nTried = t.nTried /\ w.vvTried = t.vvTried
        /\ w.nNew = t.nNew /\ w.vvNew = t.vvNew
    BY <1>1, <2>1, <2>2, <2>3, ReadMore
  <2>5. Good1(w, k)
    BY <2>1, <2>3, <2>4
  <2> QED BY <1>1, <2>5 DEF w
<1> HIDE DEF S
<1>15. \A k \in 0 .. n : k \in S
  BY <1>1, <1>13, <1>14, UpTo
<1>16. Good1(h[n], n)
  <2>1. n \in 0 .. n
    BY <1>1
  <2> QED BY <1>15, <2>1 DEF S
<1> QED BY <1>2, <1>11, <1>16 DEF NewRead, n

(* What has been read of tried entries.                                    *)
LEMMA ReadTriedIds ==
  ASSUME NEW m, NEW q, NEW k \in Nat, NEW r, ReadSoFar(m, q, r, k), NEW x \in TriedIds(r)
  PROVE  /\ x \in 0 .. k - 1 /\ m.mapInfo[q[x + 1]].fInTried
         /\ r.mapInfo[x].addr = m.mapInfo[q[x + 1]].addr
         /\ r.mapInfo[x].nLastSuccess = m.mapInfo[q[x + 1]].nLastSuccess
<1>1. DOMAIN r.mapInfo = 0 .. k - 1
  BY DEF ReadSoFar
<1>2. x \in 0 .. k - 1 /\ r.mapInfo[x].fInTried
  BY <1>1 DEF TriedIds
<1>3. r.mapInfo[x].fInTried = m.mapInfo[q[x + 1]].fInTried
  BY <1>2, Zenon DEF ReadSoFar
<1>4. /\ r.mapInfo[x].addr = m.mapInfo[q[x + 1]].addr
      /\ r.mapInfo[x].nLastSuccess = m.mapInfo[q[x + 1]].nLastSuccess
  BY <1>2, Zenon DEF ReadSoFar
<1> QED BY <1>2, <1>3, <1>4, Zenon

(* There is room for a tried entry in the bucket it was in.                *)
LEMMA ReadRoom ==
  ASSUME NEW m, Tables(m, NoId, NoId), NEW q, Enumerates(q, DOMAIN m.mapInfo),
         NEW k \in Nat, k < Len(q), NEW r, ReadSoFar(m, q, r, k), TriedTable(r, NoId),
         q[k + 1] \in TriedIds(m),
         NEW b, b = GetTriedBucket[m.mapInfo[q[k + 1]].addr]
  PROVE  Len(r.vvTried[b]) < TriedBucketSize /\ b \in TriedBucket
<1> DEFINE u == r.vvTried[b]
           t == m.vvTried[b]
           n == Len(u)
           z == [x \in 1 .. n + 1 |-> IF x = n + 1 THEN q[k + 1] ELSE q[u[x] + 1]]
<1>1. m \in AddrMen /\ Indexed(m) /\ TriedTable(m, NoId)
  BY DEF Tables
<1>2. r \in AddrMen /\ DOMAIN r.mapInfo = 0 .. k - 1
  BY DEF ReadSoFar
<1>3. /\ \A j \in 1 .. Len(q) : q[j] \in DOMAIN m.mapInfo
      /\ \A i, j \in 1 .. Len(q) : q[i] = q[j] => i = j
      /\ Len(q) \in Nat
  <2>1. Len(q) \in Nat
    BY EnumerateCount
  <2> QED BY <2>1, Zenon DEF Enumerates
<1>4. b \in TriedBucket
  <2>1. m.mapInfo[q[k + 1]] \in Info
    BY <1>1, AddrManIs DEF TriedIds
  <2>2. m.mapInfo[q[k + 1]].addr \in Addr
    BY <2>1, InfoIs
  <2> QED BY <2>2, AddrManAssumption
<1>5. n \in Nat /\ Len(t) \in Nat /\ TriedBucketSize \in Nat /\ Len(t) <= TriedBucketSize
  <2>1. u \in Seq(Nat) /\ t \in Seq(Nat)
    BY <1>1, <1>2, <1>4, AddrManIs
  <2>2. Len(t) <= TriedBucketSize
    BY <1>1, <1>4, Zenon DEF TriedTable
  <2> HIDE DEF u, t
  <2> QED BY <2>1, <2>2, AddrManAssumption, SMTT(20)
<1>6. /\ \A x \in 1 .. n : u[x] \in TriedIds(r) /\ GetTriedBucket[r.mapInfo[u[x]].addr] = b
      /\ \A x, y \in 1 .. n : u[x] = u[y] => x = y
  <2>1. TriedHolds(r, b, u, NoId)
    BY <1>4, TriedTableHolds
  <2> HIDE DEF u
  <2> QED BY <2>1, Zenon DEF TriedHolds
<1> HIDE DEF u, n, t
<1>7. ASSUME NEW x \in 1 .. n
      PROVE  /\ u[x] \in 0 .. k - 1 /\ u[x] + 1 \in 1 .. Len(q) /\ u[x] + 1 # k + 1
             /\ q[u[x] + 1] \in TriedIds(m)
             /\ GetTriedBucket[m.mapInfo[q[u[x] + 1]].addr] = b
  <2> DEFINE y == u[x]
  <2>1. y \in TriedIds(r) /\ GetTriedBucket[r.mapInfo[y].addr] = b
    BY <1>6
  <2> HIDE DEF y
  <2>2. /\ y \in 0 .. k - 1 /\ m.mapInfo[q[y + 1]].fInTried
        /\ r.mapInfo[y].addr = m.mapInfo[q[y + 1]].addr
    BY <2>1, ReadTriedIds
  <2>3. y + 1 \in 1 .. Len(q) /\ y + 1 # k + 1
    BY <1>3, <2>2
  <2>4. q[y + 1] \in TriedIds(m)
    BY <1>3, <2>2, <2>3 DEF TriedIds
  <2>5. GetTriedBucket[m.mapInfo[q[y + 1]].addr] = b
    BY <2>1, <2>2
  <2> QED BY <2>2, <2>3, <2>4, <2>5 DEF y
<1>8. \A x \in 1 .. n + 1 : z[x] = IF x = n + 1 THEN q[k + 1] ELSE q[u[x] + 1]
  OBVIOUS
<1> HIDE DEF z
<1>9. ASSUME NEW x \in 1 .. n + 1, NEW y \in 1 .. n + 1, z[x] = z[y] PROVE x = y
  <2>1. k + 1 \in 1 .. Len(q)
    BY <1>3
  <2>2. \A i \in 1 .. n + 1 : i # n + 1 => i \in 1 .. n /\ z[i] = q[u[i] + 1]
    BY <1>5, <1>8
  <2>3. n + 1 \in 1 .. n + 1 /\ z[n + 1] = q[k + 1]
    BY <1>5, <1>8
  <2>4. ASSUME NEW i \in 1 .. n + 1, i # n + 1 PROVE z[i] # z[n + 1]
    <3>1. i \in 1 .. n /\ z[i] = q[u[i] + 1]
      BY <2>2, <2>4
    <3>2. u[i] + 1 \in 1 .. Len(q) /\ u[i] + 1 # k + 1
      BY <1>7, <3>1
    <3>3. q[u[i] + 1] # q[k + 1]
      BY <1>3, <2>1, <3>2
    <3> QED BY <2>3, <3>1, <3>3
  <2>5. CASE x # n + 1 /\ y # n + 1
    <3>1. q[u[x] + 1] = q[u[y] + 1] /\ x \in 1 .. n /\ y \in 1 .. n
      BY <1>9, <2>2, <2>5
    <3>2. u[x] + 1 = u[y] + 1
      BY <1>3, <1>7, <3>1
    <3>3. u[x] = u[y]
      BY <1>7, <3>1, <3>2
    <3> QED BY <1>6, <3>1, <3>3
  <2> QED BY <1>9, <2>4, <2>5
<1>10. ASSUME NEW x \in 1 .. n + 1 PROVE \E i \in 1 .. Len(t) : t[i] = z[x]
  <2> DEFINE y == z[x]
  <2>1. y \in TriedIds(m) /\ GetTriedBucket[m.mapInfo[y].addr] = b
    <3>1. CASE x = n + 1
      BY <1>8, <3>1
    <3>2. CASE x # n + 1
      <4>1. x \in 1 .. n
        BY <1>5, <3>2
      <4> QED BY <1>7, <1>8, <3>2, <4>1
    <3> QED BY <3>1, <3>2
  <2> HIDE DEF y
  <2>2. y # NoId
    BY <1>1, <2>1, NoIdIs
  <2>3. \E i \in 1 .. Len(m.vvTried[b]) : m.vvTried[b][i] = y
    <3>1. \E i \in 1 .. Len(m.vvTried[GetTriedBucket[m.mapInfo[y].addr]]) :
            m.vvTried[GetTriedBucket[m.mapInfo[y].addr]][i] = y
      BY <1>1, <2>1, <2>2, Zenon DEF TriedTable
    <3>2. GetTriedBucket[m.mapInfo[y].addr] = b
      BY <2>1
    <3> QED BY <3>1, <3>2, Zenon
  <2> QED BY <2>3, Zenon DEF y, t
<1>11. n + 1 <= Len(t)
  <2>1. n + 1 \in Nat /\ Len(t) \in Nat
    BY <1>5
  <2> HIDE DEF z
  <2> DEFINE c == n + 1
             l == Len(t)
  <2>2. c \in Nat /\ l \in Nat
    BY <2>1
  <2>3. Apart(z, c) /\ Among(z, c, t, l)
    <3>1. Apart(z, n + 1)
      BY <1>9 DEF Apart
    <3>2. Among(z, n + 1, t, Len(t))
      BY <1>10 DEF Among
    <3> QED BY <3>1, <3>2
  <2> HIDE DEF c, l
  <2>4. c <= l
    BY <2>2, <2>3, Fit
  <2> QED BY <2>4 DEF c, l
<1> QED BY <1>4, <1>5, <1>11 DEF n, u

(* A new entry that is flagged as tried has no place yet.                  *)
LEMMA TriedPending ==
  ASSUME NEW r, NEW v \in AddrMen, TriedTable(r, NoId), NEW id \in TriedIds(v), id \notin TriedIds(r),
         v.vvTried = r.vvTried, TriedIds(v) = TriedIds(r) \cup {id},
         v.mapInfo[id].nLastSuccess # 0,
         \A x \in TriedIds(r) : /\ v.mapInfo[x].addr = r.mapInfo[x].addr
                                /\ v.mapInfo[x].nLastSuccess = r.mapInfo[x].nLastSuccess
  PROVE  TriedTable(v, id)
<1>1. ASSUME NEW b \in TriedBucket
      PROVE  /\ Len(v.vvTried[b]) <= TriedBucketSize
             /\ \A k \in 1 .. Len(v.vvTried[b]) :
                  /\ v.vvTried[b][k] \in TriedIds(v) \ {id}
                  /\ GetTriedBucket[v.mapInfo[v.vvTried[b][k]].addr] = b
             /\ \A j, k \in 1 .. Len(v.vvTried[b]) :
                  v.vvTried[b][j] = v.vvTried[b][k] => j = k
  <2>1. /\ Len(r.vvTried[b]) <= TriedBucketSize
        /\ \A k \in 1 .. Len(r.vvTried[b]) :
             /\ r.vvTried[b][k] \in TriedIds(r)
             /\ GetTriedBucket[r.mapInfo[r.vvTried[b][k]].addr] = b
        /\ \A j, k \in 1 .. Len(r.vvTried[b]) : r.vvTried[b][j] = r.vvTried[b][k] => j = k
    BY DEF TriedTable
  <2> QED BY <2>1, SMTT(20)
<1>2. ASSUME NEW n \in TriedIds(v)
      PROVE  /\ v.mapInfo[n].nLastSuccess # 0
             /\ n # id => \E k \in 1 .. Len(v.vvTried[GetTriedBucket[v.mapInfo[n].addr]]) :
                            v.vvTried[GetTriedBucket[v.mapInfo[n].addr]][k] = n
  <2>1. CASE n = id
    BY <2>1
  <2>2. CASE n # id
    <3>1. n \in TriedIds(r) /\ n # NoId
      BY <2>2, NoIdIs
    <3>2. /\ r.mapInfo[n].nLastSuccess # 0
          /\ \E k \in 1 .. Len(r.vvTried[GetTriedBucket[r.mapInfo[n].addr]]) :
               r.vvTried[GetTriedBucket[r.mapInfo[n].addr]][k] = n
      BY <3>1, Zenon DEF TriedTable
    <3> QED BY <2>2, <3>1, <3>2
  <2> QED BY <2>1, <2>2
<1> QED BY <1>1, <1>2, Zenon DEF TriedTable

(* A round of the second loop.                                             *)
LEMMA ReadTriedMore ==
  ASSUME NEW m, Tables(m, NoId, NoId), NEW q, Enumerates(q, DOMAIN m.mapInfo),
         NEW k \in Nat, k < Len(q), NEW r, ReadSoFar(m, q, r, k), TriedTable(r, NoId),
         q[k + 1] \in TriedIds(m),
         NEW info, info = m.mapInfo[q[k + 1]], NEW w, w = ReadTried(r, info)
  PROVE  /\ ReadSoFar(m, q, w, k + 1) /\ TriedTable(w, NoId)
         /\ w.nTried = r.nTried + 1
         /\ w.nNew = r.nNew /\ w.vvNew = r.vvNew
<1> DEFINE b == GetTriedBucket[info.addr]
           v == ReadInfo(r, info, info.fInTried)
<1>1. m \in AddrMen /\ Indexed(m) /\ TriedTable(m, NoId)
  BY DEF Tables
<1>2. Len(r.vvTried[b]) < TriedBucketSize /\ b \in TriedBucket
  BY ReadRoom
<1>3. r \in AddrMen /\ r.nIdCount = k /\ DOMAIN r.mapInfo = 0 .. k - 1
  BY DEF ReadSoFar
<1>4. q[k + 1] \in DOMAIN m.mapInfo /\ info \in Info /\ info.fInTried = TRUE
      /\ info.nLastSuccess # 0
  <2>1. q[k + 1] \in DOMAIN m.mapInfo /\ info.fInTried
    BY DEF TriedIds
  <2>2. info \in Info
    BY <1>1, <2>1, AddrManIs
  <2>3. info.nLastSuccess # 0
    BY <1>1, Zenon DEF TriedTable
  <2> QED BY <2>1, <2>2, <2>3, InfoIs
<1>5. w = Appended(v, b, k)
  <2>1. w = Appended(ReadInfo(r, info, TRUE), b, r.nIdCount)
    BY <1>2, Zenon DEF ReadTried, Appended
  <2>2. v = ReadInfo(r, info, TRUE)
    BY <1>4, Zenon
  <2> QED BY <1>3, <2>1, <2>2, Zenon
<1>6. /\ ReadSoFar(m, q, v, k + 1)
      /\ v.nTried = r.nTried /\ v.vvTried = r.vvTried
      /\ v.nNew = r.nNew /\ v.vvNew = r.vvNew
  <2>1. v = ReadInfo(r, info, info.fInTried)
    OBVIOUS
  <2> HIDE DEF v
  <2> QED BY <1>1, <2>1, ReadMore
<1> HIDE DEF v, b
<1>7. v \in AddrMen /\ Indexed(v) /\ DOMAIN v.mapInfo = 0 .. (k + 1) - 1
  BY <1>6 DEF ReadSoFar
<1>8. v.mapInfo[k].addr = info.addr /\ v.mapInfo[k].nLastSuccess = info.nLastSuccess
      /\ v.mapInfo[k].fInTried = TRUE
  <2>1. k \in 0 .. (k + 1) - 1
    OBVIOUS
  <2> QED BY <1>4, <1>6, <2>1, Zenon DEF ReadSoFar
<1>9. ASSUME NEW x \in 0 .. k - 1
      PROVE  /\ x \in 0 .. (k + 1) - 1
             /\ v.mapInfo[x].addr = r.mapInfo[x].addr
             /\ v.mapInfo[x].nLastSuccess = r.mapInfo[x].nLastSuccess
             /\ v.mapInfo[x].fInTried = r.mapInfo[x].fInTried
  <2>1. x \in 0 .. (k + 1) - 1
    OBVIOUS
  <2> QED BY <1>6, <2>1, Zenon DEF ReadSoFar
<1>10. TriedIds(v) = TriedIds(r) \cup {k} /\ k \notin TriedIds(r)
  <2>1. ASSUME NEW x PROVE x \in TriedIds(v) <=> x \in TriedIds(r) \/ x = k
    <3>1. x \in 0 .. (k + 1) - 1 <=> x \in 0 .. k - 1 \/ x = k
      OBVIOUS
    <3>2. CASE x \in 0 .. k - 1
      <4>1. x \in TriedIds(v) <=> v.mapInfo[x].fInTried
        BY <1>7, <3>1, <3>2, Zenon DEF TriedIds
      <4>2. x \in TriedIds(r) <=> r.mapInfo[x].fInTried
        BY <1>3, <3>2, Zenon DEF TriedIds
      <4>3. v.mapInfo[x].fInTried = r.mapInfo[x].fInTried
        BY <1>9, <3>2
      <4>4. x # k
        BY <3>2
      <4> QED BY <4>1, <4>2, <4>3, <4>4, Zenon
    <3>3. CASE x = k
      BY <1>7, <1>8, <3>1, <3>3, Zenon DEF TriedIds
    <3>4. CASE x \notin 0 .. k - 1 /\ x # k
      BY <1>3, <1>7, <3>1, <3>4, Zenon DEF TriedIds
    <3> QED BY <3>2, <3>3, <3>4
  <2>2. k \notin TriedIds(r)
    <3>1. k \notin 0 .. k - 1
      OBVIOUS
    <3> QED BY <1>3, <3>1 DEF TriedIds
  <2> QED BY <2>1, <2>2
<1>11. TriedTable(v, k)
  <2>1. \A x \in TriedIds(r) : /\ v.mapInfo[x].addr = r.mapInfo[x].addr
                               /\ v.mapInfo[x].nLastSuccess = r.mapInfo[x].nLastSuccess
    BY <1>3, <1>9 DEF TriedIds
  <2>2. k \in TriedIds(v) /\ v.mapInfo[k].nLastSuccess # 0
    BY <1>4, <1>8, <1>10
  <2> QED BY <1>6, <1>7, <1>10, <2>1, <2>2, TriedPending
<1>12. /\ w \in AddrMen
       /\ w.nIdCount = v.nIdCount /\ w.mapAddr = v.mapAddr /\ w.vRandom = v.vRandom
       /\ w.mapInfo = v.mapInfo
       /\ w.nTried = v.nTried + 1
       /\ w.nNew = v.nNew /\ w.vvNew = v.vvNew
       /\ TriedTable(w, NoId)
  <2>1. b = GetTriedBucket[v.mapInfo[k].addr] /\ k \in TriedIds(v)
        /\ Len(v.vvTried[b]) < TriedBucketSize
    BY <1>2, <1>6, <1>8, <1>10 DEF b
  <2> QED BY <1>5, <1>7, <1>11, <2>1, AppendTried
<1>13. Indexed(w)
  <2>1. SamePlaces(v, w)
    BY <1>12 DEF SamePlaces
  <2> QED BY <1>7, <2>1, IndexedSamePlaces
<1>14. ReadSoFar(m, q, w, k + 1)
  <2>1. w \in AddrMen /\ w.nIdCount = v.nIdCount /\ w.mapInfo = v.mapInfo
    BY <1>12
  <2> QED BY <1>6, <1>13, <2>1, SameInfosRead, Zenon
<1> QED BY <1>6, <1>12, <1>14

LEMMA AppendedMember ==
  ASSUME NEW v \in AddrMen, NEW b \in TriedBucket, NEW id \in Nat
  PROVE  Appended(v, b, id) \in AddrMen
<1> DEFINE u == v.vvTried[b]
           s == Append(u, id)
           vvTried == [v.vvTried EXCEPT ![b] = s]
           w == Appended(v, b, id)
<1>1. v.vvTried \in [TriedBucket -> Seq(Nat)] /\ v.nTried \in Int
  BY AddrManIs
<1>2. w = Moved(v, vvTried, v.nTried + 1)
  BY DEF AddrMen, Moved, Appended
<1>3. u \in Seq(Nat)
  BY <1>1
<1> HIDE DEF u
<1>4. s \in Seq(Nat)
  BY <1>3
<1> HIDE DEF s
<1>5. vvTried \in [TriedBucket -> Seq(Nat)] /\ v.nTried + 1 \in Int
  BY <1>1, <1>4
<1> HIDE DEF vvTried
<1>6. w \in AddrMen
  <2> HIDE DEF w
  <2> QED BY <1>2, <1>5, MovedIs
<1> QED BY <1>6

LEMMA ReadTriedMember ==
  ASSUME NEW t \in AddrMen, NEW info \in Info
  PROVE  ReadTried(t, info) \in AddrMen
<1> DEFINE b == GetTriedBucket[info.addr]
           v == ReadInfo(t, info, TRUE)
           w == ReadTried(t, info)
<1>1. w = t \/ w = Appended(v, b, t.nIdCount)
  BY Zenon DEF ReadTried, Appended
<1>2. b \in TriedBucket /\ t.nIdCount \in Nat
  <2>1. info.addr \in Addr /\ t.nIdCount \in Nat
    BY InfoIs, AddrManIs
  <2> QED BY <2>1, AddrManAssumption
<1>3. v \in AddrMen
  <2> DEFINE tried == TRUE
  <2>1. v = ReadInfo(t, info, tried) /\ tried \in BOOLEAN
    OBVIOUS
  <2> HIDE DEF tried, v
  <2>2. InfoRead(t, info, tried, v)
    BY <2>1, ReadInfoIs
  <2> QED BY <2>2 DEF InfoRead
<1> HIDE DEF b, v, w
<1>4. Appended(v, b, t.nIdCount) \in AddrMen
  BY <1>2, <1>3, AppendedMember
<1>5. w \in AddrMen
  BY <1>1, <1>4
<1> QED BY <1>5 DEF w

(* The second loop reads the tried entries.                                *)
LEMMA ReadingTriedIs ==
  ASSUME NEW m, Tables(m, NoId, NoId), NEW q, NEW f, Filed(m, q, f),
         NEW r, ReadSoFar(m, q, r, Len(f.vNew)),
         r.nTried = 0, r.vvTried = [b \in TriedBucket |-> <<>>],
         NEW w, w = ReadingTried(r, f)[Len(f.vTried)]
  PROVE  /\ ReadSoFar(m, q, w, Len(q)) /\ TriedTable(w, NoId)
         /\ w.nTried = Len(f.vTried)
         /\ w.nNew = r.nNew /\ w.vvNew = r.vvNew
<1> DEFINE o == Len(f.vNew)
           n == Len(f.vTried)
           Step(k, t) == ReadTried(t, f.vTried[k])
           g == [k \in 1 .. n |-> [t \in AddrMen |-> Step(k, t)]]
<1>1. /\ o \in Nat /\ n \in Nat /\ Len(q) = o + n
      /\ Enumerates(q, DOMAIN m.mapInfo)
      /\ \A k \in 1 .. o : q[k] \in NewIds(m)
      /\ \A k \in 1 .. n : f.vTried[k] = m.mapInfo[q[o + k]] /\ q[o + k] \in TriedIds(m)
  BY DEF Filed
<1>2. m \in AddrMen /\ Indexed(m)
  BY DEF Tables
<1>3. ReadSoFar(m, q, r, o) /\ r \in AddrMen
  BY DEF ReadSoFar
<1> HIDE DEF o, n
<1>4. TriedTable(r, NoId)
  <2>1. TriedIds(r) = {}
    <3>1. SUFFICES ASSUME NEW x \in TriedIds(r) PROVE FALSE
      OBVIOUS
    <3>2. x \in 0 .. o - 1 /\ m.mapInfo[q[x + 1]].fInTried
      BY <1>1, <1>3, <3>1, ReadTriedIds
    <3>3. x + 1 \in 1 .. o
      BY <1>1, <3>2
    <3>4. q[x + 1] \in NewIds(m)
      BY <1>1, <3>3
    <3> QED BY <3>2, <3>4 DEF NewIds, TriedIds
  <2>2. ASSUME NEW b \in TriedBucket
        PROVE  r.vvTried[b] = <<>> /\ Len(r.vvTried[b]) = 0 /\ 1 .. Len(r.vvTried[b]) = {}
    OBVIOUS
  <2>3. TriedBucketSize \in Nat \ {0}
    BY AddrManAssumption
  <2> QED BY <2>1, <2>2, <2>3 DEF TriedTable
<1>5. ASSUME NEW k \in 1 .. n PROVE f.vTried[k] \in Info
  <2>1. q[o + k] \in DOMAIN m.mapInfo
    BY <1>1 DEF TriedIds
  <2> QED BY <1>1, <1>2, <2>1, AddrManIs
<1>6. g \in [1 .. n -> [AddrMen -> AddrMen]]
  <2>1. ASSUME NEW k \in 1 .. n, NEW t \in AddrMen PROVE Step(k, t) \in AddrMen
    BY <1>5, ReadTriedMember
  <2> HIDE DEF Step
  <2> QED BY <2>1
<1>7. \A k \in 1 .. n, t \in AddrMen : g[k][t] = Step(k, t)
  <2> HIDE DEF Step
  <2> QED OBVIOUS
<1> HIDE DEF g, Step
<1>8. PICK e : IsFold(e, n, AddrMen, r, g)
  BY <1>1, <1>3, <1>6, FoldRecursion
<1>9. e = [k \in 0 .. n |-> IF k = 0 THEN r ELSE Step(k, e[k - 1])]
  <2>1. /\ e \in [0 .. n -> AddrMen] /\ e[0] = r
        /\ \A k \in 1 .. n : e[k] = g[k][e[k - 1]]
    BY <1>8 DEF IsFold
  <2>2. \A k \in 1 .. n : e[k - 1] \in AddrMen /\ e[k] = Step(k, e[k - 1])
    BY SMTT(40), <1>1, <1>7, <2>1
  <2> QED BY <1>1, <2>1, <2>2
<1> DEFINE h == CHOOSE h : h = [k \in 0 .. n |-> IF k = 0 THEN r ELSE Step(k, h[k - 1])]
<1>10. h = [k \in 0 .. n |-> IF k = 0 THEN r ELSE Step(k, h[k - 1])]
  BY <1>9
<1>11. w = h[n]
  BY Zenon DEF ReadingTried, n, Step
<1> HIDE DEF h
<1>12. h[0] = r /\ \A k \in 1 .. n : h[k] = Step(k, h[k - 1])
  BY <1>1, <1>10
<1> DEFINE Read1(t, k) == /\ ReadSoFar(m, q, t, o + k) /\ TriedTable(t, NoId)
                          /\ t.nTried = k
                          /\ t.nNew = r.nNew /\ t.vvNew = r.vvNew
           S == {k \in 0 .. n : Read1(h[k], k)}
<1>13. 0 \in S
  <2>1. Read1(r, 0)
    <3>1. o + 0 = o
      BY <1>1
    <3> QED BY <1>3, <1>4, <3>1
  <2>2. Read1(h[0], 0)
    BY <1>12, <2>1
  <2> HIDE DEF Read1
  <2> QED BY <1>1, <2>2
<1>14. ASSUME NEW k \in 1 .. n, k - 1 \in S PROVE k \in S
  <2> DEFINE t == h[k - 1]
             v == h[k]
             info == f.vTried[k]
             j == o + (k - 1)
  <2>1. Read1(t, k - 1)
    BY <1>14
  <2>2. v = ReadTried(t, info)
    BY <1>12 DEF Step
  <2>3. j \in Nat /\ j < Len(q) /\ j + 1 = o + k /\ (k - 1) + 1 = k
    BY <1>1
  <2>4. info = m.mapInfo[q[j + 1]] /\ q[j + 1] \in TriedIds(m)
    BY <1>1, <2>3
  <2>5. ReadSoFar(m, q, t, j) /\ TriedTable(t, NoId) /\ t.nTried = k - 1
        /\ t.nNew = r.nNew /\ t.vvNew = r.vvNew
    BY <2>1
  <2> HIDE DEF t, v, info, j
  <2>6. /\ ReadSoFar(m, q, v, j + 1) /\ TriedTable(v, NoId)
        /\ v.nTried = t.nTried + 1
        /\ v.nNew = t.nNew /\ v.vvNew = t.vvNew
    <3>1. Tables(m, NoId, NoId) /\ Enumerates(q, DOMAIN m.mapInfo)
      BY <1>1
    <3>2. j \in Nat /\ j < Len(q)
      BY <2>3
    <3> QED BY <2>2, <2>4, <2>5, <3>1, <3>2, ReadTriedMore
  <2>7. Read1(v, k)
    BY <2>3, <2>5, <2>6
  <2> QED BY <1>1, <2>7 DEF v
<1> HIDE DEF S
<1>15. \A k \in 0 .. n : k \in S
  BY <1>1, <1>13, <1>14, UpTo
<1>16. Read1(h[n], n)
  <2>1. n \in 0 .. n
    BY <1>1
  <2> QED BY <1>15, <2>1 DEF S
<1> QED BY <1>1, <1>11, <1>16 DEF n

(* The entries of t, apart from the count of their buckets.                *)
SameButCount(t, w) ==
  /\ SamePlaces(t, w)
  /\ \A n \in DOMAIN t.mapInfo : /\ w.mapInfo[n].source = t.mapInfo[n].source
                                 /\ w.mapInfo[n].nLastSuccess = t.mapInfo[n].nLastSuccess
                                 /\ w.mapInfo[n].fInTried = t.mapInfo[n].fInTried
  /\ w.nTried = t.nTried /\ w.vvTried = t.vvTried /\ w.nNew = t.nNew

(* ReadBucket puts the entries back in bucket b.                           *)
BucketRead(t, b, back, w) ==
  /\ w \in AddrMen /\ SameButCount(t, w)
  /\ \A n \in DOMAIN t.mapInfo :
       w.mapInfo[n].nRefCount = t.mapInfo[n].nRefCount + (IF n \in back THEN 1 ELSE 0)
  /\ \A c \in NewBucket : w.vvNew[c] = IF c = b THEN t.vvNew[c] \cup back ELSE t.vvNew[c]

LEMMA ReadBucketIs ==
  ASSUME NEW t \in AddrMen, NEW b \in NewBucket, NEW ids \in SUBSET Nat,
         NEW w, w = ReadBucket(t, b, ids)
  PROVE  BucketRead(t, b, {n \in ids : t.mapInfo[n].nRefCount < NewBucketsPerAddress}, w)
<1> DEFINE back == {n \in ids : t.mapInfo[n].nRefCount < NewBucketsPerAddress}
           One(n) == [t.mapInfo[n] EXCEPT !.nRefCount = @ + 1]
           info == [n \in DOMAIN t.mapInfo |-> IF n \in back THEN One(n) ELSE t.mapInfo[n]]
           vvNew == [t.vvNew EXCEPT ![b] = @ \cup back]
<1>1. w = [t EXCEPT !.mapInfo = info, !.vvNew = vvNew]
  <2>1. w = [t EXCEPT !.mapInfo = info, !.vvNew[b] = @ \cup back]
    BY Zenon DEF ReadBucket
  <2> HIDE DEF info
  <2> QED BY <2>1 DEF AddrMen
<1>10. back \subseteq Nat
  OBVIOUS
<1> HIDE DEF back
<1>2. ASSUME NEW n \in DOMAIN t.mapInfo
      PROVE  /\ One(n) \in Info
             /\ One(n).addr = t.mapInfo[n].addr
             /\ One(n).source = t.mapInfo[n].source
             /\ One(n).nLastSuccess = t.mapInfo[n].nLastSuccess
             /\ One(n).fInTried = t.mapInfo[n].fInTried
             /\ One(n).nRandomPos = t.mapInfo[n].nRandomPos
             /\ One(n).nRefCount = t.mapInfo[n].nRefCount + 1
             /\ t.mapInfo[n].nRefCount \in Int
  <2> DEFINE i == t.mapInfo[n]
             c == i.nRefCount + 1
             z == One(n)
  <2>1. i \in Info
    BY AddrManIs
  <2>2. z = [i EXCEPT !.nRefCount = c]
    OBVIOUS
  <2> HIDE DEF i, z
  <2>3. /\ i = [addr |-> i.addr, source |-> i.source, nLastSuccess |-> i.nLastSuccess,
                nRefCount |-> i.nRefCount, fInTried |-> i.fInTried, nRandomPos |-> i.nRandomPos]
        /\ i.addr \in Addr /\ i.source \in Source /\ i.nLastSuccess \in Nat
        /\ i.nRefCount \in Int /\ i.fInTried \in BOOLEAN /\ i.nRandomPos \in Int
    BY <2>1 DEF Info
  <2>4. c \in Int
    BY <2>3
  <2> HIDE DEF c
  <2>5. z = [addr |-> i.addr, source |-> i.source, nLastSuccess |-> i.nLastSuccess,
             nRefCount |-> c, fInTried |-> i.fInTried, nRandomPos |-> i.nRandomPos]
    BY <2>2, <2>3
  <2>6. /\ z.addr = i.addr /\ z.source = i.source /\ z.nLastSuccess = i.nLastSuccess
        /\ z.nRefCount = c /\ z.fInTried = i.fInTried /\ z.nRandomPos = i.nRandomPos
    BY <2>5
  <2>7. z \in Info
    BY <2>3, <2>4, <2>5 DEF Info
  <2> QED BY <2>3, <2>6, <2>7 DEF z, i, c
<1> HIDE DEF One
<1>3. /\ DOMAIN info = DOMAIN t.mapInfo
      /\ info = [n \in DOMAIN info |-> info[n]]
      /\ \A n \in DOMAIN t.mapInfo : info[n] = IF n \in back THEN One(n) ELSE t.mapInfo[n]
  OBVIOUS
<1>4. /\ vvNew \in [NewBucket -> SUBSET Nat]
      /\ \A c \in NewBucket : vvNew[c] = IF c = b THEN t.vvNew[c] \cup back ELSE t.vvNew[c]
  <2>1. t.vvNew \in [NewBucket -> SUBSET Nat]
    BY AddrManIs
  <2> QED BY <1>10, <2>1
<1> HIDE DEF info, vvNew
<1>5. ASSUME NEW n \in DOMAIN t.mapInfo
      PROVE  /\ info[n] \in Info
             /\ info[n].addr = t.mapInfo[n].addr
             /\ info[n].source = t.mapInfo[n].source
             /\ info[n].nLastSuccess = t.mapInfo[n].nLastSuccess
             /\ info[n].fInTried = t.mapInfo[n].fInTried
             /\ info[n].nRandomPos = t.mapInfo[n].nRandomPos
             /\ info[n].nRefCount = t.mapInfo[n].nRefCount + (IF n \in back THEN 1 ELSE 0)
  <2>1. CASE n \in back
    BY <1>2, <1>3, <2>1
  <2>2. CASE n \notin back
    <3>1. info[n] = t.mapInfo[n] /\ t.mapInfo[n] \in Info /\ t.mapInfo[n].nRefCount \in Int
      BY <1>2, <1>3, <2>2, AddrManIs
    <3> QED BY <2>2, <3>1
  <2> QED BY <2>1, <2>2
<1>6. /\ w.nIdCount = t.nIdCount /\ w.mapInfo = info /\ w.mapAddr = t.mapAddr
      /\ w.vRandom = t.vRandom
      /\ w.nTried = t.nTried /\ w.vvTried = t.vvTried
      /\ w.nNew = t.nNew /\ w.vvNew = vvNew
      /\ w = [nIdCount |-> w.nIdCount, mapInfo |-> w.mapInfo, mapAddr |-> w.mapAddr,
              vRandom |-> w.vRandom, nTried |-> w.nTried, vvTried |-> w.vvTried,
              nNew |-> w.nNew, vvNew |-> w.vvNew]
  BY <1>1 DEF AddrMen
<1>7. w \in AddrMen
  <2>1. info \in InfoMaps
    <3>1. DOMAIN info \subseteq Nat /\ \A n \in DOMAIN info : info[n] \in Info
      BY <1>3, <1>5, AddrManIs
    <3> QED BY <1>3, <3>1, InfoMapIs
  <2> QED BY <1>4, <1>6, <2>1, AddrManIs DEF AddrMen
<1>8. SameButCount(t, w)
  BY <1>3, <1>5, <1>6 DEF SameButCount, SamePlaces
<1>9. BucketRead(t, b, back, w)
  BY <1>4, <1>5, <1>6, <1>7, <1>8 DEF BucketRead
<1> QED BY <1>9 DEF back

LEMMA SameButCountTwice ==
  ASSUME NEW t, NEW w, NEW z, SameButCount(t, w), SameButCount(w, z)
  PROVE  SameButCount(t, z)
<1>1. SamePlaces(t, z)
  <2>1. /\ w.nIdCount = t.nIdCount /\ w.mapAddr = t.mapAddr /\ w.vRandom = t.vRandom
        /\ DOMAIN w.mapInfo = DOMAIN t.mapInfo
        /\ \A n \in DOMAIN t.mapInfo : /\ w.mapInfo[n].addr = t.mapInfo[n].addr
                                       /\ w.mapInfo[n].nRandomPos = t.mapInfo[n].nRandomPos
    BY DEF SameButCount, SamePlaces
  <2>2. /\ z.nIdCount = w.nIdCount /\ z.mapAddr = w.mapAddr /\ z.vRandom = w.vRandom
        /\ DOMAIN z.mapInfo = DOMAIN w.mapInfo
        /\ \A n \in DOMAIN w.mapInfo : /\ z.mapInfo[n].addr = w.mapInfo[n].addr
                                       /\ z.mapInfo[n].nRandomPos = w.mapInfo[n].nRandomPos
    BY DEF SameButCount, SamePlaces
  <2> QED BY <2>1, <2>2 DEF SamePlaces
<1>2. DOMAIN w.mapInfo = DOMAIN t.mapInfo
  BY DEF SameButCount, SamePlaces
<1>3. ASSUME NEW n \in DOMAIN t.mapInfo
      PROVE  /\ z.mapInfo[n].source = t.mapInfo[n].source
             /\ z.mapInfo[n].nLastSuccess = t.mapInfo[n].nLastSuccess
             /\ z.mapInfo[n].fInTried = t.mapInfo[n].fInTried
  BY <1>2 DEF SameButCount
<1>4. z.nTried = t.nTried /\ z.vvTried = t.vvTried /\ z.nNew = t.nNew
  BY DEF SameButCount
<1> QED BY <1>1, <1>3, <1>4 DEF SameButCount

(* The new buckets below k have been read.                                 *)
BucketsSoFar(f, r, k, t) ==
  /\ t \in AddrMen /\ SameButCount(r, t)
  /\ \A c \in NewBucket : t.vvNew[c] = IF c < k THEN f.buckets[c] ELSE {}
  /\ \A n \in DOMAIN r.mapInfo : t.mapInfo[n].nRefCount = Cardinality(InNew(t, n))

(* No entry is in too many of them.                                        *)
LEMMA BucketsMore ==
  ASSUME NEW m, Tables(m, NoId, NoId), NEW q, NEW f, Filed(m, q, f),
         NEW r, ReadSoFar(m, q, r, Len(q)), NEW b \in NewBucket,
         NEW t, BucketsSoFar(f, r, b, t), NEW w, w = ReadBucket(t, b, f.buckets[b])
  PROVE  BucketsSoFar(f, r, b + 1, w)
<1> DEFINE ids == f.buckets[b]
           back == {n \in ids : t.mapInfo[n].nRefCount < NewBucketsPerAddress}
           o == Len(f.vNew)
<1>1. /\ o \in Nat /\ Len(f.vTried) \in Nat /\ Len(q) = o + Len(f.vTried)
      /\ Enumerates(q, DOMAIN m.mapInfo)
      /\ \A c \in NewBucket : f.buckets[c] = {i \in 0 .. o - 1 : q[i + 1] \in m.vvNew[c]}
      /\ \A k \in 1 .. o : q[k] \in NewIds(m)
  BY DEF Filed
<1> HIDE DEF o
<1>2. m \in AddrMen /\ Indexed(m) /\ NewTable(m, NoId)
  BY DEF Tables
<1>3. t \in AddrMen /\ SameButCount(r, t)
      /\ (\A c \in NewBucket : t.vvNew[c] = IF c < b THEN f.buckets[c] ELSE {})
      /\ (\A n \in DOMAIN r.mapInfo : t.mapInfo[n].nRefCount = Cardinality(InNew(t, n)))
  BY DEF BucketsSoFar
<1>4. DOMAIN t.mapInfo = DOMAIN r.mapInfo /\ DOMAIN r.mapInfo = 0 .. Len(q) - 1
  BY <1>3 DEF SameButCount, SamePlaces, ReadSoFar
<1>5. ids \in SUBSET Nat /\ b \in Int /\ (\A c \in NewBucket : c \in Int)
      /\ NewBucketsPerAddress \in Nat
  <2>1. NewBuckets \in Nat /\ NewBucketsPerAddress \in Nat
    BY AddrManAssumption
  <2>2. ids \in SUBSET Nat
    BY <1>1
  <2> QED BY <2>1, <2>2 DEF NewBucket
<1>6. ASSUME NEW n \in ids PROVE t.mapInfo[n].nRefCount < NewBucketsPerAddress
  <2>1. n \in 0 .. o - 1 /\ q[n + 1] \in m.vvNew[b]
    BY <1>1
  <2>2. n + 1 \in 1 .. o /\ n \in DOMAIN r.mapInfo
    BY <1>1, <1>4, <2>1
  <2> DEFINE x == q[n + 1]
  <2>3. x \in NewIds(m) /\ x \in DOMAIN m.mapInfo /\ x # NoId
    BY <1>1, <1>2, <2>2, NoIdIs DEF NewIds
  <2>4. InNew(t, n) \in SUBSET (InNew(m, x) \ {b}) /\ b \in InNew(m, x)
    <3>1. b \in InNew(m, x)
      BY <2>1 DEF InNew
    <3>2. ASSUME NEW c \in InNew(t, n) PROVE c \in InNew(m, x) /\ c # b
      <4>1. c \in NewBucket /\ n \in t.vvNew[c]
        BY DEF InNew
      <4>2. c < b /\ n \in f.buckets[c]
        BY <1>3, <4>1
      <4>3. q[n + 1] \in m.vvNew[c]
        BY <1>1, <4>1, <4>2
      <4>4. c # b
        BY <1>5, <4>2
      <4> QED BY <4>1, <4>3, <4>4 DEF InNew
    <3> QED BY <3>1, <3>2
  <2> HIDE DEF x
  <2>5. Cardinality(InNew(t, n)) <= Cardinality(InNew(m, x)) - 1
        /\ Cardinality(InNew(t, n)) \in Nat /\ Cardinality(InNew(m, x)) \in Nat
    <3>1. IsFiniteSet(InNew(m, x)) /\ Cardinality(InNew(m, x)) \in Nat
          /\ Cardinality(InNew(t, n)) \in Nat
      BY InNewFinite
    <3>2. /\ IsFiniteSet(InNew(m, x) \ {b})
          /\ Cardinality(InNew(m, x) \ {b}) = Cardinality(InNew(m, x)) - 1
      BY <2>4, <3>1, FS_RemoveElement
    <3>3. Cardinality(InNew(t, n)) <= Cardinality(InNew(m, x) \ {b})
      BY <2>4, <3>2, FS_Subset
    <3> QED BY <3>1, <3>2, <3>3
  <2>6. Cardinality(InNew(m, x)) <= NewBucketsPerAddress
    <3>1. m.mapInfo[x].nRefCount = Cardinality(InNew(m, x)) + (IF x = NoId THEN 1 ELSE 0)
      BY <1>2, <2>3, Zenon DEF NewTable
    <3>2. m.mapInfo[x].nRefCount \in 1 .. NewBucketsPerAddress
      BY <1>2, <2>3 DEF NewTable
    <3>3. m.mapInfo[x].nRefCount = Cardinality(InNew(m, x))
      BY <2>3, <2>5, <3>1
    <3> QED BY <1>5, <3>2, <3>3
  <2>7. t.mapInfo[n].nRefCount = Cardinality(InNew(t, n))
    BY <1>3, <2>2
  <2> QED BY <1>5, <2>5, <2>6, <2>7
<1>7. back = ids
  BY <1>6
<1>8. BucketRead(t, b, ids, w)
  <2>1. w = ReadBucket(t, b, ids)
    OBVIOUS
  <2> HIDE DEF ids
  <2>2. BucketRead(t, b, back, w)
    BY <1>3, <1>5, <2>1, ReadBucketIs
  <2> HIDE DEF back
  <2> QED BY <1>7, <2>2
<1> HIDE DEF back
<1>9. /\ w \in AddrMen /\ SameButCount(t, w)
      /\ \A n \in DOMAIN t.mapInfo :
           w.mapInfo[n].nRefCount = t.mapInfo[n].nRefCount + (IF n \in ids THEN 1 ELSE 0)
      /\ \A c \in NewBucket : w.vvNew[c] = IF c = b THEN t.vvNew[c] \cup ids ELSE t.vvNew[c]
  <2> HIDE DEF ids
  <2> QED BY <1>8 DEF BucketRead
<1>10. ASSUME NEW c \in NewBucket PROVE w.vvNew[c] = IF c < b + 1 THEN f.buckets[c] ELSE {}
  <2>1. c \in Int /\ b \in Int
    BY <1>5
  <2>2. CASE c = b
    <3>1. t.vvNew[c] = {}
      BY <1>3, <2>1, <2>2
    <3>2. w.vvNew[c] = ids
      <4> HIDE DEF ids
      <4> QED BY <1>9, <2>2, <3>1
    <3>3. c < b + 1
      BY <2>1, <2>2
    <3> QED BY <2>2, <3>2, <3>3
  <2>3. CASE c # b
    <3>1. c < b + 1 <=> c < b
      BY <2>1, <2>3
    <3> QED BY <1>3, <1>9, <2>3, <3>1
  <2> QED BY <2>2, <2>3
<1>11. ASSUME NEW n \in DOMAIN r.mapInfo PROVE w.mapInfo[n].nRefCount = Cardinality(InNew(w, n))
  <2>1. t.mapInfo[n].nRefCount = Cardinality(InNew(t, n))
        /\ Cardinality(InNew(t, n)) \in Nat /\ IsFiniteSet(InNew(t, n))
    BY <1>3, InNewFinite
  <2>2. w.mapInfo[n].nRefCount = t.mapInfo[n].nRefCount + (IF n \in ids THEN 1 ELSE 0)
    <3> HIDE DEF ids
    <3> QED BY <1>4, <1>9
  <2>3. b \notin InNew(t, n)
    <3>1. t.vvNew[b] = {}
      BY <1>3, <1>5
    <3> QED BY <3>1 DEF InNew
  <2> HIDE DEF ids
  <2>4. CASE n \in ids
    <3>1. InNew(w, n) = InNew(t, n) \cup {b}
      BY <1>9, <2>4 DEF InNew
    <3>2. Cardinality(InNew(w, n)) = Cardinality(InNew(t, n)) + 1
      BY <2>1, <2>3, <3>1, FS_AddElement, Zenon
    <3> QED BY <2>1, <2>2, <2>4, <3>2
  <2>5. CASE n \notin ids
    <3>1. InNew(w, n) = InNew(t, n)
      BY <1>9, <2>5 DEF InNew
    <3> QED BY <2>1, <2>2, <2>5, <3>1
  <2> QED BY <2>4, <2>5
<1>12. SameButCount(r, w)
  BY <1>3, <1>9, SameButCountTwice
<1> QED BY <1>9, <1>10, <1>11, <1>12 DEF BucketsSoFar

(* The third loop reads the buckets.                                       *)
LEMMA ReadingBucketsIs ==
  ASSUME NEW m, Tables(m, NoId, NoId), NEW q, NEW f, Filed(m, q, f),
         NEW r, ReadSoFar(m, q, r, Len(q)), r.vvNew = [b \in NewBucket |-> {}],
         NEW w, w = ReadingBuckets(r, f)[NewBuckets]
  PROVE  BucketsSoFar(f, r, NewBuckets, w)
<1> DEFINE n == NewBuckets
           Step(k, t) == ReadBucket(t, k - 1, f.buckets[k - 1])
           g == [k \in 1 .. n |-> [t \in AddrMen |-> Step(k, t)]]
<1>1. n \in Nat
  BY AddrManAssumption
<1>2. r \in AddrMen /\ (\A i \in 0 .. Len(q) - 1 : r.mapInfo[i].nRefCount = 0)
      /\ DOMAIN r.mapInfo = 0 .. Len(q) - 1
  BY DEF ReadSoFar
<1>3. ASSUME NEW k \in 1 .. n
      PROVE  k - 1 \in NewBucket /\ (k - 1) + 1 = k /\ f.buckets[k - 1] \in SUBSET Nat
  <2>1. k - 1 \in NewBucket /\ (k - 1) + 1 = k
    BY <1>1 DEF NewBucket
  <2>2. f.buckets[k - 1] = {i \in 0 .. Len(f.vNew) - 1 : q[i + 1] \in m.vvNew[k - 1]}
    BY <2>1 DEF Filed
  <2> QED BY <2>1, <2>2
<1> HIDE DEF n
<1>6. g \in [1 .. n -> [AddrMen -> AddrMen]]
  <2>1. ASSUME NEW k \in 1 .. n, NEW t \in AddrMen PROVE Step(k, t) \in AddrMen
    <3> DEFINE b == k - 1
               ids == f.buckets[b]
               z == ReadBucket(t, b, ids)
    <3>1. b \in NewBucket /\ ids \in SUBSET Nat /\ z = ReadBucket(t, b, ids)
      BY <1>3
    <3> HIDE DEF b, ids, z
    <3>2. BucketRead(t, b, {x \in ids : t.mapInfo[x].nRefCount < NewBucketsPerAddress}, z)
      BY <3>1, ReadBucketIs
    <3>3. z \in AddrMen
      BY <3>2 DEF BucketRead
    <3> QED BY <3>3 DEF z, ids, b
  <2> HIDE DEF Step
  <2> QED BY <2>1
<1>7. \A k \in 1 .. n, t \in AddrMen : g[k][t] = Step(k, t)
  <2> HIDE DEF Step
  <2> QED OBVIOUS
<1> HIDE DEF g, Step
<1>8. PICK e : IsFold(e, n, AddrMen, r, g)
  BY <1>1, <1>2, <1>6, FoldRecursion
<1>9. e = [k \in 0 .. n |-> IF k = 0 THEN r ELSE Step(k, e[k - 1])]
  <2>1. /\ e \in [0 .. n -> AddrMen] /\ e[0] = r
        /\ \A k \in 1 .. n : e[k] = g[k][e[k - 1]]
    BY <1>8 DEF IsFold
  <2>2. \A k \in 1 .. n : e[k - 1] \in AddrMen /\ e[k] = Step(k, e[k - 1])
    BY <1>1, <1>7, <2>1
  <2> QED BY <1>1, <2>1, <2>2
<1> DEFINE h == CHOOSE h : h = [k \in 0 .. n |-> IF k = 0 THEN r ELSE Step(k, h[k - 1])]
<1>10. h = [k \in 0 .. n |-> IF k = 0 THEN r ELSE Step(k, h[k - 1])]
  BY <1>9
<1>11. w = h[n]
  BY Zenon DEF ReadingBuckets, n, Step
<1> HIDE DEF h
<1>12. h[0] = r /\ \A k \in 1 .. n : h[k] = Step(k, h[k - 1])
  BY <1>1, <1>10
<1> DEFINE S == {k \in 0 .. n : BucketsSoFar(f, r, k, h[k])}
<1>13. 0 \in S
  <2>1. SameButCount(r, r)
    BY DEF SameButCount, SamePlaces
  <2>2. ASSUME NEW c \in NewBucket
        PROVE  r.vvNew[c] = {} /\ r.vvNew[c] = IF c < 0 THEN f.buckets[c] ELSE {}
    <3>1. ~(c < 0)
      BY DEF NewBucket
    <3> QED BY <3>1
  <2>3. ASSUME NEW x \in DOMAIN r.mapInfo PROVE r.mapInfo[x].nRefCount = Cardinality(InNew(r, x))
    <3>1. InNew(r, x) = {}
      BY <2>2 DEF InNew
    <3>2. Cardinality(InNew(r, x)) = 0
      BY <3>1, FS_EmptySet
    <3> QED BY <1>2, <3>2
  <2>4. BucketsSoFar(f, r, 0, r)
    BY <1>2, <2>1, <2>2, <2>3 DEF BucketsSoFar
  <2>5. BucketsSoFar(f, r, 0, h[0])
    BY <1>12, <2>4, Zenon
  <2> QED BY <1>1, <2>5
<1>14. ASSUME NEW k \in 1 .. n, k - 1 \in S PROVE k \in S
  <2> DEFINE b == k - 1
             t == h[b]
             v == h[k]
  <2>1. BucketsSoFar(f, r, b, t) /\ b \in NewBucket /\ b + 1 = k
    BY <1>3, <1>14
  <2>2. v = ReadBucket(t, b, f.buckets[b])
    BY <1>12 DEF Step
  <2> HIDE DEF v, t, b
  <2>3. BucketsSoFar(f, r, b + 1, v)
    BY <2>1, <2>2, BucketsMore
  <2>4. BucketsSoFar(f, r, k, v)
    BY <2>1, <2>3
  <2> QED BY <1>1, <2>4 DEF v
<1> HIDE DEF S
<1>15. \A k \in 0 .. n : k \in S
  BY <1>1, <1>13, <1>14, UpTo
<1>16. BucketsSoFar(f, r, n, h[n])
  <2>1. n \in 0 .. n
    BY <1>1
  <2> QED BY <1>15, <2>1 DEF S
<1> QED BY <1>11, <1>16 DEF n

(* The object w holds the entries q of m, in the same new buckets.         *)
Copied(m, q, w) ==
  /\ w \in AddrMen /\ Indexed(w) /\ DOMAIN w.mapInfo = 0 .. Len(q) - 1
  /\ \A x \in 0 .. Len(q) - 1 :
       /\ w.mapInfo[x].addr = m.mapInfo[q[x + 1]].addr
       /\ w.mapInfo[x].source = m.mapInfo[q[x + 1]].source
       /\ w.mapInfo[x].nLastSuccess = m.mapInfo[q[x + 1]].nLastSuccess
       /\ w.mapInfo[x].fInTried = m.mapInfo[q[x + 1]].fInTried
       /\ w.mapInfo[x].nRefCount = Cardinality(InNew(w, x))
  /\ \A b \in NewBucket : \A x \in 0 .. Len(q) - 1 : x \in w.vvNew[b] <=> q[x + 1] \in m.vvNew[b]
  /\ \A b \in NewBucket : w.vvNew[b] \subseteq 0 .. Len(q) - 1

LEMMA RestartCopies ==
  ASSUME NEW m, Tables(m, NoId, NoId), NEW w, w = Unserialize(Serialize(m))
  PROVE  \E q, f : /\ Filed(m, q, f) /\ Copied(m, q, w) /\ TriedTable(w, NoId)
                   /\ w.nNew = Len(f.vNew) /\ w.nTried = Len(f.vTried)
<1> DEFINE f == Serialize(m)
           o == Len(f.vNew)
           n == Len(f.vTried)
           r == ReadingNew(f)[o]
           t == ReadingTried(r, f)[n]
<1>1. m \in AddrMen /\ Indexed(m) /\ NewTable(m, NoId)
  BY DEF Tables
<1>2. PICK q : Filed(m, q, f)
  BY SerializeIs
<1>3. w = ReadingBuckets(t, f)[NewBuckets]
  BY Zenon DEF Unserialize
<1>4. /\ ReadSoFar(m, q, r, o)
      /\ r.nTried = 0 /\ r.vvTried = [b \in TriedBucket |-> <<>>]
      /\ r.nNew = o /\ r.vvNew = [b \in NewBucket |-> {}]
  <2>1. r = ReadingNew(f)[Len(f.vNew)]
    OBVIOUS
  <2> HIDE DEF r, f
  <2>2. NewRead(m, q, f, r)
    BY <1>1, <1>2, <2>1, ReadingNewIs
  <2> QED BY <2>2 DEF NewRead
<1>5. /\ ReadSoFar(m, q, t, Len(q)) /\ TriedTable(t, NoId)
      /\ t.nTried = n
      /\ t.nNew = r.nNew /\ t.vvNew = r.vvNew
  <2>1. t = ReadingTried(r, f)[Len(f.vTried)]
    OBVIOUS
  <2>2. ReadSoFar(m, q, r, Len(f.vNew)) /\ r.nTried = 0
        /\ r.vvTried = [b \in TriedBucket |-> <<>>]
    BY <1>4
  <2> HIDE DEF r, f, t
  <2> QED BY <1>2, <2>1, <2>2, ReadingTriedIs
<1> HIDE DEF r, f, t
<1>6. BucketsSoFar(f, t, NewBuckets, w)
  <2>1. t.vvNew = [b \in NewBucket |-> {}]
    BY <1>4, <1>5
  <2> QED BY <1>2, <1>3, <1>5, <2>1, ReadingBucketsIs
<1>7. /\ o \in Nat /\ n \in Nat /\ Len(q) = o + n
      /\ Enumerates(q, DOMAIN m.mapInfo)
      /\ \A k \in 1 .. o : q[k] \in NewIds(m)
      /\ \A k \in 1 .. n : q[o + k] \in TriedIds(m)
      /\ \A b \in NewBucket : f.buckets[b] = {i \in 0 .. o - 1 : q[i + 1] \in m.vvNew[b]}
  BY <1>2 DEF Filed
<1> HIDE DEF o, n
<1>8. /\ w \in AddrMen /\ SamePlaces(t, w)
      /\ \A x \in DOMAIN t.mapInfo : /\ w.mapInfo[x].source = t.mapInfo[x].source
                                     /\ w.mapInfo[x].nLastSuccess = t.mapInfo[x].nLastSuccess
                                     /\ w.mapInfo[x].fInTried = t.mapInfo[x].fInTried
      /\ w.nTried = t.nTried /\ w.vvTried = t.vvTried /\ w.nNew = t.nNew
      /\ \A c \in NewBucket : w.vvNew[c] = f.buckets[c]
      /\ \A x \in DOMAIN t.mapInfo : w.mapInfo[x].nRefCount = Cardinality(InNew(w, x))
  <2>1. ASSUME NEW c \in NewBucket PROVE w.vvNew[c] = f.buckets[c]
    <3>1. c < NewBuckets
      BY AddrManAssumption DEF NewBucket
    <3>2. w.vvNew[c] = IF c < NewBuckets THEN f.buckets[c] ELSE {}
      BY <1>6 DEF BucketsSoFar
    <3> QED BY <3>1, <3>2
  <2> QED BY <1>6, <2>1, Zenon DEF BucketsSoFar, SameButCount
<1>9. /\ DOMAIN w.mapInfo = DOMAIN t.mapInfo /\ DOMAIN t.mapInfo = 0 .. Len(q) - 1
      /\ \A x \in DOMAIN t.mapInfo : w.mapInfo[x].addr = t.mapInfo[x].addr
  BY <1>5, <1>8, Zenon DEF SamePlaces, ReadSoFar
<1>10. Indexed(w)
  <2>1. Indexed(t)
    BY <1>5 DEF ReadSoFar
  <2> QED BY <1>8, <2>1, IndexedSamePlaces
<1>11. ASSUME NEW x \in 0 .. Len(q) - 1
       PROVE  /\ w.mapInfo[x].addr = m.mapInfo[q[x + 1]].addr
              /\ w.mapInfo[x].source = m.mapInfo[q[x + 1]].source
              /\ w.mapInfo[x].nLastSuccess = m.mapInfo[q[x + 1]].nLastSuccess
              /\ w.mapInfo[x].fInTried = m.mapInfo[q[x + 1]].fInTried
              /\ w.mapInfo[x].nRefCount = Cardinality(InNew(w, x))
  <2>1. /\ t.mapInfo[x].addr = m.mapInfo[q[x + 1]].addr
        /\ t.mapInfo[x].source = m.mapInfo[q[x + 1]].source
        /\ t.mapInfo[x].nLastSuccess = m.mapInfo[q[x + 1]].nLastSuccess
        /\ t.mapInfo[x].fInTried = m.mapInfo[q[x + 1]].fInTried
    BY <1>5, Zenon DEF ReadSoFar
  <2>2. x \in DOMAIN t.mapInfo
    BY <1>9
  <2> QED BY <1>8, <1>9, <2>1, <2>2, Zenon
<1>12. ASSUME NEW b \in NewBucket, NEW x \in 0 .. Len(q) - 1
       PROVE  x \in w.vvNew[b] <=> q[x + 1] \in m.vvNew[b]
  <2>1. x \in w.vvNew[b] <=> x \in 0 .. o - 1 /\ q[x + 1] \in m.vvNew[b]
    BY <1>7, <1>8
  <2>2. ASSUME q[x + 1] \in m.vvNew[b] PROVE x \in 0 .. o - 1
    <3>1. SUFFICES ASSUME x \notin 0 .. o - 1 PROVE FALSE
      OBVIOUS
    <3>2. (x + 1) - o \in 1 .. n /\ o + ((x + 1) - o) = x + 1
      BY <1>7, <3>1
    <3>3. q[x + 1] \in TriedIds(m)
      BY <1>7, <3>2
    <3>4. q[x + 1] \in NewIds(m)
      BY <1>1, <2>2, BucketFinite
    <3> QED BY <3>3, <3>4 DEF NewIds
  <2> QED BY <2>1, <2>2
<1>13. ASSUME NEW b \in NewBucket PROVE w.vvNew[b] \subseteq 0 .. Len(q) - 1
  BY <1>7, <1>8
<1>14. Copied(m, q, w)
  BY <1>8, <1>9, <1>10, <1>11, <1>12, <1>13 DEF Copied
<1>15. TriedTable(w, NoId)
  <2>1. TriedIds(w) = TriedIds(t)
    BY <1>8, <1>9 DEF TriedIds
  <2>2. ASSUME NEW x \in TriedIds(t)
        PROVE  w.mapInfo[x].addr = t.mapInfo[x].addr /\ w.mapInfo[x].nLastSuccess # 0
    <3>1. x \in DOMAIN t.mapInfo
      BY DEF TriedIds
    <3>2. t.mapInfo[x].nLastSuccess # 0
      BY <1>5, Zenon DEF TriedTable
    <3> QED BY <1>8, <1>9, <3>1, <3>2
  <2> QED BY <1>5, <1>8, <2>1, <2>2, TriedSame
<1>16. w.nNew = Len(f.vNew) /\ w.nTried = Len(f.vTried)
  BY <1>4, <1>5, <1>8 DEF o, n
<1> QED BY <1>2, <1>14, <1>15, <1>16

(* Entries on both sides.                                                  *)
LEMMA CopiedEntries ==
  ASSUME NEW m, NewTable(m, NoId), NEW q, Enumerates(q, DOMAIN m.mapInfo),
         NEW w, Copied(m, q, w)
  PROVE  /\ \A x \in DOMAIN w.mapInfo :
              /\ q[x + 1] \in DOMAIN m.mapInfo
              /\ w.mapInfo[x].addr = m.mapInfo[q[x + 1]].addr
              /\ w.mapInfo[x].source = m.mapInfo[q[x + 1]].source
              /\ w.mapInfo[x].nLastSuccess = m.mapInfo[q[x + 1]].nLastSuccess
              /\ w.mapInfo[x].fInTried = m.mapInfo[q[x + 1]].fInTried
              /\ w.mapInfo[x].nRefCount = Cardinality(InNew(w, x))
              /\ InNew(w, x) = InNew(m, q[x + 1])
         /\ \A n \in DOMAIN m.mapInfo : \E x \in DOMAIN w.mapInfo : q[x + 1] = n
         /\ \A x, y \in DOMAIN w.mapInfo : q[x + 1] = q[y + 1] => x = y
<1>1. /\ Len(q) \in Nat
      /\ \A k \in 1 .. Len(q) : q[k] \in DOMAIN m.mapInfo
      /\ \A n \in DOMAIN m.mapInfo : \E k \in 1 .. Len(q) : q[k] = n
      /\ \A j, k \in 1 .. Len(q) : q[j] = q[k] => j = k
  <2>1. Len(q) \in Nat
    BY EnumerateCount
  <2> QED BY <2>1, Zenon DEF Enumerates
<1>2. DOMAIN w.mapInfo = 0 .. Len(q) - 1
  BY DEF Copied
<1>3. ASSUME NEW x \in DOMAIN w.mapInfo
      PROVE  /\ q[x + 1] \in DOMAIN m.mapInfo
             /\ w.mapInfo[x].addr = m.mapInfo[q[x + 1]].addr
             /\ w.mapInfo[x].source = m.mapInfo[q[x + 1]].source
             /\ w.mapInfo[x].nLastSuccess = m.mapInfo[q[x + 1]].nLastSuccess
             /\ w.mapInfo[x].fInTried = m.mapInfo[q[x + 1]].fInTried
             /\ w.mapInfo[x].nRefCount = Cardinality(InNew(w, x))
             /\ InNew(w, x) = InNew(m, q[x + 1])
  <2>1. x \in 0 .. Len(q) - 1 /\ x + 1 \in 1 .. Len(q)
    BY <1>1, <1>2
  <2>2. q[x + 1] \in DOMAIN m.mapInfo
    BY <1>1, <2>1
  <2>3. InNew(w, x) = InNew(m, q[x + 1])
    <3>1. \A b \in NewBucket : x \in w.vvNew[b] <=> q[x + 1] \in m.vvNew[b]
      BY <2>1 DEF Copied
    <3> QED BY <3>1 DEF InNew
  <2> QED BY <2>1, <2>2, <2>3, Zenon DEF Copied
<1>4. ASSUME NEW n \in DOMAIN m.mapInfo PROVE \E x \in DOMAIN w.mapInfo : q[x + 1] = n
  <2>1. PICK k \in 1 .. Len(q) : q[k] = n
    BY <1>1
  <2>2. k - 1 \in DOMAIN w.mapInfo /\ (k - 1) + 1 = k
    BY <1>1, <1>2
  <2>3. q[(k - 1) + 1] = n
    BY <2>1, <2>2
  <2> QED BY <2>2, <2>3, Zenon
<1>5. ASSUME NEW x \in DOMAIN w.mapInfo, NEW y \in DOMAIN w.mapInfo, q[x + 1] = q[y + 1]
      PROVE  x = y
  <2>1. x \in 0 .. Len(q) - 1 /\ y \in 0 .. Len(q) - 1
    BY <1>2
  <2>2. x + 1 \in 1 .. Len(q) /\ y + 1 \in 1 .. Len(q) /\ x \in Int /\ y \in Int
    BY <1>1, <2>1
  <2>3. x + 1 = y + 1
    BY <1>1, <1>5, <2>2
  <2> QED BY <2>2, <2>3
<1> QED BY <1>3, <1>4, <1>5

(* The tables are read back as they were.                                  *)
LEMMA RestartTables ==
  ASSUME NEW m, Tables(m, NoId, NoId), NEW w, w = Unserialize(Serialize(m))
  PROVE  Tables(w, NoId, NoId)
<1>1. m \in AddrMen /\ Indexed(m) /\ NewTable(m, NoId)
  BY DEF Tables
<1>2. PICK q, f : /\ Filed(m, q, f) /\ Copied(m, q, w) /\ TriedTable(w, NoId)
                  /\ w.nNew = Len(f.vNew) /\ w.nTried = Len(f.vTried)
  BY RestartCopies
<1> DEFINE o == Len(f.vNew)
           n == Len(f.vTried)
<1>3. /\ o \in Nat /\ n \in Nat /\ Len(q) = o + n
      /\ Enumerates(q, DOMAIN m.mapInfo)
      /\ \A k \in 1 .. o : q[k] \in NewIds(m)
      /\ \A k \in 1 .. n : q[o + k] \in TriedIds(m)
      /\ w.nNew = o /\ w.nTried = n
  BY <1>2 DEF Filed
<1> HIDE DEF o, n
<1>4. w \in AddrMen /\ Indexed(w) /\ DOMAIN w.mapInfo = 0 .. Len(q) - 1
      /\ (\A b \in NewBucket : w.vvNew[b] \subseteq DOMAIN w.mapInfo)
      /\ (\A b \in NewBucket : \A x \in DOMAIN w.mapInfo :
            x \in w.vvNew[b] <=> q[x + 1] \in m.vvNew[b])
  BY <1>2 DEF Copied
<1>5. ASSUME NEW x \in DOMAIN w.mapInfo
      PROVE  /\ q[x + 1] \in DOMAIN m.mapInfo
             /\ w.mapInfo[x].fInTried = m.mapInfo[q[x + 1]].fInTried
             /\ w.mapInfo[x].nRefCount = Cardinality(InNew(w, x))
             /\ InNew(w, x) = InNew(m, q[x + 1])
  BY <1>1, <1>2, <1>3, CopiedEntries
<1>6. \A x, y \in DOMAIN w.mapInfo : q[x + 1] = q[y + 1] => x = y
  BY <1>1, <1>2, <1>3, CopiedEntries
<1>7. TriedIds(w) = o .. Len(q) - 1 /\ NewIds(w) = 0 .. o - 1
  <2>1. ASSUME NEW x \in 0 .. o - 1 PROVE x \in DOMAIN w.mapInfo /\ ~w.mapInfo[x].fInTried
    <3>1. x + 1 \in 1 .. o /\ x \in DOMAIN w.mapInfo
      BY <1>3, <1>4
    <3>2. ~m.mapInfo[q[x + 1]].fInTried
      BY <1>3, <3>1 DEF NewIds, TriedIds
    <3> QED BY <1>5, <3>1, <3>2
  <2>2. ASSUME NEW x \in o .. Len(q) - 1 PROVE x \in DOMAIN w.mapInfo /\ w.mapInfo[x].fInTried
    <3>1. (x + 1) - o \in 1 .. n /\ o + ((x + 1) - o) = x + 1 /\ x \in DOMAIN w.mapInfo
      BY <1>3, <1>4
    <3>2. q[x + 1] \in TriedIds(m)
      BY <1>3, <3>1
    <3>3. m.mapInfo[q[x + 1]].fInTried
      BY <3>2 DEF TriedIds
    <3> QED BY <1>5, <3>1, <3>3
  <2>3. \A x \in DOMAIN w.mapInfo : x \in 0 .. o - 1 \/ x \in o .. Len(q) - 1
    BY <1>3, <1>4
  <2> QED BY <2>1, <2>2, <2>3 DEF TriedIds, NewIds
<1>8. NewTable(w, NoId)
  <2>1. ASSUME NEW b \in NewBucket
        PROVE  w.vvNew[b] \subseteq NewIds(w) /\ Cardinality(w.vvNew[b]) <= NewBucketSize
    <3> DEFINE B == w.vvNew[b]
               C == m.vvNew[b]
               g == [x \in B |-> q[x + 1]]
    <3>1. IsFiniteSet(C) /\ Cardinality(C) \in Nat /\ Cardinality(C) <= NewBucketSize
          /\ C \subseteq NewIds(m)
      BY <1>1, BucketFinite
    <3>2. B \subseteq DOMAIN w.mapInfo /\ \A x \in B : q[x + 1] \in C
      BY <1>4
    <3> HIDE DEF B, C
    <3>3. g \in Injection(B, C)
      <4>1. g \in [B -> C]
        BY <3>2
      <4>2. \A x, y \in B : g[x] = g[y] => x = y
        BY <1>6, <3>2
      <4> HIDE DEF g
      <4> QED BY <4>1, <4>2 DEF Injection, IsInjective
    <3>4. IsFiniteSet(B) /\ Cardinality(B) <= Cardinality(C)
      BY <3>1, <3>3, FS_Injection
    <3>5. Cardinality(B) \in Nat
      BY <3>4, FS_CardinalityType
    <3>6. Cardinality(B) <= NewBucketSize
      <4>1. NewBucketSize \in Nat
        BY AddrManAssumption
      <4> QED BY <3>1, <3>4, <3>5, <4>1
    <3>7. B \subseteq NewIds(w)
      <4>1. ASSUME NEW x \in B PROVE x \in NewIds(w)
        <5>1. x \in DOMAIN w.mapInfo /\ q[x + 1] \in NewIds(m)
          BY <3>1, <3>2
        <5>2. ~w.mapInfo[x].fInTried
          BY <1>5, <5>1 DEF NewIds, TriedIds
        <5> QED BY <5>1, <5>2 DEF NewIds, TriedIds
      <4> QED BY <4>1
    <3> QED BY <3>6, <3>7 DEF B
  <2>2. ASSUME NEW x \in DOMAIN w.mapInfo
        PROVE  w.mapInfo[x].nRefCount = Cardinality(InNew(w, x)) + (IF x = NoId THEN 1 ELSE 0)
    <3>1. x # NoId
      BY <1>4, NoIdIs
    <3>2. Cardinality(InNew(w, x)) \in Nat
      BY InNewFinite
    <3> QED BY <1>5, <3>1, <3>2
  <2>3. ASSUME NEW x \in NewIds(w) PROVE w.mapInfo[x].nRefCount \in 1 .. NewBucketsPerAddress
    <3>1. x \in DOMAIN w.mapInfo /\ ~w.mapInfo[x].fInTried
      BY DEF NewIds, TriedIds
    <3> DEFINE y == q[x + 1]
    <3>2. y \in NewIds(m) /\ y \in DOMAIN m.mapInfo
      BY <1>5, <3>1 DEF NewIds, TriedIds
    <3>3. w.mapInfo[x].nRefCount = Cardinality(InNew(m, y))
      BY <1>5, <3>1
    <3> HIDE DEF y
    <3>4. y # NoId
      BY <1>1, <3>2, NoIdIs
    <3>5. m.mapInfo[y].nRefCount = Cardinality(InNew(m, y)) + (IF y = NoId THEN 1 ELSE 0)
      BY <1>1, <3>2, Zenon DEF NewTable
    <3>6. m.mapInfo[y].nRefCount \in 1 .. NewBucketsPerAddress
      BY <1>1, <3>2 DEF NewTable
    <3>7. Cardinality(InNew(m, y)) \in Nat
      BY InNewFinite
    <3> QED BY <3>3, <3>4, <3>5, <3>6, <3>7
  <2> QED BY <2>1, <2>2, <2>3 DEF NewTable
<1>9. Counters(w, NoId)
  <2>1. Cardinality(NewIds(w)) = o
    <3>1. 0 \in Int /\ o - 1 \in Int /\ (IF 0 > o - 1 THEN 0 ELSE (o - 1) - 0 + 1) = o
      BY <1>3
    <3>2. Cardinality(0 .. o - 1) = o
      BY <3>1, FS_Interval
    <3> QED BY <1>7, <3>2
  <2>2. Cardinality(TriedIds(w)) = n
    <3> DEFINE l == Len(q) - 1
    <3>1. o \in Int /\ l \in Int /\ (IF o > l THEN 0 ELSE l - o + 1) = n
      BY <1>3
    <3> HIDE DEF l
    <3>2. Cardinality(o .. l) = n
      BY <3>1, FS_Interval
    <3> QED BY <1>7, <3>2 DEF l
  <2>3. TriedIds(w) \ {NoId} = TriedIds(w)
    BY <1>4, NoIdIs
  <2> QED BY <1>3, <2>1, <2>2, <2>3 DEF Counters
<1> QED BY <1>2, <1>4, <1>8, <1>9 DEF Tables

(* View says the same of both.                                             *)
LEMMA RestartView ==
  ASSUME NEW m, Tables(m, NoId, NoId), NEW w, w = Unserialize(Serialize(m))
  PROVE  View(w) = View(m)
<1>1. m \in AddrMen /\ Indexed(m) /\ NewTable(m, NoId)
  BY DEF Tables
<1>2. PICK q, f : Filed(m, q, f) /\ Copied(m, q, w)
  BY RestartCopies
<1>3. Enumerates(q, DOMAIN m.mapInfo) /\ Indexed(w)
  BY <1>2 DEF Filed, Copied
<1>4. ASSUME NEW x \in DOMAIN w.mapInfo
      PROVE  /\ q[x + 1] \in DOMAIN m.mapInfo
             /\ w.mapInfo[x].addr = m.mapInfo[q[x + 1]].addr
             /\ w.mapInfo[x].source = m.mapInfo[q[x + 1]].source
             /\ w.mapInfo[x].nLastSuccess = m.mapInfo[q[x + 1]].nLastSuccess
             /\ w.mapInfo[x].fInTried = m.mapInfo[q[x + 1]].fInTried
             /\ InNew(w, x) = InNew(m, q[x + 1])
  BY <1>1, <1>2, <1>3, CopiedEntries
<1>5. \A k \in DOMAIN m.mapInfo : \E x \in DOMAIN w.mapInfo : q[x + 1] = k
  BY <1>1, <1>2, <1>3, CopiedEntries
<1>6. ASSUME NEW a \in DOMAIN m.mapAddr PROVE a \in DOMAIN w.mapAddr
  <2>1. m.mapAddr[a] \in DOMAIN m.mapInfo /\ m.mapInfo[m.mapAddr[a]].addr = a
    BY <1>1 DEF Indexed
  <2>2. PICK x \in DOMAIN w.mapInfo : q[x + 1] = m.mapAddr[a]
    BY <1>5, <2>1
  <2>3. w.mapInfo[x].addr = a
    BY <1>4, <2>1, <2>2
  <2> QED BY <1>3, <2>3 DEF Indexed
<1>7. ASSUME NEW a \in DOMAIN w.mapAddr
      PROVE  /\ a \in DOMAIN m.mapAddr
             /\ w.mapAddr[a] \in DOMAIN w.mapInfo
             /\ q[w.mapAddr[a] + 1] = m.mapAddr[a]
  <2> DEFINE x == w.mapAddr[a]
  <2>1. x \in DOMAIN w.mapInfo /\ w.mapInfo[x].addr = a
    BY <1>3 DEF Indexed
  <2> HIDE DEF x
  <2>2. q[x + 1] \in DOMAIN m.mapInfo /\ m.mapInfo[q[x + 1]].addr = a
    BY <1>4, <2>1
  <2>3. a \in DOMAIN m.mapAddr /\ m.mapAddr[a] = q[x + 1]
    BY <1>1, <2>2 DEF Indexed
  <2> QED BY <2>1, <2>3 DEF x
<1>8. DOMAIN w.mapAddr = DOMAIN m.mapAddr
  BY <1>6, <1>7
<1> DEFINE V(t, k) == [source |-> t.mapInfo[k].source, nLastSuccess |-> t.mapInfo[k].nLastSuccess,
                       fInTried |-> t.mapInfo[k].fInTried, buckets |-> InNew(t, k)]
<1>9. ASSUME NEW a \in DOMAIN w.mapAddr PROVE V(w, w.mapAddr[a]) = V(m, m.mapAddr[a])
  <2> DEFINE x == w.mapAddr[a]
             y == m.mapAddr[a]
  <2>1. x \in DOMAIN w.mapInfo /\ q[x + 1] = y
    BY <1>7
  <2> HIDE DEF x, y
  <2>2. /\ w.mapInfo[x].source = m.mapInfo[y].source
        /\ w.mapInfo[x].nLastSuccess = m.mapInfo[y].nLastSuccess
        /\ w.mapInfo[x].fInTried = m.mapInfo[y].fInTried
        /\ InNew(w, x) = InNew(m, y)
    BY <1>4, <2>1
  <2>3. V(w, x) = V(m, y)
    BY <2>2, Zenon
  <2> QED BY <2>3 DEF x, y
<1>10. View(w) = [a \in DOMAIN w.mapAddr |-> V(w, w.mapAddr[a])]
       /\ View(m) = [a \in DOMAIN m.mapAddr |-> V(m, m.mapAddr[a])]
  BY Zenon DEF View
<1> HIDE DEF V
<1> QED BY <1>8, <1>9, <1>10

(* A restart takes nothing out of the tried table.                         *)
LEMMA RestartHeld ==
  ASSUME AddrManInv, Restart
  PROVE  AddrManInv' /\ View(am') = View(am)
<1>1. Tables(am, NoId, NoId) /\ am' = Unserialize(Serialize(am))
  BY DEF AddrManInv, Restart
<1> QED BY <1>1, RestartTables, RestartView DEF AddrManInv

-----------------------------------------------------------------------------
(* The theorems.                                                           *)

LEMMA InitHeld == AddrManInit => AddrManInv
<1> SUFFICES ASSUME AddrManInit PROVE AddrManInv
  OBVIOUS
<1> DEFINE none == <<>>
           vvTried == [b \in TriedBucket |-> <<>>]
           vvNew == [b \in NewBucket |-> {}]
           e == [nIdCount |-> 0, mapInfo |-> none, mapAddr |-> none, vRandom |-> none,
                 nTried |-> 0, vvTried |-> vvTried, nNew |-> 0, vvNew |-> vvNew]
<1>1. am = e
  BY Zenon DEF AddrManInit, EmptyAddrMan
<1>2. /\ none \in Seq(Nat) /\ Len(none) = 0 /\ DOMAIN none = {}
      /\ vvTried \in [TriedBucket -> Seq(Nat)] /\ vvNew \in [NewBucket -> SUBSET Nat]
      /\ none = [x \in DOMAIN none |-> none[x]]
      /\ (\A b \in TriedBucket : vvTried[b] = none) /\ (\A b \in NewBucket : vvNew[b] = {})
  <2>1. <<>> \in Seq(Nat)
    OBVIOUS
  <2> QED BY <2>1
<1>3. none \in InfoMaps /\ none \in AddrMaps
  <2> HIDE DEF none
  <2> QED BY <1>2, InfoMapIs, AddrMapIs
<1> HIDE DEF none, vvTried, vvNew
<1>4. /\ am.nIdCount = 0 /\ am.mapInfo = none /\ am.mapAddr = none /\ am.vRandom = none
      /\ am.nTried = 0 /\ am.vvTried = vvTried /\ am.nNew = 0 /\ am.vvNew = vvNew
  BY <1>1
<1>5. am \in AddrMen
  BY <1>1, <1>2, <1>3 DEF AddrMen
<1>6. TriedIds(am) = {} /\ NewIds(am) = {}
  BY <1>2, <1>4 DEF TriedIds, NewIds
<1>7. Indexed(am)
  BY <1>2, <1>4 DEF Indexed
<1>8. NewTable(am, NoId)
  <2>1. ASSUME NEW b \in NewBucket
        PROVE  am.vvNew[b] \subseteq NewIds(am) /\ Cardinality(am.vvNew[b]) <= NewBucketSize
    <3>1. am.vvNew[b] = {} /\ Cardinality({}) = 0 /\ NewBucketSize \in Nat
      BY <1>2, <1>4, FS_EmptySet, AddrManAssumption
    <3> QED BY <3>1
  <2> QED BY <1>2, <1>4, <1>6, <2>1 DEF NewTable
<1>9. TriedTable(am, NoId)
  <2>1. ASSUME NEW b \in TriedBucket
        PROVE  Len(am.vvTried[b]) = 0 /\ 1 .. Len(am.vvTried[b]) = {}
    BY <1>2, <1>4
  <2>2. TriedBucketSize \in Nat
    BY AddrManAssumption
  <2> QED BY <1>6, <2>1, <2>2 DEF TriedTable
<1>10. Counters(am, NoId)
  <2>1. TriedIds(am) \ {NoId} = {}
    BY <1>6
  <2> QED BY <1>4, <1>6, <2>1, FS_EmptySet DEF Counters
<1> QED BY <1>5, <1>7, <1>8, <1>9, <1>10 DEF AddrManInv, Tables

(* Every operation keeps the tables, and an entry leaves the tried table   *)
(* only from a full bucket.                                                *)
LEMMA NextHeld ==
  ASSUME AddrManInv, [AddrManNext]_am
  PROVE  AddrManInv' /\ (TriedOrFull(am, am') \/ Restart)
<1>1. CASE UNCHANGED am
  <2>1. KeepsTried(am, am')
    BY <1>1, Zenon DEF KeepsTried
  <2>2. AddrManInv'
    BY <1>1, Zenon DEF AddrManInv
  <2> QED BY <2>1, <2>2, KeptTried
<1>2. ASSUME NEW a \in Addr, NEW s \in Source, AddNew(a, s)
      PROVE  AddrManInv' /\ TriedOrFull(am, am')
  BY <1>2, AddNewHeld, KeptTried
<1>3. ASSUME NEW a \in Addr, NEW s \in Source, AddKnown(a, s)
      PROVE  AddrManInv' /\ TriedOrFull(am, am')
  BY <1>3, AddKnownHeld, KeptTried
<1>4. ASSUME NEW a \in Addr, NEW t \in 1 .. MaxTime, Good(a, t)
      PROVE  AddrManInv' /\ TriedOrFull(am, am')
  BY <1>4, GoodHeld
<1>5. ASSUME NEW n \in DOMAIN am.vRandom, NEW p \in DOMAIN am.vRandom, GetAddr(n, p)
      PROVE  AddrManInv' /\ TriedOrFull(am, am')
  BY <1>5, GetAddrHeld, KeptTried
<1>6. CASE Restart
  BY <1>6, RestartHeld
<1> QED BY <1>1, <1>2, <1>3, <1>4, <1>5, <1>6 DEF AddrManNext

(* A tried entry has one place, in its bucket, and any other none.         *)
LEMMA TriedPlace ==
  ASSUME NEW m, m \in AddrMen, TriedTable(m, NoId), NEW n \in DOMAIN m.mapInfo
  PROVE  /\ m.mapInfo[n].fInTried => Cardinality(InTried(m, n)) = 1
         /\ ~m.mapInfo[n].fInTried => Cardinality(InTried(m, n)) = 0
<1> DEFINE b == GetTriedBucket[m.mapInfo[n].addr]
<1>1. ASSUME NEW c \in TriedBucket
      PROVE  /\ Len(m.vvTried[c]) <= TriedBucketSize /\ Len(m.vvTried[c]) \in Nat
             /\ \A k \in 1 .. Len(m.vvTried[c]) : m.vvTried[c][k] = n => m.mapInfo[n].fInTried /\ b = c
             /\ \A j, k \in 1 .. Len(m.vvTried[c]) :
                  m.vvTried[c][j] = m.vvTried[c][k] => j = k
  <2>1. m.vvTried[c] \in Seq(Nat)
    BY AddrManIs
  <2>2. TriedHolds(m, c, m.vvTried[c], NoId)
    BY TriedTableHolds
  <2> DEFINE u == m.vvTried[c]
  <2> HIDE DEF u
  <2>3. /\ Len(u) <= TriedBucketSize
        /\ \A k \in 1 .. Len(u) : /\ u[k] \in TriedIds(m)
                                  /\ GetTriedBucket[m.mapInfo[u[k]].addr] = c
        /\ \A j, k \in 1 .. Len(u) : u[j] = u[k] => j = k
    BY <2>2, Zenon DEF TriedHolds, u
  <2>4. \A k \in 1 .. Len(u) : u[k] = n => m.mapInfo[n].fInTried /\ b = c
    BY <2>3, Zenon DEF TriedIds
  <2> QED BY <2>1, <2>3, <2>4 DEF u
<1>2. CASE m.mapInfo[n].fInTried
  <2>1. n \in TriedIds(m) /\ n # NoId
    BY <1>2, NoIdIs DEF TriedIds
  <2>2. b \in TriedBucket
    <3>1. m.mapInfo[n] \in Info
      BY AddrManIs
    <3>2. m.mapInfo[n].addr \in Addr
      BY <3>1, InfoIs
    <3> QED BY <3>2, AddrManAssumption
  <2>3. PICK k \in 1 .. Len(m.vvTried[b]) : m.vvTried[b][k] = n
    BY <2>1, Zenon DEF TriedTable
  <2> HIDE DEF b
  <2>4. TriedBucketSize \in Nat /\ k \in 1 .. TriedBucketSize /\ k <= Len(m.vvTried[b])
    <3>1. TriedBucketSize \in Nat
      BY AddrManAssumption
    <3>2. Len(m.vvTried[b]) <= TriedBucketSize /\ Len(m.vvTried[b]) \in Nat
      BY <1>1, <2>2
    <3> DEFINE l == Len(m.vvTried[b])
    <3>3. k \in 1 .. l /\ l \in Nat /\ l <= TriedBucketSize
      BY <3>2
    <3> HIDE DEF l
    <3>4. k \in 1 .. TriedBucketSize /\ k <= l
      BY <3>1, <3>3
    <3> QED BY <3>1, <3>4 DEF l
  <2>5. <<b, k>> \in InTried(m, n)
    BY <2>2, <2>3, <2>4 DEF InTried
  <2>6. ASSUME NEW p \in InTried(m, n) PROVE p = <<b, k>>
    <3>1. /\ p \in TriedBucket \X (1 .. TriedBucketSize)
          /\ p[2] <= Len(m.vvTried[p[1]]) /\ m.vvTried[p[1]][p[2]] = n
      BY DEF InTried
    <3>2. PICK c \in TriedBucket, j \in 1 .. TriedBucketSize : p = <<c, j>>
      BY <3>1
    <3>3. j <= Len(m.vvTried[c]) /\ m.vvTried[c][j] = n
      BY <3>1, <3>2
    <3>4. j \in 1 .. Len(m.vvTried[c])
      <4>1. Len(m.vvTried[c]) \in Nat
        BY <1>1
      <4> QED BY <2>4, <3>3, <4>1
    <3>5. c = b
      BY <1>1, <3>3, <3>4
    <3>6. j = k
      BY <1>1, <2>2, <2>3, <3>3, <3>4, <3>5
    <3> QED BY <3>2, <3>5, <3>6
  <2>7. InTried(m, n) = {<<b, k>>}
    BY <2>5, <2>6
  <2>8. Cardinality({<<b, k>>}) = 1
    BY FS_Singleton
  <2> QED BY <1>2, <2>7, <2>8
<1>3. CASE ~m.mapInfo[n].fInTried
  <2>1. InTried(m, n) = {}
    <3>1. SUFFICES ASSUME NEW p \in InTried(m, n) PROVE FALSE
      OBVIOUS
    <3>2. /\ p \in TriedBucket \X (1 .. TriedBucketSize)
          /\ p[2] <= Len(m.vvTried[p[1]]) /\ m.vvTried[p[1]][p[2]] = n
      BY <3>1 DEF InTried
    <3>3. PICK c \in TriedBucket, j \in 1 .. TriedBucketSize : p = <<c, j>>
      BY <3>2
    <3>4. j <= Len(m.vvTried[c]) /\ m.vvTried[c][j] = n
      BY <3>2, <3>3
    <3>5. j \in 1 .. Len(m.vvTried[c])
      <4>1. Len(m.vvTried[c]) \in Nat /\ j \in Nat /\ j >= 1
        BY <1>1
      <4> QED BY <3>4, <4>1
    <3> HIDE DEF b
    <3> QED BY <1>1, <1>3, <3>4, <3>5
  <2> QED BY <1>3, <2>1, FS_EmptySet
<1> QED BY <1>2, <1>3

(* What Check_ asks is in the invariant.                                   *)
LEMMA CheckHolds == AddrManInv => TablesConsistent
<1> SUFFICES ASSUME AddrManInv PROVE TablesConsistent
  OBVIOUS
<1>1. am \in AddrMen /\ Indexed(am) /\ NewTable(am, NoId) /\ TriedTable(am, NoId)
      /\ Counters(am, NoId)
  BY DEF AddrManInv, Tables
<1>2. /\ am.nNew = Cardinality(NewIds(am)) /\ am.nTried = Cardinality(TriedIds(am))
  <2>1. TriedIds(am) \ {NoId} = TriedIds(am)
    BY <1>1, NoIdIs
  <2> QED BY <1>1, <2>1 DEF Counters
<1>3. Len(am.vRandom) = am.nTried + am.nNew
  <2>1. Enumerates(am.vRandom, DOMAIN am.mapInfo)
    <3>1. am.vRandom \in Seq(Nat)
      BY <1>1, AddrManIs
    <3>2. \A k \in 1 .. Len(am.vRandom) : am.vRandom[k] \in DOMAIN am.mapInfo
      BY <1>1 DEF Indexed
    <3>3. ASSUME NEW x \in DOMAIN am.mapInfo
          PROVE  \E k \in 1 .. Len(am.vRandom) : am.vRandom[k] = x
      <4>1. /\ am.mapInfo[x].nRandomPos \in 1 .. Len(am.vRandom)
            /\ am.vRandom[am.mapInfo[x].nRandomPos] = x
        BY <1>1 DEF Indexed
      <4> QED BY <4>1, Zenon
    <3>4. ASSUME NEW j \in 1 .. Len(am.vRandom), NEW k \in 1 .. Len(am.vRandom),
                 am.vRandom[j] = am.vRandom[k]
          PROVE  j = k
      <4>1. am.mapInfo[am.vRandom[j]].nRandomPos = j /\ am.mapInfo[am.vRandom[k]].nRandomPos = k
        BY <1>1, Zenon DEF Indexed
      <4> QED BY <3>4, <4>1, Zenon
    <3> QED BY <3>1, <3>2, <3>3, <3>4, Zenon DEF Enumerates
  <2>2. Len(am.vRandom) = Cardinality(DOMAIN am.mapInfo)
    BY <2>1, EnumerateCount
  <2>3. NewIds(am) \in SUBSET DOMAIN am.mapInfo /\ TriedIds(am) \in SUBSET DOMAIN am.mapInfo
        /\ NewIds(am) \cap TriedIds(am) = {} /\ NewIds(am) \cup TriedIds(am) = DOMAIN am.mapInfo
    BY DEF NewIds, TriedIds
  <2>4. /\ IsFiniteSet(NewIds(am)) /\ IsFiniteSet(TriedIds(am))
        /\ Cardinality(NewIds(am)) \in Nat /\ Cardinality(TriedIds(am)) \in Nat
    BY <1>1, <2>3, IdsFinite
  <2>5. Cardinality(DOMAIN am.mapInfo)
          = Cardinality(NewIds(am)) + Cardinality(TriedIds(am)) - Cardinality({})
    BY <2>3, <2>4, FS_Union
  <2>6. Cardinality({}) = 0
    BY FS_EmptySet
  <2> QED BY <1>2, <2>2, <2>4, <2>5, <2>6
<1>4. ASSUME NEW n \in DOMAIN am.mapInfo
      PROVE  LET info == am.mapInfo[n] IN
               /\ am.mapAddr[info.addr] = n
               /\ info.nRandomPos \in DOMAIN am.vRandom
               /\ am.vRandom[info.nRandomPos] = n
               /\ info.nRefCount = Cardinality(InNew(am, n))
               /\ IF info.fInTried
                  THEN info.nLastSuccess # 0 /\ info.nRefCount = 0
                  ELSE info.nRefCount \in 1 .. NewBucketsPerAddress
               /\ Cardinality(InTried(am, n)) = IF info.fInTried THEN 1 ELSE 0
  <2> DEFINE info == am.mapInfo[n]
  <2>1. /\ am.mapAddr[info.addr] = n /\ info.nRandomPos \in 1 .. Len(am.vRandom)
        /\ am.vRandom[info.nRandomPos] = n
    BY <1>1, Zenon DEF Indexed
  <2>2. DOMAIN am.vRandom = 1 .. Len(am.vRandom)
    <3>1. am.vRandom \in Seq(Nat)
      BY <1>1, AddrManIs
    <3> QED BY <3>1
  <2>3. info.nRefCount = Cardinality(InNew(am, n)) /\ info.nRefCount \in Nat
    <3>1. info.nRefCount = Cardinality(InNew(am, n)) + (IF n = NoId THEN 1 ELSE 0)
      BY <1>1, Zenon DEF NewTable
    <3>2. Cardinality(InNew(am, n)) \in Nat /\ n # NoId
      BY <1>1, InNewFinite, NoIdIs
    <3> HIDE DEF info
    <3> QED BY <3>1, <3>2
  <2>4. CASE info.fInTried
    <3>1. n \in TriedIds(am)
      BY <2>4 DEF TriedIds
    <3>2. info.nLastSuccess # 0
      BY <1>1, <3>1, Zenon DEF TriedTable
    <3>3. InNew(am, n) = {}
      BY <1>1, <3>1, BucketFinite DEF InNew, NewIds
    <3>4. info.nRefCount = 0
      BY <2>3, <3>3, FS_EmptySet, Zenon
    <3>5. Cardinality(InTried(am, n)) = 1
      BY <1>1, <2>4, TriedPlace
    <3> HIDE DEF info
    <3>6. LET i == info IN
            /\ am.mapAddr[i.addr] = n
            /\ i.nRandomPos \in DOMAIN am.vRandom
            /\ am.vRandom[i.nRandomPos] = n
            /\ i.nRefCount = Cardinality(InNew(am, n))
            /\ IF i.fInTried
               THEN i.nLastSuccess # 0 /\ i.nRefCount = 0
               ELSE i.nRefCount \in 1 .. NewBucketsPerAddress
            /\ Cardinality(InTried(am, n)) = IF i.fInTried THEN 1 ELSE 0
      BY <2>1, <2>2, <2>3, <2>4, <3>2, <3>4, <3>5, Zenon
    <3> QED BY <3>6 DEF info
  <2>5. CASE ~info.fInTried
    <3>1. n \in NewIds(am)
      BY <2>5 DEF NewIds, TriedIds
    <3>2. info.nRefCount \in 1 .. NewBucketsPerAddress
      BY <1>1, <3>1, Zenon DEF NewTable
    <3>3. Cardinality(InTried(am, n)) = 0
      BY <1>1, <2>5, TriedPlace
    <3> HIDE DEF info
    <3>4. LET i == info IN
            /\ am.mapAddr[i.addr] = n
            /\ i.nRandomPos \in DOMAIN am.vRandom
            /\ am.vRandom[i.nRandomPos] = n
            /\ i.nRefCount = Cardinality(InNew(am, n))
            /\ IF i.fInTried
               THEN i.nLastSuccess # 0 /\ i.nRefCount = 0
               ELSE i.nRefCount \in 1 .. NewBucketsPerAddress
            /\ Cardinality(InTried(am, n)) = IF i.fInTried THEN 1 ELSE 0
      BY <2>1, <2>2, <2>3, <2>5, <3>2, <3>3, Zenon
    <3> QED BY <3>4 DEF info
  <2> QED BY <2>4, <2>5
<1>5. \A b \in NewBucket : am.vvNew[b] \subseteq NewIds(am)
  BY <1>1, Zenon DEF NewTable
<1>6. ASSUME NEW b \in TriedBucket PROVE ToSet(am.vvTried[b]) \subseteq TriedIds(am)
  <2> DEFINE u == am.vvTried[b]
  <2>1. u \in Seq(Nat)
    BY <1>1, AddrManIs
  <2>2. \A k \in 1 .. Len(u) : u[k] \in TriedIds(am)
    BY <1>1, TriedTableHolds DEF TriedHolds
  <2> HIDE DEF u
  <2>3. DOMAIN u = 1 .. Len(u)
    BY <2>1
  <2>4. ToSet(u) \subseteq TriedIds(am)
    BY <2>2, <2>3 DEF ToSet
  <2> QED BY <2>4 DEF u
<1>7. CheckPasses
  BY <1>2, <1>3, <1>4, <1>5, <1>6, Zenon DEF CheckPasses
<1>8. BucketsBounded
  BY <1>1, Zenon DEF BucketsBounded, NewTable, TriedTable
<1> QED BY <1>7, <1>8 DEF TablesConsistent

LEMMA AddrManInvariant == AddrManSpec => []AddrManInv
<1>1. AddrManInv /\ [AddrManNext]_am => AddrManInv'
  BY NextHeld
<1> QED BY <1>1, InitHeld, PTL DEF AddrManSpec

(* At all times, whatever was added, tried, evicted, shuffled or read back *)
(* from peers.dat, the counters, the two indexes and the buckets of the    *)
(* address manager agree, as Check_ would find, and no bucket has outgrown *)
(* its size.                                                               *)
THEOREM TablesAreConsistent == AddrManSpec => []TablesConsistent
BY AddrManInvariant, CheckHolds, PTL

(* Reading what was written gives every address its source, its time of    *)
(* success, its table and its new buckets back: no bucket is found full    *)
(* and no entry in too many of them.                                       *)
THEOREM TablesSurviveRestart == AddrManSpec => RestartKeepsTables
<1>1. AddrManInv /\ [AddrManNext]_am => [Restart => View(am') = View(am)]_am
  BY RestartHeld
<1> QED BY <1>1, AddrManInvariant, PTL DEF AddrManSpec, RestartKeepsTables

(* An address of the tried table is known after every step, and in that    *)
(* table unless its bucket there was full.                                 *)
THEOREM TriedIsKept == AddrManSpec => TriedNeverDeleted
<1> DEFINE Kept == \A n \in TriedIds(am) : LET a == am.mapInfo[n].addr IN
                     /\ a \in DOMAIN am'.mapAddr
                     /\ am'.mapInfo[am'.mapAddr[a]].fInTried
                          \/ Len(am.vvTried[GetTriedBucket[a]]) = TriedBucketSize
<1>1. ASSUME AddrManInv, [AddrManNext]_am PROVE Kept
  <2>1. SUFFICES ASSUME NEW n \in TriedIds(am), NEW a, a = am.mapInfo[n].addr
                 PROVE  /\ a \in DOMAIN am'.mapAddr
                        /\ am'.mapInfo[am'.mapAddr[a]].fInTried
                             \/ Len(am.vvTried[GetTriedBucket[a]]) = TriedBucketSize
    BY Zenon
  <2>2. Indexed(am) /\ Indexed(am') /\ (TriedOrFull(am, am') \/ Restart)
    BY <1>1, NextHeld DEF AddrManInv, Tables
  <2>3. n \in DOMAIN am.mapInfo /\ am.mapInfo[n].fInTried
        /\ a \in DOMAIN am.mapAddr /\ am.mapAddr[a] = n
    BY <2>1, <2>2 DEF TriedIds, Indexed
  <2>4. CASE TriedOrFull(am, am')
    <3>1. \/ n \in TriedIds(am') /\ am'.mapInfo[n].addr = a
          \/ /\ n \in DOMAIN am'.mapInfo /\ am'.mapInfo[n].addr = a
             /\ Len(am.vvTried[GetTriedBucket[a]]) = TriedBucketSize
      BY <2>1, <2>4, Zenon DEF TriedOrFull
    <3>2. n \in DOMAIN am'.mapInfo /\ am'.mapInfo[n].addr = a
      BY <3>1 DEF TriedIds
    <3>3. a \in DOMAIN am'.mapAddr /\ am'.mapAddr[a] = n
      BY <2>2, <3>2, Zenon DEF Indexed
    <3>4. am'.mapInfo[n].fInTried \/ Len(am.vvTried[GetTriedBucket[a]]) = TriedBucketSize
      BY <3>1, Zenon DEF TriedIds
    <3> QED BY <3>3, <3>4, Zenon
  <2>5. CASE Restart
    <3>1. View(am') = View(am)
      BY <1>1, <2>5, RestartHeld
    <3>2. DOMAIN View(am) = DOMAIN am.mapAddr /\ DOMAIN View(am') = DOMAIN am'.mapAddr
      BY Zenon DEF View
    <3>3. a \in DOMAIN am'.mapAddr
      BY <2>3, <3>1, <3>2
    <3>4. /\ View(am)[a].fInTried = am.mapInfo[am.mapAddr[a]].fInTried
          /\ View(am')[a].fInTried = am'.mapInfo[am'.mapAddr[a]].fInTried
      BY <2>3, <3>3 DEF View
    <3>5. am'.mapInfo[am'.mapAddr[a]].fInTried
      BY <2>3, <3>1, <3>4
    <3> QED BY <3>3, <3>5
  <2> QED BY <2>2, <2>4, <2>5
<1>2. [][Kept]_am => TriedNeverDeleted
  BY PTL DEF TriedNeverDeleted
<1>3. AddrManInv /\ [AddrManNext]_am => [Kept]_am
  BY <1>1
<1> QED BY <1>2, <1>3, AddrManInvariant, PTL DEF AddrManSpec
=============================================================================
