---------------------------- MODULE StreamProofs ----------------------------
(***************************************************************************)
(* Proofs about Stream: whatever the messages, their sizes and answers,    *)
(* and however little the sockets hold, a connection is a Channel.         *)
(*                                                                         *)
(* The inductive invariant follows the bytes from one end to the other.    *)
(* A cursor <<i, k>> stands before byte k + 1 of the i-th message sent.    *)
(* The queue of the sender starts at one cursor (Queue), the receiver has  *)
(* read up to another (Received), and the bytes of the socket lead from    *)
(* the second to the first (InTransit).  SendOne and ReadByte keep this,   *)
(* and so do the loops that repeat them, by induction on their rounds.     *)
(***************************************************************************)
EXTENDS Stream, WellFoundedInduction, TLAPS

-----------------------------------------------------------------------------
(* Induction and recursion *)

(* Induction, for a set of numbers: the least one outside it would follow  *)
(* one inside.                                                             *)
LEMMA SetInduction ==
  ASSUME NEW S, S \subseteq Nat, 0 \in S, \A n \in S : n + 1 \in S
  PROVE  S = Nat
<1> DEFINE R == {ss \in Nat \X Nat : ss[1] < ss[2]}
<1>1. OpToRel(<, Nat) = R
  BY Zenon DEF OpToRel
<1>2. SUFFICES ASSUME Nat \ S # {} PROVE FALSE
  OBVIOUS
<1>3. PICK x \in Nat \ S : \A y \in Nat \ S : ~(<<y, x>> \in R)
  <2>1. IsWellFoundedOn(R, Nat)
    <3> HIDE DEF R
    <3> QED BY <1>1, NatLessThanWellFounded
  <2>2. Nat \ S \subseteq Nat
    OBVIOUS
  <2> HIDE DEF R
  <2> QED BY <1>2, <2>1, <2>2, WFMin
<1>4. x # 0 /\ x - 1 \in Nat
  OBVIOUS
<1>5. <<x - 1, x>> \in R
  BY <1>4
<1>6. x - 1 \in S
  BY <1>3, <1>4, <1>5
<1> QED BY <1>4, <1>6

(* What holds of nothing and of one more holds of all.                     *)
LEMMA UpTo ==
  ASSUME NEW n \in Nat, NEW S, 0 \in S, \A k \in 1 .. n : k - 1 \in S => k \in S
  PROVE  \A k \in 0 .. n : k \in S
<1> DEFINE U == {k \in Nat : k <= n => k \in S}
<1>1. 0 \in U
  OBVIOUS
<1>2. ASSUME NEW k \in U PROVE k + 1 \in U
  <2>1. k \in Nat /\ (k + 1 <= n => k + 1 \in 1 .. n /\ (k + 1) - 1 \in S)
    BY <1>2
  <2> QED BY <2>1
<1>3. U = Nat
  <2> HIDE DEF U
  <2>1. U \subseteq Nat
    BY DEF U
  <2> QED BY <1>1, <1>2, <2>1, SetInduction
<1> QED BY <1>3

(* f takes the first n steps of g from a.                                  *)
IsFold(f, n, X, a, g) ==
  /\ f \in [0 .. n -> X]
  /\ f[0] = a
  /\ \A k \in 1 .. n : f[k] = g[k][f[k - 1]]

(* A loop of n rounds has a value at every step.                           *)
LEMMA FoldRecursion ==
  ASSUME NEW n \in Nat, NEW X, NEW a \in X, NEW g \in [1 .. n -> [X -> X]]
  PROVE  \E f : IsFold(f, n, X, a, g)
<1> DEFINE S == {m \in Nat : m <= n => \E f : IsFold(f, m, X, a, g)}
<1>1. 0 \in S
  <2> DEFINE f == [k \in 0 .. 0 |-> a]
  <2>1. IsFold(f, 0, X, a, g)
    BY DEF IsFold
  <2> QED BY <2>1
<1>2. ASSUME NEW m \in S PROVE m + 1 \in S
  <2>1. CASE ~(m + 1 <= n)
    BY <1>2, <2>1
  <2>2. CASE m + 1 <= n
    <3>1. PICK f : IsFold(f, m, X, a, g)
      BY <1>2, <2>2
    <3> DEFINE h == [k \in 0 .. m + 1 |-> IF k = m + 1 THEN g[m + 1][f[m]] ELSE f[k]]
    <3>2. m \in Nat /\ m + 1 \in 1 .. n /\ f[m] \in X
      BY <1>2, <2>2, <3>1 DEF IsFold
    <3>3. g[m + 1][f[m]] \in X
      BY <3>2
    <3>4. h \in [0 .. m + 1 -> X] /\ h[0] = a
      BY <3>1, <3>2, <3>3 DEF IsFold
    <3>5. ASSUME NEW k \in 1 .. m + 1 PROVE h[k] = g[k][h[k - 1]]
      <4>1. h[k - 1] = f[k - 1]
        BY <3>2
      <4>2. CASE k = m + 1
        BY <3>2, <4>1, <4>2
      <4>3. CASE k # m + 1
        BY <3>1, <3>2, <4>1, <4>3 DEF IsFold
      <4> QED BY <4>2, <4>3
    <3>6. IsFold(h, m + 1, X, a, g)
      <4> HIDE DEF h
      <4> QED BY <3>4, <3>5 DEF IsFold
    <3> QED BY <3>2, <3>6
  <2> QED BY <2>1, <2>2
<1>3. S = Nat
  <2> HIDE DEF S
  <2>1. S \subseteq Nat
    BY DEF S
  <2> QED BY <1>1, <1>2, <2>1, SetInduction
<1> QED BY <1>3

-----------------------------------------------------------------------------
(* The constants *)

(* There are two ends.                                                     *)
LEMMA OtherEnd ==
  ASSUME NEW e \in End
  PROVE  /\ Other(e) \in End /\ Other(e) # e
         /\ Other(Other(e)) = e
         /\ \A f \in End : f = e \/ f = Other(e)
<1>1. PICK a \in End, b \in End : a # b /\ End = {a, b}
  BY StreamAssumption
<1>2. ASSUME NEW x \in End PROVE Other(x) \in End /\ Other(x) # x
  <2>1. \E f \in End : f # x
    BY <1>1
  <2> QED BY <2>1 DEF Other
<1> QED BY <1>1, <1>2

(* A message has at least its header.                                      *)
LEMMA SizeType ==
  ASSUME NEW m \in Message
  PROVE  /\ TotalSize(m) \in Nat \ {0} /\ Size[m] \in Nat /\ HeaderSize \in Nat \ {0}
         /\ TotalSize(m) = HeaderSize + Size[m]
BY StreamAssumption DEF TotalSize

(* The least of two numbers.                                               *)
LEMMA MinOfTwo ==
  ASSUME NEW a \in Int, NEW b \in Int
  PROVE  /\ Min({a, b}) \in Int /\ Min({a, b}) <= a /\ Min({a, b}) <= b
         /\ Min({a, b}) = a \/ Min({a, b}) = b
<1>1. \E x \in {a, b} : \A y \in {a, b} : x <= y
  <2>1. CASE a <= b
    BY <2>1
  <2>2. CASE ~(a <= b)
    BY <2>2
  <2> QED BY <2>1, <2>2
<1>2. Min({a, b}) \in {a, b} /\ \A y \in {a, b} : Min({a, b}) <= y
  <2> DEFINE S == {a, b}
  <2>1. \E x \in S : \A y \in S : x <= y
    BY <1>1
  <2> HIDE DEF S
  <2>2. Min(S) \in S /\ \A y \in S : Min(S) <= y
    BY <2>1 DEF Min
  <2> QED BY <2>2 DEF S
<1> QED BY <1>2

(* The elements of two sequences after one another.                        *)
LEMMA ConcatOf ==
  ASSUME NEW X, NEW a \in Seq(X), NEW b \in Seq(X)
  PROVE  /\ a \o b \in Seq(X) /\ Len(a \o b) = Len(a) + Len(b)
         /\ Len(a) \in Nat /\ Len(b) \in Nat
         /\ \A j \in 1 .. Len(a) : (a \o b)[j] = a[j]
         /\ \A j \in 1 .. Len(b) : (a \o b)[Len(a) + j] = b[j]
OBVIOUS

(* What is left after the first element.                                   *)
LEMMA TailOf ==
  ASSUME NEW X, NEW a \in Seq(X), a # <<>>
  PROVE  /\ Tail(a) \in Seq(X) /\ Len(Tail(a)) + 1 = Len(a) /\ Len(Tail(a)) = Len(a) - 1
         /\ Len(a) \in Nat \ {0} /\ Len(Tail(a)) \in Nat
         /\ Head(a) = a[1] /\ a[1] \in X
         /\ \A j \in 1 .. Len(Tail(a)) : Tail(a)[j] = a[j + 1] /\ j + 1 \in 1 .. Len(a)
OBVIOUS

-----------------------------------------------------------------------------
(* The size of a queue, and the answers to a sequence of messages *)

(* f[k] is the size of the first k messages of q.                          *)
IsSum(f, q) ==
  /\ f \in [0 .. Len(q) -> Nat]
  /\ f[0] = 0
  /\ \A k \in 1 .. Len(q) : f[k] = f[k - 1] + TotalSize(q[k])

(* The sum of SizeOf has a value.                                          *)
LEMMA SizeOfSum ==
  ASSUME NEW q \in Seq(Message)
  PROVE  \E f : IsSum(f, q) /\ SizeOf(q) = f[Len(q)]
<1> DEFINE n == Len(q)
           X == Nat
           g == [k \in 1 .. n |-> [x \in X |-> x + TotalSize(q[k])]]
<1>1. n \in Nat /\ \A k \in 1 .. n : q[k] \in Message
  OBVIOUS
<1>2. \A k \in 1 .. n : TotalSize(q[k]) \in Nat
  BY <1>1, SizeType
<1>3. g \in [1 .. n -> [X -> X]] /\ 0 \in X
  BY <1>2
<1>4. \A k \in 1 .. n, x \in X : g[k][x] = x + TotalSize(q[k])
  OBVIOUS
<1>5. X = Nat
  OBVIOUS
<1> HIDE DEF g, n, X
<1>6. PICK f : IsFold(f, n, X, 0, g)
  BY <1>1, <1>3, FoldRecursion
<1>7. IsSum(f, q)
  <2>1. ASSUME NEW k \in 1 .. n PROVE f[k] = f[k - 1] + TotalSize(q[k])
    <3>1. f[k - 1] \in X /\ f[k] = g[k][f[k - 1]]
      BY <1>1, <1>6 DEF IsFold
    <3> QED BY <1>4, <3>1
  <2> QED BY <1>5, <1>6, <2>1 DEF IsSum, IsFold, n
<1>8. f = [i \in 0 .. Len(q) |-> IF i = 0 THEN 0 ELSE f[i - 1] + TotalSize(q[i])]
  BY <1>7 DEF IsSum
<1> DEFINE h == CHOOSE h : h = [i \in 0 .. Len(q) |->
                                  IF i = 0 THEN 0 ELSE h[i - 1] + TotalSize(q[i])]
<1>9. h = [i \in 0 .. Len(q) |-> IF i = 0 THEN 0 ELSE h[i - 1] + TotalSize(q[i])]
  BY <1>8
<1>10. SizeOf(q) = h[Len(q)]
  BY Zenon DEF SizeOf
<1> HIDE DEF h
<1>11. \A k \in 0 .. n : h[k] = f[k]
  <2> DEFINE S == {k \in 0 .. n : h[k] = f[k]}
  <2>1. 0 \in S
    BY <1>1, <1>7, <1>9 DEF IsSum, n
  <2>2. ASSUME NEW k \in 1 .. n, k - 1 \in S PROVE k \in S
    BY <1>1, <1>7, <1>9, <2>2 DEF IsSum, n
  <2> HIDE DEF S
  <2>3. \A k \in 0 .. n : k \in S
    BY <1>1, <2>1, <2>2, UpTo
  <2> QED BY <2>3 DEF S
<1>12. SizeOf(q) = f[Len(q)]
  BY <1>1, <1>10, <1>11 DEF n
<1> QED BY <1>7, <1>12

(* The first n messages of p are those of q from place d on.               *)
Within(p, q, d, n) ==
  /\ n <= Len(p) /\ n + d <= Len(q)
  /\ \A i \in 1 .. n : p[i] = q[i + d]

(* Then their sizes are the same.                                          *)
LEMMA SumShift ==
  ASSUME NEW p \in Seq(Message), NEW q \in Seq(Message), NEW f, NEW g,
         IsSum(f, p), IsSum(g, q), NEW d \in Nat, NEW n \in Nat, Within(p, q, d, n)
  PROVE  g[n + d] = g[d] + f[n]
<1> DEFINE S == {k \in 0 .. n : g[k + d] = g[d] + f[k]}
<1> USE DEF Within
<1>1. 0 \in S
  <2>1. d \in 0 .. Len(q) /\ 0 + d = d
    OBVIOUS
  <2>2. g[d] \in Nat /\ f[0] = 0
    BY <2>1 DEF IsSum
  <2> QED BY <2>1, <2>2
<1>2. ASSUME NEW k \in 1 .. n, k - 1 \in S PROVE k \in S
  <2>1. k \in 1 .. Len(p) /\ k + d \in 1 .. Len(q) /\ (k + d) - 1 = (k - 1) + d
    OBVIOUS
  <2>2. f[k] = f[k - 1] + TotalSize(p[k]) /\ g[k + d] = g[(k - 1) + d] + TotalSize(q[k + d])
    BY <2>1 DEF IsSum
  <2>3. g[(k - 1) + d] = g[d] + f[k - 1] /\ p[k] = q[k + d]
    BY <1>2
  <2>4. g[d] \in Nat /\ f[k - 1] \in Nat /\ TotalSize(p[k]) \in Nat
    <3>1. d \in 0 .. Len(q) /\ k - 1 \in 0 .. Len(p) /\ p[k] \in Message
      BY <2>1
    <3> QED BY <3>1, SizeType DEF IsSum
  <2> QED BY <2>2, <2>3, <2>4
<1> HIDE DEF S
<1>3. \A k \in 0 .. n : k \in S
  BY <1>1, <1>2, UpTo
<1> QED BY <1>3 DEF S

(* nSendSize follows the queue: nothing in it, one message more, one less. *)
LEMMA SizeOfQueue ==
  ASSUME NEW q \in Seq(Message)
  PROVE  /\ SizeOf(q) \in Nat
         /\ q = <<>> => SizeOf(q) = 0
         /\ \A m \in Message : SizeOf(Append(q, m)) = SizeOf(q) + TotalSize(m)
         /\ q # <<>> => SizeOf(Tail(q)) = SizeOf(q) - TotalSize(Head(q))
<1>1. PICK f : IsSum(f, q) /\ SizeOf(q) = f[Len(q)]
  BY SizeOfSum
<1>2. SizeOf(q) \in Nat /\ (q = <<>> => SizeOf(q) = 0)
  BY <1>1 DEF IsSum
<1>3. ASSUME NEW m \in Message PROVE SizeOf(Append(q, m)) = SizeOf(q) + TotalSize(m)
  <2> DEFINE r == Append(q, m)
  <2>1. /\ r \in Seq(Message) /\ Len(r) = Len(q) + 1 /\ r[Len(r)] = m
        /\ Within(q, r, 0, Len(q))
    BY DEF Within
  <2> HIDE DEF r
  <2>2. PICK g : IsSum(g, r) /\ SizeOf(r) = g[Len(r)]
    BY <2>1, SizeOfSum
  <2>3. g[Len(q) + 0] = g[0] + f[Len(q)]
    <3>1. 0 \in Nat /\ Len(q) \in Nat
      OBVIOUS
    <3> QED BY <1>1, <2>1, <2>2, <3>1, SumShift
  <2>4. g[0] = 0 /\ g[Len(r)] = g[Len(q)] + TotalSize(m)
    BY <2>1, <2>2 DEF IsSum
  <2>5. SizeOf(r) = SizeOf(q) + TotalSize(m)
    BY <1>1, <1>2, <2>2, <2>3, <2>4
  <2> QED BY <2>5 DEF r
<1>4. ASSUME q # <<>> PROVE SizeOf(Tail(q)) = SizeOf(q) - TotalSize(Head(q))
  <2> DEFINE r == Tail(q)
  <2>1. /\ r \in Seq(Message) /\ Len(r) + 1 = Len(q) /\ Head(q) = q[1] /\ q[1] \in Message
        /\ Within(r, q, 1, Len(r))
    BY <1>4 DEF Within
  <2> HIDE DEF r
  <2>2. PICK g : IsSum(g, r) /\ SizeOf(r) = g[Len(r)]
    BY <2>1, SizeOfSum
  <2>3. f[Len(r) + 1] = f[1] + g[Len(r)]
    <3>1. 1 \in Nat /\ Len(r) \in Nat
      BY <2>1
    <3> QED BY <1>1, <2>1, <2>2, <3>1, SumShift
  <2>4. f[1] = TotalSize(q[1]) /\ g[Len(r)] \in Nat /\ TotalSize(q[1]) \in Nat
    <3>1. 1 \in 1 .. Len(q) /\ Len(r) \in 0 .. Len(r)
      BY <2>1
    <3>2. f[1] = f[1 - 1] + TotalSize(q[1]) /\ f[1 - 1] = 0 /\ g[Len(r)] \in Nat
      BY SMTT(40), <1>1, <2>2, <3>1 DEF IsSum
    <3> QED BY <2>1, <3>2, SizeType
  <2>5. SizeOf(r) = SizeOf(q) - TotalSize(Head(q))
    BY <1>1, <2>1, <2>2, <2>3, <2>4
  <2> QED BY <2>5 DEF r
<1> QED BY <1>2, <1>3, <1>4

(* f[k] are the answers to the first k messages of s.                      *)
IsAnswers(f, s) ==
  /\ f \in [0 .. Len(s) -> Seq(Message)]
  /\ f[0] = <<>>
  /\ \A k \in 1 .. Len(s) : f[k] = f[k - 1] \o Items[s[k]]

(* The recursion of Answers has a value.                                   *)
LEMMA AnswersUpTo ==
  ASSUME NEW s \in Seq(Message)
  PROVE  \E f : IsAnswers(f, s) /\ Answers(s) = f[Len(s)]
<1> DEFINE n == Len(s)
           X == Seq(Message)
           g == [k \in 1 .. n |-> [x \in X |-> x \o Items[s[k]]]]
<1>1. n \in Nat /\ \A k \in 1 .. n : s[k] \in Message
  OBVIOUS
<1>2. \A k \in 1 .. n : Items[s[k]] \in Seq(Message)
  BY <1>1, StreamAssumption
<1>3. g \in [1 .. n -> [X -> X]] /\ <<>> \in X
  BY <1>2
<1>4. \A k \in 1 .. n, x \in X : g[k][x] = x \o Items[s[k]]
  OBVIOUS
<1>5. X = Seq(Message)
  OBVIOUS
<1> HIDE DEF g, n, X
<1>6. PICK f : IsFold(f, n, X, <<>>, g)
  BY <1>1, <1>3, FoldRecursion
<1>7. IsAnswers(f, s)
  <2>1. ASSUME NEW k \in 1 .. n PROVE f[k] = f[k - 1] \o Items[s[k]]
    <3>1. f[k - 1] \in X /\ f[k] = g[k][f[k - 1]]
      BY <1>1, <1>6 DEF IsFold
    <3> QED BY <1>4, <3>1
  <2> QED BY <1>5, <1>6, <2>1 DEF IsAnswers, IsFold, n
<1>8. f = [i \in 0 .. Len(s) |-> IF i = 0 THEN <<>> ELSE f[i - 1] \o Items[s[i]]]
  BY SMTT(40), <1>7 DEF IsAnswers
<1> DEFINE h == CHOOSE h : h = [i \in 0 .. Len(s) |->
                                  IF i = 0 THEN <<>> ELSE h[i - 1] \o Items[s[i]]]
<1>9. h = [i \in 0 .. Len(s) |-> IF i = 0 THEN <<>> ELSE h[i - 1] \o Items[s[i]]]
  BY <1>8
<1>10. Answers(s) = h[Len(s)]
  BY Zenon DEF Answers
<1> HIDE DEF h
<1>11. h = f
  <2> DEFINE S == {k \in 0 .. n : h[k] = f[k]}
  <2>1. 0 \in S
    BY <1>1, <1>7, <1>9 DEF IsAnswers, n
  <2>2. ASSUME NEW k \in 1 .. n, k - 1 \in S PROVE k \in S
    <3>1. h[k] = h[k - 1] \o Items[s[k]] /\ f[k] = f[k - 1] \o Items[s[k]]
      <4>1. k \in 1 .. Len(s) /\ k \in 0 .. Len(s) /\ k # 0
        BY <1>1 DEF n
      <4>2. h[k] = h[k - 1] \o Items[s[k]]
        BY <1>9, <4>1, Zenon
      <4>3. f[k] = f[k - 1] \o Items[s[k]]
        BY <1>7, <4>1 DEF IsAnswers
      <4> QED BY <4>2, <4>3
    <3>2. h[k - 1] = f[k - 1] /\ k \in 0 .. n
      BY <1>1, <2>2
    <3> QED BY <3>1, <3>2
  <2> HIDE DEF S
  <2>3. \A k \in 0 .. n : k \in S
    BY <1>1, <2>1, <2>2, UpTo
  <2>4. \A k \in 0 .. n : h[k] = f[k]
    BY <2>3 DEF S
  <2>5. DOMAIN h = 0 .. n /\ DOMAIN f = 0 .. n
    BY <1>7, <1>9 DEF IsAnswers, n
  <2>6. f = [k \in 0 .. n |-> f[k]] /\ h = [k \in 0 .. n |-> h[k]]
    BY <1>7, <1>9, <2>5 DEF IsAnswers, n
  <2> QED BY <2>4, <2>6
<1> QED BY <1>7, <1>10, <1>11

(* A message more adds its answers.                                        *)
LEMMA AnswersAppend ==
  ASSUME NEW s \in Seq(Message)
  PROVE  /\ Answers(s) \in Seq(Message)
         /\ s = <<>> => Answers(s) = <<>>
         /\ \A m \in Message : Answers(Append(s, m)) = Answers(s) \o Items[m]
<1>1. PICK f : IsAnswers(f, s) /\ Answers(s) = f[Len(s)]
  BY AnswersUpTo
<1>2. Answers(s) \in Seq(Message) /\ (s = <<>> => Answers(s) = <<>>)
  <2>1. Len(s) \in 0 .. Len(s) /\ (s = <<>> => Len(s) = 0)
    OBVIOUS
  <2> QED BY <1>1, <2>1 DEF IsAnswers
<1>3. ASSUME NEW m \in Message PROVE Answers(Append(s, m)) = Answers(s) \o Items[m]
  <2> DEFINE r == Append(s, m)
  <2>1. /\ r \in Seq(Message) /\ Len(r) = Len(s) + 1 /\ r[Len(s) + 1] = m
        /\ \A i \in 1 .. Len(s) : r[i] = s[i]
    OBVIOUS
  <2> HIDE DEF r
  <2>2. PICK g : IsAnswers(g, r) /\ Answers(r) = g[Len(r)]
    BY <2>1, AnswersUpTo
  <2>3. g[Len(s)] = f[Len(s)]
    <3> DEFINE S == {k \in 0 .. Len(s) : g[k] = f[k]}
               n == Len(s)
    <3>0. n \in Nat
      OBVIOUS
    <3>1. 0 \in S
      BY <1>1, <2>2 DEF IsAnswers
    <3>2. ASSUME NEW k \in 1 .. n, k - 1 \in S PROVE k \in S
      <4>1. k \in 1 .. Len(r) /\ k \in 1 .. Len(s)
        BY <2>1
      <4>2. g[k] = g[k - 1] \o Items[r[k]] /\ f[k] = f[k - 1] \o Items[s[k]]
        BY <1>1, <2>2, <4>1 DEF IsAnswers
      <4>3. g[k - 1] = f[k - 1] /\ r[k] = s[k] /\ k \in 0 .. n
        BY <2>1, <3>2, <4>1
      <4> QED BY <4>2, <4>3
    <3>3. n \in 0 .. n
      OBVIOUS
    <3> HIDE DEF S, n
    <3>4. \A k \in 0 .. n : k \in S
      BY <3>0, <3>1, <3>2, UpTo
    <3>5. n \in S
      BY <3>3, <3>4
    <3> QED BY <3>5 DEF S, n
  <2>4. g[Len(s) + 1] = g[(Len(s) + 1) - 1] \o Items[r[Len(s) + 1]]
    <3>1. Len(s) + 1 \in 1 .. Len(r)
      BY <2>1
    <3> QED BY <2>2, <3>1 DEF IsAnswers
  <2>5. (Len(s) + 1) - 1 = Len(s)
    OBVIOUS
  <2>6. Answers(r) = Answers(s) \o Items[m]
    BY <1>1, <2>1, <2>2, <2>3, <2>4, <2>5
  <2> QED BY <2>6 DEF r
<1> QED BY <1>2, <1>3

-----------------------------------------------------------------------------
(* Writing *)

SendType == [vSendMsg : Seq(Message), nSendOffset : Nat, nSendSize : Nat,
             pipe : Seq(ByteType), sent : Seq(Message)]

(* The queue is the end of what was sent; its counters are exact.          *)
Queue(s) ==
  /\ s \in SendType
  /\ Len(s.pipe) <= Pipe
  /\ Len(s.vSendMsg) <= Len(s.sent)
  /\ \A j \in 1 .. Len(s.vSendMsg) :
       s.vSendMsg[j] = s.sent[Len(s.sent) - Len(s.vSendMsg) + j]
  /\ s.nSendSize = SizeOf(s.vSendMsg)
  /\ s.vSendMsg = <<>> => s.nSendOffset = 0
  /\ s.vSendMsg # <<>> => s.nSendOffset < TotalSize(Head(s.vSendMsg))

(* Byte j of the socket is the one at its cursor; the next cursor follows. *)
Carries(p, S, ci, ck, j) ==
  /\ ci[j] \in 1 .. Len(S)
  /\ ck[j] < TotalSize(S[ci[j]])
  /\ p[j] = <<S[ci[j]], ck[j] + 1>>
  /\ ck[j] + 1 = TotalSize(S[ci[j]]) => ci[j + 1] = ci[j] + 1 /\ ck[j + 1] = 0
  /\ ck[j] + 1 # TotalSize(S[ci[j]]) => ci[j + 1] = ci[j] /\ ck[j + 1] = ck[j] + 1

(* The bytes of the socket lead from the first cursor to the last.         *)
InTransit(p, S, ci, ck) ==
  /\ ci \in [1 .. Len(p) + 1 -> Nat]
  /\ ck \in [1 .. Len(p) + 1 -> Nat]
  /\ \A j \in 1 .. Len(p) : Carries(p, S, ci, ck, j)

(* They lead to the byte that is to be written next.                       *)
Linked(s, ci, ck) ==
  /\ InTransit(s.pipe, s.sent, ci, ck)
  /\ ci[Len(s.pipe) + 1] = Len(s.sent) - Len(s.vSendMsg) + 1
  /\ ck[Len(s.pipe) + 1] = s.nSendOffset

LinkedFrom(s, i, k) == \E ci, ck : Linked(s, ci, ck) /\ ci[1] = i /\ ck[1] = k

(* T continues S.                                                          *)
Continues(T, S) ==
  /\ T \in Seq(Message) /\ S \in Seq(Message)
  /\ Len(S) <= Len(T)
  /\ \A i \in 1 .. Len(S) : T[i] = S[i]

(* What is sent later does not matter to the bytes that are on their way.  *)
LEMMA InTransitGrows ==
  ASSUME NEW p \in Seq(ByteType), NEW S, NEW T, Continues(T, S), NEW ci, NEW ck,
         InTransit(p, S, ci, ck)
  PROVE  InTransit(p, T, ci, ck)
<1>1. ASSUME NEW j \in 1 .. Len(p) PROVE Carries(p, T, ci, ck, j)
  <2>1. Carries(p, S, ci, ck, j)
    BY DEF InTransit
  <2>2. ci[j] \in 1 .. Len(T) /\ T[ci[j]] = S[ci[j]]
    BY <2>1 DEF Carries, Continues
  <2> QED BY <2>1, <2>2 DEF Carries
<1> QED BY <1>1 DEF InTransit

(* The bytes of a message.                                                 *)
LEMMA BytesOf ==
  ASSUME NEW m \in Message, NEW o \in Nat, NEW n \in Nat, o + n <= TotalSize(m)
  PROVE  \E D \in Seq(ByteType) :
           /\ D = SubSeq(Bytes(m), o + 1, o + n)
           /\ Len(D) = n
           /\ \A j \in 1 .. n : D[j] = <<m, o + j>>
<1> DEFINE B == Bytes(m)
<1>0. TotalSize(m) \in Nat
  BY SizeType
<1>1. B \in Seq(ByteType) /\ Len(B) = TotalSize(m)
  BY <1>0 DEF Bytes, ByteType
<1>2. \A k \in 1 .. TotalSize(m) : B[k] = <<m, k>>
  BY DEF Bytes
<1> HIDE DEF B
<1> DEFINE D == SubSeq(B, o + 1, o + n)
<1>3. D \in Seq(ByteType) /\ Len(D) = n /\ \A j \in 1 .. n : D[j] = B[(o + 1) + j - 1]
  BY <1>0, <1>1
<1>4. \A j \in 1 .. n : (o + 1) + j - 1 = o + j /\ o + j \in 1 .. TotalSize(m)
  BY <1>0
<1>5. \A j \in 1 .. n : D[j] = <<m, o + j>>
  BY <1>2, <1>3, <1>4
<1> QED BY <1>3, <1>5 DEF B

(* n bytes of the first message of s are written, as D, and the result is t. *)
Writes(s, m, n, D, t) ==
  /\ m = Head(s.vSendMsg) /\ m = s.sent[Len(s.sent) - Len(s.vSendMsg) + 1]
  /\ m \in Message
  /\ n \in Nat /\ s.nSendOffset + n <= TotalSize(m) /\ Len(s.pipe) + n <= Pipe
  /\ D \in Seq(ByteType) /\ Len(D) = n
  /\ \A j \in 1 .. n : D[j] = <<m, s.nSendOffset + j>>
  /\ t.pipe = s.pipe \o D
  /\ t.sent = s.sent
  /\ s.nSendOffset + n = TotalSize(m) =>
       t.vSendMsg = Tail(s.vSendMsg) /\ t.nSendOffset = 0
         /\ t.nSendSize = s.nSendSize - TotalSize(m)
  /\ s.nSendOffset + n # TotalSize(m) =>
       t.vSendMsg = s.vSendMsg /\ t.nSendOffset = s.nSendOffset + n
         /\ t.nSendSize = s.nSendSize

(* That is what SendOne does.                                              *)
LEMMA SendOneWrites ==
  ASSUME NEW s, Queue(s), s.vSendMsg # <<>>
  PROVE  \E m, n, D : /\ Writes(s, m, n, D, SendOne(s))
                      /\ SendOne(s) = [vSendMsg |-> SendOne(s).vSendMsg,
                                       nSendOffset |-> SendOne(s).nSendOffset,
                                       nSendSize |-> SendOne(s).nSendSize,
                                       pipe |-> SendOne(s).pipe,
                                       sent |-> SendOne(s).sent]
<1> DEFINE m == Head(s.vSendMsg)
           a == Pipe - Len(s.pipe)
           b == TotalSize(m) - s.nSendOffset
           n == Min({a, b})
           D == SubSeq(Bytes(m), s.nSendOffset + 1, s.nSendOffset + n)
<1>1. /\ s.vSendMsg \in Seq(Message) /\ s.sent \in Seq(Message) /\ s.pipe \in Seq(ByteType)
      /\ s.nSendOffset \in Nat /\ s.nSendSize \in Nat
  BY DEF Queue, SendType
<1>2. m \in Message /\ m = s.sent[Len(s.sent) - Len(s.vSendMsg) + 1]
  <2>1. 1 \in 1 .. Len(s.vSendMsg) /\ m = s.vSendMsg[1]
    BY <1>1
  <2>2. s.vSendMsg[1] = s.sent[Len(s.sent) - Len(s.vSendMsg) + 1]
    BY <2>1 DEF Queue
  <2>3. s.vSendMsg[1] \in Message
    BY <1>1, <2>1
  <2> HIDE DEF m
  <2> QED BY <2>1, <2>2, <2>3
<1>3. TotalSize(m) \in Nat /\ Pipe \in Nat /\ s.nSendOffset < TotalSize(m)
  BY <1>2, SizeType, StreamAssumption DEF Queue
<1>4. a \in Nat /\ b \in Nat
  BY <1>1, <1>3 DEF Queue
<1>5. n \in Nat /\ n <= a /\ n <= b
  <2>1. a \in Int /\ b \in Int
    BY <1>4
  <2> HIDE DEF a, b
  <2>2. /\ Min({a, b}) \in Int /\ Min({a, b}) <= a /\ Min({a, b}) <= b
        /\ Min({a, b}) = a \/ Min({a, b}) = b
    BY <2>1, MinOfTwo
  <2> QED BY <1>4, <2>2
<1> HIDE DEF n
<1>6. s.nSendOffset + n <= TotalSize(m) /\ Len(s.pipe) + n <= Pipe
  BY <1>1, <1>3, <1>5
<1>7. D \in Seq(ByteType) /\ Len(D) = n /\ \A j \in 1 .. n : D[j] = <<m, s.nSendOffset + j>>
  <2> DEFINE o == s.nSendOffset
  <2>1. o \in Nat /\ o + n <= TotalSize(m)
    BY <1>1, <1>6
  <2> HIDE DEF m, o
  <2>2. \E E \in Seq(ByteType) :
           /\ E = SubSeq(Bytes(m), o + 1, o + n)
           /\ Len(E) = n
           /\ \A j \in 1 .. n : E[j] = <<m, o + j>>
    BY <1>2, <1>5, <2>1, BytesOf
  <2> QED BY <2>2 DEF o
<1> DEFINE whole == s.nSendOffset + n = TotalSize(m)
           t == [vSendMsg |-> IF whole THEN Tail(s.vSendMsg) ELSE s.vSendMsg,
                 nSendOffset |-> IF whole THEN 0 ELSE s.nSendOffset + n,
                 nSendSize |-> IF whole THEN s.nSendSize - TotalSize(m) ELSE s.nSendSize,
                 pipe |-> s.pipe \o D,
                 sent |-> s.sent]
<1>8. SendOne(s) = t
  BY DEF SendOne, n
<1>9. Writes(s, m, n, D, t)
  <2> HIDE DEF D, m
  <2> QED BY <1>2, <1>5, <1>6, <1>7 DEF Writes, m
<1> HIDE DEF m, D
<1>10. t = [vSendMsg |-> t.vSendMsg, nSendOffset |-> t.nSendOffset,
            nSendSize |-> t.nSendSize, pipe |-> t.pipe, sent |-> t.sent]
  OBVIOUS
<1> QED BY <1>8, <1>9, <1>10

(* A round of the loop leaves an exact queue.                              *)
LEMMA SendOneQueue ==
  ASSUME NEW s, Queue(s)
  PROVE  Queue(SendOne(s)) /\ SendOne(s).sent = s.sent
<1>1. CASE s.vSendMsg = <<>>
  BY <1>1 DEF SendOne
<1>2. CASE s.vSendMsg # <<>>
  <2> DEFINE t == SendOne(s)
             q == s.vSendMsg
  <2>1. PICK m, n, D : /\ Writes(s, m, n, D, t)
                       /\ t = [vSendMsg |-> t.vSendMsg, nSendOffset |-> t.nSendOffset,
                               nSendSize |-> t.nSendSize, pipe |-> t.pipe, sent |-> t.sent]
    BY <1>2, SendOneWrites
  <2> HIDE DEF t
  <2>2. /\ q \in Seq(Message) /\ s.sent \in Seq(Message) /\ s.pipe \in Seq(ByteType)
        /\ s.nSendOffset \in Nat /\ s.nSendSize \in Nat
    BY DEF Queue, SendType
  <2>3. m \in Message /\ m = Head(q) /\ TotalSize(m) \in Nat \ {0} /\ n \in Nat
    BY <2>1, SizeType DEF Writes
  <2>4. t.sent = s.sent
    BY <2>1 DEF Writes
  <2>5. t.pipe \in Seq(ByteType) /\ Len(t.pipe) <= Pipe
    <3>1. D \in Seq(ByteType) /\ Len(D) = n /\ t.pipe = s.pipe \o D /\ Len(s.pipe) + n <= Pipe
      BY <2>1 DEF Writes
    <3> HIDE DEF t
    <3>2. s.pipe \o D \in Seq(ByteType) /\ Len(s.pipe \o D) = Len(s.pipe) + Len(D)
      BY <2>2, <3>1, ConcatOf, ZenonT(60)
    <3> QED BY <3>1, <3>2, Zenon
  <2>6. CASE s.nSendOffset + n = TotalSize(m)
    <3>1. /\ t.vSendMsg = Tail(q) /\ t.nSendOffset = 0
          /\ t.nSendSize = s.nSendSize - TotalSize(m)
      BY <2>1, <2>6 DEF Writes
    <3> DEFINE r == Tail(q)
    <3>2. /\ r \in Seq(Message) /\ Len(r) + 1 = Len(q)
          /\ \A j \in 1 .. Len(r) : r[j] = q[j + 1] /\ j + 1 \in 1 .. Len(q)
      BY <1>2, <2>2, TailOf
    <3>3. t.nSendSize = SizeOf(r) /\ SizeOf(r) \in Nat
      BY <1>2, <2>2, <2>3, <3>1, <3>2, SizeOfQueue DEF Queue
    <3> HIDE DEF r
    <3>4. Len(r) <= Len(s.sent)
      BY <2>2, <3>2 DEF Queue
    <3>5. ASSUME NEW j \in 1 .. Len(r) PROVE r[j] = s.sent[Len(s.sent) - Len(r) + j]
      <4>1. q[j + 1] = s.sent[Len(s.sent) - Len(q) + (j + 1)]
        BY <3>2 DEF Queue
      <4>2. Len(s.sent) - Len(q) + (j + 1) = Len(s.sent) - Len(r) + j
        <5> DEFINE a == Len(s.sent)
                   b == Len(q)
                   c == Len(r)
        <5>1. a \in Nat /\ c \in Nat /\ b = c + 1 /\ j \in Nat
          BY <2>2, <3>2
        <5> HIDE DEF a, b, c
        <5>2. a - b + (j + 1) = a - c + j
          BY <5>1
        <5> QED BY <5>2 DEF a, b, c
      <4> QED BY <3>2, <4>1, <4>2
    <3>6. r # <<>> => 0 < TotalSize(Head(r))
      <4>1. SUFFICES ASSUME r # <<>> PROVE 0 < TotalSize(Head(r))
        OBVIOUS
      <4>2. Head(r) \in Message
        BY <3>2, <4>1
      <4> QED BY <4>2, SizeType
    <3>7. t.vSendMsg = r
      BY <3>1 DEF r
    <3>8. t \in SendType
      BY <2>1, <2>2, <2>4, <2>5, <3>1, <3>2, <3>3, <3>7 DEF SendType
    <3> QED BY <2>4, <2>5, <3>1, <3>3, <3>4, <3>5, <3>6, <3>7, <3>8 DEF Queue, t
  <2>7. CASE s.nSendOffset + n # TotalSize(m)
    <3>1. /\ t.vSendMsg = q /\ t.nSendOffset = s.nSendOffset + n
          /\ t.nSendSize = s.nSendSize
      BY <2>1, <2>7 DEF Writes
    <3>2. s.nSendOffset + n < TotalSize(Head(q))
      <4>1. s.nSendOffset + n <= TotalSize(m)
        BY <2>1 DEF Writes
      <4> DEFINE o == s.nSendOffset + n
      <4>2. o \in Nat /\ o <= TotalSize(m) /\ o # TotalSize(m)
        BY <2>2, <2>3, <2>7, <4>1
      <4> HIDE DEF o
      <4>3. o < TotalSize(m)
        BY <2>3, <4>2
      <4> QED BY <2>3, <4>3 DEF o
    <3>3. t \in SendType
      BY <2>1, <2>2, <2>3, <2>4, <2>5, <3>1 DEF SendType
    <3> QED BY <1>2, <2>4, <2>5, <3>1, <3>2, <3>3 DEF Queue, t
  <2> QED BY <2>6, <2>7
<1> QED BY <1>1, <1>2

(* The bytes that it writes follow those that are on their way.            *)
LEMMA SendOneLinked ==
  ASSUME NEW s, Queue(s), NEW ci, NEW ck, Linked(s, ci, ck)
  PROVE  LinkedFrom(SendOne(s), ci[1], ck[1])
<1>1. CASE s.vSendMsg = <<>>
  BY <1>1 DEF SendOne, LinkedFrom
<1>2. CASE s.vSendMsg # <<>>
  <2> DEFINE t == SendOne(s)
             q == s.vSendMsg
             S == s.sent
             p == s.pipe
             o == s.nSendOffset
             i0 == Len(S) - Len(q) + 1
             l == Len(p)
  <2>1. PICK m, n, D : Writes(s, m, n, D, t)
    BY <1>2, SendOneWrites
  <2> DEFINE di == [j \in 1 .. l + n + 1 |->
                      IF j <= l THEN ci[j]
                      ELSE IF o + (j - l - 1) = TotalSize(m) THEN i0 + 1 ELSE i0]
             dk == [j \in 1 .. l + n + 1 |->
                      IF j <= l THEN ck[j]
                      ELSE IF o + (j - l - 1) = TotalSize(m) THEN 0 ELSE o + (j - l - 1)]
  <2>2. /\ q \in Seq(Message) /\ S \in Seq(Message) /\ p \in Seq(ByteType) /\ o \in Nat
        /\ l \in Nat
    BY DEF Queue, SendType
  <2>3. /\ m \in Message /\ m = S[i0] /\ TotalSize(m) \in Nat \ {0} /\ n \in Nat
        /\ o + n <= TotalSize(m)
    BY <2>1, SizeType DEF Writes
  <2>4. o < TotalSize(m)
    BY <1>2, <2>1 DEF Queue, Writes
  <2>5. i0 \in 1 .. Len(S)
    <3>1. Len(q) \in Nat \ {0} /\ Len(S) \in Nat /\ Len(q) <= Len(S)
      BY <1>2, <2>2, TailOf DEF Queue
    <3> HIDE DEF q, S
    <3> QED BY <3>1
  <2>6. /\ D \in Seq(ByteType) /\ Len(D) = n /\ t.pipe = p \o D
        /\ \A j \in 1 .. n : D[j] = <<m, o + j>>
        /\ t.sent = S
    BY <2>1 DEF Writes
  <2>7. /\ Len(t.pipe) = l + n
        /\ \A j \in 1 .. l : t.pipe[j] = p[j]
        /\ \A j \in 1 .. n : t.pipe[l + j] = D[j]
    <3> HIDE DEF t, p
    <3>1. Len(p \o D) = Len(p) + Len(D)
      BY <2>2, <2>6, ConcatOf
    <3>2. \A j \in 1 .. Len(p) : (p \o D)[j] = p[j]
      BY <2>2, <2>6, ConcatOf
    <3>3. \A j \in 1 .. Len(D) : (p \o D)[Len(p) + j] = D[j]
      BY <2>2, <2>6, ConcatOf
    <3> QED BY <2>6, <3>1, <3>2, <3>3
  <2>8. /\ ci \in [1 .. l + 1 -> Nat] /\ ck \in [1 .. l + 1 -> Nat]
        /\ ci[l + 1] = i0 /\ ck[l + 1] = o
        /\ \A j \in 1 .. l : Carries(p, S, ci, ck, j)
    BY DEF Linked, InTransit
  <2>9. /\ o + n = TotalSize(m) => Len(t.vSendMsg) + 1 = Len(q) /\ t.nSendOffset = 0
        /\ o + n # TotalSize(m) => Len(t.vSendMsg) = Len(q) /\ t.nSendOffset = o + n
    <3>1. /\ o + n = TotalSize(m) => t.vSendMsg = Tail(q) /\ t.nSendOffset = 0
          /\ o + n # TotalSize(m) => t.vSendMsg = q /\ t.nSendOffset = o + n
      BY <2>1 DEF Writes
    <3> HIDE DEF t, q
    <3>2. Len(Tail(q)) + 1 = Len(q)
      BY <1>2, <2>2, TailOf DEF q
    <3> QED BY <3>1, <3>2
  <2>10. i0 \in Nat /\ i0 + 1 \in Nat /\ i0 = Len(S) - Len(q) + 1 /\ Len(S) \in Nat /\ Len(q) \in Nat
    BY <2>2, <2>5
  <2> HIDE DEF t, q, S, p, o, i0, l
  <2>11. di \in [1 .. l + n + 1 -> Nat] /\ dk \in [1 .. l + n + 1 -> Nat]
    BY SMTT(40), <2>2, <2>3, <2>8, <2>10
  <2>12. \A j \in 1 .. l + 1 : di[j] = ci[j] /\ dk[j] = ck[j]
    <3>1. ASSUME NEW j \in 1 .. l + 1 PROVE di[j] = ci[j] /\ dk[j] = ck[j]
      <4>1. CASE j <= l
        BY <2>2, <2>3, <4>1
      <4>2. CASE j = l + 1
        <5>1. ~(j <= l) /\ o + (j - l - 1) = o /\ o # TotalSize(m) /\ j \in 1 .. l + n + 1
          BY <2>2, <2>3, <2>4, <4>2
        <5>2. di[j] = i0 /\ dk[j] = o
          BY <5>1
        <5> QED BY <2>8, <4>2, <5>2
      <4> QED BY <2>2, <4>1, <4>2
    <3> QED BY <3>1
  <2>13. \A j \in l + 1 .. l + n :
           /\ di[j] = i0 /\ dk[j] = o + (j - l - 1)
           /\ o + (j - l) = TotalSize(m) => di[j + 1] = i0 + 1 /\ dk[j + 1] = 0
           /\ o + (j - l) # TotalSize(m) => di[j + 1] = i0 /\ dk[j + 1] = o + (j - l)
    BY <2>2, <2>3, <2>4
  <2>14. /\ o + n = TotalSize(m) => di[l + n + 1] = i0 + 1 /\ dk[l + n + 1] = 0
         /\ o + n # TotalSize(m) => di[l + n + 1] = i0 /\ dk[l + n + 1] = o + n
    BY <2>2, <2>3, <2>4
  <2>15. di[1] = ci[1] /\ dk[1] = ck[1]
    <3>1. 1 \in 1 .. l + 1
      BY <2>2
    <3> HIDE DEF di, dk
    <3> QED BY <2>12, <3>1
  <2> HIDE DEF di, dk
  <2>16. ASSUME NEW j \in 1 .. l PROVE Carries(t.pipe, S, di, dk, j)
    <3>1. /\ di[j] = ci[j] /\ dk[j] = ck[j] /\ di[j + 1] = ci[j + 1] /\ dk[j + 1] = ck[j + 1]
          /\ t.pipe[j] = p[j]
      BY <2>2, <2>7, <2>12
    <3>2. Carries(p, S, ci, ck, j)
      BY <2>8
    <3> QED BY <3>1, <3>2 DEF Carries
  <2>17. ASSUME NEW j \in l + 1 .. l + n PROVE Carries(t.pipe, S, di, dk, j)
    <3>1. j - l \in 1 .. n /\ l + (j - l) = j
      BY <2>2, <2>3
    <3>2. t.pipe[j] = <<m, o + (j - l)>>
      BY <2>6, <2>7, <3>1
    <3>3. di[j] = i0 /\ S[di[j]] = m /\ di[j] \in 1 .. Len(S)
      BY <2>3, <2>5, <2>13
    <3>4. dk[j] + 1 = o + (j - l) /\ dk[j] < TotalSize(m)
      BY <2>2, <2>3, <2>13, <3>1
    <3> QED BY <2>13, <3>2, <3>3, <3>4 DEF Carries
  <2>18. InTransit(t.pipe, S, di, dk)
    <3>1. ASSUME NEW j \in 1 .. l + n PROVE Carries(t.pipe, S, di, dk, j)
      BY <2>2, <2>3, <2>16, <2>17
    <3> QED BY <2>7, <2>11, <3>1 DEF InTransit
  <2>19. di[Len(t.pipe) + 1] = Len(t.sent) - Len(t.vSendMsg) + 1
    <3>1. CASE o + n = TotalSize(m)
      <4>1. Len(t.vSendMsg) + 1 = Len(q) /\ di[l + n + 1] = i0 + 1 /\ Len(t.vSendMsg) \in Nat
        BY <1>2, <2>1, <2>2, <2>9, <2>14, <3>1, TailOf DEF Writes, q, o
      <4> DEFINE a == Len(S)
                 b == Len(q)
                 c == Len(t.vSendMsg)
      <4>2. a \in Nat /\ b \in Nat /\ c \in Nat /\ c + 1 = b /\ i0 = a - b + 1
        BY <2>10, <4>1
      <4> HIDE DEF a, b, c
      <4>3. i0 + 1 = a - c + 1
        BY <4>2
      <4> QED BY <2>6, <2>7, <4>1, <4>3 DEF a, c
    <3>2. CASE o + n # TotalSize(m)
      BY <2>6, <2>7, <2>9, <2>10, <2>14, <3>2
    <3> QED BY <3>1, <3>2
  <2>20. dk[Len(t.pipe) + 1] = t.nSendOffset
    BY <2>7, <2>9, <2>14
  <2>21. Linked(t, di, dk)
    BY <2>6, <2>18, <2>19, <2>20 DEF Linked
  <2> QED BY <2>15, <2>21 DEF LinkedFrom, t
<1> QED BY <1>1, <1>2

(* A sender that has sent S, and whose bytes, if linked, start at <<i, k>>. *)
Senders(S, i, k, linked) ==
  {s \in SendType : Queue(s) /\ s.sent = S /\ (linked => LinkedFrom(s, i, k))}

(* It stays one, round by round.                                           *)
LEMMA SendOneOk ==
  ASSUME NEW S, NEW i, NEW k, NEW linked, NEW s \in Senders(S, i, k, linked)
  PROVE  SendOne(s) \in Senders(S, i, k, linked)
<1>1. Queue(s) /\ s.sent = S /\ (linked => LinkedFrom(s, i, k))
  BY DEF Senders
<1>2. Queue(SendOne(s)) /\ SendOne(s).sent = S
  BY <1>1, SendOneQueue
<1>3. ASSUME linked PROVE LinkedFrom(SendOne(s), i, k)
  <2>1. PICK ci, ck : Linked(s, ci, ck) /\ ci[1] = i /\ ck[1] = k
    BY <1>1, <1>3 DEF LinkedFrom
  <2> QED BY <1>1, <2>1, SendOneLinked
<1>4. SendOne(s) \in SendType
  BY <1>2 DEF Queue
<1> QED BY <1>2, <1>3, <1>4 DEF Senders

(* And so after the loop, whatever the socket takes.                       *)
LEMMA SocketSendOk ==
  ASSUME NEW S, NEW i, NEW k, NEW linked, NEW s \in Senders(S, i, k, linked)
  PROVE  SocketSendData(s) \in Senders(S, i, k, linked)
<1> DEFINE n == Len(s.vSendMsg)
           X == Senders(S, i, k, linked)
           g == [r \in 1 .. n |-> [x \in X |-> SendOne(x)]]
<1>1. n \in Nat
  BY DEF Senders, SendType
<1>2. s \in X /\ \A x \in X : SendOne(x) \in X
  BY SendOneOk
<1> HIDE DEF X, n
<1>3. g \in [1 .. n -> [X -> X]]
  BY <1>2
<1>4. \A r \in 1 .. n, x \in X : g[r][x] = SendOne(x)
  OBVIOUS
<1> HIDE DEF g
<1>5. PICK f : IsFold(f, n, X, s, g)
  BY <1>1, <1>2, <1>3, FoldRecursion
<1>6. f = [r \in 0 .. n |-> IF r = 0 THEN s ELSE SendOne(f[r - 1])]
  <2>1. ASSUME NEW r \in 1 .. n PROVE f[r] = SendOne(f[r - 1])
    <3>1. f[r - 1] \in X /\ f[r] = g[r][f[r - 1]]
      BY <1>1, <1>5 DEF IsFold
    <3> QED BY <1>4, <3>1
  <2>2. f \in [0 .. n -> X] /\ f[0] = s
    BY <1>5 DEF IsFold
  <2>3. \A r \in 0 .. n : f[r] = IF r = 0 THEN s ELSE SendOne(f[r - 1])
    <3>1. \A r \in 0 .. n : r = 0 \/ r \in 1 .. n
      BY <1>1
    <3> QED BY <2>1, <2>2, <3>1, Zenon
  <2> QED BY <2>2, <2>3
<1> DEFINE h == CHOOSE h : h = [r \in 0 .. n |-> IF r = 0 THEN s ELSE SendOne(h[r - 1])]
<1>7. h = [r \in 0 .. n |-> IF r = 0 THEN s ELSE SendOne(h[r - 1])]
  BY <1>6
<1>8. SocketSendData(s) = h[n]
  BY Zenon DEF SocketSendData, n
<1> HIDE DEF h
<1>9. \A r \in 0 .. n : h[r] \in X
  <2> DEFINE G == {r \in 0 .. n : h[r] \in X}
  <2>1. 0 \in G
    BY <1>1, <1>2, <1>7
  <2>2. ASSUME NEW r \in 1 .. n, r - 1 \in G PROVE r \in G
    <3>1. r \in 0 .. n /\ r # 0 /\ h[r - 1] \in X
      BY <1>1, <2>2
    <3>2. h[r] = SendOne(h[r - 1])
      BY <1>7, <3>1, Zenon
    <3> QED BY <1>2, <3>1, <3>2
  <2> HIDE DEF G
  <2>3. \A r \in 0 .. n : r \in G
    BY <1>1, <2>1, <2>2, UpTo
  <2> QED BY <2>3 DEF G
<1>10. n \in 0 .. n
  BY <1>1
<1> QED BY <1>8, <1>9, <1>10 DEF X

(* A message more is at the end of both the queue and what was sent.       *)
LEMMA QueuedOk ==
  ASSUME NEW S, NEW i, NEW k, NEW linked, NEW s \in Senders(S, i, k, linked),
         NEW m \in Message
  PROVE  Queued(s, m) \in Senders(Append(S, m), i, k, linked)
<1> DEFINE t == Queued(s, m)
           q == s.vSendMsg
           r == Append(q, m)
           T == Append(S, m)
<1>1. Queue(s) /\ s.sent = S /\ (linked => LinkedFrom(s, i, k))
  BY DEF Senders
<1>2. /\ q \in Seq(Message) /\ S \in Seq(Message) /\ s.pipe \in Seq(ByteType)
      /\ s.nSendOffset \in Nat /\ s.nSendSize \in Nat
  BY <1>1 DEF Queue, SendType
<1>3. /\ t.vSendMsg = r /\ t.sent = T /\ t.pipe = s.pipe
      /\ t.nSendOffset = s.nSendOffset /\ t.nSendSize = s.nSendSize + TotalSize(m)
  BY <1>1 DEF Queued
<1>4. TotalSize(m) \in Nat \ {0}
  BY SizeType
<1>5. t \in SendType
  BY <1>1, <1>2, <1>4 DEF Queued, SendType
<1> HIDE DEF t
<1>6. /\ r \in Seq(Message) /\ Len(r) = Len(q) + 1 /\ r[Len(q) + 1] = m
      /\ Len(q) \in Nat /\ r # <<>>
      /\ \A j \in 1 .. Len(q) : r[j] = q[j]
  <2> HIDE DEF q
  <2> QED BY <1>2
<1>7. /\ T \in Seq(Message) /\ Len(T) = Len(S) + 1 /\ T[Len(S) + 1] = m
      /\ Len(S) \in Nat
      /\ \A j \in 1 .. Len(S) : T[j] = S[j]
  BY <1>2
<1>8. Len(q) <= Len(S) /\ \A j \in 1 .. Len(q) : q[j] = S[Len(S) - Len(q) + j]
  BY <1>1 DEF Queue
<1>9. Head(r) = IF q = <<>> THEN m ELSE Head(q)
  <2> HIDE DEF q
  <2> QED BY <1>2
<1>10. SizeOf(r) = SizeOf(q) + TotalSize(m)
  BY <1>2, SizeOfQueue
<1>11. /\ q = <<>> => s.nSendOffset = 0
       /\ q # <<>> => s.nSendOffset < TotalSize(Head(q))
       /\ s.nSendSize = SizeOf(q)
  BY <1>1 DEF Queue
<1> HIDE DEF q, r, T
<1>12. ASSUME NEW j \in 1 .. Len(r) PROVE r[j] = T[Len(T) - Len(r) + j]
  <2>1. Len(T) - Len(r) + j = Len(S) - Len(q) + j
    BY <1>6, <1>7
  <2>2. CASE j \in 1 .. Len(q)
    <3>1. Len(S) - Len(q) + j \in 1 .. Len(S)
      BY <1>6, <1>7, <1>8, <2>2
    <3> QED BY <1>6, <1>7, <1>8, <2>1, <2>2, <3>1
  <2>3. CASE j = Len(q) + 1
    <3>1. Len(S) - Len(q) + j = Len(S) + 1
      BY <1>6, <1>7, <2>3
    <3> QED BY <1>6, <1>7, <2>1, <2>3, <3>1
  <2> QED BY <1>6, <2>2, <2>3
<1>13. s.nSendOffset < TotalSize(Head(r))
  BY <1>4, <1>9, <1>11
<1>14. Queue(t)
  <2>1. Len(r) <= Len(T)
    BY <1>6, <1>7, <1>8
  <2>2. Len(t.pipe) <= Pipe
    BY <1>1, <1>3 DEF Queue
  <2> QED BY <1>3, <1>5, <1>6, <1>10, <1>11, <1>12, <1>13, <2>1, <2>2 DEF Queue
<1>15. ASSUME linked PROVE LinkedFrom(t, i, k)
  <2>1. PICK ci, ck : Linked(s, ci, ck) /\ ci[1] = i /\ ck[1] = k
    BY <1>1, <1>15 DEF LinkedFrom
  <2>2. Continues(T, S)
    BY <1>2, <1>7 DEF Continues
  <2>3. InTransit(s.pipe, S, ci, ck)
    BY <1>1, <2>1 DEF Linked
  <2>4. InTransit(s.pipe, T, ci, ck)
    BY <1>2, <2>2, <2>3, InTransitGrows
  <2>5. Len(T) - Len(r) + 1 = Len(S) - Len(q) + 1
    BY <1>6, <1>7
  <2>6. Linked(t, ci, ck)
    BY <1>1, <1>3, <2>1, <2>4, <2>5 DEF Linked, q
  <2> QED BY <2>1, <2>6 DEF LinkedFrom
<1> QED BY <1>3, <1>5, <1>14, <1>15 DEF Senders, T, t

(* PushMessage, whether it writes or not.                                  *)
LEMMA PushOk ==
  ASSUME NEW S, NEW i, NEW k, NEW linked, NEW s \in Senders(S, i, k, linked),
         NEW m \in Message
  PROVE  PushMessage(s, m) \in Senders(Append(S, m), i, k, linked)
<1>1. Queued(s, m) \in Senders(Append(S, m), i, k, linked)
  BY QueuedOk
<1>2. SocketSendData(Queued(s, m)) \in Senders(Append(S, m), i, k, linked)
  BY <1>1, SocketSendOk
<1> QED BY <1>1, <1>2 DEF PushMessage

-----------------------------------------------------------------------------
(* Reading *)

(* msg are the first t bytes of m.                                         *)
IsPart(msg, m, t) ==
  /\ msg \in MessageType
  /\ Len(msg.hdr) = IF t < HeaderSize THEN t ELSE HeaderSize
  /\ Len(msg.vRecv) = IF t < HeaderSize THEN 0 ELSE t - HeaderSize
  /\ \A k \in 1 .. Len(msg.hdr) : msg.hdr[k] = <<m, k>>
  /\ \A k \in 1 .. Len(msg.vRecv) : msg.vRecv[k] = <<m, HeaderSize + k>>

(* The messages after the h-th are in v, up to byte k of the i-th.         *)
Received(v, S, h, i, k) ==
  /\ v \in Seq(MessageType)
  /\ i \in Nat /\ k \in Nat /\ h < i
  /\ h + Len(v) <= Len(S)
  /\ k = 0 => i = h + Len(v) + 1
  /\ k # 0 => i = h + Len(v) /\ k < TotalSize(S[i])
  /\ \A j \in 1 .. Len(v) : h + j < i => IsPart(v[j], S[h + j], TotalSize(S[h + j]))
  /\ \A j \in 1 .. Len(v) : h + j = i => IsPart(v[j], S[i], k)

(* Nothing of a message.                                                   *)
LEMMA NothingRead == ASSUME NEW m \in Message PROVE IsPart(NewMessage, m, 0)
<1>1. HeaderSize \in Nat \ {0}
  BY SizeType
<1>2. NewMessage.hdr = <<>> /\ NewMessage.vRecv = <<>> /\ NewMessage \in MessageType
  BY DEF NewMessage, MessageType
<1> QED BY <1>1, <1>2 DEF IsPart

(* complete() is true of a whole message, and only then.                   *)
LEMMA PartComplete ==
  ASSUME NEW m \in Message, NEW t \in 1 .. TotalSize(m), NEW msg, IsPart(msg, m, t)
  PROVE  /\ msg.hdr # <<>> /\ msg.hdr[1][1] = m
         /\ Complete(msg) <=> t = TotalSize(m)
<1>1. HeaderSize \in Nat \ {0} /\ Size[m] \in Nat /\ TotalSize(m) = HeaderSize + Size[m] /\ t \in Nat
  BY SizeType
<1>2. msg.hdr \in Seq(ByteType) /\ msg.vRecv \in Seq(ByteType)
  BY DEF IsPart, MessageType
<1>3. 1 \in 1 .. Len(msg.hdr)
  BY <1>1, <1>2 DEF IsPart
<1>4. msg.hdr[1] = <<m, 1>>
  BY <1>3 DEF IsPart
<1>5. msg.hdr[1][1] = m
  BY <1>4
<1>6. msg.hdr # <<>>
  BY <1>2, <1>3
<1>7. InData(msg) <=> t >= HeaderSize
  BY <1>1 DEF InData, IsPart
<1>8. t >= HeaderSize => Len(msg.vRecv) = t - HeaderSize
  BY <1>1 DEF IsPart
<1>9. MessageSize(msg) = Size[m]
  BY <1>5 DEF MessageSize
<1>10. Complete(msg) <=> (t >= HeaderSize /\ Len(msg.vRecv) = Size[m])
  BY <1>7, <1>9 DEF Complete
<1>11. Complete(msg) <=> t = TotalSize(m)
  <2>1. CASE t >= HeaderSize
    <3>1. (t - HeaderSize = Size[m]) <=> (t = TotalSize(m))
      BY <1>1
    <3> QED BY <1>8, <1>10, <2>1, <3>1
  <2>2. CASE ~(t >= HeaderSize)
    <3>1. t # TotalSize(m)
      BY <1>1, <2>2
    <3> QED BY <1>10, <2>2, <3>1
  <2> QED BY <2>1, <2>2
<1> QED BY <1>5, <1>6, <1>11

(* The elements of a sequence with one more.                               *)
LEMMA AppendOf ==
  ASSUME NEW X, NEW a \in Seq(X), NEW x \in X
  PROVE  /\ Append(a, x) \in Seq(X) /\ Len(Append(a, x)) = Len(a) + 1 /\ Len(a) \in Nat
         /\ \A j \in 1 .. Len(a) : Append(a, x)[j] = a[j]
         /\ Append(a, x)[Len(a) + 1] = x
OBVIOUS

(* A byte more, in the header or in the data.                              *)
LEMMA PutPart ==
  ASSUME NEW m \in Message, NEW t \in Nat, t < TotalSize(m), NEW msg, IsPart(msg, m, t)
  PROVE  IsPart(PutByte(msg, <<m, t + 1>>), m, t + 1)
<1> DEFINE b == <<m, t + 1>>
           a == PutByte(msg, b)
           hd == msg.hdr
           d == msg.vRecv
<1>1. HeaderSize \in Nat \ {0}
  BY SizeType
<1>2. hd \in Seq(ByteType) /\ d \in Seq(ByteType)
  BY DEF IsPart, MessageType
<1>3. b \in ByteType
  BY DEF ByteType
<1>4. /\ Len(hd) = IF t < HeaderSize THEN t ELSE HeaderSize
      /\ Len(d) = IF t < HeaderSize THEN 0 ELSE t - HeaderSize
      /\ \A k \in 1 .. Len(hd) : hd[k] = <<m, k>>
      /\ \A k \in 1 .. Len(d) : d[k] = <<m, HeaderSize + k>>
  BY DEF IsPart
<1>5. InData(msg) <=> ~(t < HeaderSize)
  BY <1>1, <1>4 DEF InData
<1>6. b = <<m, t + 1>>
  OBVIOUS
<1>7. /\ InData(msg) => a = [hdr |-> hd, vRecv |-> Append(d, b)]
      /\ ~InData(msg) => a = [hdr |-> Append(hd, b), vRecv |-> d]
  BY DEF PutByte
<1> HIDE DEF a, b, hd, d
<1>8. CASE t < HeaderSize
  <2>1. a.hdr = Append(hd, b) /\ a.vRecv = d
    BY <1>5, <1>7, <1>8
  <2>2. Append(hd, b) \in Seq(ByteType) /\ Len(Append(hd, b)) = t + 1
    BY <1>2, <1>3, <1>4, <1>8, AppendOf
  <2>3. a \in MessageType
    BY <1>2, <1>5, <1>7, <1>8, <2>2 DEF MessageType
  <2>4. t + 1 <= HeaderSize
    BY <1>1, <1>8
  <2>5. ASSUME NEW k \in 1 .. t + 1 PROVE Append(hd, b)[k] = <<m, k>>
    <3>1. Len(hd) = t
      BY <1>4, <1>8
    <3>2. CASE k \in 1 .. t
      BY <1>2, <1>3, <1>4, <3>1, <3>2, AppendOf
    <3>3. CASE k = t + 1
      BY <1>2, <1>3, <1>6, <3>1, <3>3, AppendOf
    <3>4. k \in 1 .. t \/ k = t + 1
      OBVIOUS
    <3> QED BY <3>2, <3>3, <3>4
  <2>6. Len(d) = 0
    BY <1>4, <1>8
  <2>7. Len(a.hdr) = IF t + 1 < HeaderSize THEN t + 1 ELSE HeaderSize
    BY <1>1, <2>1, <2>2, <2>4
  <2>8. Len(a.vRecv) = IF t + 1 < HeaderSize THEN 0 ELSE (t + 1) - HeaderSize
    BY <1>1, <2>1, <2>4, <2>6
  <2>9. \A k \in 1 .. Len(a.hdr) : a.hdr[k] = <<m, k>>
    BY <2>1, <2>2, <2>5
  <2>10. \A k \in 1 .. Len(a.vRecv) : a.vRecv[k] = <<m, HeaderSize + k>>
    BY <1>4, <2>1
  <2>11. IsPart(a, m, t + 1)
    BY <2>3, <2>7, <2>8, <2>9, <2>10 DEF IsPart
  <2> QED BY <2>11 DEF a, b
<1>9. CASE ~(t < HeaderSize)
  <2>1. a.hdr = hd /\ a.vRecv = Append(d, b)
    BY <1>5, <1>7, <1>9
  <2>2. Append(d, b) \in Seq(ByteType) /\ Len(Append(d, b)) = (t + 1) - HeaderSize
    BY <1>1, <1>2, <1>3, <1>4, <1>9, AppendOf
  <2>3. a \in MessageType
    BY SMTT(40), <1>2, <1>5, <1>7, <1>9, <2>2 DEF MessageType
  <2>4. ASSUME NEW k \in 1 .. (t + 1) - HeaderSize PROVE Append(d, b)[k] = <<m, HeaderSize + k>>
    <3>1. Len(d) = t - HeaderSize
      BY <1>4, <1>9
    <3>2. CASE k \in 1 .. t - HeaderSize
      BY <1>2, <1>3, <1>4, <3>1, <3>2, AppendOf
    <3>3. CASE k = Len(d) + 1
      <4>1. HeaderSize + k = t + 1
        BY <1>1, <3>1, <3>3
      <4> QED BY <1>2, <1>3, <1>6, <3>3, <4>1, AppendOf
    <3> QED BY <1>1, <3>1, <3>2, <3>3
  <2>5. ~(t + 1 < HeaderSize)
    BY <1>1, <1>9
  <2>6. IsPart(a, m, t + 1)
    BY <1>4, <1>9, <2>1, <2>2, <2>3, <2>4, <2>5 DEF IsPart
  <2> QED BY <2>6 DEF a, b
<1> QED BY <1>8, <1>9

(* The cursor <<i, k>> moves over one byte, to <<i1, k1>>.                 *)
Advances(S, i, k, i1, k1) ==
  /\ k + 1 = TotalSize(S[i]) => i1 = i + 1 /\ k1 = 0
  /\ k + 1 # TotalSize(S[i]) => i1 = i /\ k1 = k + 1

(* ReadByte takes the next byte to where it belongs.                       *)
LEMMA ReadByteOk ==
  ASSUME NEW v, NEW S \in Seq(Message), NEW h \in Nat, NEW i, NEW k,
         Received(v, S, h, i, k), i \in 1 .. Len(S), k < TotalSize(S[i]),
         NEW i1, NEW k1, Advances(S, i, k, i1, k1)
  PROVE  Received(ReadByte(v, <<S[i], k + 1>>), S, h, i1, k1)
<1> DEFINE m == S[i]
           b == <<m, k + 1>>
           w == ReadByte(v, b)
<1>1. /\ v \in Seq(MessageType) /\ i \in Nat /\ k \in Nat /\ h < i
      /\ h + Len(v) <= Len(S) /\ Len(v) \in Nat /\ Len(S) \in Nat
  BY DEF Received
<1>2. m \in Message /\ TotalSize(m) \in Nat \ {0}
  BY SizeType
<1>3. /\ \A j \in 1 .. Len(v) : h + j < i => IsPart(v[j], S[h + j], TotalSize(S[h + j]))
      /\ \A j \in 1 .. Len(v) : h + j = i => IsPart(v[j], m, k)
  BY DEF Received
<1>4. i1 \in Nat /\ k1 \in Nat /\ h < i1
  BY <1>1, <1>2 DEF Advances
<1>5. /\ k + 1 = TotalSize(m) => i1 = i + 1 /\ k1 = 0
      /\ k + 1 # TotalSize(m) => i1 = i /\ k1 = k + 1
  BY DEF Advances
<1> HIDE DEF m
<1>6. ASSUME NEW u, NEW a, NEW l \in Nat,
             u \in Seq(MessageType), Len(u) = l, l # 0, h + l = i,
             \A j \in 1 .. l : j # l => u[j] = v[j] /\ j \in 1 .. Len(v),
             u[l] = a, IsPart(a, m, k + 1)
      PROVE  Received(u, S, h, i1, k1)
  <2>1. ASSUME NEW j \in 1 .. l, j # l
        PROVE  h + j < i /\ IsPart(u[j], S[h + j], TotalSize(S[h + j]))
    <3>1. h + j < i
      BY <1>1, <1>6, <2>1
    <3> QED BY <1>3, <1>6, <2>1, <3>1
  <2>2. h + l <= Len(S)
    BY <1>1, <1>6
  <2>3. CASE k + 1 = TotalSize(m)
    <3>1. i1 = i + 1 /\ k1 = 0
      BY <1>5, <2>3
    <3>2. \A j \in 1 .. l : h + j < i1 /\ h + j # i1
      BY <1>1, <1>6, <3>1
    <3>3. ASSUME NEW j \in 1 .. l PROVE IsPart(u[j], S[h + j], TotalSize(S[h + j]))
      <4>1. CASE j # l
        BY <2>1, <4>1
      <4>2. CASE j = l
        <5>1. S[h + j] = m /\ IsPart(u[j], m, TotalSize(m))
          BY <1>6, <2>3, <4>2 DEF m
        <5> QED BY <5>1
      <4> QED BY <4>1, <4>2
    <3>4. i1 = h + Len(u) + 1
      BY <1>1, <1>6, <3>1
    <3> QED BY <1>4, <1>6, <2>2, <3>1, <3>2, <3>3, <3>4 DEF Received
  <2>4. CASE k + 1 # TotalSize(m)
    <3>1. i1 = i /\ k1 = k + 1 /\ k1 # 0
      BY <1>1, <1>5, <2>4
    <3>2. k1 < TotalSize(S[i1])
      <4>1. k < TotalSize(m) /\ k \in Nat /\ TotalSize(m) \in Nat
        BY <1>1, <1>2 DEF m
      <4>2. k + 1 < TotalSize(m)
        BY <2>4, <4>1
      <4> QED BY <3>1, <4>2 DEF m
    <3>3. ASSUME NEW j \in 1 .. l PROVE h + j < i1 => IsPart(u[j], S[h + j], TotalSize(S[h + j]))
      <4>1. CASE j # l
        BY <2>1, <4>1
      <4>2. CASE j = l
        BY <1>1, <1>6, <3>1, <4>2
      <4> QED BY <4>1, <4>2
    <3>4. ASSUME NEW j \in 1 .. l, h + j = i1 PROVE IsPart(u[j], S[i1], k1)
      <4>1. j = l
        BY <1>1, <1>6, <3>1, <3>4
      <4> QED BY <1>6, <3>1, <4>1 DEF m
    <3>5. i1 = h + Len(u)
      BY <1>6, <3>1
    <3> QED BY <1>4, <1>6, <2>2, <3>1, <3>2, <3>3, <3>4, <3>5 DEF Received
  <2> QED BY <2>3, <2>4
<1>7. CASE k = 0
  <2> DEFINE a == PutByte(NewMessage, b)
  <2>1. i = h + Len(v) + 1
    BY <1>7 DEF Received
  <2>2. v = <<>> \/ Complete(Last(v))
    <3>1. SUFFICES ASSUME v # <<>> PROVE Complete(Last(v))
      OBVIOUS
    <3> DEFINE j == Len(v)
    <3>2. j \in 1 .. Len(v) /\ h + j < i /\ h + j \in 1 .. Len(S)
      BY <1>1, <2>1, <3>1
    <3>3. IsPart(v[j], S[h + j], TotalSize(S[h + j]))
      BY <1>3, <3>2
    <3>4. S[h + j] \in Message /\ TotalSize(S[h + j]) \in 1 .. TotalSize(S[h + j])
      BY <3>2, SizeType
    <3>5. Complete(v[j])
      BY <3>3, <3>4, PartComplete
    <3> QED BY <3>5 DEF Last
  <2>3. w = Append(v, a)
    BY <2>2 DEF ReadByte
  <2>4. IsPart(NewMessage, m, 0)
    BY <1>2, NothingRead
  <2>5. IsPart(a, m, k + 1)
    <3>1. 0 < TotalSize(m) /\ 0 \in Nat
      BY <1>2
    <3>2. IsPart(PutByte(NewMessage, <<m, 0 + 1>>), m, 0 + 1)
      BY <1>2, <2>4, <3>1, PutPart
    <3> QED BY <1>7, <3>2
  <2>6. a \in MessageType
    BY <2>5 DEF IsPart
  <2> HIDE DEF a, b, w
  <2> DEFINE l == Len(v) + 1
  <2>7. /\ w \in Seq(MessageType) /\ Len(w) = l /\ l \in Nat /\ l # 0
        /\ w[l] = a /\ \A j \in 1 .. Len(v) : w[j] = v[j]
    BY <1>1, <2>3, <2>6, AppendOf
  <2>8. \A j \in 1 .. l : j # l => j \in 1 .. Len(v)
    BY <1>1
  <2>9. h + l = i
    BY <1>1, <2>1
  <2> HIDE DEF l
  <2>10. Received(w, S, h, i1, k1)
    BY <1>6, <2>5, <2>7, <2>8, <2>9
  <2> QED BY <2>10 DEF w, b, m
<1>8. CASE k # 0
  <2> DEFINE l == Len(v)
             a == PutByte(v[l], b)
  <2>1. i = h + l /\ k < TotalSize(m)
    BY <1>8 DEF Received, m
  <2>2. l \in Nat /\ l # 0 /\ l \in 1 .. Len(v) /\ v # <<>>
    BY <1>1, <2>1
  <2>3. IsPart(v[l], m, k)
    BY <1>3, <2>1, <2>2
  <2>4. ~Complete(Last(v))
    <3>1. k \in 1 .. TotalSize(m) /\ k # TotalSize(m)
      BY <1>1, <1>2, <1>8, <2>1
    <3>2. ~Complete(v[l])
      BY <1>2, <2>3, <3>1, PartComplete
    <3> QED BY <3>2 DEF Last
  <2>5. w = [v EXCEPT ![l] = a]
    BY <2>2, <2>4 DEF ReadByte
  <2>6. IsPart(a, m, k + 1)
    BY <1>1, <1>2, <2>1, <2>3, PutPart
  <2>7. a \in MessageType
    BY <2>6 DEF IsPart
  <2> HIDE DEF a, b, w
  <2>8. /\ w \in Seq(MessageType) /\ Len(w) = l
        /\ w[l] = a /\ \A j \in 1 .. l : j # l => w[j] = v[j]
    BY <1>1, <2>2, <2>5, <2>7
  <2>9. Received(w, S, h, i1, k1)
    <3>1. \A j \in 1 .. l : j # l => j \in 1 .. Len(v)
      OBVIOUS
    <3> HIDE DEF l
    <3> QED BY <1>6, <2>1, <2>2, <2>6, <2>8, <3>1
  <2> QED BY <2>9 DEF w, b, m
<1> QED BY <1>7, <1>8

(* What is received are messages, whatever the bytes.                      *)
LEMMA ReadByteType ==
  ASSUME NEW v \in Seq(MessageType), NEW b \in ByteType
  PROVE  ReadByte(v, b) \in Seq(MessageType)
<1>1. ASSUME NEW msg \in MessageType PROVE PutByte(msg, b) \in MessageType
  <2>1. msg.hdr \in Seq(ByteType) /\ msg.vRecv \in Seq(ByteType)
    BY DEF MessageType
  <2>2. Append(msg.hdr, b) \in Seq(ByteType) /\ Append(msg.vRecv, b) \in Seq(ByteType)
    BY <2>1, AppendOf
  <2> QED BY <2>1, <2>2 DEF PutByte, MessageType
<1>2. NewMessage \in MessageType
  BY DEF NewMessage, MessageType
<1>3. CASE v = <<>> \/ Complete(Last(v))
  <2>1. ReadByte(v, b) = Append(v, PutByte(NewMessage, b))
    BY <1>3 DEF ReadByte
  <2>2. PutByte(NewMessage, b) \in MessageType
    BY <1>1, <1>2
  <2> QED BY <2>1, <2>2, AppendOf
<1>4. CASE ~(v = <<>> \/ Complete(Last(v)))
  <2> DEFINE l == Len(v)
             a == PutByte(v[l], b)
  <2>1. ReadByte(v, b) = [v EXCEPT ![l] = a]
    BY <1>4 DEF ReadByte
  <2>2. l \in 1 .. Len(v) /\ v[l] \in MessageType
    BY <1>4
  <2>3. a \in MessageType
    BY <1>1, <2>2
  <2> HIDE DEF a
  <2> QED BY <2>1, <2>2, <2>3
<1> QED BY <1>3, <1>4

(* f[k] is what is received after the first k bytes of B.                  *)
IsReading(f, v, B) ==
  /\ f \in [0 .. Len(B) -> Seq(MessageType)]
  /\ f[0] = v
  /\ \A k \in 1 .. Len(B) : f[k] = ReadByte(f[k - 1], B[k])

(* ReceiveMsgBytes is ReadByte, byte by byte.                              *)
LEMMA ReceiveSteps ==
  ASSUME NEW v \in Seq(MessageType), NEW B \in Seq(ByteType)
  PROVE  \E f : IsReading(f, v, B) /\ ReceiveMsgBytes(v, B) = f[Len(B)]
<1> DEFINE n == Len(B)
           X == Seq(MessageType)
           g == [k \in 1 .. n |-> [x \in X |-> ReadByte(x, B[k])]]
<1>1. n \in Nat /\ \A k \in 1 .. n : B[k] \in ByteType
  OBVIOUS
<1>2. v \in X /\ \A k \in 1 .. n, x \in X : ReadByte(x, B[k]) \in X
  BY <1>1, ReadByteType
<1>3. X = Seq(MessageType) /\ n = Len(B)
  OBVIOUS
<1> HIDE DEF X, n
<1>4. g \in [1 .. n -> [X -> X]]
  BY <1>2
<1>5. \A k \in 1 .. n, x \in X : g[k][x] = ReadByte(x, B[k])
  OBVIOUS
<1> HIDE DEF g
<1>6. PICK f : IsFold(f, n, X, v, g)
  BY <1>1, <1>2, <1>4, FoldRecursion
<1>7. \A k \in 1 .. n : f[k] = ReadByte(f[k - 1], B[k])
  <2>1. ASSUME NEW k \in 1 .. n PROVE f[k] = ReadByte(f[k - 1], B[k])
    <3>1. f[k - 1] \in X /\ f[k] = g[k][f[k - 1]]
      BY <1>1, <1>6 DEF IsFold
    <3> QED BY <1>5, <3>1
  <2> QED BY <2>1
<1>8. f \in [0 .. n -> X] /\ f[0] = v
  BY <1>6 DEF IsFold
<1>9. f = [k \in 0 .. n |-> IF k = 0 THEN v ELSE ReadByte(f[k - 1], B[k])]
  <2>1. \A k \in 0 .. n : f[k] = IF k = 0 THEN v ELSE ReadByte(f[k - 1], B[k])
    <3>1. \A k \in 0 .. n : k = 0 \/ k \in 1 .. n
      BY <1>1
    <3> QED BY <1>7, <1>8, <3>1, Zenon
  <2> QED BY <1>8, <2>1
<1> DEFINE h == CHOOSE h : h = [k \in 0 .. n |-> IF k = 0 THEN v ELSE ReadByte(h[k - 1], B[k])]
<1>10. h = [k \in 0 .. n |-> IF k = 0 THEN v ELSE ReadByte(h[k - 1], B[k])]
  BY <1>9
<1>11. ReceiveMsgBytes(v, B) = h[n]
  BY Zenon DEF ReceiveMsgBytes, n
<1> HIDE DEF h
<1>12. \A k \in 0 .. n : h[k] = f[k]
  <2> DEFINE G == {k \in 0 .. n : h[k] = f[k]}
  <2>1. 0 \in G
    BY <1>1, <1>8, <1>10
  <2>2. ASSUME NEW k \in 1 .. n, k - 1 \in G PROVE k \in G
    <3>1. k \in 0 .. n /\ k # 0 /\ h[k - 1] = f[k - 1]
      BY <1>1, <2>2
    <3>2. h[k] = ReadByte(h[k - 1], B[k])
      BY <1>10, <3>1, Zenon
    <3>3. h[k] = f[k]
      BY <1>7, <3>1, <3>2
    <3> QED BY <3>1, <3>3
  <2> HIDE DEF G
  <2>3. \A k \in 0 .. n : k \in G
    BY <1>1, <2>1, <2>2, UpTo
  <2> QED BY <2>3 DEF G
<1>13. ReceiveMsgBytes(v, B) = f[n]
  <2>1. n \in 0 .. n
    BY <1>1
  <2> QED BY <1>11, <1>12, <2>1
<1> QED BY <1>3, <1>7, <1>8, <1>13 DEF IsReading

(* Reading n bytes of the socket takes the receiver n cursors further.     *)
LEMMA ReceiveOk ==
  ASSUME NEW p \in Seq(ByteType), NEW S \in Seq(Message), NEW ci, NEW ck,
         InTransit(p, S, ci, ck), NEW v, NEW h \in Nat, Received(v, S, h, ci[1], ck[1]),
         NEW n \in 0 .. Len(p)
  PROVE  Received(ReceiveMsgBytes(v, SubSeq(p, 1, n)), S, h, ci[n + 1], ck[n + 1])
<1> DEFINE B == SubSeq(p, 1, n)
<1>1. B \in Seq(ByteType) /\ Len(B) = n /\ \A j \in 1 .. n : B[j] = p[j]
  OBVIOUS
<1> HIDE DEF B
<1>2. v \in Seq(MessageType)
  BY DEF Received
<1>3. PICK f : IsReading(f, v, B) /\ ReceiveMsgBytes(v, B) = f[Len(B)]
  BY <1>1, <1>2, ReceiveSteps
<1> DEFINE G == {j \in 0 .. n : Received(f[j], S, h, ci[j + 1], ck[j + 1])}
<1>4. 0 \in G
  <2>1. 0 + 1 = 1 /\ 0 \in 0 .. n
    OBVIOUS
  <2> QED BY <1>3, <2>1 DEF IsReading
<1>5. ASSUME NEW j \in 1 .. n, j - 1 \in G PROVE j \in G
  <2>1. (j - 1) + 1 = j /\ j \in 1 .. Len(p) /\ j \in 0 .. n
    OBVIOUS
  <2>2. Received(f[j - 1], S, h, ci[j], ck[j])
    BY <1>5, <2>1
  <2>3. Carries(p, S, ci, ck, j)
    BY <2>1 DEF InTransit
  <2>4. ci[j] \in 1 .. Len(S) /\ ck[j] < TotalSize(S[ci[j]]) /\ p[j] = <<S[ci[j]], ck[j] + 1>>
    BY <2>3 DEF Carries
  <2>5. Advances(S, ci[j], ck[j], ci[j + 1], ck[j + 1])
    BY <2>3 DEF Carries, Advances
  <2>6. f[j] = ReadByte(f[j - 1], <<S[ci[j]], ck[j] + 1>>)
    BY <1>1, <1>3, <2>4 DEF IsReading
  <2>7. Received(f[j], S, h, ci[j + 1], ck[j + 1])
    <3> DEFINE i == ci[j]
               k == ck[j]
               i1 == ci[j + 1]
               k1 == ck[j + 1]
               u == f[j - 1]
    <3>1. Received(u, S, h, i, k) /\ i \in 1 .. Len(S) /\ k < TotalSize(S[i])
      BY <2>2, <2>4
    <3>2. Advances(S, i, k, i1, k1)
      BY <2>5
    <3> HIDE DEF i, k, i1, k1, u
    <3>3. Received(ReadByte(u, <<S[i], k + 1>>), S, h, i1, k1)
      BY <3>1, <3>2, ReadByteOk
    <3> QED BY <2>6, <3>3 DEF i, k, i1, k1, u
  <2> QED BY <2>1, <2>7
<1> HIDE DEF G
<1>6. n \in Nat
  OBVIOUS
<1>7. \A j \in 0 .. n : j \in G
  BY <1>4, <1>5, <1>6, UpTo
<1>8. n \in G
  BY <1>6, <1>7
<1> QED BY <1>1, <1>3, <1>8 DEF G, B

(* The rest of the socket leads from there to the end.                     *)
LEMMA InTransitRest ==
  ASSUME NEW p \in Seq(ByteType), NEW S, NEW ci, NEW ck, InTransit(p, S, ci, ck),
         NEW n \in 0 .. Len(p)
  PROVE  \E di, dk : /\ InTransit(SubSeq(p, n + 1, Len(p)), S, di, dk)
                     /\ di[1] = ci[n + 1] /\ dk[1] = ck[n + 1]
                     /\ di[Len(SubSeq(p, n + 1, Len(p))) + 1] = ci[Len(p) + 1]
                     /\ dk[Len(SubSeq(p, n + 1, Len(p))) + 1] = ck[Len(p) + 1]
<1> DEFINE r == SubSeq(p, n + 1, Len(p))
           l == Len(p) - n
           di == [j \in 1 .. l + 1 |-> ci[n + j]]
           dk == [j \in 1 .. l + 1 |-> ck[n + j]]
<1>1. /\ Len(r) = l /\ l \in Nat /\ n \in Nat /\ Len(p) \in Nat /\ n + l = Len(p)
      /\ \A j \in 1 .. l : r[j] = p[n + j]
  OBVIOUS
<1>2. /\ ci \in [1 .. Len(p) + 1 -> Nat] /\ ck \in [1 .. Len(p) + 1 -> Nat]
      /\ \A j \in 1 .. Len(p) : Carries(p, S, ci, ck, j)
  BY DEF InTransit
<1> HIDE DEF r, l
<1>3. di \in [1 .. l + 1 -> Nat] /\ dk \in [1 .. l + 1 -> Nat]
  <2>1. \A j \in 1 .. l + 1 : n + j \in 1 .. Len(p) + 1
    BY <1>1
  <2> QED BY <1>2, <2>1
<1>4. \A j \in 1 .. l + 1 : di[j] = ci[n + j] /\ dk[j] = ck[n + j]
  OBVIOUS
<1> HIDE DEF di, dk
<1>5. ASSUME NEW j \in 1 .. l PROVE Carries(r, S, di, dk, j)
  <2>1. n + j \in 1 .. Len(p) /\ n + (j + 1) = (n + j) + 1 /\ j \in 1 .. l + 1 /\ j + 1 \in 1 .. l + 1
    BY <1>1
  <2>2. Carries(p, S, ci, ck, n + j)
    BY <1>2, <2>1
  <2>3. /\ di[j] = ci[n + j] /\ dk[j] = ck[n + j] /\ r[j] = p[n + j]
        /\ di[j + 1] = ci[(n + j) + 1] /\ dk[j + 1] = ck[(n + j) + 1]
    <3>1. di[j + 1] = ci[n + (j + 1)] /\ dk[j + 1] = ck[n + (j + 1)]
      BY <1>4, <2>1
    <3> QED BY <1>1, <1>4, <2>1, <3>1
  <2> QED BY <2>2, <2>3 DEF Carries
<1>6. InTransit(r, S, di, dk)
  BY <1>1, <1>3, <1>5 DEF InTransit
<1>7. di[1] = ci[n + 1] /\ dk[1] = ck[n + 1]
  BY <1>1, <1>4
<1>8. di[Len(r) + 1] = ci[Len(p) + 1] /\ dk[Len(r) + 1] = ck[Len(p) + 1]
  <2>1. l + 1 \in 1 .. l + 1 /\ n + (l + 1) = Len(p) + 1
    BY <1>1
  <2>2. di[l + 1] = ci[n + (l + 1)] /\ dk[l + 1] = ck[n + (l + 1)]
    BY <1>4, <2>1
  <2> QED BY <1>1, <2>1, <2>2
<1> QED BY <1>6, <1>7, <1>8 DEF r

(* What is sent later does not matter to what was received.                *)
LEMMA ReceivedGrows ==
  ASSUME NEW S, NEW T, Continues(T, S), NEW v, NEW h \in Nat, NEW i, NEW k,
         Received(v, S, h, i, k)
  PROVE  Received(v, T, h, i, k)
<1>1. /\ Len(S) \in Nat /\ Len(T) \in Nat /\ Len(v) \in Nat /\ Len(S) <= Len(T)
      /\ \A j \in 1 .. Len(S) : T[j] = S[j]
      /\ h + Len(v) <= Len(S) /\ v \in Seq(MessageType) /\ i \in Nat /\ h < i
  BY DEF Continues, Received
<1>2. \A j \in 1 .. Len(v) : h + j \in 1 .. Len(S)
  BY <1>1
<1>3. \A j \in 1 .. Len(v) : T[h + j] = S[h + j]
  BY <1>1, <1>2
<1>4. k # 0 => i \in 1 .. Len(S) /\ T[i] = S[i]
  BY <1>1 DEF Received
<1>5. \A j \in 1 .. Len(v) : h + j = i => T[i] = S[i]
  BY <1>1, <1>2
<1>6. h + Len(v) <= Len(T)
  BY <1>1
<1> QED BY <1>1, <1>3, <1>4, <1>5, <1>6 DEF Received

(* The first message that was received is the next one to handle.          *)
LEMMA NextReceived ==
  ASSUME NEW S \in Seq(Message), NEW v, NEW h \in Nat, NEW i, NEW k, Received(v, S, h, i, k),
         v # <<>>, Complete(Head(v))
  PROVE  /\ h + 1 \in 1 .. Len(S)
         /\ Head(v).hdr[1][1] = S[h + 1]
         /\ Received(Tail(v), S, h + 1, i, k)
<1>1. /\ Len(S) \in Nat /\ v \in Seq(MessageType) /\ i \in Nat /\ k \in Nat /\ h < i
      /\ h + Len(v) <= Len(S)
  BY DEF Received
<1> DEFINE u == Tail(v)
<1>2. /\ u \in Seq(MessageType) /\ Len(u) + 1 = Len(v) /\ Len(u) \in Nat /\ Len(v) \in Nat \ {0}
      /\ Head(v) = v[1]
      /\ \A j \in 1 .. Len(u) : u[j] = v[j + 1] /\ j + 1 \in 1 .. Len(v)
  BY <1>1, TailOf
<1> HIDE DEF u
<1>3. h + 1 \in 1 .. Len(S) /\ 1 \in 1 .. Len(v) /\ S[h + 1] \in Message
  BY <1>1, <1>2
<1> DEFINE m == S[h + 1]
<1>4. h + 1 < i /\ IsPart(v[1], m, TotalSize(m))
  <2>1. CASE h + 1 < i
    BY <1>3, <2>1 DEF Received
  <2>2. CASE h + 1 = i
    <3>1. k # 0
      BY <1>1, <1>2, <2>2 DEF Received
    <3>2. k < TotalSize(m) /\ IsPart(v[1], m, k)
      BY <1>3, <2>2, <3>1 DEF Received
    <3>3. TotalSize(m) \in Nat
      BY <1>3, SizeType
    <3>4. k \in 1 .. TotalSize(m) /\ k # TotalSize(m)
      BY <1>1, <3>1, <3>2, <3>3
    <3>5. ~Complete(v[1])
      BY <1>3, <3>2, <3>4, PartComplete
    <3> QED BY <1>2, <3>5
  <2> QED BY <1>1, <2>1, <2>2
<1>5. v[1].hdr[1][1] = m
  <2>1. TotalSize(m) \in 1 .. TotalSize(m)
    BY <1>3, SizeType
  <2> QED BY <1>3, <1>4, <2>1, PartComplete
<1>6. Received(u, S, h + 1, i, k)
  <2>1. ASSUME NEW j \in 1 .. Len(u)
        PROVE  /\ (h + 1) + j < i => IsPart(u[j], S[(h + 1) + j], TotalSize(S[(h + 1) + j]))
               /\ (h + 1) + j = i => IsPart(u[j], S[i], k)
    <3>1. (h + 1) + j = h + (j + 1) /\ j + 1 \in 1 .. Len(v) /\ u[j] = v[j + 1]
      BY <1>2
    <3>2. /\ h + (j + 1) < i => IsPart(v[j + 1], S[h + (j + 1)], TotalSize(S[h + (j + 1)]))
          /\ h + (j + 1) = i => IsPart(v[j + 1], S[i], k)
      BY <3>1 DEF Received
    <3> QED BY <3>1, <3>2
  <2>2. k = 0 => i = (h + 1) + Len(u) + 1
    <3>1. k = 0 => i = h + Len(v) + 1
      BY DEF Received
    <3>2. Len(u) \in Nat /\ Len(v) = Len(u) + 1
      BY <1>2
    <3>3. h + Len(v) + 1 = (h + 1) + Len(u) + 1
      BY <3>2
    <3> QED BY <3>1, <3>3
  <2>3. k # 0 => i = (h + 1) + Len(u) /\ k < TotalSize(S[i])
    BY <1>1, <1>2 DEF Received
  <2>4. (h + 1) + Len(u) <= Len(S)
    BY <1>1, <1>2
  <2> QED BY <1>1, <1>2, <1>4, <2>1, <2>2, <2>3, <2>4 DEF Received
<1> QED BY <1>2, <1>3, <1>5, <1>6 DEF u

-----------------------------------------------------------------------------
(* One direction of the connection: the sender s, whose socket may be      *)
(* closed, and a receiver that has handled h messages and received v.      *)

Direction(s, v, h, closed) ==
  \E ci, ck : /\ InTransit(s.pipe, s.sent, ci, ck)
              /\ Received(v, s.sent, h, ci[1], ck[1])
              /\ ~closed => Linked(s, ci, ck)

(* The sender with other bytes in the socket.                              *)
WithPipe(s, p) == [vSendMsg |-> s.vSendMsg, nSendOffset |-> s.nSendOffset,
                   nSendSize |-> s.nSendSize, pipe |-> p, sent |-> s.sent]

(* A queue is a sender, linked or not.                                     *)
LEMMA QueueSends ==
  ASSUME NEW s, Queue(s)
  PROVE  /\ Queue(SocketSendData(s)) /\ SocketSendData(s).sent = s.sent
         /\ \A m \in Message :
              Queue(PushMessage(s, m)) /\ PushMessage(s, m).sent = Append(s.sent, m)
<1>1. s \in Senders(s.sent, 0, 0, FALSE)
  BY DEF Senders, Queue
<1>2. SocketSendData(s) \in Senders(s.sent, 0, 0, FALSE)
  BY <1>1, SocketSendOk
<1>3. \A m \in Message : PushMessage(s, m) \in Senders(Append(s.sent, m), 0, 0, FALSE)
  BY <1>1, PushOk
<1> QED BY <1>2, <1>3 DEF Senders

(* What it sends follows what was sent before.                             *)
LEMMA DirectionSends ==
  ASSUME NEW s, Queue(s), NEW v, NEW h \in Nat, NEW closed, ~closed,
         Direction(s, v, h, closed)
  PROVE  /\ Direction(SocketSendData(s), v, h, closed)
         /\ \A m \in Message : Direction(PushMessage(s, m), v, h, closed)
<1>1. PICK ci, ck : /\ Received(v, s.sent, h, ci[1], ck[1])
                    /\ Linked(s, ci, ck)
  BY DEF Direction
<1> DEFINE i == ci[1]
           k == ck[1]
           S == s.sent
<1>2. LinkedFrom(s, i, k)
  BY <1>1 DEF LinkedFrom
<1>3. Received(v, S, h, i, k)
  BY <1>1
<1>4. S \in Seq(Message)
  BY DEF Queue, SendType
<1>5. s.sent = S
  OBVIOUS
<1> HIDE DEF i, k, S
<1>6. s \in Senders(S, i, k, TRUE)
  BY <1>2, <1>5 DEF Senders, Queue
<1>7. ASSUME NEW T, NEW t \in Senders(T, i, k, TRUE), Continues(T, S)
      PROVE  Direction(t, v, h, closed)
  <2>1. t.sent = T /\ LinkedFrom(t, i, k)
    BY <1>7 DEF Senders
  <2>2. PICK di, dk : Linked(t, di, dk) /\ di[1] = i /\ dk[1] = k
    BY <2>1 DEF LinkedFrom
  <2>3. Received(v, T, h, i, k)
    BY <1>3, <1>7, ReceivedGrows
  <2>4. InTransit(t.pipe, t.sent, di, dk)
    BY <2>2 DEF Linked
  <2> QED BY <2>1, <2>2, <2>3, <2>4 DEF Direction
<1>8. Continues(S, S)
  BY <1>4 DEF Continues
<1>9. ASSUME NEW m \in Message PROVE Continues(Append(S, m), S)
  <2>1. Append(S, m) \in Seq(Message) /\ Len(S) <= Len(Append(S, m))
    BY <1>4
  <2>2. \A j \in 1 .. Len(S) : Append(S, m)[j] = S[j]
    BY <1>4, AppendOf
  <2> QED BY <1>4, <2>1, <2>2 DEF Continues
<1>10. SocketSendData(s) \in Senders(S, i, k, TRUE)
  BY <1>6, SocketSendOk
<1>11. \A m \in Message : PushMessage(s, m) \in Senders(Append(S, m), i, k, TRUE)
  BY <1>6, PushOk
<1> QED BY <1>7, <1>8, <1>9, <1>10, <1>11

(* The queue does not depend on the bytes in the socket.                   *)
LEMMA QueuePipe ==
  ASSUME NEW s, Queue(s), NEW p \in Seq(ByteType), Len(p) <= Pipe
  PROVE  Queue(WithPipe(s, p))
<1> DEFINE t == WithPipe(s, p)
<1>1. /\ t.vSendMsg = s.vSendMsg /\ t.nSendOffset = s.nSendOffset
      /\ t.nSendSize = s.nSendSize /\ t.pipe = p /\ t.sent = s.sent
  BY DEF WithPipe
<1>2. t \in SendType
  BY DEF WithPipe, SendType, Queue
<1> HIDE DEF t
<1>3. Queue(t)
  BY <1>1, <1>2 DEF Queue
<1> QED BY <1>3 DEF t

(* n bytes are read.                                                       *)
LEMMA DirectionReceives ==
  ASSUME NEW s, Queue(s), NEW v, NEW h \in Nat, NEW closed, Direction(s, v, h, closed),
         NEW n \in 0 .. Len(s.pipe)
  PROVE  Direction(WithPipe(s, SubSeq(s.pipe, n + 1, Len(s.pipe))),
                   ReceiveMsgBytes(v, SubSeq(s.pipe, 1, n)), h, closed)
<1> DEFINE p == s.pipe
           r == SubSeq(p, n + 1, Len(p))
           t == WithPipe(s, r)
           S == s.sent
<1>1. p \in Seq(ByteType) /\ S \in Seq(Message)
  BY DEF Queue, SendType
<1>2. PICK ci, ck : /\ InTransit(p, S, ci, ck)
                    /\ Received(v, S, h, ci[1], ck[1])
                    /\ ~closed => Linked(s, ci, ck)
  BY DEF Direction
<1>3. /\ t.vSendMsg = s.vSendMsg /\ t.nSendOffset = s.nSendOffset
      /\ t.pipe = r /\ t.sent = S
  BY DEF WithPipe
<1>4. n \in 0 .. Len(p)
  OBVIOUS
<1>5. /\ ~closed => ci[Len(p) + 1] = Len(S) - Len(s.vSendMsg) + 1
      /\ ~closed => ck[Len(p) + 1] = s.nSendOffset
  BY <1>2 DEF Linked
<1> HIDE DEF t, p, S
<1>6. PICK di, dk : /\ InTransit(r, S, di, dk)
                    /\ di[1] = ci[n + 1] /\ dk[1] = ck[n + 1]
                    /\ di[Len(r) + 1] = ci[Len(p) + 1]
                    /\ dk[Len(r) + 1] = ck[Len(p) + 1]
  BY <1>1, <1>2, <1>4, InTransitRest
<1>7. Received(ReceiveMsgBytes(v, SubSeq(p, 1, n)), S, h, di[1], dk[1])
  <2>1. Received(ReceiveMsgBytes(v, SubSeq(p, 1, n)), S, h, ci[n + 1], ck[n + 1])
    BY <1>1, <1>2, <1>4, ReceiveOk
  <2> QED BY <1>6, <2>1
<1> HIDE DEF r
<1>8. ~closed => Linked(t, di, dk)
  BY <1>3, <1>5, <1>6 DEF Linked
<1>9. Direction(t, ReceiveMsgBytes(v, SubSeq(p, 1, n)), h, closed)
  BY <1>3, <1>6, <1>7, <1>8 DEF Direction
<1> QED BY <1>9 DEF t, p, r

(* The sender closes, and the bytes in the socket may be lost.             *)
LEMMA DirectionCloses ==
  ASSUME NEW s, Queue(s), NEW v, NEW h \in Nat, NEW closed, Direction(s, v, h, closed),
         NEW n \in {0, Len(s.pipe)}, NEW after, after
  PROVE  Direction(WithPipe(s, SubSeq(s.pipe, 1, n)), v, h, after)
<1> DEFINE p == s.pipe
           r == SubSeq(p, 1, n)
           t == WithPipe(s, r)
           S == s.sent
<1>1. p \in Seq(ByteType) /\ S \in Seq(Message)
  BY DEF Queue, SendType
<1>2. PICK ci, ck : InTransit(p, S, ci, ck) /\ Received(v, S, h, ci[1], ck[1])
  BY DEF Direction
<1>3. t.pipe = r /\ t.sent = S
  BY DEF WithPipe
<1>4. n = 0 \/ n = Len(p)
  OBVIOUS
<1> HIDE DEF t, p, S
<1>5. CASE n = Len(p)
  <2>1. r = p
    BY <1>1, <1>5
  <2> QED BY <1>2, <1>3, <2>1 DEF Direction, t, p
<1>6. CASE n = 0
  <2>1. r = <<>> /\ Len(r) = 0
    BY <1>1, <1>6
  <2> DEFINE di == [j \in 1 .. 1 |-> ci[1]]
             dk == [j \in 1 .. 1 |-> ck[1]]
  <2>2. di[1] = ci[1] /\ dk[1] = ck[1]
    OBVIOUS
  <2>3. ci[1] \in Nat /\ ck[1] \in Nat
    BY <1>2 DEF Received
  <2>4. di \in [1 .. 1 -> Nat] /\ dk \in [1 .. 1 -> Nat]
    BY <2>3
  <2> HIDE DEF di, dk, r
  <2>5. InTransit(r, S, di, dk)
    BY <2>1, <2>4 DEF InTransit
  <2> QED BY <1>2, <1>3, <2>2, <2>5 DEF Direction, t, p, r
<1> QED BY <1>4, <1>5, <1>6

(* The receiver handles a message: it is the next one that was sent.       *)
LEMMA DirectionHandles ==
  ASSUME NEW s, Queue(s), NEW v, NEW h \in Nat, NEW closed, Direction(s, v, h, closed),
         v # <<>>, Complete(Head(v))
  PROVE  /\ h + 1 \in 1 .. Len(s.sent)
         /\ Head(v).hdr[1][1] = s.sent[h + 1]
         /\ Direction(s, Tail(v), h + 1, closed)
<1>1. s.sent \in Seq(Message)
  BY DEF Queue, SendType
<1>2. PICK ci, ck : /\ InTransit(s.pipe, s.sent, ci, ck)
                    /\ Received(v, s.sent, h, ci[1], ck[1])
                    /\ ~closed => Linked(s, ci, ck)
  BY DEF Direction
<1>3. /\ h + 1 \in 1 .. Len(s.sent)
      /\ Head(v).hdr[1][1] = s.sent[h + 1]
      /\ Received(Tail(v), s.sent, h + 1, ci[1], ck[1])
  BY <1>1, <1>2, NextReceived
<1> QED BY <1>2, <1>3 DEF Direction

-----------------------------------------------------------------------------
(* The inductive invariant *)

(* A direction of the connection: the sender s, closed or not, and at the  *)
(* other end what is handled, hd, and received, v.                         *)
DirectionOk(s, hd, v, sClosed, rClosed) ==
  /\ Queue(s)
  /\ Continues(s.sent, hd)
  /\ ~rClosed => Direction(s, v, Len(hd), sClosed)

(* From e to the other end.                                                *)
Bytestream(e) == DirectionOk(Sending(e), handled[Other(e)], vRecvMsg[Other(e)],
                             fDisconnect[e], fDisconnect[Other(e)])

(* What is to be answered, and what a closed end still has.                *)
Requests(e) ==
  /\ fDisconnect[e] => vRecvMsg[e] = <<>>
  /\ replies[e] \o vRecvGetData[e] = Answers(handled[e])

StreamInv == TypeOK /\ \A e \in End : Bytestream(e) /\ Requests(e)

(* A direction after its sender has written.                               *)
LEMMA OkSends ==
  ASSUME NEW s, NEW hd, NEW v, NEW rClosed, DirectionOk(s, hd, v, FALSE, rClosed)
  PROVE  /\ DirectionOk(SocketSendData(s), hd, v, FALSE, rClosed)
         /\ SocketSendData(s).sent = s.sent
         /\ \A m \in Message : /\ DirectionOk(PushMessage(s, m), hd, v, FALSE, rClosed)
                              /\ PushMessage(s, m).sent = Append(s.sent, m)
<1>1. Queue(s) /\ Continues(s.sent, hd) /\ (~rClosed => Direction(s, v, Len(hd), FALSE))
  BY DEF DirectionOk
<1>2. /\ Queue(SocketSendData(s)) /\ SocketSendData(s).sent = s.sent
      /\ \A m \in Message :
           Queue(PushMessage(s, m)) /\ PushMessage(s, m).sent = Append(s.sent, m)
  BY <1>1, QueueSends
<1>3. Len(hd) \in Nat
  BY <1>1 DEF Continues
<1>4. ASSUME ~rClosed
      PROVE  /\ Direction(SocketSendData(s), v, Len(hd), FALSE)
             /\ \A m \in Message : Direction(PushMessage(s, m), v, Len(hd), FALSE)
  BY <1>1, <1>3, <1>4, DirectionSends
<1>5. ASSUME NEW m \in Message PROVE Continues(Append(s.sent, m), hd)
  <2> DEFINE S == s.sent
  <2>1. /\ S \in Seq(Message) /\ hd \in Seq(Message) /\ Len(hd) <= Len(S)
        /\ \A i \in 1 .. Len(hd) : S[i] = hd[i]
    BY <1>1 DEF Continues
  <2> HIDE DEF S
  <2>2. /\ Append(S, m) \in Seq(Message) /\ Len(Append(S, m)) = Len(S) + 1 /\ Len(S) \in Nat
        /\ \A j \in 1 .. Len(S) : Append(S, m)[j] = S[j]
    BY <2>1, AppendOf
  <2>3. \A i \in 1 .. Len(hd) : i \in 1 .. Len(S)
    BY <1>3, <2>1, <2>2
  <2>4. Continues(Append(S, m), hd)
    BY <1>3, <2>1, <2>2, <2>3 DEF Continues
  <2> QED BY <2>4 DEF S
<1> QED BY <1>1, <1>2, <1>4, <1>5 DEF DirectionOk

(* After its receiver has read.                                            *)
LEMMA OkReceives ==
  ASSUME NEW s, NEW hd, NEW v, NEW sClosed, DirectionOk(s, hd, v, sClosed, FALSE),
         NEW n \in 0 .. Len(s.pipe)
  PROVE  DirectionOk(WithPipe(s, SubSeq(s.pipe, n + 1, Len(s.pipe))), hd,
                     ReceiveMsgBytes(v, SubSeq(s.pipe, 1, n)), sClosed, FALSE)
<1> DEFINE p == s.pipe
           r == SubSeq(p, n + 1, Len(p))
<1>1. Queue(s) /\ Continues(s.sent, hd) /\ Direction(s, v, Len(hd), sClosed)
  BY DEF DirectionOk
<1>2. p \in Seq(ByteType) /\ Len(p) <= Pipe /\ Pipe \in Nat /\ Len(hd) \in Nat /\ n \in 0 .. Len(p)
  BY <1>1, StreamAssumption DEF Queue, SendType, Continues
<1>3. Direction(WithPipe(s, r), ReceiveMsgBytes(v, SubSeq(p, 1, n)), Len(hd), sClosed)
  BY <1>1, <1>2, DirectionReceives
<1> HIDE DEF p
<1>4. r \in Seq(ByteType) /\ Len(r) <= Pipe
  BY <1>2
<1>5. WithPipe(s, r).sent = s.sent
  BY DEF WithPipe
<1> HIDE DEF r
<1>6. Queue(WithPipe(s, r))
  BY <1>1, <1>4, QueuePipe
<1>7. DirectionOk(WithPipe(s, r), hd, ReceiveMsgBytes(v, SubSeq(p, 1, n)), sClosed, FALSE)
  BY <1>1, <1>3, <1>5, <1>6 DEF DirectionOk
<1> QED BY <1>7 DEF r, p

(* After its sender has closed.                                            *)
LEMMA OkCloses ==
  ASSUME NEW s, NEW hd, NEW v, NEW sClosed, NEW rClosed, DirectionOk(s, hd, v, sClosed, rClosed),
         NEW n \in {0, Len(s.pipe)}
  PROVE  DirectionOk(WithPipe(s, SubSeq(s.pipe, 1, n)), hd, v, TRUE, rClosed)
<1> DEFINE p == s.pipe
           r == SubSeq(p, 1, n)
<1>1. Queue(s) /\ Continues(s.sent, hd) /\ (~rClosed => Direction(s, v, Len(hd), sClosed))
  BY DEF DirectionOk
<1>2. p \in Seq(ByteType) /\ Len(p) <= Pipe /\ Pipe \in Nat /\ Len(hd) \in Nat /\ n \in 0 .. Len(p)
  BY <1>1, StreamAssumption DEF Queue, SendType, Continues
<1>3. ASSUME ~rClosed PROVE Direction(WithPipe(s, r), v, Len(hd), TRUE)
  BY <1>1, <1>2, <1>3, DirectionCloses
<1> HIDE DEF p
<1>4. r \in Seq(ByteType) /\ Len(r) <= Pipe
  BY <1>2
<1>5. WithPipe(s, r).sent = s.sent
  BY DEF WithPipe
<1> HIDE DEF r
<1>6. Queue(WithPipe(s, r))
  BY <1>1, <1>4, QueuePipe
<1>7. DirectionOk(WithPipe(s, r), hd, v, TRUE, rClosed)
  BY <1>1, <1>3, <1>5, <1>6 DEF DirectionOk
<1> QED BY <1>7 DEF r, p

(* After its receiver has handled a message: the next one that was sent.   *)
LEMMA OkHandles ==
  ASSUME NEW s, NEW hd, NEW v, NEW sClosed, DirectionOk(s, hd, v, sClosed, FALSE),
         v # <<>>, Complete(Head(v)), NEW m, m = Head(v).hdr[1][1]
  PROVE  /\ m \in Message
         /\ Len(hd) + 1 \in 1 .. Len(s.sent) /\ m = s.sent[Len(hd) + 1]
         /\ DirectionOk(s, Append(hd, m), Tail(v), sClosed, FALSE)
<1>1. Queue(s) /\ Continues(s.sent, hd) /\ Direction(s, v, Len(hd), sClosed)
  BY DEF DirectionOk
<1> DEFINE S == s.sent
           h == Len(hd)
<1>2. /\ S \in Seq(Message) /\ hd \in Seq(Message) /\ h <= Len(S) /\ h \in Nat
      /\ \A i \in 1 .. h : S[i] = hd[i]
  BY <1>1 DEF Continues
<1>3. h + 1 \in 1 .. Len(S) /\ m = S[h + 1] /\ Direction(s, Tail(v), h + 1, sClosed)
  BY <1>1, <1>2, DirectionHandles
<1> HIDE DEF S
<1>4. m \in Message
  BY <1>2, <1>3
<1>5. /\ Append(hd, m) \in Seq(Message) /\ Len(Append(hd, m)) = h + 1
      /\ \A i \in 1 .. h : Append(hd, m)[i] = hd[i]
      /\ Append(hd, m)[h + 1] = m
  BY <1>2, <1>4, AppendOf
<1> HIDE DEF h
<1>6. ASSUME NEW i \in 1 .. h + 1 PROVE S[i] = Append(hd, m)[i]
  <2>1. CASE i \in 1 .. h
    BY <1>2, <1>5, <2>1
  <2>2. CASE i = h + 1
    BY <1>3, <1>5, <2>2
  <2>3. i \in 1 .. h \/ i = h + 1
    BY <1>2
  <2> QED BY <2>1, <2>2, <2>3
<1>7. h + 1 <= Len(S)
  BY <1>2, <1>3
<1>8. Continues(S, Append(hd, m))
  BY <1>2, <1>5, <1>6, <1>7 DEF Continues
<1>9. DirectionOk(s, Append(hd, m), Tail(v), sClosed, FALSE)
  BY <1>1, <1>3, <1>5, <1>8 DEF DirectionOk, S
<1> QED BY <1>3, <1>4, <1>9 DEF S, h

(* The empty connection.                                                   *)
LEMMA InitStream == Init => StreamInv
<1> SUFFICES ASSUME Init PROVE StreamInv
  OBVIOUS
<1>1. TypeOK
  <2>1. <<>> \in Seq(Message) /\ <<>> \in Seq(ByteType) /\ <<>> \in Seq(MessageType) /\ Len(<<>>) = 0
    OBVIOUS
  <2>2. Pipe \in Nat /\ 0 <= Pipe /\ Script \in [End -> Seq(Message)]
    BY StreamAssumption
  <2> HIDE DEF MessageType, ByteType
  <2> QED BY <2>1, <2>2 DEF Init, TypeOK
<1>2. ASSUME NEW e \in End PROVE Bytestream(e) /\ Requests(e)
  <2> DEFINE s == [vSendMsg |-> <<>>, nSendOffset |-> 0, nSendSize |-> 0,
                   pipe |-> <<>>, sent |-> <<>>]
             ci == [j \in 1 .. 1 |-> 1]
             ck == [j \in 1 .. 1 |-> 0]
  <2>1. Other(e) \in End
    BY OtherEnd
  <2>2. Sending(e) = s
    BY DEF Init, Sending
  <2>3. /\ handled[Other(e)] = <<>> /\ vRecvMsg[Other(e)] = <<>> /\ handled[e] = <<>>
        /\ vRecvMsg[e] = <<>> /\ replies[e] = <<>> /\ vRecvGetData[e] = <<>>
    BY <2>1 DEF Init
  <2>4. Queue(s)
    <3>1. SizeOf(<<>>) = 0
      <4>1. <<>> \in Seq(Message)
        OBVIOUS
      <4> QED BY <4>1, SizeOfQueue
    <3>2. Pipe \in Nat /\ 0 <= Pipe
      BY StreamAssumption
    <3>3. s \in SendType
      BY DEF SendType
    <3> QED BY <3>1, <3>2, <3>3 DEF Queue
  <2>5. Continues(<<>>, <<>>)
    BY DEF Continues
  <2>6. Direction(s, <<>>, 0, fDisconnect[e])
    <3>1. ci \in [1 .. 1 -> Nat] /\ ck \in [1 .. 1 -> Nat] /\ ci[1] = 1 /\ ck[1] = 0
      OBVIOUS
    <3> HIDE DEF ci, ck
    <3>2. InTransit(<<>>, <<>>, ci, ck)
      BY <3>1 DEF InTransit
    <3>3. Received(<<>>, <<>>, 0, ci[1], ck[1])
      BY <3>1 DEF Received
    <3>4. Linked(s, ci, ck)
      BY <3>1, <3>2 DEF Linked
    <3> QED BY <3>2, <3>3, <3>4 DEF Direction
  <2> HIDE DEF s
  <2>7. s.sent = <<>>
    BY DEF s
  <2>8. Bytestream(e)
    BY <2>2, <2>3, <2>4, <2>5, <2>6, <2>7 DEF Bytestream, DirectionOk
  <2>9. Requests(e)
    <3>1. Answers(<<>>) = <<>>
      <4>1. <<>> \in Seq(Message)
        OBVIOUS
      <4> QED BY <4>1, AnswersAppend
    <3> QED BY <2>3, <3>1 DEF Requests
  <2> QED BY <2>8, <2>9
<1> QED BY <1>1, <1>2 DEF StreamInv

(* What a step that sends t leaves at either end.                          *)
LEMMA SendsOk ==
  ASSUME TypeOK, NEW e \in End, NEW t, Queue(t), Sends(e, t)
  PROVE  /\ Sending(e)' = t /\ Sending(Other(e))' = Sending(Other(e))
         /\ vSendMsg' \in [End -> Seq(Message)]
         /\ nSendOffset' \in [End -> Nat] /\ nSendSize' \in [End -> Nat]
         /\ pipe' \in [End -> Seq(ByteType)] /\ \A d \in End : Len(pipe'[d]) <= Pipe
         /\ sent' \in [End -> Seq(Message)]
         /\ sent' = [sent EXCEPT ![e] = t.sent]
<1>1. Other(e) \in End /\ Other(e) # e
  BY OtherEnd
<1>2. /\ t.vSendMsg \in Seq(Message) /\ t.nSendOffset \in Nat /\ t.nSendSize \in Nat
      /\ t.pipe \in Seq(ByteType) /\ t.sent \in Seq(Message) /\ Len(t.pipe) <= Pipe
      /\ t = [vSendMsg |-> t.vSendMsg, nSendOffset |-> t.nSendOffset,
              nSendSize |-> t.nSendSize, pipe |-> t.pipe, sent |-> t.sent]
  BY DEF Queue, SendType
<1>3. /\ vSendMsg' = [vSendMsg EXCEPT ![e] = t.vSendMsg]
      /\ nSendOffset' = [nSendOffset EXCEPT ![e] = t.nSendOffset]
      /\ nSendSize' = [nSendSize EXCEPT ![e] = t.nSendSize]
      /\ pipe' = [pipe EXCEPT ![e] = t.pipe]
      /\ sent' = [sent EXCEPT ![e] = t.sent]
  BY DEF Sends
<1>4. /\ vSendMsg \in [End -> Seq(Message)] /\ nSendOffset \in [End -> Nat]
      /\ nSendSize \in [End -> Nat] /\ pipe \in [End -> Seq(ByteType)]
      /\ sent \in [End -> Seq(Message)] /\ \A d \in End : Len(pipe[d]) <= Pipe
  BY DEF TypeOK
<1>5. /\ vSendMsg' \in [End -> Seq(Message)]
      /\ nSendOffset' \in [End -> Nat] /\ nSendSize' \in [End -> Nat]
      /\ pipe' \in [End -> Seq(ByteType)]
      /\ sent' \in [End -> Seq(Message)]
  <2> DEFINE M == Seq(Message)
             B == Seq(ByteType)
  <2> HIDE DEF M, B
  <2> QED BY <1>2, <1>3, <1>4 DEF M, B
<1>6. \A d \in End : Len(pipe'[d]) <= Pipe
  <2>1. ASSUME NEW d \in End PROVE Len(pipe'[d]) <= Pipe
    <3>1. pipe'[d] = t.pipe \/ pipe'[d] = pipe[d]
      BY <1>3, <1>4
    <3> QED BY <1>2, <1>4, <3>1
  <2> QED BY <2>1
<1>7. /\ vSendMsg'[e] = t.vSendMsg /\ nSendOffset'[e] = t.nSendOffset
      /\ nSendSize'[e] = t.nSendSize /\ pipe'[e] = t.pipe /\ sent'[e] = t.sent
  BY <1>3, <1>4
<1>8. \A d \in End \ {e} :
        /\ vSendMsg'[d] = vSendMsg[d] /\ nSendOffset'[d] = nSendOffset[d]
        /\ nSendSize'[d] = nSendSize[d] /\ pipe'[d] = pipe[d] /\ sent'[d] = sent[d]
  BY <1>3, <1>4
<1>9. Sending(e)' = t
  BY <1>2, <1>7 DEF Sending
<1>10. Sending(Other(e))' = Sending(Other(e))
  BY <1>1, <1>8 DEF Sending
<1> QED BY <1>3, <1>5, <1>6, <1>9, <1>10

(* The invariant, seen from one end.                                       *)
LEMMA SeenFrom ==
  ASSUME StreamInv, NEW e \in End, NEW f, f = Other(e)
  PROVE  /\ f \in End /\ f # e /\ e = Other(f)
         /\ DirectionOk(Sending(e), handled[f], vRecvMsg[f], fDisconnect[e], fDisconnect[f])
         /\ DirectionOk(Sending(f), handled[e], vRecvMsg[e], fDisconnect[f], fDisconnect[e])
         /\ Requests(e) /\ Requests(f)
<1>1. f \in End /\ f # e /\ e = Other(f)
  BY OtherEnd
<1>2. Bytestream(e) /\ Bytestream(f) /\ Requests(e) /\ Requests(f)
  BY <1>1 DEF StreamInv
<1> QED BY <1>1, <1>2 DEF Bytestream

(* Both ends keep the invariant if e and the other one do.                 *)
LEMMA BothEnds ==
  ASSUME NEW e \in End, NEW f, f = Other(e), TypeOK',
         DirectionOk(Sending(e)', handled'[f], vRecvMsg'[f], fDisconnect'[e], fDisconnect'[f]),
         DirectionOk(Sending(f)', handled'[e], vRecvMsg'[e], fDisconnect'[f], fDisconnect'[e]),
         Requests(e)', Requests(f)'
  PROVE  StreamInv'
<1>1. f \in End /\ f # e /\ e = Other(f)
  BY OtherEnd
<1>2. Bytestream(e)'
  BY DEF Bytestream
<1>3. Bytestream(f)'
  BY <1>1 DEF Bytestream
<1>4. ASSUME NEW d \in End PROVE Bytestream(d)' /\ Requests(d)'
  <2>1. CASE d = e
    BY <1>2, <2>1
  <2>2. CASE d = f
    BY <1>3, <2>2
  <2> QED BY <2>1, <2>2, OtherEnd
<1> QED BY <1>4 DEF StreamInv

(* The socket thread or a node that speaks: e writes, and nothing else     *)
(* changes but the script.                                                 *)
LEMMA WritesOk ==
  ASSUME StreamInv, NEW e \in End, NEW t, Sends(e, t), ~fDisconnect[e],
         \/ t = SocketSendData(Sending(e))
         \/ \E m \in Message : t = PushMessage(Sending(e), m),
         script' \in [End -> Seq(Message)],
         UNCHANGED <<vRecvMsg, vRecvGetData, fDisconnect, replies, handled>>
  PROVE  StreamInv'
<1> DEFINE f == Other(e)
<1>1. /\ f \in End /\ f # e /\ e = Other(f)
      /\ DirectionOk(Sending(e), handled[f], vRecvMsg[f], fDisconnect[e], fDisconnect[f])
      /\ DirectionOk(Sending(f), handled[e], vRecvMsg[e], fDisconnect[f], fDisconnect[e])
      /\ Requests(e) /\ Requests(f)
  BY SeenFrom
<1>2. TypeOK
  BY DEF StreamInv
<1>3. fDisconnect[e] = FALSE
  BY <1>2 DEF TypeOK
<1>4. DirectionOk(t, handled[f], vRecvMsg[f], fDisconnect[e], fDisconnect[f])
  <2> DEFINE s == Sending(e)
             hd == handled[f]
             v == vRecvMsg[f]
             c == fDisconnect[f]
  <2>1. DirectionOk(s, hd, v, FALSE, c)
    BY <1>1, <1>3
  <2>2. t = SocketSendData(s) \/ \E m \in Message : t = PushMessage(s, m)
    OBVIOUS
  <2> HIDE DEF s, hd, v, c
  <2>3. DirectionOk(SocketSendData(s), hd, v, FALSE, c)
    BY <2>1, OkSends
  <2>4. \A m \in Message : DirectionOk(PushMessage(s, m), hd, v, FALSE, c)
    BY <2>1, OkSends
  <2>5. DirectionOk(t, hd, v, FALSE, c)
    BY <2>2, <2>3, <2>4
  <2> QED BY <1>3, <2>5 DEF hd, v, c
<1>5. Queue(t)
  BY <1>4 DEF DirectionOk
<1> HIDE DEF f
<1>6. /\ Sending(e)' = t /\ Sending(f)' = Sending(f)
      /\ vSendMsg' \in [End -> Seq(Message)]
      /\ nSendOffset' \in [End -> Nat] /\ nSendSize' \in [End -> Nat]
      /\ pipe' \in [End -> Seq(ByteType)] /\ \A d \in End : Len(pipe'[d]) <= Pipe
      /\ sent' \in [End -> Seq(Message)]
  BY <1>2, <1>5, SendsOk DEF f
<1>7. TypeOK'
  BY <1>2, <1>6 DEF TypeOK
<1>8. Requests(e)' /\ Requests(f)'
  BY <1>1 DEF Requests
<1>9. /\ DirectionOk(Sending(e)', handled'[f], vRecvMsg'[f], fDisconnect'[e], fDisconnect'[f])
      /\ DirectionOk(Sending(f)', handled'[e], vRecvMsg'[e], fDisconnect'[f], fDisconnect'[e])
  BY <1>1, <1>4, <1>6
<1> QED BY <1>7, <1>8, <1>9, BothEnds DEF f

(* Receive: the bytes that leave the socket are received.                  *)
LEMMA ReceiveStep ==
  ASSUME StreamInv, NEW e \in End, Receive(e)
  PROVE  StreamInv'
<1> DEFINE f == Other(e)
           s == Sending(f)
           p == pipe[f]
           v == vRecvMsg[e]
<1>1. /\ f \in End /\ f # e /\ e = Other(f)
      /\ DirectionOk(Sending(e), handled[f], vRecvMsg[f], fDisconnect[e], fDisconnect[f])
      /\ DirectionOk(s, handled[e], v, fDisconnect[f], fDisconnect[e])
      /\ Requests(e) /\ Requests(f)
  BY SeenFrom
<1>2. TypeOK
  BY DEF StreamInv
<1>3. PICK n \in 1 .. Len(p) :
        /\ vRecvMsg' = [vRecvMsg EXCEPT ![e] = ReceiveMsgBytes(v, SubSeq(p, 1, n))]
        /\ pipe' = [pipe EXCEPT ![f] = SubSeq(p, n + 1, Len(p))]
  BY DEF Receive
<1>4. /\ fDisconnect[e] = FALSE
      /\ UNCHANGED <<sendVars, vRecvGetData, fDisconnect, script, replies, handled>>
  BY <1>2 DEF Receive, Selected, Open, TypeOK
<1>5. /\ p \in Seq(ByteType) /\ Len(p) <= Pipe /\ v \in Seq(MessageType)
      /\ s.pipe = p /\ n \in 0 .. Len(p) /\ Pipe \in Nat
  <2>1. s.pipe = p
    BY DEF Sending
  <2>2. p \in Seq(ByteType) /\ Len(p) <= Pipe /\ v \in Seq(MessageType)
    BY <1>1, <1>2 DEF TypeOK
  <2> HIDE DEF p, s, v
  <2>3. n \in 0 .. Len(p)
    BY <1>3
  <2> QED BY <2>1, <2>2, <2>3, StreamAssumption
<1> DEFINE w == ReceiveMsgBytes(v, SubSeq(p, 1, n))
           r == SubSeq(p, n + 1, Len(p))
<1>6. DirectionOk(WithPipe(s, r), handled[e], w, fDisconnect[f], FALSE)
  <2> DEFINE hd == handled[e]
             c == fDisconnect[f]
  <2>1. DirectionOk(s, hd, v, c, FALSE)
    BY <1>1, <1>4
  <2> HIDE DEF s, v, hd, c
  <2>2. DirectionOk(WithPipe(s, SubSeq(s.pipe, n + 1, Len(s.pipe))), hd,
                    ReceiveMsgBytes(v, SubSeq(s.pipe, 1, n)), c, FALSE)
    BY <1>5, <2>1, OkReceives
  <2> QED BY <1>5, <2>2 DEF hd, c
<1>7. w \in Seq(MessageType)
  <2>1. SubSeq(p, 1, n) \in Seq(ByteType)
    BY <1>5
  <2> HIDE DEF v, p
  <2>2. PICK g : IsReading(g, v, SubSeq(p, 1, n)) /\ w = g[Len(SubSeq(p, 1, n))]
    BY <1>5, <2>1, ReceiveSteps
  <2> DEFINE B == SubSeq(p, 1, n)
  <2>3. Len(B) \in 0 .. Len(B)
    BY <2>1
  <2> HIDE DEF B
  <2>4. g[Len(B)] \in Seq(MessageType)
    BY <2>2, <2>3 DEF IsReading, B
  <2> QED BY <2>2, <2>4 DEF B
<1>8. r \in Seq(ByteType) /\ Len(r) <= Pipe
  <2> HIDE DEF p
  <2> QED BY <1>5
<1> HIDE DEF f, p, v, w, r
<1>9. /\ vRecvMsg' = [vRecvMsg EXCEPT ![e] = w]
      /\ pipe' = [pipe EXCEPT ![f] = r]
  BY <1>3 DEF w, r
<1>10. /\ vRecvMsg \in [End -> Seq(MessageType)] /\ pipe \in [End -> Seq(ByteType)]
       /\ \A d \in End : Len(pipe[d]) <= Pipe
  BY <1>2 DEF TypeOK
<1>11. TypeOK'
  <2>1. vRecvMsg' \in [End -> Seq(MessageType)] /\ pipe' \in [End -> Seq(ByteType)]
    <3> DEFINE M == Seq(MessageType)
               B == Seq(ByteType)
    <3> HIDE DEF M, B
    <3> QED BY <1>7, <1>8, <1>9, <1>10 DEF M, B
  <2>2. ASSUME NEW d \in End PROVE Len(pipe'[d]) <= Pipe
    <3>1. pipe'[d] = r \/ pipe'[d] = pipe[d]
      BY <1>9, <1>10
    <3> QED BY <1>8, <1>10, <3>1
  <2> QED BY <1>2, <1>4, <2>1, <2>2 DEF TypeOK, sendVars
<1>12. vRecvMsg'[e] = w /\ vRecvMsg'[f] = vRecvMsg[f] /\ pipe'[f] = r /\ pipe'[e] = pipe[e]
  BY <1>1, <1>9, <1>10
<1>13. Sending(f)' = WithPipe(s, r) /\ Sending(e)' = Sending(e)
  BY <1>4, <1>12 DEF Sending, WithPipe, sendVars
<1> HIDE DEF s
<1>14. Requests(e)' /\ Requests(f)'
  BY <1>1, <1>4, <1>12 DEF Requests
<1>15. /\ DirectionOk(Sending(e)', handled'[f], vRecvMsg'[f], fDisconnect'[e], fDisconnect'[f])
       /\ DirectionOk(Sending(f)', handled'[e], vRecvMsg'[e], fDisconnect'[f], fDisconnect'[e])
  BY <1>1, <1>4, <1>6, <1>12, <1>13
<1> QED BY <1>11, <1>14, <1>15, BothEnds DEF f

(* Close: e reads no more, and its bytes may be lost.                      *)
LEMMA CloseStep ==
  ASSUME StreamInv, NEW e \in End, Close(e)
  PROVE  StreamInv'
<1> DEFINE f == Other(e)
           s == Sending(e)
           p == pipe[e]
<1>1. /\ f \in End /\ f # e /\ e = Other(f)
      /\ DirectionOk(s, handled[f], vRecvMsg[f], fDisconnect[e], fDisconnect[f])
      /\ DirectionOk(Sending(f), handled[e], vRecvMsg[e], fDisconnect[f], fDisconnect[e])
      /\ Requests(e) /\ Requests(f)
  BY SeenFrom
<1>2. TypeOK
  BY DEF StreamInv
<1>3. PICK n \in {0, Len(p)} : pipe' = [pipe EXCEPT ![e] = SubSeq(p, 1, n)]
  BY DEF Close
<1>4. /\ fDisconnect' = [fDisconnect EXCEPT ![e] = TRUE]
      /\ vRecvMsg' = [vRecvMsg EXCEPT ![e] = <<>>]
      /\ UNCHANGED <<sendVars, vRecvGetData, script, replies, handled>>
  BY DEF Close
<1>5. p \in Seq(ByteType) /\ Len(p) <= Pipe /\ s.pipe = p /\ Pipe \in Nat
  BY <1>2, StreamAssumption DEF TypeOK, Sending
<1> DEFINE r == SubSeq(p, 1, n)
<1>6. DirectionOk(WithPipe(s, r), handled[f], vRecvMsg[f], TRUE, fDisconnect[f])
  <2> DEFINE hd == handled[f]
             v == vRecvMsg[f]
             a == fDisconnect[e]
             c == fDisconnect[f]
  <2>1. DirectionOk(s, hd, v, a, c)
    BY <1>1
  <2>2. n \in {0, Len(s.pipe)}
    BY <1>5
  <2> HIDE DEF s, v, hd, a, c
  <2>3. DirectionOk(WithPipe(s, SubSeq(s.pipe, 1, n)), hd, v, TRUE, c)
    BY <2>1, <2>2, OkCloses
  <2> QED BY <1>5, <2>3 DEF hd, v, c
<1>7. r \in Seq(ByteType) /\ Len(r) <= Pipe
  <2> HIDE DEF p
  <2>1. n \in 0 .. Len(p)
    BY <1>5
  <2> QED BY <1>5, <2>1
<1> HIDE DEF f, p, r
<1>8. /\ fDisconnect \in [End -> BOOLEAN] /\ pipe \in [End -> Seq(ByteType)]
      /\ vRecvMsg \in [End -> Seq(MessageType)]
      /\ \A d \in End : Len(pipe[d]) <= Pipe
      /\ pipe' = [pipe EXCEPT ![e] = r]
  BY <1>2, <1>3 DEF TypeOK, r
<1>9. /\ fDisconnect'[e] = TRUE /\ fDisconnect'[f] = fDisconnect[f]
  BY <1>1, <1>4, <1>8
<1>10. /\ vRecvMsg'[e] = <<>> /\ vRecvMsg'[f] = vRecvMsg[f]
       /\ pipe'[e] = r /\ pipe'[f] = pipe[f]
  BY <1>1, <1>4, <1>8
<1>11. TypeOK'
  <2>1. fDisconnect' \in [End -> BOOLEAN]
    BY <1>4, <1>8
  <2>2. pipe' \in [End -> Seq(ByteType)] /\ vRecvMsg' \in [End -> Seq(MessageType)]
    <3> DEFINE M == Seq(MessageType)
               B == Seq(ByteType)
    <3>1. <<>> \in M
      OBVIOUS
    <3> HIDE DEF M, B
    <3> QED BY <1>4, <1>7, <1>8, <3>1 DEF M, B
  <2>3. ASSUME NEW d \in End PROVE Len(pipe'[d]) <= Pipe
    <3>1. pipe'[d] = r \/ pipe'[d] = pipe[d]
      BY <1>8
    <3> QED BY <1>7, <1>8, <3>1
  <2> QED BY <1>2, <1>4, <2>1, <2>2, <2>3 DEF TypeOK, sendVars
<1>12. Sending(e)' = WithPipe(s, r) /\ Sending(f)' = Sending(f)
  BY <1>4, <1>10 DEF Sending, WithPipe, sendVars
<1> HIDE DEF s
<1>13. Requests(e)'
  BY <1>1, <1>4, <1>10 DEF Requests
<1>14. Requests(f)'
  BY <1>1, <1>4, <1>9, <1>10 DEF Requests
<1>15. DirectionOk(Sending(e)', handled'[f], vRecvMsg'[f], fDisconnect'[e], fDisconnect'[f])
  BY <1>4, <1>6, <1>9, <1>10, <1>12
<1>16. DirectionOk(Sending(f)', handled'[e], vRecvMsg'[e], fDisconnect'[f], fDisconnect'[e])
  BY <1>1, <1>4, <1>9, <1>10, <1>12 DEF DirectionOk
<1> QED BY <1>11, <1>13, <1>14, <1>15, <1>16, BothEnds DEF f

(* The head of a sequence goes to the end of another.                      *)
LEMMA MoveHead ==
  ASSUME NEW X, NEW a \in Seq(X), NEW b \in Seq(X), b # <<>>
  PROVE  Append(a, Head(b)) \o Tail(b) = a \o b
<1> DEFINE x == Head(b)
           u == Tail(b)
           l == Append(a, x) \o u
           r == a \o b
<1>1. /\ u \in Seq(X) /\ Len(u) + 1 = Len(b) /\ x = b[1] /\ x \in X
      /\ Len(u) \in Nat /\ Len(a) \in Nat /\ Len(b) \in Nat
      /\ \A j \in 1 .. Len(u) : u[j] = b[j + 1]
  BY TailOf
<1> HIDE DEF x, u
<1>2. /\ Append(a, x) \in Seq(X) /\ Len(Append(a, x)) = Len(a) + 1
      /\ \A j \in 1 .. Len(a) : Append(a, x)[j] = a[j]
      /\ Append(a, x)[Len(a) + 1] = x
  BY <1>1, AppendOf
<1>3. /\ l \in Seq(X) /\ Len(l) = Len(a) + 1 + Len(u)
      /\ \A j \in 1 .. Len(a) + 1 : l[j] = Append(a, x)[j]
      /\ \A j \in 1 .. Len(u) : l[Len(a) + 1 + j] = u[j]
  BY <1>1, <1>2, ConcatOf
<1>4. /\ r \in Seq(X) /\ Len(r) = Len(a) + Len(b)
      /\ \A j \in 1 .. Len(a) : r[j] = a[j]
      /\ \A j \in 1 .. Len(b) : r[Len(a) + j] = b[j]
  BY ConcatOf
<1> HIDE DEF l, r
<1>5. Len(l) = Len(r)
  <2> DEFINE la == Len(a)
             lu == Len(u)
             lb == Len(b)
  <2>1. /\ la \in Nat /\ lu \in Nat /\ lb = lu + 1
        /\ Len(l) = la + 1 + lu /\ Len(r) = la + lb
    BY <1>1, <1>3, <1>4
  <2> HIDE DEF la, lu, lb
  <2> QED BY <2>1
<1>6. ASSUME NEW j \in 1 .. Len(r) PROVE l[j] = r[j]
  <2>1. CASE j <= Len(a)
    <3>1. j \in 1 .. Len(a) /\ j \in 1 .. Len(a) + 1
      BY <1>1, <2>1
    <3>2. l[j] = a[j]
      BY <1>2, <1>3, <3>1
    <3> QED BY <1>4, <3>1, <3>2
  <2>2. CASE j = Len(a) + 1
    <3>1. r[Len(a) + 1] = b[1]
      BY <1>1, <1>4
    <3> QED BY <1>1, <1>2, <1>3, <2>2, <3>1
  <2>3. CASE j > Len(a) + 1
    <3> DEFINE d == j - (Len(a) + 1)
    <3>1. d \in 1 .. Len(u) /\ d + 1 \in 1 .. Len(b) /\ j = Len(a) + 1 + d /\ j = Len(a) + (d + 1)
      BY <1>1, <1>4, <2>3
    <3> HIDE DEF d
    <3>2. l[j] = u[d]
      BY <1>3, <3>1
    <3>3. r[j] = b[d + 1]
      BY <1>4, <3>1
    <3> QED BY <1>1, <3>1, <3>2, <3>3
  <2> QED BY <1>1, <2>1, <2>2, <2>3
<1>7. l = r
  BY <1>3, <1>4, <1>5, <1>6
<1> QED BY <1>7 DEF l, r, x, u

(* ProcessGetData: an item leaves what is to be answered when it is sent.  *)
LEMMA GetDataStep ==
  ASSUME StreamInv, NEW e \in End, ProcessGetData(e)
  PROVE  StreamInv'
<1> DEFINE f == Other(e)
           g == vRecvGetData[e]
           x == Head(g)
           s == Sending(e)
           t == PushMessage(s, x)
<1>1. /\ f \in End /\ f # e /\ e = Other(f)
      /\ DirectionOk(Sending(e), handled[f], vRecvMsg[f], fDisconnect[e], fDisconnect[f])
      /\ DirectionOk(Sending(f), handled[e], vRecvMsg[e], fDisconnect[f], fDisconnect[e])
      /\ Requests(e) /\ Requests(f)
  BY SeenFrom
<1>2. TypeOK
  BY DEF StreamInv
<1>3. /\ vRecvGetData \in [End -> Seq(Message)] /\ replies \in [End -> Seq(Message)]
      /\ fDisconnect \in [End -> BOOLEAN]
  BY <1>2 DEF TypeOK
<1>4. /\ fDisconnect[e] = FALSE /\ g # <<>>
      /\ Sends(e, t)
      /\ replies' = [replies EXCEPT ![e] = Append(replies[e], x)]
      /\ vRecvGetData' = [vRecvGetData EXCEPT ![e] = Tail(g)]
      /\ UNCHANGED <<vRecvMsg, fDisconnect, script, handled>>
  BY <1>3 DEF ProcessGetData, Open
<1>5. g \in Seq(Message) /\ replies[e] \in Seq(Message)
  BY <1>3
<1>6. x \in Message /\ Tail(g) \in Seq(Message)
  <2> HIDE DEF g
  <2> QED BY <1>4, <1>5
<1>7. Append(replies[e], x) \o Tail(g) = replies[e] \o g
  <2> DEFINE a == replies[e]
  <2> HIDE DEF g, a
  <2> QED BY <1>4, <1>5, MoveHead DEF a
<1>8. Append(replies[e], x) \in Seq(Message)
  BY <1>5, <1>6, AppendOf
<1> DEFINE hd == handled[f]
           v == vRecvMsg[f]
           c == fDisconnect[f]
<1>9. DirectionOk(t, hd, v, FALSE, c)
  <2>1. DirectionOk(s, hd, v, FALSE, c)
    BY <1>1, <1>4
  <2> HIDE DEF s, hd, v, c, x
  <2> QED BY <1>6, <2>1, OkSends
<1>10. Queue(t)
  BY <1>9 DEF DirectionOk
<1> HIDE DEF f, t, x, g
<1>11. /\ Sending(e)' = t /\ Sending(f)' = Sending(f)
       /\ vSendMsg' \in [End -> Seq(Message)]
       /\ nSendOffset' \in [End -> Nat] /\ nSendSize' \in [End -> Nat]
       /\ pipe' \in [End -> Seq(ByteType)] /\ \A d \in End : Len(pipe'[d]) <= Pipe
       /\ sent' \in [End -> Seq(Message)]
  BY <1>2, <1>4, <1>10, SendsOk DEF f
<1>12. vRecvGetData' \in [End -> Seq(Message)] /\ replies' \in [End -> Seq(Message)]
  <2> DEFINE M == Seq(Message)
  <2> HIDE DEF M
  <2> QED BY <1>3, <1>4, <1>6, <1>8 DEF M
<1>13. TypeOK'
  BY <1>2, <1>4, <1>11, <1>12 DEF TypeOK
<1>14. /\ replies'[e] = Append(replies[e], x) /\ vRecvGetData'[e] = Tail(g)
       /\ replies'[f] = replies[f] /\ vRecvGetData'[f] = vRecvGetData[f]
  BY <1>1, <1>3, <1>4
<1>15. Requests(e)'
  BY <1>1, <1>4, <1>7, <1>14 DEF Requests, g
<1>16. Requests(f)'
  BY <1>1, <1>4, <1>14 DEF Requests
<1>17. /\ DirectionOk(Sending(e)', handled'[f], vRecvMsg'[f], fDisconnect'[e], fDisconnect'[f])
       /\ DirectionOk(Sending(f)', handled'[e], vRecvMsg'[e], fDisconnect'[f], fDisconnect'[e])
  BY <1>1, <1>4, <1>9, <1>11
<1> QED BY <1>13, <1>15, <1>16, <1>17, BothEnds DEF f

(* ProcessMessages: the message is the next one that the other end sent,   *)
(* and its answers are sent or left to ProcessGetData.                     *)
LEMMA HandleStep ==
  ASSUME StreamInv, NEW e \in End, ProcessMessages(e)
  PROVE  /\ StreamInv'
         /\ Len(handled[e]) + 1 \in 1 .. Len(sent[Other(e)])
         /\ handled' = [handled EXCEPT ![e] = Append(@, sent[Other(e)][Len(@) + 1])]
<1> DEFINE f == Other(e)
           v == vRecvMsg[e]
           m == Head(v).hdr[1][1]
           a == Answer(m)
           s == Sending(e)
           t == IF a = <<>> THEN s ELSE PushMessage(s, a[1])
<1>1. /\ f \in End /\ f # e /\ e = Other(f)
      /\ DirectionOk(s, handled[f], vRecvMsg[f], fDisconnect[e], fDisconnect[f])
      /\ DirectionOk(Sending(f), handled[e], v, fDisconnect[f], fDisconnect[e])
      /\ Requests(e) /\ Requests(f)
  BY SeenFrom
<1>2. TypeOK
  BY DEF StreamInv
<1>3. /\ vRecvGetData \in [End -> Seq(Message)] /\ replies \in [End -> Seq(Message)]
      /\ fDisconnect \in [End -> BOOLEAN] /\ handled \in [End -> Seq(Message)]
      /\ vRecvMsg \in [End -> Seq(MessageType)] /\ sent \in [End -> Seq(Message)]
  BY <1>2 DEF TypeOK
<1>4. /\ fDisconnect[e] = FALSE /\ vRecvGetData[e] = <<>>
      /\ v # <<>> /\ Complete(Head(v))
      /\ Sends(e, t)
      /\ vRecvMsg' = [vRecvMsg EXCEPT ![e] = Tail(v)]
      /\ handled' = [handled EXCEPT ![e] = Append(handled[e], m)]
      /\ vRecvGetData' = IF m \in Getdata
                         THEN [vRecvGetData EXCEPT ![e] = vRecvGetData[e] \o Items[m]]
                         ELSE vRecvGetData
      /\ replies' = [replies EXCEPT ![e] = replies[e] \o a]
      /\ UNCHANGED <<fDisconnect, script>>
  BY <1>3 DEF ProcessMessages, Open, Blocked
<1>5. /\ m \in Message
      /\ Len(handled[e]) + 1 \in 1 .. Len(Sending(f).sent)
      /\ m = Sending(f).sent[Len(handled[e]) + 1]
      /\ DirectionOk(Sending(f), Append(handled[e], m), Tail(v), fDisconnect[f], FALSE)
  <2> DEFINE sf == Sending(f)
             hd == handled[e]
             cf == fDisconnect[f]
  <2>1. DirectionOk(sf, hd, v, cf, FALSE)
    BY <1>1, <1>4
  <2>2. m = Head(v).hdr[1][1] /\ v # <<>> /\ Complete(Head(v))
    BY <1>4
  <2> HIDE DEF sf, hd, cf, v, m
  <2>3. /\ m \in Message
        /\ Len(hd) + 1 \in 1 .. Len(sf.sent) /\ m = sf.sent[Len(hd) + 1]
        /\ DirectionOk(sf, Append(hd, m), Tail(v), cf, FALSE)
    BY <2>1, <2>2, OkHandles
  <2> QED BY <2>3 DEF sf, hd, cf
<1>6. Sending(f).sent = sent[f]
  BY DEF Sending
<1>7. v \in Seq(MessageType) /\ Tail(v) \in Seq(MessageType)
  <2>1. v \in Seq(MessageType)
    BY <1>3
  <2> HIDE DEF v
  <2> QED BY <1>4, <2>1, TailOf
<1> HIDE DEF m, v
<1>8. Items[m] \in Seq(Message)
  BY <1>5, StreamAssumption
<1>9. a \in Seq(Message) /\ (a # <<>> => a[1] \in Message)
  <2>1. a \in Seq(Message)
    BY <1>8 DEF Answer
  <2> HIDE DEF a
  <2> QED BY <2>1
<1>10. a = IF m \in Getdata THEN <<>> ELSE Items[m]
  BY DEF Answer
<1> DEFINE hd == handled[f]
           vf == vRecvMsg[f]
           c == fDisconnect[f]
<1>11. DirectionOk(t, hd, vf, FALSE, c)
  <2>1. DirectionOk(s, hd, vf, FALSE, c)
    BY <1>1, <1>4
  <2> HIDE DEF s, hd, vf, c, a
  <2>2. \A x \in Message : DirectionOk(PushMessage(s, x), hd, vf, FALSE, c)
    BY <2>1, OkSends
  <2> QED BY <1>9, <2>1, <2>2
<1>12. Queue(t)
  BY <1>11 DEF DirectionOk
<1> HIDE DEF f, t, a
<1>13. /\ Sending(e)' = t /\ Sending(f)' = Sending(f)
       /\ vSendMsg' \in [End -> Seq(Message)]
       /\ nSendOffset' \in [End -> Nat] /\ nSendSize' \in [End -> Nat]
       /\ pipe' \in [End -> Seq(ByteType)] /\ \A d \in End : Len(pipe'[d]) <= Pipe
       /\ sent' \in [End -> Seq(Message)]
  BY <1>2, <1>4, <1>12, SendsOk DEF f
<1>14. replies[e] \o a \in Seq(Message) /\ Append(handled[e], m) \in Seq(Message)
  <2>1. replies[e] \in Seq(Message) /\ handled[e] \in Seq(Message)
    BY <1>3
  <2> QED BY <1>5, <1>9, <2>1, AppendOf, ConcatOf
<1>15. vRecvGetData[e] \o Items[m] = Items[m]
  <2> DEFINE i == Items[m]
  <2>1. i \in Seq(Message)
    BY <1>8
  <2> HIDE DEF i
  <2>2. <<>> \o i = i
    BY <2>1
  <2> QED BY <1>4, <2>2 DEF i
<1>16. /\ replies'[e] = replies[e] \o a /\ replies'[f] = replies[f]
       /\ handled'[e] = Append(handled[e], m) /\ handled'[f] = handled[f]
       /\ vRecvMsg'[e] = Tail(v) /\ vRecvMsg'[f] = vRecvMsg[f]
  BY <1>1, <1>3, <1>4
<1>17. /\ vRecvGetData'[f] = vRecvGetData[f]
       /\ vRecvGetData'[e] = IF m \in Getdata THEN Items[m] ELSE <<>>
  BY <1>1, <1>3, <1>4, <1>15
<1>18. TypeOK'
  <2> DEFINE M == Seq(Message)
             B == Seq(MessageType)
  <2> HIDE DEF M, B
  <2>1. /\ replies' \in [End -> M] /\ handled' \in [End -> M] /\ vRecvMsg' \in [End -> B]
        /\ vRecvGetData' \in [End -> M]
    BY <1>3, <1>4, <1>7, <1>8, <1>14, <1>15 DEF M, B
  <2> QED BY <1>2, <1>4, <1>13, <2>1 DEF TypeOK, M, B
<1>19. Requests(e)'
  <2> DEFINE r == replies[e]
             ms == handled[e]
             i == Items[m]
  <2>1. r \in Seq(Message) /\ ms \in Seq(Message) /\ i \in Seq(Message)
    BY <1>3, <1>8
  <2>2. r \o <<>> = Answers(ms)
    BY <1>1, <1>4 DEF Requests
  <2>3. Answers(Append(ms, m)) = Answers(ms) \o i
    BY <1>5, <2>1, AnswersAppend
  <2> HIDE DEF r, ms, i
  <2>4. r \o <<>> = r /\ (r \o i) \o <<>> = r \o i
    BY <2>1
  <2>5. (r \o a) \o (IF m \in Getdata THEN i ELSE <<>>) = Answers(Append(ms, m))
    <3>1. CASE m \in Getdata
      <4>1. a = <<>>
        BY <1>10, <3>1
      <4> QED BY <2>2, <2>3, <2>4, <3>1, <4>1
    <3>2. CASE m \notin Getdata
      <4>1. a = i
        BY <1>10, <3>2 DEF i
      <4> QED BY <2>2, <2>3, <2>4, <3>2, <4>1
    <3> QED BY <3>1, <3>2
  <2>6. replies'[e] \o vRecvGetData'[e] = Answers(handled'[e])
    BY <1>16, <1>17, <2>5 DEF r, ms, i
  <2> QED BY <1>4, <2>6 DEF Requests
<1>20. Requests(f)'
  BY <1>1, <1>4, <1>16, <1>17 DEF Requests
<1>21. DirectionOk(Sending(e)', handled'[f], vRecvMsg'[f], fDisconnect'[e], fDisconnect'[f])
  BY <1>4, <1>11, <1>13, <1>16
<1>22. DirectionOk(Sending(f)', handled'[e], vRecvMsg'[e], fDisconnect'[f], fDisconnect'[e])
  BY <1>4, <1>5, <1>13, <1>16
<1>23. StreamInv'
  BY <1>18, <1>19, <1>20, <1>21, <1>22, BothEnds DEF f
<1> QED BY <1>4, <1>5, <1>6, <1>23 DEF f

(* Every step keeps the invariant, action by action.                       *)
LEMMA NextStream == StreamInv /\ [Next]_vars => StreamInv'
<1> SUFFICES ASSUME StreamInv, [Next]_vars PROVE StreamInv'
  OBVIOUS
<1>0. TypeOK
  BY DEF StreamInv
<1>1. ASSUME NEW e \in End, SendMessages(e) PROVE StreamInv'
  <2> DEFINE x == Head(script[e])
             t == PushMessage(Sending(e), x)
  <2>1. /\ ~fDisconnect[e] /\ script[e] # <<>> /\ Sends(e, t)
        /\ script' = [script EXCEPT ![e] = Tail(script[e])]
        /\ UNCHANGED <<vRecvMsg, vRecvGetData, fDisconnect, replies, handled>>
    BY <1>1 DEF SendMessages, Open
  <2>2. script \in [End -> Seq(Message)]
    BY <1>0 DEF TypeOK
  <2>3. x \in Message /\ Tail(script[e]) \in Seq(Message)
    <3> DEFINE c == script[e]
    <3>1. c \in Seq(Message) /\ c # <<>>
      BY <2>1, <2>2
    <3> HIDE DEF c
    <3>2. Head(c) \in Message /\ Tail(c) \in Seq(Message)
      BY <3>1
    <3> QED BY <3>2 DEF c
  <2>4. script' \in [End -> Seq(Message)]
    <3> DEFINE M == Seq(Message)
    <3> HIDE DEF M
    <3> QED BY <2>1, <2>2, <2>3 DEF M
  <2>5. \E m \in Message : t = PushMessage(Sending(e), m)
    BY <2>3
  <2> HIDE DEF t
  <2> QED BY <2>1, <2>4, <2>5, WritesOk
<1>2. ASSUME NEW e \in End, SendReady(e) PROVE StreamInv'
  <2> DEFINE t == SocketSendData(Sending(e))
  <2>1. /\ ~fDisconnect[e] /\ Sends(e, t) /\ t = SocketSendData(Sending(e))
        /\ script' = script
        /\ UNCHANGED <<vRecvMsg, vRecvGetData, fDisconnect, replies, handled>>
    BY <1>2 DEF SendReady, Open
  <2>2. script' \in [End -> Seq(Message)]
    BY <1>0, <2>1 DEF TypeOK
  <2> HIDE DEF t
  <2> QED BY <2>1, <2>2, WritesOk
<1>3. ASSUME NEW e \in End, Receive(e) PROVE StreamInv'
  BY <1>3, ReceiveStep
<1>4. ASSUME NEW e \in End, ProcessMessages(e) PROVE StreamInv'
  BY <1>4, HandleStep
<1>5. ASSUME NEW e \in End, ProcessGetData(e) PROVE StreamInv'
  BY <1>5, GetDataStep
<1>6. ASSUME NEW e \in End, Flood(e) \/ Disconnected(e) \/ InactivityTimeout(e) \/ Breaks(e)
      PROVE  StreamInv'
  <2>1. Close(e)
    BY <1>6 DEF Flood, Disconnected, InactivityTimeout, Breaks
  <2> QED BY <2>1, CloseStep
<1>7. ASSUME UNCHANGED vars PROVE StreamInv'
  <2>1. UNCHANGED <<vSendMsg, nSendOffset, nSendSize, sent, vRecvMsg, vRecvGetData,
                    fDisconnect, pipe, script, replies, handled>>
    BY <1>7 DEF vars, sendVars
  <2>2. TypeOK'
    BY <1>0, <2>1 DEF TypeOK
  <2>3. ASSUME NEW e \in End PROVE Bytestream(e)' /\ Requests(e)'
    <3>1. Bytestream(e) /\ Requests(e)
      BY DEF StreamInv
    <3>2. Sending(e)' = Sending(e)
      BY <2>1 DEF Sending
    <3>3. Bytestream(e)'
      BY <2>1, <3>1, <3>2 DEF Bytestream
    <3>4. Requests(e)'
      BY <2>1, <3>1 DEF Requests
    <3> QED BY <3>3, <3>4
  <2> QED BY <2>2, <2>3 DEF StreamInv
<1> QED BY <1>1, <1>2, <1>3, <1>4, <1>5, <1>6, <1>7 DEF Next

(* The invariant holds of every reachable state.                           *)
LEMMA StreamInvariant == Spec => []StreamInv
<1>1. Init => StreamInv
  BY InitStream
<1>2. StreamInv /\ [Next]_vars => StreamInv'
  BY NextStream
<1> QED BY <1>1, <1>2, PTL DEF Spec

-----------------------------------------------------------------------------
(* What follows *)

(* A prefix, element by element.                                           *)
LEMMA PrefixOf ==
  ASSUME NEW X, NEW a \in Seq(X), NEW b \in Seq(X), Len(a) <= Len(b),
         \A i \in 1 .. Len(a) : a[i] = b[i]
  PROVE  IsPrefix(a, b)
<1>1. SubSeq(a, 1, Len(a)) = SubSeq(b, 1, Len(a))
  OBVIOUS
<1> QED BY <1>1 DEF IsPrefix

(* A part of a message is the beginning of its bytes.                      *)
LEMMA PartPrefix ==
  ASSUME NEW m \in Message, NEW t \in 1 .. TotalSize(m), NEW msg, IsPart(msg, m, t)
  PROVE  IsPrefix(msg.hdr \o msg.vRecv, Bytes(m))
<1> DEFINE a == msg.hdr
           d == msg.vRecv
           B == Bytes(m)
           H == HeaderSize
<1>1. H \in Nat \ {0} /\ TotalSize(m) \in Nat /\ t \in Nat /\ t <= TotalSize(m)
  BY SizeType
<1>2. /\ a \in Seq(ByteType) /\ d \in Seq(ByteType)
      /\ Len(a) = IF t < H THEN t ELSE H
      /\ Len(d) = IF t < H THEN 0 ELSE t - H
      /\ \A k \in 1 .. Len(a) : a[k] = <<m, k>>
      /\ \A k \in 1 .. Len(d) : d[k] = <<m, H + k>>
  BY DEF IsPart, MessageType
<1>3. /\ B \in Seq(ByteType) /\ Len(B) = TotalSize(m)
      /\ \A k \in 1 .. TotalSize(m) : B[k] = <<m, k>>
  BY <1>1 DEF Bytes, ByteType
<1> HIDE DEF a, d, B, H
<1> DEFINE c == a \o d
<1>4. /\ c \in Seq(ByteType) /\ Len(c) = Len(a) + Len(d)
      /\ \A j \in 1 .. Len(a) : c[j] = a[j]
      /\ \A j \in 1 .. Len(d) : c[Len(a) + j] = d[j]
  BY <1>2, ConcatOf
<1> HIDE DEF c
<1>5. Len(c) = t
  BY <1>1, <1>2, <1>4
<1>6. ASSUME NEW j \in 1 .. Len(c) PROVE c[j] = B[j]
  <2>1. B[j] = <<m, j>>
    BY <1>1, <1>3, <1>5
  <2>2. CASE j \in 1 .. Len(a)
    BY <1>2, <1>4, <2>1, <2>2
  <2>3. CASE j \notin 1 .. Len(a)
    <3> DEFINE k == j - H
    <3>1. Len(a) = H /\ k \in 1 .. Len(d) /\ H + k = j
      BY <1>1, <1>2, <1>5, <2>3
    <3> HIDE DEF k
    <3>2. c[H + k] = d[k] /\ d[k] = <<m, H + k>>
      BY <1>2, <1>4, <3>1
    <3> QED BY <2>1, <3>1, <3>2
  <2> QED BY <2>2, <2>3
<1>7. IsPrefix(c, B)
  BY <1>1, <1>3, <1>4, <1>5, <1>6, PrefixOf
<1> QED BY <1>7 DEF c, a, d, B

(* What was received are beginnings of messages, all but the last whole.   *)
LEMMA ReceivedAligned ==
  ASSUME NEW S \in Seq(Message), NEW v, NEW h \in Nat, NEW i, NEW k, Received(v, S, h, i, k),
         NEW j \in 1 .. Len(v)
  PROVE  /\ v[j].hdr # <<>>
         /\ IsPrefix(v[j].hdr \o v[j].vRecv, Bytes(v[j].hdr[1][1]))
         /\ j < Len(v) => Complete(v[j])
<1>1. /\ v \in Seq(MessageType) /\ i \in Nat /\ k \in Nat /\ h < i
      /\ h + Len(v) <= Len(S) /\ Len(v) \in Nat /\ Len(S) \in Nat
      /\ k = 0 => i = h + Len(v) + 1
      /\ k # 0 => i = h + Len(v) /\ k < TotalSize(S[i])
  BY DEF Received
<1> DEFINE m == S[h + j]
           t == IF h + j < i THEN TotalSize(m) ELSE k
<1>2. h + j \in 1 .. Len(S)
  BY <1>1
<1>3. m \in Message /\ TotalSize(m) \in Nat \ {0}
  BY <1>2, SizeType
<1>4. t \in 1 .. TotalSize(m) /\ IsPart(v[j], m, t)
  <2>1. CASE h + j < i
    <3>1. IsPart(v[j], m, TotalSize(m))
      BY <2>1 DEF Received
    <3> QED BY <1>3, <2>1, <3>1
  <2>2. CASE ~(h + j < i)
    <3>1. k # 0 /\ h + j = i
      BY <1>1, <2>2
    <3>2. IsPart(v[j], m, k) /\ k < TotalSize(m)
      BY <1>1, <3>1 DEF Received
    <3> QED BY <1>1, <1>3, <2>2, <3>1, <3>2
  <2> QED BY <2>1, <2>2
<1>5. j < Len(v) => h + j < i
  BY <1>1
<1>6. j < Len(v) => t = TotalSize(m)
  BY <1>5
<1> HIDE DEF m, t
<1>7. v[j].hdr # <<>> /\ v[j].hdr[1][1] = m /\ (Complete(v[j]) <=> t = TotalSize(m))
  BY <1>3, <1>4, PartComplete
<1>8. IsPrefix(v[j].hdr \o v[j].vRecv, Bytes(m))
  BY <1>3, <1>4, PartPrefix
<1> QED BY <1>6, <1>7, <1>8

(* What the invariant says of each end: whole frames, exact counters,      *)
(* answers in order.                                                       *)
LEMMA InvImpliesExact == StreamInv => QueuesExact
<1> SUFFICES ASSUME StreamInv PROVE QueuesExact
  OBVIOUS
<1>1. TypeOK
  BY DEF StreamInv
<1>2. FramesAligned
  <2>1. ASSUME NEW e \in End, NEW i \in DOMAIN vRecvMsg[e]
        PROVE  /\ vRecvMsg[e][i].hdr # <<>>
               /\ IsPrefix(vRecvMsg[e][i].hdr \o vRecvMsg[e][i].vRecv,
                           Bytes(vRecvMsg[e][i].hdr[1][1]))
               /\ i < Len(vRecvMsg[e]) => Complete(vRecvMsg[e][i])
    <3> DEFINE v == vRecvMsg[e]
               f == Other(e)
               s == Sending(f)
               hd == handled[e]
    <3>1. /\ f \in End
          /\ DirectionOk(s, hd, v, fDisconnect[f], fDisconnect[e])
          /\ Requests(e)
      BY SeenFrom
    <3>2. v \in Seq(MessageType)
      BY <1>1 DEF TypeOK
    <3>3. i \in 1 .. Len(v)
      <4>1. i \in DOMAIN v
        OBVIOUS
      <4> HIDE DEF v
      <4> QED BY <3>2, <4>1
    <3>4. ~fDisconnect[e]
      <4>1. v # <<>>
        <5> HIDE DEF v
        <5> QED BY <3>2, <3>3
      <4> QED BY <3>1, <4>1 DEF Requests
    <3>5. Queue(s) /\ Continues(s.sent, hd) /\ Direction(s, v, Len(hd), fDisconnect[f])
      BY <3>1, <3>4 DEF DirectionOk
    <3> HIDE DEF v, s, hd
    <3>6. PICK a, b : Received(v, s.sent, Len(hd), a, b)
      BY <3>5 DEF Direction
    <3>7. s.sent \in Seq(Message) /\ Len(hd) \in Nat
      BY <3>5 DEF Continues
    <3>8. /\ v[i].hdr # <<>>
          /\ IsPrefix(v[i].hdr \o v[i].vRecv, Bytes(v[i].hdr[1][1]))
          /\ i < Len(v) => Complete(v[i])
      BY <3>3, <3>6, <3>7, ReceivedAligned
    <3> QED BY <3>8 DEF v
  <2> QED BY <2>1 DEF FramesAligned
<1>3. SendQueueExact
  <2>1. ASSUME NEW e \in End
        PROVE  /\ nSendSize[e] = SizeOf(vSendMsg[e])
               /\ vSendMsg[e] = <<>> => nSendOffset[e] = 0
               /\ vSendMsg[e] # <<>> => nSendOffset[e] < TotalSize(Head(vSendMsg[e]))
    <3>1. Queue(Sending(e))
      BY DEF StreamInv, Bytestream, DirectionOk
    <3>2. /\ Sending(e).vSendMsg = vSendMsg[e] /\ Sending(e).nSendSize = nSendSize[e]
          /\ Sending(e).nSendOffset = nSendOffset[e]
      BY DEF Sending
    <3> QED BY <3>1, <3>2 DEF Queue
  <2> QED BY <2>1 DEF SendQueueExact
<1>4. ResponsesInOrder
  <2>1. ASSUME NEW e \in End PROVE IsPrefix(replies[e], Answers(handled[e]))
    <3> DEFINE r == replies[e]
               g == vRecvGetData[e]
               a == Answers(handled[e])
    <3>1. r \in Seq(Message) /\ g \in Seq(Message)
      BY <1>1 DEF TypeOK
    <3>2. r \o g = a
      BY DEF StreamInv, Requests
    <3> HIDE DEF r, g, a
    <3>3. /\ a \in Seq(Message) /\ Len(r) <= Len(a)
          /\ \A j \in 1 .. Len(r) : a[j] = r[j]
      <4>1. /\ r \o g \in Seq(Message) /\ Len(r \o g) = Len(r) + Len(g)
            /\ Len(r) \in Nat /\ Len(g) \in Nat
            /\ \A j \in 1 .. Len(r) : (r \o g)[j] = r[j]
        BY <3>1, ConcatOf
      <4>2. Len(r) <= Len(r) + Len(g)
        BY <4>1
      <4> QED BY <3>2, <4>1, <4>2
    <3>4. IsPrefix(r, a)
      BY <3>1, <3>3, PrefixOf
    <3> QED BY <3>4 DEF r, a
  <2> QED BY <2>1 DEF ResponsesInOrder
<1> QED BY <1>1, <1>2, <1>3, <1>4 DEF QueuesExact

(* SocketSendData's assertions, the framing of ReceiveMsgBytes and the     *)
(* order of the answers of ProcessMessages hold in every state, however    *)
(* the stream is cut into writes and reads: headers are read as headers,   *)
(* the offset is inside the first message, nSendSize is the size of the    *)
(* queue, and the answers sent are the first of those that are due.        *)
THEOREM QueuesAlwaysExact == Spec => []QueuesExact
BY StreamInvariant, InvImpliesExact, PTL

-----------------------------------------------------------------------------
(* The refinement *)

(* A step that sends nothing, or one message, does so in the channel.      *)
LEMMA ChannelSends ==
  ASSUME TypeOK, NEW e \in End, NEW t, Queue(t), Sends(e, t),
         t.sent = sent[e] \/ \E m \in Message : t.sent = Append(sent[e], m)
  PROVE  C!Sends(e)
<1>1. sent' = [sent EXCEPT ![e] = t.sent] /\ sent \in [End -> Seq(Message)]
  BY DEF Sends, TypeOK
<1> DEFINE N == {<<>>} \cup {<<m>> : m \in Message}
           q == sent[e]
<1>2. q \in Seq(Message)
  BY <1>1
<1>3. \E new \in N : t.sent = q \o new
  <2>1. CASE t.sent = q
    <3>1. <<>> \in N
      OBVIOUS
    <3> HIDE DEF q, N
    <3>2. q \o <<>> = q
      BY <1>2
    <3> QED BY <2>1, <3>1, <3>2
  <2>2. ASSUME NEW m \in Message, t.sent = Append(q, m) PROVE \E new \in N : t.sent = q \o new
    <3>1. <<m>> \in N
      OBVIOUS
    <3> HIDE DEF q, N
    <3>2. q \o <<m>> = Append(q, m)
      BY <1>2
    <3> QED BY <2>2, <3>1, <3>2
  <2> QED BY <2>1, <2>2
<1> HIDE DEF N
<1>4. PICK new \in N : t.sent = q \o new
  BY <1>3
<1>5. sent' = [sent EXCEPT ![e] = sent[e] \o new]
  BY <1>1, <1>4 DEF q
<1> QED BY <1>5 DEF C!Sends, N

(* What is closed changes with fDisconnect only.                           *)
ClosedEnds == {e \in End : ~Open(e)}

(* The empty connection is an empty channel.                               *)
LEMMA ChannelInit == Init => C!Init
<1> SUFFICES ASSUME Init PROVE C!Init
  OBVIOUS
<1>1. {e \in End : ~Open(e)} = {}
  BY DEF Init, Open
<1> QED BY <1>1 DEF Init, C!Init

(* Every step of the connection is one of the channel, or none.            *)
LEMMA ChannelNext == StreamInv /\ [Next]_vars => [C!Next]_C!channelVars
<1> SUFFICES ASSUME StreamInv, [Next]_vars PROVE [C!Next]_C!channelVars
  OBVIOUS
<1>0. TypeOK
  BY DEF StreamInv
<1>1. ASSUME UNCHANGED fDisconnect PROVE ClosedEnds' = ClosedEnds
  BY <1>1 DEF ClosedEnds, Open
<1>2. ASSUME NEW e \in End, NEW t, Queue(t), Sends(e, t), Open(e),
             t.sent = sent[e] \/ \E m \in Message : t.sent = Append(sent[e], m),
             UNCHANGED <<fDisconnect, handled>>
      PROVE  C!Next
  <2>1. C!Sends(e)
    BY <1>0, <1>2, ChannelSends
  <2>2. e \notin ClosedEnds /\ ClosedEnds' = ClosedEnds /\ handled' = handled
    BY <1>1, <1>2 DEF ClosedEnds
  <2>3. C!Write(e)
    BY <2>1, <2>2 DEF C!Write, ClosedEnds
  <2> QED BY <2>3 DEF C!Next
<1>3. ASSUME NEW e \in End
      PROVE  /\ Queue(Sending(e)) /\ Sending(e).sent = sent[e]
             /\ Queue(SocketSendData(Sending(e))) /\ SocketSendData(Sending(e)).sent = sent[e]
             /\ \A m \in Message : /\ Queue(PushMessage(Sending(e), m))
                                   /\ PushMessage(Sending(e), m).sent = Append(sent[e], m)
  <2>1. Queue(Sending(e)) /\ Sending(e).sent = sent[e]
    BY DEF StreamInv, Bytestream, DirectionOk, Sending
  <2> QED BY <2>1, QueueSends
<1>4. ASSUME NEW e \in End, SendMessages(e) PROVE C!Next
  <2> DEFINE x == Head(script[e])
             t == PushMessage(Sending(e), x)
  <2>1. Open(e) /\ Sends(e, t) /\ UNCHANGED <<fDisconnect, handled>> /\ script[e] # <<>>
    BY <1>4 DEF SendMessages
  <2>2. x \in Message
    <3> DEFINE c == script[e]
    <3>1. c \in Seq(Message) /\ c # <<>>
      BY <1>0, <2>1 DEF TypeOK
    <3> HIDE DEF c
    <3>2. Head(c) \in Message
      BY <3>1
    <3> QED BY <3>2 DEF c
  <2>3. Queue(t) /\ t.sent = Append(sent[e], x)
    BY <1>3, <2>2
  <2> HIDE DEF t, x
  <2> QED BY <1>2, <2>1, <2>2, <2>3
<1>5. ASSUME NEW e \in End, SendReady(e) PROVE C!Next
  <2> DEFINE t == SocketSendData(Sending(e))
  <2>1. Open(e) /\ Sends(e, t) /\ UNCHANGED <<fDisconnect, handled>>
    BY <1>5 DEF SendReady
  <2>2. Queue(t) /\ t.sent = sent[e]
    BY <1>3
  <2> HIDE DEF t
  <2> QED BY <1>2, <2>1, <2>2
<1>6. ASSUME NEW e \in End, ProcessGetData(e) PROVE C!Next
  <2> DEFINE x == Head(vRecvGetData[e])
             t == PushMessage(Sending(e), x)
  <2>1. /\ Open(e) /\ Sends(e, t) /\ UNCHANGED <<fDisconnect, handled>>
        /\ vRecvGetData[e] # <<>>
    BY <1>6 DEF ProcessGetData
  <2>2. x \in Message
    <3> DEFINE c == vRecvGetData[e]
    <3>1. c \in Seq(Message) /\ c # <<>>
      BY <1>0, <2>1 DEF TypeOK
    <3> HIDE DEF c
    <3>2. Head(c) \in Message
      BY <3>1
    <3> QED BY <3>2 DEF c
  <2>3. Queue(t) /\ t.sent = Append(sent[e], x)
    BY <1>3, <2>2
  <2> HIDE DEF t, x
  <2> QED BY <1>2, <2>1, <2>2, <2>3
<1>7. ASSUME NEW e \in End, ProcessMessages(e) PROVE C!Next
  <2> DEFINE m == Head(vRecvMsg[e]).hdr[1][1]
             a == Answer(m)
             s == Sending(e)
             t == IF a = <<>> THEN s ELSE PushMessage(s, a[1])
  <2>1. Open(e) /\ Sends(e, t) /\ UNCHANGED fDisconnect
    BY <1>7 DEF ProcessMessages
  <2>2. /\ Len(handled[e]) + 1 \in 1 .. Len(sent[Other(e)])
        /\ handled' = [handled EXCEPT ![e] = Append(@, sent[Other(e)][Len(@) + 1])]
    BY <1>7, HandleStep
  <2>3. a # <<>> => a[1] \in Message
    <3>1. SUFFICES ASSUME a # <<>> PROVE a[1] \in Message
      OBVIOUS
    <3>2. m \in Message
      <4>1. /\ handled'[e] = Append(handled[e], m) /\ handled[e] \in Seq(Message)
            /\ sent[Other(e)] \in Seq(Message)
            /\ handled'[e] = Append(handled[e], sent[Other(e)][Len(handled[e]) + 1])
        BY <1>0, <1>7, <2>2, OtherEnd DEF ProcessMessages, TypeOK
      <4> DEFINE hd == handled[e]
                 S == sent[Other(e)]
                 x == S[Len(hd) + 1]
      <4>2. Append(hd, m) = Append(hd, x) /\ hd \in Seq(Message) /\ S \in Seq(Message)
        BY <4>1
      <4>3. Len(hd) + 1 \in 1 .. Len(S)
        BY <2>2
      <4> HIDE DEF hd, m, S
      <4>4. x \in Message
        BY <4>2, <4>3
      <4>5. Append(hd, m)[Len(hd) + 1] = m /\ Append(hd, x)[Len(hd) + 1] = x
        BY <4>2
      <4>6. m = x
        BY <4>2, <4>5
      <4> QED BY <4>4, <4>6
    <3>3. a \in Seq(Message)
      <4>1. Items[m] \in Seq(Message)
        BY <3>2, StreamAssumption
      <4> QED BY <4>1 DEF Answer
    <3> HIDE DEF a
    <3> QED BY <3>1, <3>3
  <2>4. Queue(t) /\ (t.sent = sent[e] \/ \E x \in Message : t.sent = Append(sent[e], x))
    <3> HIDE DEF a
    <3>1. CASE a = <<>>
      BY <1>3, <3>1
    <3>2. CASE a # <<>>
      <4>1. t = PushMessage(s, a[1]) /\ a[1] \in Message
        BY <2>3, <3>2
      <4> QED BY <1>3, <4>1
    <3> QED BY <3>1, <3>2
  <2> HIDE DEF t
  <2>5. C!Sends(e)
    BY <1>0, <2>1, <2>4, ChannelSends
  <2>6. e \notin ClosedEnds /\ ClosedEnds' = ClosedEnds
    BY <1>1, <2>1 DEF ClosedEnds
  <2>7. C!Peer(e) = Other(e)
    BY DEF C!Peer, Other
  <2>8. Len(handled[e]) < Len(sent[Other(e)])
    <3>1. handled[e] \in Seq(Message) /\ sent[Other(e)] \in Seq(Message)
      BY <1>0, OtherEnd DEF TypeOK
    <3>2. Len(handled[e]) \in Nat /\ Len(sent[Other(e)]) \in Nat
      BY <3>1
    <3> QED BY <2>2, <3>2
  <2>9. C!Handle(e)
    BY <2>2, <2>5, <2>6, <2>7, <2>8 DEF C!Handle, ClosedEnds
  <2> QED BY <2>9 DEF C!Next
<1>8. ASSUME NEW e \in End, Receive(e) PROVE UNCHANGED C!channelVars
  <2>1. UNCHANGED <<sent, handled, fDisconnect>>
    BY <1>8 DEF Receive, sendVars
  <2>2. ClosedEnds' = ClosedEnds
    BY <1>1, <2>1
  <2> QED BY <2>1, <2>2 DEF C!channelVars, ClosedEnds
<1>9. ASSUME NEW e \in End, Flood(e) \/ Disconnected(e) \/ InactivityTimeout(e) \/ Breaks(e)
      PROVE  C!Next
  <2>1. Close(e)
    BY <1>9 DEF Flood, Disconnected, InactivityTimeout, Breaks
  <2>2. fDisconnect' = [fDisconnect EXCEPT ![e] = TRUE] /\ UNCHANGED <<sent, handled>>
    BY <2>1 DEF Close, sendVars
  <2>3. ClosedEnds' = ClosedEnds \cup {e}
    <3>1. fDisconnect \in [End -> BOOLEAN]
      BY <1>0 DEF TypeOK
    <3>2. fDisconnect'[e] = TRUE /\ \A d \in End \ {e} : fDisconnect'[d] = fDisconnect[d]
      BY <2>2, <3>1
    <3> QED BY <3>2 DEF ClosedEnds, Open
  <2>4. C!Close(e)
    BY <2>2, <2>3 DEF C!Close, ClosedEnds
  <2> QED BY <2>4 DEF C!Next
<1>10. ASSUME UNCHANGED vars PROVE UNCHANGED C!channelVars
  <2>1. UNCHANGED <<sent, handled, fDisconnect>>
    BY <1>10 DEF vars, sendVars
  <2>2. ClosedEnds' = ClosedEnds
    BY <1>1, <2>1
  <2> QED BY <2>1, <2>2 DEF C!channelVars, ClosedEnds
<1> QED BY <1>4, <1>5, <1>6, <1>7, <1>8, <1>9, <1>10 DEF Next

(* The queues, the partial writes and reads and the framing are a Channel: *)
(* each end handles the messages of the other whole, once and in the order *)
(* they were given to EndMessage, and an end that has closed neither sends *)
(* nor handles any more.                                                   *)
THEOREM StreamImplementsChannel == Spec => ImplementsChannel
<1>1. Init => C!Init
  BY ChannelInit
<1>2. StreamInv /\ [Next]_vars => [C!Next]_C!channelVars
  BY ChannelNext
<1> QED BY <1>1, <1>2, StreamInvariant, PTL DEF Spec, ImplementsChannel, C!Spec

=============================================================================
