-------------------------- MODULE EventQueues_proofs --------------------------
(***************************************************************************)
(* Theorems about MCEventQueues, for every set of queues and programs,     *)
(* every horizon and every number of events: the iterator over the event   *)
(* queues gives the event loop its events in the order EventLoop assumes.  *)
(***************************************************************************)
EXTENDS MCEventQueues, EventLoop_proofs, Selections_proofs, SequenceTheorems,
        FiniteSetTheorems, TLAPS

-----------------------------------------------------------------------------
(* Lists in order                                                          *)

\* R orders S strictly, one element before the other.
IsStrictOrder(R, S) ==
  /\ \A x \in S : << x, x >> \notin R
  /\ \A x, y \in S : x = y \/ << x, y >> \in R \/ << y, x >> \in R
  /\ \A x, y, z \in S : << x, y >> \in R /\ << y, z >> \in R => << x, z >> \in R

\* The list has the elements of S, in the order R.
IsListOf(list, S, R) ==
  /\ list \in Seq(S)
  /\ \A x \in S : \E i \in 1 .. Len(list) : list[i] = x
  /\ \A i, j \in 1 .. Len(list) : i < j => << list[i], list[j] >> \in R

\* The entries of a list with one more.
LEMMA Insertion ==
  ASSUME NEW T, NEW s \in Seq(T), NEW e \in T
  PROVE  \A i \in 1 .. Len(s) + 1 :
           /\ InsertAt(s, i, e) \in Seq(T) /\ Len(InsertAt(s, i, e)) = Len(s) + 1
           /\ \A j \in 1 .. Len(s) + 1 :
                InsertAt(s, i, e)[j] = IF j < i THEN s[j] ELSE IF j = i THEN e ELSE s[j - 1]
<1> TAKE i \in 1 .. Len(s) + 1
<1> DEFINE a == SubSeq(s, 1, i - 1)
           b == SubSeq(s, i, Len(s))
           c == a \o << e >>
<1>0. Len(s) \in Nat /\ i \in Int
  OBVIOUS
<1>1. a \in Seq(T) /\ Len(a) = i - 1 /\ \A k \in 1 .. i - 1 : a[k] = s[k]
  BY SubSeqProperties
<1>2. /\ b \in Seq(T) /\ Len(b) = Len(s) - i + 1
      /\ \A k \in 1 .. Len(s) - i + 1 : b[k] = s[i + k - 1]
  BY SubSeqProperties
<1>3. << e >> \in Seq(T) /\ Len(<< e >>) = 1 /\ << e >>[1] = e
  OBVIOUS
<1>4. c \in Seq(T) /\ Len(c) = i /\ \A k \in 1 .. i : c[k] = IF k < i THEN s[k] ELSE e
  <2> HIDE DEF a
  <2> QED BY <1>1, <1>3, ConcatProperties
<1>5. InsertAt(s, i, e) = c \o b
  BY DEF InsertAt
<1> HIDE DEF a, b, c
<1>6. /\ c \o b \in Seq(T) /\ Len(c \o b) = Len(s) + 1
      /\ \A j \in 1 .. Len(s) + 1 : (c \o b)[j] = IF j <= i THEN c[j] ELSE b[j - i]
  <2>1. /\ c \o b \in Seq(T) /\ Len(c \o b) = Len(c) + Len(b)
        /\ \A j \in 1 .. Len(c) + Len(b) :
             (c \o b)[j] = IF j <= Len(c) THEN c[j] ELSE b[j - Len(c)]
    BY <1>2, <1>4, ConcatProperties
  <2>2. Len(c) = i /\ Len(c) + Len(b) = Len(s) + 1
    BY <1>0, <1>2, <1>4
  <2> QED
    BY <2>1, <2>2
<1>7. ASSUME NEW j \in 1 .. Len(s) + 1
      PROVE  (c \o b)[j] = IF j < i THEN s[j] ELSE IF j = i THEN e ELSE s[j - 1]
  <2>1. CASE j <= i
    BY <1>4, <1>6, <2>1
  <2>2. CASE j > i
    <3>1. j - i \in 1 .. Len(s) - i + 1 /\ i + (j - i) - 1 = j - 1
      BY <1>0, <2>2
    <3>2. b[j - i] = s[i + (j - i) - 1]
      BY <1>2, <3>1
    <3> QED
      BY <1>6, <2>2, <3>1, <3>2
  <2>3. j <= i \/ j > i
    BY <1>0
  <2> QED
    BY <2>1, <2>2, <2>3
<1> QED
  BY <1>5, <1>6, <1>7

\* The entries of a list with one less.
LEMMA Removal ==
  ASSUME NEW T, NEW s \in Seq(T), NEW i \in 1 .. Len(s)
  PROVE  /\ RemoveAt(s, i) \in Seq(T) /\ Len(RemoveAt(s, i)) = Len(s) - 1
         /\ \A j \in 1 .. Len(s) - 1 :
              RemoveAt(s, i)[j] = IF j < i THEN s[j] ELSE s[j + 1]
<1> DEFINE a == SubSeq(s, 1, i - 1)
           b == SubSeq(s, i + 1, Len(s))
<1>0. Len(s) \in Nat /\ i \in Int
  OBVIOUS
<1>1. a \in Seq(T) /\ Len(a) = i - 1 /\ \A k \in 1 .. i - 1 : a[k] = s[k]
  BY SubSeqProperties
<1>2. b \in Seq(T) /\ Len(b) = Len(s) - i /\ \A k \in 1 .. Len(s) - i : b[k] = s[i + k]
  BY SubSeqProperties
<1>3. RemoveAt(s, i) = a \o b
  BY DEF RemoveAt
<1> HIDE DEF a, b
<1>4. /\ a \o b \in Seq(T) /\ Len(a \o b) = Len(s) - 1
      /\ \A j \in 1 .. Len(s) - 1 : (a \o b)[j] = IF j <= i - 1 THEN a[j] ELSE b[j - (i - 1)]
  <2>1. /\ a \o b \in Seq(T) /\ Len(a \o b) = Len(a) + Len(b)
        /\ \A j \in 1 .. Len(a) + Len(b) :
             (a \o b)[j] = IF j <= Len(a) THEN a[j] ELSE b[j - Len(a)]
    BY <1>1, <1>2, ConcatProperties
  <2>2. Len(a) = i - 1 /\ Len(a) + Len(b) = Len(s) - 1
    BY <1>0, <1>1, <1>2
  <2> QED
    BY <2>1, <2>2
<1>5. ASSUME NEW j \in 1 .. Len(s) - 1
      PROVE  (a \o b)[j] = IF j < i THEN s[j] ELSE s[j + 1]
  <2>1. CASE j < i
    BY <1>1, <1>4, <2>1
  <2>2. CASE j >= i
    <3>1. j - (i - 1) \in 1 .. Len(s) - i /\ i + (j - (i - 1)) = j + 1
      BY <1>0, <2>2
    <3>2. b[j - (i - 1)] = s[i + (j - (i - 1))]
      BY <1>2, <3>1
    <3> QED
      BY <1>0, <1>4, <2>2, <3>1, <3>2
  <2>3. j < i \/ j >= i
    BY <1>0
  <2> QED
    BY <2>1, <2>2, <2>3
<1> QED
  BY <1>3, <1>4, <1>5

\* No element comes twice.
LEMMA ListIsInjective ==
  ASSUME NEW S, NEW R, NEW list, IsListOf(list, S, R), \A x \in S : << x, x >> \notin R
  PROVE  /\ Len(list) \in Nat /\ \A i \in 1 .. Len(list) : list[i] \in S
         /\ \A i, j \in 1 .. Len(list) : list[i] = list[j] => i = j
<1> USE DEF IsListOf
<1>1. Len(list) \in Nat /\ \A i \in 1 .. Len(list) : list[i] \in S
  OBVIOUS
<1>2. ASSUME NEW i \in 1 .. Len(list), NEW j \in 1 .. Len(list), list[i] = list[j]
      PROVE  i = j
  <2>1. ~(i < j) /\ ~(j < i)
    BY <1>1, <1>2
  <2> QED
    BY <1>1, <2>1
<1> QED
  BY <1>1, <1>2

\* The first positions, counted.
LEMMA FirstPositions ==
  ASSUME NEW n \in Nat, NEW P, P \subseteq 1 .. n,
         \A i \in P, j \in 1 .. n : j < i => j \in P
  PROVE  Cardinality(P) \in 0 .. n /\ P = 1 .. Cardinality(P)
<1>1. CASE P = {}
  <2>1. Cardinality(P) = 0 /\ 1 .. 0 = {}
    BY <1>1, FS_EmptySet
  <2> QED
    BY <1>1, <2>1
<1>2. CASE P # {}
  <2>1. PICK m \in P : \A k \in P : k <= m
    BY <1>2, LastOf
  <2>2. P = 1 .. m
    <3>1. m \in 1 .. n /\ \A k \in P : k \in 1 .. m
      BY <2>1
    <3>2. \A k \in 1 .. m : k = m \/ (k < m /\ k \in 1 .. n)
      BY <3>1
    <3> QED
      BY <3>1, <3>2
  <2>3. m \in 1 .. n /\ Cardinality(1 .. m) = m
    BY <2>1, FS_Interval
  <2> QED
    BY <2>2, <2>3
<1> QED
  BY <1>1, <1>2

\* A new node put after those before it keeps the order.
LEMMA PutInOrder ==
  ASSUME NEW S, NEW R, NEW list, NEW x, x \notin S, IsStrictOrder(R, S \cup {x}),
         IsListOf(list, S, R), NEW P, P = {i \in DOMAIN list : << list[i], x >> \in R}
  PROVE  IsListOf(PutAfter(list, P, x), S \cup {x}, R)
<1> DEFINE T == S \cup {x}
           n == Cardinality(P)
           new == PutAfter(list, P, x)
<1>1. /\ list \in Seq(T) /\ DOMAIN list = 1 .. Len(list) /\ Len(list) \in Nat
      /\ \A i \in 1 .. Len(list) : list[i] \in S
  BY DEF IsListOf
<1>2. \A i, j \in 1 .. Len(list) : i < j => << list[i], list[j] >> \in R
  BY DEF IsListOf
<1>3. ASSUME NEW i \in P, NEW j \in 1 .. Len(list), j < i
      PROVE  j \in P
  <2>1. << list[j], list[i] >> \in R /\ << list[i], x >> \in R
    BY <1>1, <1>2, <1>3
  <2> QED
    BY <1>1, <2>1 DEF IsStrictOrder
<1>4. n \in 0 .. Len(list) /\ P = 1 .. n
  <2>1. P \subseteq 1 .. Len(list)
    BY <1>1
  <2> QED
    BY <1>1, <1>3, <2>1, FirstPositions
<1>5. n + 1 \in 1 .. Len(list) + 1 /\ new = InsertAt(list, n + 1, x)
  BY <1>1, <1>4 DEF PutAfter
<1> HIDE DEF n, new
<1>6. /\ new \in Seq(T) /\ Len(new) = Len(list) + 1
      /\ \A j \in 1 .. Len(list) + 1 :
           new[j] = IF j < n + 1 THEN list[j] ELSE IF j = n + 1 THEN x ELSE list[j - 1]
  <2>1. x \in T
    OBVIOUS
  <2> HIDE DEF T
  <2>2. list \in Seq(T)
    BY <1>1
  <2>3. \A m \in 1 .. Len(list) + 1 :
          /\ InsertAt(list, m, x) \in Seq(T) /\ Len(InsertAt(list, m, x)) = Len(list) + 1
          /\ \A j \in 1 .. Len(list) + 1 :
               InsertAt(list, m, x)[j] = IF j < m THEN list[j]
                                         ELSE IF j = m THEN x ELSE list[j - 1]
    BY <2>1, <2>2, Insertion
  <2> QED
    BY <1>5, <2>3
<1>7. \A y \in T : \E i \in 1 .. Len(new) : new[i] = y
  <2>1. n + 1 \in 1 .. Len(new) /\ new[n + 1] = x
    BY <1>1, <1>4, <1>6
  <2>2. ASSUME NEW y \in S PROVE \E i \in 1 .. Len(new) : new[i] = y
    <3>1. PICK i \in 1 .. Len(list) : list[i] = y
      BY DEF IsListOf
    <3>2. CASE i < n + 1
      <4>1. i \in 1 .. Len(new) /\ new[i] = y
        BY <1>1, <1>4, <1>6, <3>1, <3>2
      <4> QED
        BY <4>1
    <3>3. CASE i >= n + 1
      <4>1. i + 1 \in 1 .. Len(new) /\ new[i + 1] = list[(i + 1) - 1] /\ (i + 1) - 1 = i
        BY <1>1, <1>4, <1>6, <3>3
      <4> QED
        BY <3>1, <4>1
    <3> QED
      BY <1>4, <3>2, <3>3
  <2> QED
    BY <2>1, <2>2
<1>8. ASSUME NEW i \in 1 .. Len(new), NEW j \in 1 .. Len(new), i < j
      PROVE  << new[i], new[j] >> \in R
  <2>0. /\ i \in Int /\ j \in Int /\ n \in Int
        /\ i \in 1 .. Len(list) + 1 /\ j \in 1 .. Len(list) + 1
    BY <1>1, <1>4, <1>6
  <2>1. \A k \in 1 .. Len(list) : k <= n => << list[k], x >> \in R
    BY <1>1, <1>4
  <2>2. ASSUME NEW k \in 1 .. Len(list), k > n
        PROVE  << x, list[k] >> \in R
    <3>1. k \notin P
      <4>1. k \in Int /\ n \in Int
        BY <1>4
      <4>2. k \notin 1 .. n
        BY <2>2, <4>1
      <4> QED
        BY <1>4, <4>2
    <3>2. list[k] \in S /\ list[k] # x
      BY <1>1
    <3>3. << list[k], x >> \notin R
      BY <1>1, <3>1
    <3> QED
      BY <3>2, <3>3 DEF IsStrictOrder
  <2>3. CASE j < n + 1
    <3>1. i \in 1 .. Len(list) /\ j \in 1 .. Len(list) /\ i < n + 1
      BY <1>1, <1>4, <1>8, <2>0, <2>3
    <3> QED
      BY <1>2, <1>6, <1>8, <2>0, <2>3, <3>1
  <2>4. CASE j = n + 1
    BY <1>1, <1>6, <1>8, <2>0, <2>1, <2>4
  <2>5. CASE j > n + 1
    <3>1. new[j] = list[j - 1] /\ j - 1 \in 1 .. Len(list) /\ j - 1 > n
      BY <1>1, <1>4, <1>6, <2>0, <2>5
    <3>2. CASE i < n + 1
      <4>1. new[i] = list[i] /\ i \in 1 .. Len(list) /\ i < j - 1
        BY <1>4, <1>6, <2>0, <2>5, <3>2
      <4> QED
        BY <1>2, <3>1, <4>1
    <3>3. CASE i = n + 1
      BY <1>6, <2>0, <2>2, <3>1, <3>3
    <3>4. CASE i > n + 1
      <4>1. new[i] = list[i - 1] /\ i - 1 \in 1 .. Len(list) /\ i - 1 < j - 1
        BY <1>1, <1>4, <1>6, <1>8, <2>0, <3>4
      <4> QED
        BY <1>2, <3>1, <4>1
    <3>5. i < n + 1 \/ i = n + 1 \/ i > n + 1
      BY <2>0
    <3> QED
      BY <3>2, <3>3, <3>4, <3>5
  <2>6. j < n + 1 \/ j = n + 1 \/ j > n + 1
    BY <2>0
  <2> QED
    BY <2>3, <2>4, <2>5, <2>6
<1> QED
  BY <1>6, <1>7, <1>8 DEF IsListOf, new

\* A node that is taken out leaves the others in order.
LEMMA RemovedInOrder ==
  ASSUME NEW S, NEW R, NEW list, IsListOf(list, S, R), \A y \in S : << y, y >> \notin R,
         NEW x
  PROVE  IsListOf(RemoveFirst(list, x), S \ {x}, R)
<1>1. /\ list \in Seq(S) /\ Len(list) \in Nat
      /\ \A i \in 1 .. Len(list) : list[i] \in S
      /\ \A i, j \in 1 .. Len(list) : list[i] = list[j] => i = j
  BY ListIsInjective DEF IsListOf
<1>2. \A i, j \in 1 .. Len(list) : i < j => << list[i], list[j] >> \in R
  BY DEF IsListOf
<1>3. CASE x \notin S
  <2>1. RemoveFirst(list, x) = list
    BY <1>1, <1>3 DEF RemoveFirst
  <2> QED
    BY <1>3, <2>1
<1>4. CASE x \in S
  <2>1. PICK n \in 1 .. Len(list) : list[n] = x
    BY <1>4 DEF IsListOf
  <2> DEFINE I == {i \in 1 .. Len(list) : list[i] = x}
             new == RemoveFirst(list, x)
  <2>2. I = {n}
    BY <1>1, <2>1
  <2>3. SelectInSeq(list, LAMBDA v : v = x) = n
    <3>1. SelectInSeq(list, LAMBDA v : v = x) = IF I # {} THEN Min(I) ELSE 0
      BY DEF SelectInSeq
    <3>2. Min({n}) = n
      BY DEF Min
    <3> QED
      BY <2>2, <3>1, <3>2
  <2>4. new = RemoveAt(list, n)
    BY <2>1, <2>3 DEF RemoveFirst
  <2> HIDE DEF new
  <2>5. /\ new \in Seq(S) /\ Len(new) = Len(list) - 1
        /\ \A j \in 1 .. Len(list) - 1 : new[j] = IF j < n THEN list[j] ELSE list[j + 1]
    BY <1>1, <2>1, <2>4, Removal
  <2>6. ASSUME NEW j \in 1 .. Len(new)
        PROVE  \E k \in 1 .. Len(list) :
                 k # n /\ new[j] = list[k] /\ k = IF j < n THEN j ELSE j + 1
    <3>1. j \in 1 .. Len(list) - 1 /\ j \in Int /\ n \in Int
      BY <1>1, <2>5
    <3>2. CASE j < n
      BY <1>1, <2>5, <3>1, <3>2
    <3>3. CASE j >= n
      <4>1. j + 1 \in 1 .. Len(list) /\ j + 1 # n /\ ~(j < n)
        BY <1>1, <3>1, <3>3
      <4> QED
        BY <2>5, <3>1, <4>1
    <3> QED
      BY <3>1, <3>2, <3>3
  <2>7. new \in Seq(S \ {x})
    <3>1. \A j \in 1 .. Len(new) : new[j] \in S \ {x}
      BY <1>1, <2>1, <2>6
    <3>2. new \in [1 .. Len(new) -> S \ {x}] /\ Len(new) \in Nat
      BY <1>1, <2>5, <3>1
    <3> QED
      BY <3>2
  <2>8. ASSUME NEW y \in S \ {x} PROVE \E j \in 1 .. Len(new) : new[j] = y
    <3>1. PICK k \in 1 .. Len(list) : list[k] = y
      BY DEF IsListOf
    <3>2. k # n /\ k \in Int /\ n \in Int
      BY <2>1, <3>1
    <3>3. CASE k < n
      <4>1. k \in 1 .. Len(list) - 1
        BY <1>1, <3>3
      <4> QED
        BY <2>5, <3>1, <3>3, <4>1
    <3>4. CASE k > n
      <4>1. k - 1 \in 1 .. Len(list) - 1 /\ ~(k - 1 < n) /\ (k - 1) + 1 = k
        BY <1>1, <3>4
      <4> QED
        BY <2>5, <3>1, <4>1
    <3> QED
      BY <3>2, <3>3, <3>4
  <2>9. ASSUME NEW i \in 1 .. Len(new), NEW j \in 1 .. Len(new), i < j
        PROVE  << new[i], new[j] >> \in R
    <3>1. PICK k \in 1 .. Len(list) : new[i] = list[k] /\ k = IF i < n THEN i ELSE i + 1
      BY <2>6
    <3>2. PICK l \in 1 .. Len(list) : new[j] = list[l] /\ l = IF j < n THEN j ELSE j + 1
      BY <2>6
    <3>3. k < l
      BY <1>1, <2>5, <2>9, <3>1, <3>2
    <3> QED
      BY <1>2, <3>1, <3>2, <3>3
  <2> QED
    BY <2>7, <2>8, <2>9 DEF IsListOf, new
<1> QED
  BY <1>3, <1>4

\* A list that is filled one by one is in order.
LEMMA ArrangedInOrder ==
  ASSUME NEW S, IsFiniteSet(S), NEW R, IsStrictOrder(R, S)
  PROVE  IsListOf(Arranged(S, R), S, R)
<1> DEFINE n == Cardinality(S)
           before(x) == {y \in S : y = x \/ << y, x >> \in R}
           count(x) == Cardinality(before(x))
           rank == [x \in S |-> count(x)]
           chosen(k) == CHOOSE x \in S : count(x) = k
           list == Arranged(S, R)
<1>1. n \in Nat
  BY FS_CardinalityType
<1>2. \A x \in S : IsFiniteSet(before(x)) /\ Cardinality(before(x)) \in 1 .. n
  <2> TAKE x \in S
  <2>1. before(x) \subseteq S /\ x \in before(x)
    OBVIOUS
  <2>2. IsFiniteSet(before(x)) /\ Cardinality(before(x)) <= n
    BY <2>1, FS_Subset
  <2>3. Cardinality(before(x)) \in Nat /\ Cardinality(before(x)) # 0
    BY <2>1, <2>2, FS_CardinalityType, FS_EmptySet
  <2> QED
    BY <1>1, <2>2, <2>3
<1>3. ASSUME NEW x \in S, NEW y \in S, << x, y >> \in R
      PROVE  rank[x] < rank[y]
  <2>1. before(x) \subseteq before(y) /\ y \in before(y) /\ y \notin before(x)
    BY <1>3 DEF IsStrictOrder
  <2>2. /\ Cardinality(before(x)) <= Cardinality(before(y))
        /\ Cardinality(before(x)) # Cardinality(before(y))
    BY <1>2, <2>1, FS_Subset
  <2> QED
    BY <1>1, <1>2, <2>2
<1>4. rank \in Injection(S, 1 .. n)
  <2>1. rank \in [S -> 1 .. n]
    BY <1>2
  <2>2. ASSUME NEW x \in S, NEW y \in S, rank[x] = rank[y]
        PROVE  x = y
    <3>1. rank[x] \in 1 .. n /\ ~(rank[x] < rank[x])
      BY <1>1, <2>1
    <3> QED
      BY <1>3, <2>2, <3>1 DEF IsStrictOrder
  <2> QED
    BY <2>1, <2>2 DEF Injection, IsInjective
<1>5. rank \in Surjection(S, 1 .. n)
  <2>1. IsFiniteSet(1 .. n) /\ Cardinality(1 .. n) = n
    BY <1>1, FS_Interval
  <2> QED
    BY <1>4, <2>1, FS_Injection
<1>6. list = [k \in 1 .. n |-> chosen(k)] /\ \A x \in S : rank[x] = count(x)
  BY DEF Arranged
<1>7. /\ rank \in [S -> 1 .. n]
      /\ \A k \in 1 .. n : \E x \in S : rank[x] = k
      /\ \A x, y \in S : rank[x] = rank[y] => x = y
  BY <1>4, <1>5 DEF Injection, IsInjective, Surjection
<1> HIDE DEF rank, list, count
<1>8. \A k \in 1 .. n : list[k] \in S /\ rank[list[k]] = k
  BY <1>6, <1>7
<1> HIDE DEF chosen
<1>9. list \in Seq(S) /\ Len(list) = n
  <2>1. list \in [1 .. n -> S]
    BY <1>6, <1>8
  <2> QED
    BY <1>1, <2>1
<1>10. \A x \in S : \E i \in 1 .. n : list[i] = x
  BY <1>7, <1>8
<1>11. ASSUME NEW i \in 1 .. n, NEW j \in 1 .. n, i < j
       PROVE  << list[i], list[j] >> \in R
  <2>1. /\ list[i] \in S /\ list[j] \in S
        /\ rank[list[i]] < rank[list[j]] /\ ~(rank[list[j]] < rank[list[i]])
    BY <1>1, <1>8, <1>11
  <2>2. list[i] # list[j]
    BY <1>8, <1>11
  <2> QED
    BY <1>3, <2>1, <2>2 DEF IsStrictOrder
<1> QED
  BY <1>9, <1>10, <1>11 DEF IsListOf, list

\* x is the first of S.
IsFirst(x, S, R) == x \in S /\ \A y \in S : y = x \/ << x, y >> \in R

\* The head of a list that is not empty is the first, and next_node the one
\* that comes after a node.
LEMMA ListNodes ==
  ASSUME NEW S, NEW R, NEW list, IsListOf(list, S, R), IsStrictOrder(R, S)
  PROVE  /\ list = << >> <=> S = {}
         /\ S # {} => IsFirst(Head(list), S, R)
         /\ \A e \in S :
              LET after == {y \in S : << e, y >> \in R}
                  before == {y \in S : << y, e >> \in R}
              IN  /\ after = {} => NextNode(list, e) = NoEvent
                  /\ after # {} => IsFirst(NextNode(list, e), after, R)
                  /\ before # {} => /\ PreviousNode(list, e) \in before
                                    /\ \A y \in before : y = PreviousNode(list, e)
                                         \/ << y, PreviousNode(list, e) >> \in R
<1>1. /\ list \in Seq(S) /\ Len(list) \in Nat /\ DOMAIN list = 1 .. Len(list)
      /\ \A i \in 1 .. Len(list) : list[i] \in S
      /\ \A i, j \in 1 .. Len(list) : list[i] = list[j] => i = j
  <2>1. list \in Seq(S) /\ \A x \in S : << x, x >> \notin R
    BY DEF IsListOf, IsStrictOrder
  <2> QED
    BY <2>1, ListIsInjective
<1>2. /\ \A x \in S : \E i \in 1 .. Len(list) : list[i] = x
      /\ \A i, j \in 1 .. Len(list) : i < j => << list[i], list[j] >> \in R
  BY DEF IsListOf
<1>3. \A i, j \in 1 .. Len(list) : << list[i], list[j] >> \in R => i < j
  <2> SUFFICES ASSUME NEW i \in 1 .. Len(list), NEW j \in 1 .. Len(list),
                      << list[i], list[j] >> \in R
               PROVE  i < j
    OBVIOUS
  <2>1. << list[j], list[i] >> \notin R /\ list[i] # list[j]
    BY <1>1 DEF IsStrictOrder
  <2> QED
    BY <1>1, <1>2, <2>1
<1>4. list = << >> <=> S = {}
  <2>1. list = << >> <=> Len(list) = 0
    BY <1>1
  <2>2. ASSUME NEW x \in S PROVE Len(list) # 0
    BY <1>1, <1>2
  <2>3. Len(list) # 0 => list[1] \in S
    BY <1>1
  <2> QED
    BY <2>1, <2>2, <2>3
<1>5. ASSUME S # {} PROVE IsFirst(Head(list), S, R)
  <2>1. Len(list) >= 1 /\ 1 \in 1 .. Len(list)
    BY <1>1, <1>4, <1>5
  <2>2. Head(list) = list[1] /\ list[1] \in S
    BY <1>1, <1>4, <1>5, <2>1
  <2>3. ASSUME NEW y \in S PROVE y = list[1] \/ << list[1], y >> \in R
    <3>1. PICK i \in 1 .. Len(list) : list[i] = y
      BY <1>2
    <3>2. i = 1 \/ 1 < i
      BY <1>1, <3>1
    <3> QED
      BY <1>2, <2>1, <3>1, <3>2
  <2> QED
    BY <2>2, <2>3 DEF IsFirst
<1>6. ASSUME NEW e \in S
      PROVE  LET after == {y \in S : << e, y >> \in R}
                 before == {y \in S : << y, e >> \in R}
             IN  /\ after = {} => NextNode(list, e) = NoEvent
                 /\ after # {} => IsFirst(NextNode(list, e), after, R)
                 /\ before # {} => /\ PreviousNode(list, e) \in before
                                   /\ \A y \in before : y = PreviousNode(list, e)
                                        \/ << y, PreviousNode(list, e) >> \in R
  <2> DEFINE after == {y \in S : << e, y >> \in R}
             before == {y \in S : << y, e >> \in R}
             at == CHOOSE j \in DOMAIN list : list[j] = e
  <2>1. at \in 1 .. Len(list) /\ list[at] = e
    BY <1>1, <1>2
  <2>2. /\ NextNode(list, e) = IF at + 1 \in 1 .. Len(list) THEN list[at + 1] ELSE NoEvent
        /\ PreviousNode(list, e) = IF at + -1 \in 1 .. Len(list) THEN list[at + -1] ELSE NoEvent
    BY <1>1 DEF NextNode, PreviousNode, Neighbour
  <2> HIDE DEF at
  <2>3. \A y \in after : \E i \in 1 .. Len(list) : at < i /\ list[i] = y
    BY <1>2, <1>3, <2>1
  <2>4. \A y \in before : \E i \in 1 .. Len(list) : i < at /\ list[i] = y
    BY <1>2, <1>3, <2>1
  <2>5. ASSUME at + 1 \in 1 .. Len(list)
        PROVE  after # {} /\ IsFirst(NextNode(list, e), after, R)
    <3>1. NextNode(list, e) = list[at + 1] /\ list[at + 1] \in after
      BY <1>1, <1>2, <2>1, <2>2, <2>5
    <3>2. ASSUME NEW y \in after PROVE y = list[at + 1] \/ << list[at + 1], y >> \in R
      <4>1. PICK i \in 1 .. Len(list) : at < i /\ list[i] = y
        BY <2>3
      <4>2. i = at + 1 \/ at + 1 < i
        BY <1>1, <2>1, <4>1
      <4> QED
        BY <1>2, <2>5, <4>1, <4>2
    <3> QED
      BY <3>1, <3>2 DEF IsFirst
  <2>6. ASSUME at + 1 \notin 1 .. Len(list)
        PROVE  after = {} /\ NextNode(list, e) = NoEvent
    <3>1. \A i \in 1 .. Len(list) : ~(at < i)
      BY <1>1, <2>1, <2>6
    <3> QED
      BY <2>2, <2>3, <2>6, <3>1
  <2>7. ASSUME before # {}
        PROVE  /\ PreviousNode(list, e) \in before
               /\ \A y \in before : y = PreviousNode(list, e)
                                    \/ << y, PreviousNode(list, e) >> \in R
    <3>1. at + -1 \in 1 .. Len(list) /\ at + -1 < at
      <4>1. PICK i \in 1 .. Len(list) : i < at
        BY <2>4, <2>7
      <4> QED
        BY <1>1, <2>1, <4>1
    <3>2. PreviousNode(list, e) = list[at + -1] /\ list[at + -1] \in before
      BY <1>1, <1>2, <2>1, <2>2, <3>1
    <3>3. ASSUME NEW y \in before PROVE y = list[at + -1] \/ << y, list[at + -1] >> \in R
      <4>1. PICK i \in 1 .. Len(list) : i < at /\ list[i] = y
        BY <2>4
      <4>2. i = at + -1 \/ i < at + -1
        BY <1>1, <2>1, <4>1
      <4> QED
        BY <1>2, <3>1, <4>1, <4>2
    <3> QED
      BY <3>2, <3>3
  <2> QED
    BY <2>5, <2>6, <2>7
<1> QED
  BY <1>4, <1>5, <1>6

-----------------------------------------------------------------------------
(* The iterator and what it stands for                                     *)

MergerType ==
  [at : [Queue -> EventNode \cup {NoEvent}], active : Seq(Queue), dead : SUBSET Queue,
   thrown : BOOLEAN]

\* The queues that still have events, when rest[q] is what is left of queue q
Filled(rest) == {q \in Queue : rest[q] # {}}

\* Every thread is at the first event left in its queue; the threads with an
\* event are in order; no addition was refused.
Stands(m, rest) ==
  /\ m \in MergerType
  /\ \A q \in Queue : IF rest[q] = {} THEN m.at[q] = NoEvent
                                     ELSE IsFirst(m.at[q], rest[q], EventOrder)
  /\ IsListOf(m.active, Filled(rest), ThreadOrder(m.at))
  /\ m.dead = Queue \ Filled(rest)
  /\ ~m.thrown

LEMMA NodeFields ==
  /\ \A e \in EventNode : e.time \in Nat /\ e.id \in Nat /\ e # NoEvent
  /\ \A e, f \in EventNode : e.time = f.time /\ e.id = f.id => e = f
  /\ \A e, f \in EventNode :
       << e, f >> \in EventOrder <=> e.time < f.time \/ (e.time = f.time /\ e.id < f.id)
  BY QueueAssumption DEF EventNode, EventOrder

LEMMA EventsOrdered == \A S \in SUBSET EventNode : IsStrictOrder(EventOrder, S)
<1> SUFFICES ASSUME NEW S \in SUBSET EventNode PROVE IsStrictOrder(EventOrder, S)
  OBVIOUS
<1>1. \A x \in S : << x, x >> \notin EventOrder
  BY NodeFields
<1>2. \A x, y \in S : x = y \/ << x, y >> \in EventOrder \/ << y, x >> \in EventOrder
  <2> SUFFICES ASSUME NEW x \in S, NEW y \in S, x # y
               PROVE  << x, y >> \in EventOrder \/ << y, x >> \in EventOrder
    OBVIOUS
  <2>1. x.time # y.time \/ x.id # y.id
    BY NodeFields
  <2> QED
    BY <2>1, NodeFields
<1>3. \A x, y, z \in S :
        << x, y >> \in EventOrder /\ << y, z >> \in EventOrder => << x, z >> \in EventOrder
  <2> SUFFICES ASSUME NEW x \in S, NEW y \in S, NEW z \in S,
                      << x, y >> \in EventOrder, << y, z >> \in EventOrder
               PROVE  << x, z >> \in EventOrder
    OBVIOUS
  <2> QED
    BY NodeFields
<1> QED
  BY <1>1, <1>2, <1>3 DEF IsStrictOrder

LEMMA ThreadPairs ==
  ASSUME NEW at, NEW p \in Queue, NEW q \in Queue
  PROVE  << p, q >> \in ThreadOrder(at) <=>
           at[p].time < at[q].time \/ (at[p].time = at[q].time /\ p < q)
  BY DEF ThreadOrder

LEMMA ThreadsOrdered ==
  ASSUME NEW T \in SUBSET Queue, NEW at, \A q \in T : at[q] \in EventNode
  PROVE  IsStrictOrder(ThreadOrder(at), T)
<1>1. \A q \in T : q \in Queue /\ q \in Nat /\ at[q].time \in Nat
  BY QueueAssumption, NodeFields
<1>2. \A x \in T : << x, x >> \notin ThreadOrder(at)
  BY <1>1, ThreadPairs
<1>3. \A x, y \in T : x = y \/ << x, y >> \in ThreadOrder(at) \/ << y, x >> \in ThreadOrder(at)
  <2> SUFFICES ASSUME NEW x \in T, NEW y \in T, x # y
               PROVE  << x, y >> \in ThreadOrder(at) \/ << y, x >> \in ThreadOrder(at)
    OBVIOUS
  <2>1. /\ x < y \/ y < x
        /\ \/ at[x].time < at[y].time \/ at[y].time < at[x].time
           \/ at[x].time = at[y].time
    BY <1>1
  <2> QED
    BY <1>1, <2>1, ThreadPairs
<1>4. \A x, y, z \in T :
        << x, y >> \in ThreadOrder(at) /\ << y, z >> \in ThreadOrder(at)
          => << x, z >> \in ThreadOrder(at)
  BY <1>1, ThreadPairs
<1> QED
  BY <1>2, <1>3, <1>4 DEF IsStrictOrder

LEMMA StandsAs ==
  ASSUME NEW rest, NEW at \in [Queue -> EventNode \cup {NoEvent}], NEW active \in Seq(Queue),
         \A q \in Queue : IF rest[q] = {} THEN at[q] = NoEvent
                                          ELSE IsFirst(at[q], rest[q], EventOrder),
         IsListOf(active, Filled(rest), ThreadOrder(at))
  PROVE  Stands([at |-> at, active |-> active, dead |-> Queue \ Filled(rest),
                 thrown |-> FALSE], rest)
<1> DEFINE m == [at |-> at, active |-> active, dead |-> Queue \ Filled(rest), thrown |-> FALSE]
<1>1. /\ m.at = at /\ m.active = active /\ m.dead = Queue \ Filled(rest) /\ m.thrown = FALSE
  OBVIOUS
<1>2. m \in MergerType
  <2>1. Queue \ Filled(rest) \in SUBSET Queue
    OBVIOUS
  <2> QED
    BY <2>1 DEF MergerType
<1> HIDE DEF m
<1>3. Stands(m, rest)
  BY <1>1, <1>2 DEF Stands
<1> QED
  BY <1>3 DEF m

\* A thread that is moved to the first event of what is then left of its queue
\* is filed where it belongs.
LEMMA MovedStands ==
  ASSUME NEW rest \in [Queue -> SUBSET EventNode], NEW m, Stands(m, rest), NEW q \in Queue,
         NEW S \in SUBSET EventNode, NEW e,
         IF S = {} THEN e = NoEvent ELSE IsFirst(e, S, EventOrder)
  PROVE  Stands(Moved(m, q, e), [rest EXCEPT ![q] = S])
<1> DEFINE new == [rest EXCEPT ![q] = S]
           at == [m.at EXCEPT ![q] = e]
           live == RemoveFirst(m.active, q)
           B == Filled(rest) \ {q}
           P == {i \in DOMAIN live : << live[i], q >> \in ThreadOrder(at)}
<1>1. /\ m \in MergerType /\ m.at \in [Queue -> EventNode \cup {NoEvent}]
      /\ m.dead = Queue \ Filled(rest) /\ m.thrown = FALSE
  BY DEF Stands, MergerType
<1>2. /\ e \in EventNode \cup {NoEvent} /\ (e = NoEvent <=> S = {})
      /\ at \in [Queue -> EventNode \cup {NoEvent}] /\ at[q] = e
      /\ \A p \in Queue \ {q} : at[p] = m.at[p]
  BY <1>1, NodeFields DEF IsFirst
<1>3. \A p \in Filled(rest) : p \in Queue /\ m.at[p] \in EventNode
  BY DEF Stands, Filled, IsFirst
<1>4. IsListOf(live, B, ThreadOrder(m.at))
  <2>1. \A p \in Filled(rest) : << p, p >> \notin ThreadOrder(m.at)
    BY <1>3, ThreadsOrdered DEF IsStrictOrder
  <2> QED
    BY <2>1, RemovedInOrder DEF Stands
<1> HIDE DEF at, live
<1>5. IsListOf(live, B, ThreadOrder(at))
  <2>1. live \in Seq(B) /\ \A i \in 1 .. Len(live) : live[i] \in B
    BY <1>4 DEF IsListOf
  <2>2. \A x, y \in B : << x, y >> \in ThreadOrder(m.at) => << x, y >> \in ThreadOrder(at)
    BY <1>2, <1>3, ThreadPairs
  <2> QED
    BY <1>4, <2>1, <2>2 DEF IsListOf
<1>6. \A p \in B \cup {q} : e # NoEvent => at[p] \in EventNode
  BY <1>2, <1>3
<1>7. \A p \in Queue : IF new[p] = {} THEN at[p] = NoEvent
                                     ELSE IsFirst(at[p], new[p], EventOrder)
  BY <1>2 DEF Stands
<1> DEFINE w == [Unfiled(m, q) EXCEPT !.at[q] = e]
<1>8. /\ w \in MergerType /\ w.at = at /\ w.active = live /\ w.dead = m.dead \ {q}
      /\ w.thrown = FALSE
  <2> DEFINE u == Unfiled(m, q)
  <2>1. live \in Seq(Queue)
    BY <1>3, <1>5 DEF IsListOf
  <2>2. /\ u \in MergerType /\ u.at = m.at /\ u.active = live /\ u.dead = m.dead \ {q}
        /\ u.thrown = FALSE
    BY <1>1, <2>1 DEF MergerType, Unfiled, live
  <2> HIDE DEF u
  <2>3. at = [m.at EXCEPT ![q] = e]
    BY DEF at
  <2>4. [u EXCEPT !.at[q] = e].at = at
    BY <2>2, <2>3 DEF MergerType
  <2>5. /\ [u EXCEPT !.at[q] = e] \in MergerType /\ [u EXCEPT !.at[q] = e].active = u.active
        /\ [u EXCEPT !.at[q] = e].dead = u.dead /\ [u EXCEPT !.at[q] = e].thrown = u.thrown
    BY <1>2, <2>2, <2>3 DEF MergerType
  <2> QED
    BY <2>2, <2>4, <2>5 DEF u
<1>9. Moved(m, q, e) = Filed(w, q)
  BY DEF Moved
<1> HIDE DEF w
<1>10. CASE S = {}
  <2>1. Filed(w, q) = [w EXCEPT !.dead = @ \cup {q}]
    BY <1>2, <1>8, <1>10 DEF Filed
  <2> DEFINE n == [w EXCEPT !.dead = @ \cup {q}]
  <2>2. /\ n \in MergerType /\ n.at = at /\ n.active = live
        /\ n.dead = (m.dead \ {q}) \cup {q} /\ n.thrown = FALSE
    BY <1>1, <1>8 DEF MergerType
  <2>3. Filled(new) = B
    BY <1>10 DEF Filled
  <2>4. (m.dead \ {q}) \cup {q} = Queue \ B
    BY <1>1
  <2> HIDE DEF n, new, B
  <2>5. Stands(n, new)
    BY <1>5, <1>7, <2>2, <2>3, <2>4 DEF Stands
  <2> QED
    BY <1>9, <2>1, <2>5 DEF n, new
<1>11. CASE S # {}
  <2>1. Filed(w, q) = [w EXCEPT !.active = PutAfter(live, P, q)]
    BY <1>2, <1>8, <1>11 DEF Filed
  <2> DEFINE n == [w EXCEPT !.active = PutAfter(live, P, q)]
  <2>2. Filled(new) = B \cup {q}
    BY <1>11 DEF Filled
  <2>3. m.dead \ {q} = Queue \ (B \cup {q})
    BY <1>1
  <2>4. IsListOf(PutAfter(live, P, q), B \cup {q}, ThreadOrder(at))
    <3>1. IsStrictOrder(ThreadOrder(at), B \cup {q})
      BY <1>2, <1>3, <1>6, <1>11, ThreadsOrdered
    <3> HIDE DEF B
    <3>2. q \notin B
      BY DEF B
    <3> QED
      BY <1>5, <3>1, <3>2, PutInOrder
  <2>5. PutAfter(live, P, q) \in Seq(Queue)
    BY <1>3, <2>4 DEF IsListOf
  <2> HIDE DEF P, B, new
  <2>6. /\ n \in MergerType /\ n.at = at /\ n.active = PutAfter(live, P, q)
        /\ n.dead = m.dead \ {q} /\ n.thrown = FALSE
    BY <1>8, <2>5 DEF MergerType
  <2> HIDE DEF n
  <2>7. Stands(n, new)
    BY <1>7, <2>2, <2>3, <2>4, <2>6 DEF Stands
  <2> QED
    BY <1>9, <2>1, <2>7 DEF n, new
<1> QED
  BY <1>10, <1>11

\* first() puts every thread at the head of its queue.
LEMMA FirstStands ==
  ASSUME NEW rest \in [Queue -> SUBSET EventNode], NEW lists,
         \A q \in Queue : IsListOf(lists[q], rest[q], EventOrder)
  PROVE  Stands(First(lists), rest)
<1> DEFINE at == [q \in Queue |-> FirstNode(lists[q])]
           dead == {q \in Queue : at[q] = NoEvent}
           T == Queue \ dead
<1>1. ASSUME NEW q \in Queue
      PROVE  /\ IF rest[q] = {} THEN at[q] = NoEvent ELSE IsFirst(at[q], rest[q], EventOrder)
             /\ at[q] \in EventNode \cup {NoEvent}
             /\ at[q] = NoEvent <=> rest[q] = {}
  <2>1. /\ lists[q] = << >> <=> rest[q] = {}
        /\ rest[q] # {} => IsFirst(Head(lists[q]), rest[q], EventOrder)
    <3>1. IsListOf(lists[q], rest[q], EventOrder) /\ IsStrictOrder(EventOrder, rest[q])
      BY EventsOrdered
    <3> QED
      BY <3>1, ListNodes
  <2> QED
    BY <2>1, NodeFields DEF FirstNode, IsFirst
<1> HIDE DEF at
<1>2. T = Filled(rest) /\ dead = Queue \ Filled(rest)
  BY <1>1 DEF Filled
<1>3. IsListOf(Arranged(T, ThreadOrder(at)), T, ThreadOrder(at))
  <2>1. IsFiniteSet(T)
    BY QueueAssumption, FS_Subset
  <2>2. \A q \in T : at[q] \in EventNode
    BY <1>1
  <2> QED
    BY <2>1, <2>2, ThreadsOrdered, ArrangedInOrder
<1>4. Arranged(T, ThreadOrder(at)) \in Seq(Queue)
  BY <1>3 DEF IsListOf
<1>5. First(lists)
        = [at |-> at, active |-> Arranged(T, ThreadOrder(at)), dead |-> dead, thrown |-> FALSE]
  BY DEF First, at
<1>6. at \in [Queue -> EventNode \cup {NoEvent}]
  BY <1>1 DEF at
<1> HIDE DEF T, dead
<1> QED
  BY <1>1, <1>2, <1>3, <1>4, <1>5, <1>6, StandsAs

\* peek() is the first event that is left, by time, then queue, then number.
LEMMA PeekIsFirst ==
  ASSUME NEW rest \in [Queue -> SUBSET EventNode], NEW m, Stands(m, rest)
  PROVE  /\ m.active = << >> <=> Filled(rest) = {}
         /\ Filled(rest) = {} => Peek(m) = NoEvent
         /\ Filled(rest) # {} => /\ IsFirst(Head(m.active), Filled(rest), ThreadOrder(m.at))
                                 /\ Peek(m) = m.at[Head(m.active)]
                                 /\ IsFirst(Peek(m), rest[Head(m.active)], EventOrder)
<1>1. \A q \in Filled(rest) : q \in Queue /\ IsFirst(m.at[q], rest[q], EventOrder)
  BY DEF Stands, Filled
<1>2. IsStrictOrder(ThreadOrder(m.at), Filled(rest))
  BY <1>1, ThreadsOrdered DEF IsFirst
<1>3. IsListOf(m.active, Filled(rest), ThreadOrder(m.at))
  BY DEF Stands
<1>4. /\ m.active = << >> <=> Filled(rest) = {}
      /\ Filled(rest) # {} => IsFirst(Head(m.active), Filled(rest), ThreadOrder(m.at))
  BY <1>2, <1>3, ListNodes
<1>5. Filled(rest) # {} => Head(m.active) \in Filled(rest)
  BY <1>4 DEF IsFirst
<1> QED
  BY <1>1, <1>4, <1>5 DEF Peek

\* A thread is active exactly if its queue has events left.
LEMMA ActiveThreads ==
  ASSUME NEW rest \in [Queue -> SUBSET EventNode], NEW m, Stands(m, rest), NEW q \in Queue
  PROVE  q \in Range(m.active) <=> rest[q] # {}
<1>1. /\ m.active \in Seq(Filled(rest))
      /\ \A x \in Filled(rest) : \E i \in 1 .. Len(m.active) : m.active[i] = x
  BY DEF Stands, IsListOf
<1>2. Range(m.active) = Filled(rest)
  BY <1>1 DEF Range
<1> QED
  BY <1>2 DEF Filled

\* What is added to queue q, after all that is in it of the same time and not
\* before X, the event that is being processed, finds the iterator where it
\* should be, or moves it there.
LEMMA AdditionStands ==
  ASSUME NEW rest \in [Queue -> SUBSET EventNode], NEW m, Stands(m, rest), NEW q \in Queue,
         NEW lists, NEW X \in SUBSET EventNode, NEW e \in EventNode,
         IsListOf(lists[q], rest[q] \cup X \cup {e}, EventOrder),
         \A f \in rest[q] : f.id < e.id,
         \A f \in X : f.time <= e.time
  PROVE  Stands(HandleAddition(m, lists, q, e), [rest EXCEPT ![q] = @ \cup {e}])
<1> DEFINE S == rest[q] \cup {e}
           new == [rest EXCEPT ![q] = S]
<1>0. /\ S \in SUBSET EventNode /\ new = [rest EXCEPT ![q] = @ \cup {e}]
      /\ e.time \in Nat /\ e.id \in Nat
      /\ \A f \in rest[q] \cup X : f \in EventNode /\ f.time \in Nat /\ f.id \in Nat
  BY NodeFields
<1>1. q \in m.dead <=> rest[q] = {}
  BY DEF Stands, Filled
<1>2. q \in Range(m.active) <=> rest[q] # {}
  BY ActiveThreads
<1>3. rest[q] # {} => m.at[q].time \in Nat
  BY <1>0 DEF Stands, IsFirst
<1>4. CASE rest[q] = {}
  <2>1. HandleAddition(m, lists, q, e) = Moved(m, q, e)
    BY <1>1, <1>2, <1>4 DEF HandleAddition
  <2>2. S # {} /\ IsFirst(e, S, EventOrder)
    BY <1>4 DEF IsFirst
  <2>3. Stands(Moved(m, q, e), [rest EXCEPT ![q] = S])
    <3> HIDE DEF S
    <3> QED
      BY <1>0, <2>2, MovedStands
  <2> QED
    BY <2>1, <2>3
<1>5. ASSUME rest[q] # {}, e.time >= m.at[q].time
      PROVE  Stands(HandleAddition(m, lists, q, e), new)
  <2>1. HandleAddition(m, lists, q, e) = m
    <3>1. ~(e.time < m.at[q].time)
      BY <1>0, <1>5, <1>3
    <3> QED
      BY <1>1, <1>2, <1>5, <3>1 DEF HandleAddition
  <2>2. IsFirst(m.at[q], rest[q], EventOrder)
    BY <1>5 DEF Stands
  <2>3. << m.at[q], e >> \in EventOrder
    BY <1>0, <1>5, <2>2, NodeFields DEF IsFirst
  <2>4. IsFirst(m.at[q], S, EventOrder)
    BY <2>2, <2>3 DEF IsFirst
  <2>5. \A p \in Queue : IF new[p] = {} THEN m.at[p] = NoEvent
                                        ELSE IsFirst(m.at[p], new[p], EventOrder)
    BY <2>4 DEF Stands
  <2>6. Filled(new) = Filled(rest)
    BY <1>5 DEF Filled
  <2> HIDE DEF new
  <2> QED
    BY <2>1, <2>5, <2>6 DEF Stands
<1>6. ASSUME rest[q] # {}, e.time < m.at[q].time
      PROVE  Stands(HandleAddition(m, lists, q, e), new)
  <2> DEFINE first == m.at[q]
             before == PreviousNode(lists[q], first)
             A == rest[q] \cup X \cup {e}
  <2>1. IsFirst(first, rest[q], EventOrder) /\ first \in rest[q]
    BY <1>6 DEF Stands, IsFirst
  <2>2. << e, first >> \in EventOrder /\ first \in EventNode
    BY <1>0, <1>6, <2>1, NodeFields
  <2>3. IsStrictOrder(EventOrder, A)
    BY EventsOrdered
  <2>4. /\ before \in {y \in A : << y, first >> \in EventOrder}
        /\ e = before \/ << e, before >> \in EventOrder
    <3> DEFINE below == {y \in A : << y, first >> \in EventOrder}
    <3>1. e \in below /\ first \in A
      BY <2>1, <2>2
    <3>2. LET front == {y \in A : << y, first >> \in EventOrder}
          IN  front # {} =>
                /\ PreviousNode(lists[q], first) \in front
                /\ \A y \in front : y = PreviousNode(lists[q], first)
                                    \/ << y, PreviousNode(lists[q], first) >> \in EventOrder
      <4>1. IsListOf(lists[q], A, EventOrder)
        OBVIOUS
      <4> HIDE DEF A, first
      <4> QED
        BY <2>3, <3>1, <4>1, ListNodes
    <3> QED
      BY <3>1, <3>2
  <2>5. before \in X \cup {e}
    <3>1. before \notin rest[q]
      <4> SUFFICES ASSUME before \in rest[q] PROVE FALSE
        OBVIOUS
      <4>1. before = first \/ << first, before >> \in EventOrder
        BY <2>1 DEF IsFirst
      <4>2. << before, first >> \in EventOrder /\ before \in EventNode
        BY <2>4
      <4> QED
        BY <2>2, <4>1, <4>2, NodeFields
    <3> QED
      BY <2>4, <3>1
  <2>6. ~(e.time < before.time)
    BY <1>0, <2>5
  <2>7. HandleAddition(m, lists, q, e) = Moved(m, q, e)
    <3>1. ~(e.time >= m.at[q].time)
      BY <1>0, <1>6, <1>3
    <3> QED
      BY <1>1, <1>2, <1>6, <2>6, <3>1 DEF HandleAddition
  <2>8. S # {} /\ IsFirst(e, S, EventOrder)
    <3>1. \A f \in rest[q] : f = first \/ << first, f >> \in EventOrder
      BY <2>1 DEF IsFirst
    <3>2. \A f \in rest[q] : << e, f >> \in EventOrder
      BY <2>1, <2>2, <2>3, <3>1 DEF IsStrictOrder
    <3> QED
      BY <3>2 DEF IsFirst
  <2>9. Stands(Moved(m, q, e), [rest EXCEPT ![q] = S])
    <3> HIDE DEF S
    <3> QED
      BY <1>0, <2>8, MovedStands
  <2> QED
    BY <2>7, <2>9
<1>7. rest[q] # {} => e.time >= m.at[q].time \/ e.time < m.at[q].time
  BY <1>0, <1>3
<1> QED
  BY <1>0, <1>4, <1>5, <1>6, <1>7

\* The iterator is past the event that is being processed, which leaves.
LEMMA RemovalStays ==
  ASSUME NEW rest \in [Queue -> SUBSET EventNode], NEW m, Stands(m, rest), NEW q \in Queue,
         NEW lists, NEW e, e \notin rest[q]
  PROVE  HandleRemoval(m, lists, q, e) = m
<1>1. q \in Range(m.active) => m.at[q] \in rest[q]
  BY ActiveThreads DEF Stands, IsFirst
<1> QED
  BY <1>1 DEF HandleRemoval

\* next() leaves the iterator at what comes after the event it returns.
LEMMA ReturnedStands ==
  ASSUME NEW rest \in [Queue -> SUBSET EventNode], NEW m, Stands(m, rest), m.active # << >>,
         NEW lists, NEW q, q = Head(m.active), IsListOf(lists[q], rest[q], EventOrder)
  PROVE  Stands(Returned(m, lists), [rest EXCEPT ![q] = @ \ {m.at[q]}])
<1> DEFINE e == m.at[q]
           S == rest[q] \ {e}
           next == NextNode(lists[q], e)
<1>1. q \in Queue /\ rest[q] # {} /\ IsFirst(e, rest[q], EventOrder)
  <2>1. q \in Filled(rest)
    BY PeekIsFirst DEF IsFirst
  <2> QED
    BY <2>1 DEF Filled, Stands
<1>2. e \in rest[q] /\ \A y \in rest[q] : y = e \/ << e, y >> \in EventOrder
  BY <1>1 DEF IsFirst
<1>3. IsStrictOrder(EventOrder, rest[q])
  BY <1>1, EventsOrdered
<1>4. S = {y \in rest[q] : << e, y >> \in EventOrder}
  BY <1>2, <1>3 DEF IsStrictOrder
<1>5. IF S = {} THEN next = NoEvent ELSE IsFirst(next, S, EventOrder)
  <2> HIDE DEF e
  <2>1. LET after == {y \in rest[q] : << e, y >> \in EventOrder}
        IN  /\ after = {} => NextNode(lists[q], e) = NoEvent
            /\ after # {} => IsFirst(NextNode(lists[q], e), after, EventOrder)
    <3>1. e \in rest[q]
      BY <1>2
    <3>2. ASSUME NEW T, NEW list, IsListOf(list, T, EventOrder), IsStrictOrder(EventOrder, T),
                 NEW x \in T
          PROVE  LET after == {y \in T : << x, y >> \in EventOrder}
                 IN  /\ after = {} => NextNode(list, x) = NoEvent
                     /\ after # {} => IsFirst(NextNode(list, x), after, EventOrder)
      BY <3>2, ListNodes
    <3> QED
      BY <1>3, <3>1, <3>2
  <2> QED
    BY <1>4, <2>1
<1>6. Returned(m, lists) = Moved(m, q, next)
  BY DEF Returned
<1>7. S \in SUBSET EventNode
  BY <1>1
<1>8. Stands(Moved(m, q, next), [rest EXCEPT ![q] = S])
  <2> HIDE DEF next, S
  <2> QED
    BY <1>1, <1>5, <1>7, MovedStands
<1> QED
  BY <1>6, <1>8

-----------------------------------------------------------------------------
(* The iterator next to the event loop                                     *)

\* What is left of every queue, and what is being processed of queue q
Left == [q \in Queue |-> Rest(q)]
Held(q) == IF CurrentEvent.queue = q THEN {CurrentEvent.event} ELSE {}

\* Events are numbered as they are created.
IDInv ==
  /\ \A e \in Events : e.id <= currentEventID
  /\ \A e, f \in Events : e.id = f.id => e = f

\* The event that is being processed is in the past, and not one that is left.
CurrentInv ==
  /\ CurrentEvent.queue \in Queue /\ CurrentEvent.event \in EventNode
  /\ CurrentEvent.event.time <= clock /\ CurrentEvent.event.id <= currentEventID
  /\ \A e \in Events : e.id # CurrentEvent.event.id

\* Each queue holds, in order, what is left of it and what is being processed,
\* and the iterator stands for what is left.
QueueInv ==
  /\ \A q \in Queue : IsListOf(queues[q], Rest(q) \cup Held(q), EventOrder)
  /\ queues \in [Queue -> Seq(EventNode)]
  /\ Stands(merger, Left)

IteratorInv == pc # "done" => IDInv /\ CurrentInv /\ QueueInv

LEMMA EventNodes ==
  ASSUME TypeInv
  PROVE  /\ \A e \in Events : /\ e.time \in Nat /\ e.id \in Nat
                              /\ e.queue \in Queue /\ e.queue \in Nat
                              /\ Node(e) \in EventNode /\ Node(e) \in Rest(e.queue)
                              /\ Node(e).time = e.time /\ Node(e).id = e.id
         /\ \A q : \A n \in Rest(q) : \E e \in Events : e.queue = q /\ n = Node(e)
         /\ \A q : Rest(q) \in SUBSET EventNode
         /\ Left \in [Queue -> SUBSET EventNode] /\ \A q \in Queue : Left[q] = Rest(q)
<1>1. ASSUME NEW e \in Events
      PROVE  /\ e.time \in Nat /\ e.id \in Nat /\ e.queue \in Queue /\ e.queue \in Nat
             /\ Node(e) \in EventNode /\ Node(e).time = e.time /\ Node(e).id = e.id
  <2>1. e \in EventType
    BY DEF TypeInv, TypeOK
  <2>2. e.time \in Nat /\ e.id \in Nat /\ e.queue \in {Regular, Current, Expansion}
    BY <2>1, Constants DEF EventType
  <2>3. e.queue \in Queue /\ e.queue \in Nat
    BY <2>2, QueueAssumption, QueuesAssumption
  <2> QED
    BY <2>2, <2>3 DEF Node, EventNode
<1>2. \A q : \A n \in Rest(q) : \E e \in Events : e.queue = q /\ n = Node(e)
  BY DEF Rest
<1>3. \A e \in Events : Node(e) \in Rest(e.queue)
  BY DEF Rest
<1>4. \A q : Rest(q) \in SUBSET EventNode
  BY <1>1, <1>2
<1> QED
  BY <1>1, <1>2, <1>3, <1>4 DEF Left

\* While the iterator stands for what is left, peek() is the next event.
LEMMA PeekIsNext ==
  ASSUME TypeInv, Stands(merger, Left), NEW x, IsNextEvent(x)
  PROVE  /\ merger.active # << >> /\ Head(merger.active) = x.queue
         /\ Peek(merger) = Node(x)
<1> DEFINE h == Head(merger.active)
           at == merger.at
<1>1. x \in Events /\ \A f \in Events : x = f \/ Earlier(x, f)
  BY DEF IsNextEvent
<1>2. x.queue \in Filled(Left) /\ Left \in [Queue -> SUBSET EventNode]
  BY <1>1, EventNodes DEF Filled
<1>3. /\ merger.active # << >> /\ IsFirst(h, Filled(Left), ThreadOrder(at))
      /\ Peek(merger) = at[h] /\ IsFirst(at[h], Left[h], EventOrder)
  BY <1>2, PeekIsFirst
<1>4. h \in Queue /\ at[h] \in Rest(h)
  BY <1>3, EventNodes DEF IsFirst, Filled
<1>5. PICK f \in Events : f.queue = h /\ at[h] = Node(f)
  BY <1>4, EventNodes
<1>6. CASE f = x
  BY <1>3, <1>5, <1>6
<1>7. CASE f # x
  <2>1. Earlier(x, f)
    BY <1>1, <1>5, <1>7
  <2>2. CASE h = x.queue
    <3>1. Node(f) = Node(x) \/ << Node(f), Node(x) >> \in EventOrder
      BY <1>1, <1>3, <1>4, <1>5, <2>2, EventNodes DEF IsFirst
    <3>2. f.time < x.time \/ (f.time = x.time /\ f.id <= x.id)
      BY <1>1, <1>5, <3>1, EventNodes, NodeFields
    <3> QED
      BY <1>1, <1>5, <2>1, <2>2, <3>2, EventNodes DEF Earlier
  <2>3. CASE h # x.queue
    <3>1. << h, x.queue >> \in ThreadOrder(at) /\ x.queue \in Queue
      BY <1>2, <1>3, <2>3 DEF IsFirst, Filled
    <3>2. at[h].time < at[x.queue].time \/ (at[h].time = at[x.queue].time /\ h < x.queue)
      BY <1>4, <3>1, ThreadPairs
    <3>3. IsFirst(at[x.queue], Rest(x.queue), EventOrder)
      BY <1>2, <3>1, EventNodes DEF Stands, Filled
    <3>4. at[x.queue] = Node(x) \/ << at[x.queue], Node(x) >> \in EventOrder
      BY <1>1, <3>3, EventNodes DEF IsFirst
    <3>5. at[x.queue] \in EventNode /\ at[x.queue].time \in Nat
      BY <3>3, EventNodes, NodeFields DEF IsFirst
    <3>6. at[x.queue].time <= x.time
      BY <1>1, <3>4, <3>5, EventNodes, NodeFields
    <3>7. f.time < x.time \/ (f.time = x.time /\ f.queue < x.queue)
      BY <1>1, <1>5, <3>2, <3>5, <3>6, EventNodes
    <3> QED
      BY <1>1, <1>5, <2>1, <3>7, EventNodes DEF Earlier
  <2> QED
    BY <2>2, <2>3
<1> QED
  BY <1>6, <1>7

\* A step of the loop schedules one event, with the next number and not in the
\* past, takes the next event out, or leaves the events alone.
Schedules(x) ==
  /\ x.id = currentEventID + 1 /\ clock <= x.time
  /\ Events' = Events \cup {x} /\ currentEventID' = currentEventID + 1
  /\ clock' = clock

Takes(x) ==
  /\ IsNextEvent(x) /\ Events' = Events \ {x}
  /\ clock' = x.time /\ currentEventID' = currentEventID

LEMMA EventsStep ==
  ASSUME TimesInv, Next
  PROVE  \/ \E x : Schedules(x)
         \/ \E x : Takes(x)
         \/ UNCHANGED << Events, currentEventID, clock >>
<1> USE DEF waitVars, resVars, signalVars, queueVars
<1>0. clock \in Nat /\ now \in Nat /\ clock <= now /\ MaxTime \in Nat
  BY Times, ProgramAssumption DEF TimesInv, TimeInv
<1>1. ASSUME NEW x, Enqueue(x), x.id = NewID, clock <= x.time, clock' = clock
      PROVE  Schedules(x)
  BY <1>1 DEF Enqueue, NewID, Schedules
<1>2. ASSUME NEW k, NEW p, NEW t \in Nat, NEW c, clock <= t, clock' = clock,
             Enqueue(ContinueAt(NewID, k, p, t, c))
      PROVE  \E x : Schedules(x)
  <2>1. PICK x : x = ContinueAt(NewID, k, p, t, c)
    OBVIOUS
  <2>2. x.id = NewID /\ x.time = t
    BY <2>1 DEF ContinueAt
  <2> QED
    BY <1>1, <1>2, <2>1, <2>2
<1>3. ASSUME NEW k, NEW w, NEW t \in Nat, NEW end, NEW c, clock <= t, clock' = clock,
             Enqueue(Usage(NewID, k, w, t, end, c))
      PROVE  \E x : Schedules(x)
  <2>1. PICK x : x = Usage(NewID, k, w, t, end, c)
    OBVIOUS
  <2>2. x.id = NewID /\ x.time = t
    BY <2>1 DEF Usage
  <2> QED
    BY <1>1, <1>3, <2>1, <2>2
<1>4. CASE Execute
  <2>0. clock' = clock
    BY <1>4, ExecuteFrame
  <2>1. ASSUME NEW r \in Resource, Use(r) PROVE \E x : Schedules(x)
    <3>1. PICK start \in now..MaxTime : \E end \in start..MaxTime :
            Schedule(Usage(NewID, "use", r, start, end, NoCriterion))
      BY <2>1 DEF Use
    <3>2. start \in Nat /\ clock <= start
      BY <1>0
    <3> QED
      BY <1>3, <2>0, <3>1, <3>2 DEF Schedule
  <2>2. ASSUME NEW s \in Signal, SendSignal(s) PROVE \E x : Schedules(x)
    <3>1. PICK t \in now..MaxTime :
            Enqueue(Usage(NewID, "signal", 0, t, t,
                          [on |-> "signal", of |-> {s}, busy |-> FALSE]))
      BY <2>2 DEF SendSignal, Schedule
    <3>2. t \in Nat /\ clock <= t
      BY <1>0
    <3> QED
      BY <1>3, <2>0, <3>1, <3>2
  <2>3. CASE WaitFor
    <3>1. PICK t \in now..MaxTime :
            Schedule(ContinueAt(NewID, "resume", running, t, NoCriterion))
      BY <2>3 DEF WaitFor
    <3>2. t \in Nat /\ clock <= t
      BY <1>0
    <3> QED
      BY <1>2, <2>0, <3>1, <3>2 DEF Schedule
  <2>4. CASE WaitUntil
    <3>1. PICK crit \in Criterion \ {NoCriterion} :
            Schedule(ContinueAt(NewID, "wait_until", running, now, crit))
      BY <2>4 DEF WaitUntil
    <3> QED
      BY <1>0, <1>2, <2>0, <3>1 DEF Schedule
  <2>5. CASE Finish
    BY <2>5 DEF Finish
  <2> QED
    BY <1>4, <2>1, <2>2, <2>3, <2>4, <2>5 DEF Execute
<1>5. CASE ProcessEvent
  BY <1>5 DEF ProcessEvent, Takes
<1>6. CASE WakeOnSignal
  <2>1. PICK w \in waitingOnSignal : Enqueue(ContinueAt(NewID, "resume", w.who, now, w.crit))
    BY <1>6 DEF WakeOnSignal
  <2>2. clock' = clock
    BY <1>6 DEF WakeOnSignal
  <2> QED
    BY <1>0, <1>2, <2>1, <2>2
<1>7. ASSUME NEW t \in Nat, clock <= t, WakeOnCondition(t)
      PROVE  \E x : Schedules(x)
  <2>1. clock' = clock
    BY <1>7 DEF WakeOnCondition
  <2>2. PICK w \in waitingOnCond : Enqueue(ContinueAt(NewID, "resume", w.who, t, w.crit))
    BY <1>7 DEF WakeOnCondition
  <2> QED
    BY <1>2, <1>7, <2>1, <2>2
<1>8. CASE UnblockNow
  BY <1>0, <1>7, <1>8 DEF UnblockNow
<1>9. CASE UnblockLater
  <2>1. PICK t \in Time : WithinLimits(t) /\ WakeOnCondition(t)
    BY <1>9 DEF UnblockLater
  <2>2. t \in Nat /\ clock <= t
    BY <1>0, <2>1, Constants DEF WithinLimits
  <2> QED
    BY <1>7, <2>1, <2>2
<1>10. CASE DoneForNow \/ NoSignalHeard \/ NotUnblockedNow \/ NotUnblocked \/ Terminated
  BY <1>10 DEF DoneForNow, NoSignalHeard, NotUnblockedNow, NotUnblocked, Terminated, vars
<1> QED
  BY <1>4, <1>5, <1>6, <1>8, <1>9, <1>10 DEF Next

\* What is added to a queue is last of its time in it.
LEMMA AddStep ==
  ASSUME TypeInv, TypeInv', IDInv, CurrentInv, QueueInv, NEW x, Schedules(x),
         Add(x.queue, Node(x))
  PROVE  IDInv' /\ CurrentInv' /\ QueueInv'
<1> DEFINE q == x.queue
           e == Node(x)
           S == Rest(q) \cup Held(q)
           lists == [queues EXCEPT ![q] = Enqueued(@, e)]
<1>1. /\ x \in Events' /\ e \in EventNode /\ q \in Queue /\ e.time = x.time /\ e.id = x.id
      /\ x.time \in Nat /\ x.id \in Nat
  <2>1. x \in Events'
    BY DEF Schedules
  <2>2. e \in EventNode /\ q \in Queue /\ x.time \in Nat /\ x.id \in Nat
    <3>1. x \in EventType
      BY <2>1 DEF TypeInv, TypeOK
    <3>2. x.time \in Nat /\ x.id \in Nat /\ x.queue \in {Regular, Current, Expansion}
      BY <3>1, Constants DEF EventType
    <3> QED
      BY <3>2, QueuesAssumption DEF Node, EventNode
  <2> QED
    BY <2>1, <2>2 DEF Node
<1>2. currentEventID \in Nat /\ clock \in Nat /\ x.id = currentEventID + 1 /\ clock <= x.time
  BY Times DEF Schedules, TypeInv, TypeOK
<1>3. /\ \A f \in Events : f.id \in Nat /\ f.id < x.id
      /\ \A p : \A n \in Rest(p) : n \in EventNode /\ n.id < e.id
  <2>1. \A f \in Events : f.id \in Nat /\ f.id < x.id
    BY <1>2, EventNodes DEF IDInv
  <2> QED
    BY <1>1, <2>1, EventNodes
<1>4. /\ queues' = lists /\ merger' = HandleAddition(merger, lists, q, e)
      /\ UNCHANGED CurrentEvent
  BY DEF Add
<1>5. \A p : Held(p)' = Held(p)
  BY <1>4 DEF Held
<1>6. Rest(q)' = Rest(q) \cup {e} /\ \A p \in Queue \ {q} : Rest(p)' = Rest(p)
  BY DEF Rest, Schedules
<1>7. IDInv'
  BY <1>2, <1>3 DEF IDInv, Schedules
<1>8. CurrentInv'
  BY <1>2, <1>3, <1>4, NodeFields DEF CurrentInv, Schedules
<1>9. S \in SUBSET EventNode /\ \A f \in S : f.id < e.id /\ f.time \in Nat /\ f.id \in Nat
  <2>1. \A f \in Held(q) : f \in EventNode /\ f.id < e.id
    BY <1>1, <1>2, NodeFields DEF Held, CurrentInv
  <2> QED
    BY <1>3, <2>1, NodeFields
<1>10. IsListOf(queues[q], S, EventOrder) /\ queues \in [Queue -> Seq(EventNode)]
  BY <1>1 DEF QueueInv
<1> HIDE DEF S
<1>11. IsListOf(Enqueued(queues[q], e), S \cup {e}, EventOrder)
  <2> DEFINE P == {i \in DOMAIN queues[q] : queues[q][i].time <= e.time}
             B == {i \in DOMAIN queues[q] : << queues[q][i], e >> \in EventOrder}
  <2>1. \A i \in DOMAIN queues[q] : queues[q][i] \in S
    BY <1>10 DEF IsListOf
  <2>2. \A f \in S : f.time <= e.time <=> << f, e >> \in EventOrder
    BY <1>1, <1>9, NodeFields
  <2>3. P = B
    BY <2>1, <2>2
  <2>4. e \notin S
    BY <1>9
  <2>5. IsStrictOrder(EventOrder, S \cup {e})
    BY <1>1, <1>9, EventsOrdered
  <2>6. IsListOf(PutAfter(queues[q], B, e), S \cup {e}, EventOrder)
    <3> HIDE DEF e, q
    <3> QED
      BY <1>10, <2>4, <2>5, PutInOrder
  <2> QED
    BY <2>3, <2>6 DEF Enqueued
<1>12. lists[q] = Enqueued(queues[q], e) /\ \A p \in Queue \ {q} : lists[p] = queues[p]
  BY <1>1, <1>10
<1>13. \A p \in Queue : IsListOf(lists[p], Rest(p)' \cup Held(p)', EventOrder)
  <2>1. Rest(q)' \cup Held(q)' = S \cup {e}
    BY <1>5, <1>6 DEF S
  <2>2. \A p \in Queue \ {q} : Rest(p)' \cup Held(p)' = Rest(p) \cup Held(p)
    BY <1>5, <1>6
  <2> HIDE DEF lists
  <2> QED
    BY <1>11, <1>12, <2>1, <2>2 DEF QueueInv
<1>14. lists \in [Queue -> Seq(EventNode)]
  <2>1. Enqueued(queues[q], e) \in Seq(EventNode)
    BY <1>1, <1>9, <1>11 DEF IsListOf
  <2> HIDE DEF e
  <2> QED
    BY <1>10, <2>1
<1>15. Stands(HandleAddition(merger, lists, q, e), [Left EXCEPT ![q] = @ \cup {e}])
  <2>1. /\ Left \in [Queue -> SUBSET EventNode] /\ Left[q] = Rest(q)
        /\ Stands(merger, Left)
    BY <1>1, EventNodes DEF QueueInv
  <2>2. Held(q) \in SUBSET EventNode /\ \A f \in Held(q) : f.time <= e.time
    <3>1. \A f \in Held(q) : f \in EventNode /\ f.time \in Nat /\ f.time <= clock
      BY NodeFields DEF Held, CurrentInv
    <3> QED
      BY <1>1, <1>2, <3>1
  <2>3. IsListOf(lists[q], Left[q] \cup Held(q) \cup {e}, EventOrder)
    <3> HIDE DEF lists, e, q
    <3> QED
      BY <1>11, <1>12, <2>1 DEF S
  <2>4. \A f \in Left[q] : f.id < e.id
    BY <1>3, <2>1
  <2> HIDE DEF lists, e, q
  <2> QED
    BY <1>1, <2>1, <2>2, <2>3, <2>4, AdditionStands
<1>16. Left' = [Left EXCEPT ![q] = @ \cup {e}]
  BY <1>1, <1>6 DEF Left
<1>17. QueueInv'
  BY <1>4, <1>13, <1>14, <1>15, <1>16 DEF QueueInv
<1> QED
  BY <1>7, <1>8, <1>17

\* The event that was processed goes, and the one the iterator was at is the
\* next one to process.
LEMMA AdvanceStep ==
  ASSUME TypeInv, IDInv, CurrentInv, QueueInv, NEW x, Takes(x), Advance
  PROVE  IDInv' /\ CurrentInv' /\ QueueInv'
<1> DEFINE q == x.queue
           c == CurrentEvent.queue
           old == CurrentEvent.event
           lists == [queues EXCEPT ![c] = RemoveFirst(@, old)]
<1>1. /\ x \in Events /\ IsNextEvent(x) /\ Events' = Events \ {x}
      /\ clock' = x.time /\ currentEventID' = currentEventID
  BY DEF Takes, IsNextEvent
<1>2. /\ Left \in [Queue -> SUBSET EventNode] /\ \A p \in Queue : Left[p] = Rest(p)
      /\ Stands(merger, Left)
  BY EventNodes DEF QueueInv
<1>3. /\ merger.active # << >> /\ Head(merger.active) = q /\ Peek(merger) = Node(x)
  BY <1>1, <1>2, PeekIsNext
<1>4. /\ x.time \in Nat /\ q \in Queue /\ Node(x) \in EventNode
      /\ Node(x).time = x.time /\ Node(x).id = x.id
  BY <1>1, EventNodes
<1>5. c \in Queue /\ old \in EventNode /\ \A p : old \notin Rest(p)
  <2>1. \A p : \A n \in Rest(p) : n.id # old.id
    BY EventNodes DEF CurrentInv
  <2> QED
    BY <2>1 DEF CurrentInv
<1>6. HandleRemoval(merger, queues, c, old) = merger
  BY <1>2, <1>5, RemovalStays
<1>7. /\ CurrentEvent' = [queue |-> q, event |-> Node(x)]
      /\ queues' = lists /\ merger' = Returned(merger, lists)
  BY <1>3, <1>6 DEF Advance
<1>8. \A p \in Queue : IsListOf(lists[p], Rest(p), EventOrder)
  <2> SUFFICES ASSUME NEW p \in Queue PROVE IsListOf(lists[p], Rest(p), EventOrder)
    OBVIOUS
  <2>1. IsListOf(queues[p], Rest(p) \cup Held(p), EventOrder) /\ DOMAIN queues = Queue
    BY DEF QueueInv
  <2>2. CASE p = c
    <3>1. lists[p] = RemoveFirst(queues[p], old)
      BY <2>1, <2>2
    <3>2. (Rest(p) \cup Held(p)) \ {old} = Rest(p)
      BY <1>5, <2>2 DEF Held
    <3>3. \A y \in Rest(p) \cup Held(p) : << y, y >> \notin EventOrder
      <4>1. \A y \in Rest(p) \cup Held(p) : y \in EventNode
        BY <1>5, EventNodes DEF Held
      <4> QED
        BY <4>1, NodeFields
    <3>4. IsListOf(RemoveFirst(queues[p], old), (Rest(p) \cup Held(p)) \ {old}, EventOrder)
      <4> HIDE DEF old
      <4> QED
        BY <2>1, <3>3, RemovedInOrder
    <3> QED
      BY <3>1, <3>2, <3>4
  <2>3. CASE p # c
    <3>1. lists[p] = queues[p] /\ Held(p) = {}
      BY <2>1, <2>3 DEF Held
    <3> QED
      BY <2>1, <3>1
  <2> QED
    BY <2>2, <2>3
<1>9. lists \in [Queue -> Seq(EventNode)]
  <2>1. RemoveFirst(queues[c], old) \in Seq(EventNode)
    <3>1. lists[c] = RemoveFirst(queues[c], old) /\ IsListOf(lists[c], Rest(c), EventOrder)
      BY <1>5, <1>8 DEF QueueInv
    <3> QED
      BY <3>1, EventNodes DEF IsListOf
  <2> HIDE DEF old, c
  <2> QED
    BY <2>1 DEF QueueInv
<1>10. Rest(q)' = Rest(q) \ {Node(x)} /\ \A p \in Queue \ {q} : Rest(p)' = Rest(p)
  <2>1. \A f \in Events : Node(f) = Node(x) => f = x
    BY <1>1, EventNodes DEF IDInv
  <2>2. Rest(q)' = {Node(f) : f \in {g \in Events \ {x} : g.queue = q}}
    BY <1>1 DEF Rest, Node
  <2>3. Rest(q)' = Rest(q) \ {Node(x)}
    BY <1>1, <2>1, <2>2 DEF Rest
  <2>4. ASSUME NEW p \in Queue \ {q} PROVE Rest(p)' = Rest(p)
    <3>1. {g \in Events \ {x} : g.queue = p} = {g \in Events : g.queue = p}
      OBVIOUS
    <3> QED
      BY <1>1, <3>1 DEF Rest, Node
  <2> QED
    BY <2>3, <2>4
<1>11. Held(q)' = {Node(x)} /\ \A p \in Queue \ {q} : Held(p)' = {}
  BY <1>7 DEF Held
<1>12. \A p \in Queue : IsListOf(lists[p], Rest(p)' \cup Held(p)', EventOrder)
  <2>1. Node(x) \in Rest(q)
    BY <1>1, EventNodes
  <2>2. \A p \in Queue : Rest(p)' \cup Held(p)' = Rest(p)
    BY <1>10, <1>11, <2>1
  <2> HIDE DEF lists
  <2> QED
    BY <1>8, <2>2
<1>13. IDInv'
  BY <1>1 DEF IDInv
<1>14. CurrentInv'
  <2>1. \A f \in Events' : f.id # x.id
    BY <1>1 DEF IDInv
  <2>2. x.id <= currentEventID /\ x.time <= x.time
    BY <1>1, <1>4 DEF IDInv
  <2> QED
    BY <1>1, <1>4, <1>7, <2>1, <2>2 DEF CurrentInv
<1>15. Stands(Returned(merger, lists), [Left EXCEPT ![q] = @ \ {merger.at[q]}])
  <2>1. IsListOf(lists[q], Left[q], EventOrder)
    BY <1>2, <1>4, <1>8
  <2> HIDE DEF lists, q
  <2> QED
    BY <1>2, <1>3, <2>1, ReturnedStands
<1>16. Left' = [Left EXCEPT ![q] = @ \ {merger.at[q]}]
  <2>1. merger.at[q] = Node(x)
    BY <1>3 DEF Peek
  <2> HIDE DEF q
  <2> QED
    BY <1>4, <1>10, <2>1 DEF Left
<1>17. QueueInv'
  BY <1>7, <1>9, <1>12, <1>15, <1>16 DEF QueueInv
<1> QED
  BY <1>13, <1>14, <1>17

\* The initialization event comes before the events of the programs.
LEMMA InitIterator == MCInit => IteratorInv
<1> SUFFICES ASSUME MCInit PROVE IDInv /\ CurrentInv /\ QueueInv
  BY DEF IteratorInv
<1> DEFINE lists == [q \in Queue |-> IF q = 0 THEN << InitEvent >>
                                               ELSE Arranged(Rest(q), EventOrder)]
           m == First(lists)
           rest == [q \in Queue |-> IF q = 0 THEN {InitEvent} ELSE Rest(q)]
<1>1. /\ Init /\ TypeInv /\ queues = lists /\ merger = Returned(m, lists)
      /\ CurrentEvent = [queue |-> Head(m.active), event |-> Peek(m)]
  <2>1. Init /\ Begins(InitEvent, [q \in Queue |-> Rest(q)])
    BY DEF MCInit
  <2>2. lists = [q \in Queue |-> IF q = 0 THEN << InitEvent >>
                   ELSE Arranged([p \in Queue |-> Rest(p)][q], EventOrder)]
    OBVIOUS
  <2> HIDE DEF lists
  <2> QED
    BY <2>1, <2>2, InitTypeInv DEF Begins
<1>2. /\ 0 \in Queue /\ InitEvent \in EventNode /\ InitEvent.time = 0 /\ InitEvent.id = 0
      /\ \A q \in Queue : q \in Nat
  BY QueueAssumption, QueuesAssumption DEF InitEvent, EventNode
<1>3. /\ \A e \in Events : e.id \in Program /\ e.queue = Expansion
      /\ \A e, f \in Events : e.id = f.id => e = f
      /\ clock = 0 /\ currentEventID \in Nat /\ \A p \in Program : p <= currentEventID
  <2>1. PICK start \in [Program -> Time] :
          Events = {[id |-> p, kind |-> "resume", who |-> p, time |-> start[p], end |-> start[p],
                     crit |-> NoCriterion, queue |-> Expansion] : p \in Program}
    BY <1>1 DEF Init
  <2>2. \A e \in Events : e.id \in Program /\ e.queue = Expansion
    BY <2>1
  <2>3. \A e, f \in Events : e.id = f.id => e = f
    BY <2>1
  <2>4. clock = 0 /\ currentEventID \in Nat /\ \A p \in Program : p <= currentEventID
    BY <1>1, ProgramAssumption DEF Init
  <2> QED
    BY <2>2, <2>3, <2>4
<1>4. IDInv
  BY <1>3 DEF IDInv
<1>5. Rest(0) = {} /\ \A q \in Queue : IsFiniteSet(Rest(q))
  <2>1. Rest(0) = {}
    BY <1>3 DEF Rest, Expansion
  <2>2. ASSUME NEW q \in Queue PROVE IsFiniteSet(Rest(q))
    <3> DEFINE number == [n \in Rest(q) |-> n.id]
    <3>1. \A n \in Rest(q) : n.id \in Program
      BY <1>1, <1>3, EventNodes
    <3>2. \A n, o \in Rest(q) : n.id = o.id => n = o
      BY <1>1, <1>3, EventNodes
    <3>3. number \in Injection(Rest(q), Program)
      BY <3>1, <3>2 DEF Injection, IsInjective
    <3> QED
      BY <3>3, ProgramAssumption, FS_Injection
  <2> QED
    BY <2>1, <2>2
<1>6. /\ rest \in [Queue -> SUBSET EventNode]
      /\ rest[0] = {InitEvent} /\ \A q \in Queue \ {0} : rest[q] = Rest(q)
  BY <1>1, <1>2, EventNodes
<1>7. \A q \in Queue : IsListOf(lists[q], rest[q], EventOrder)
  <2>1. IsListOf(<< InitEvent >>, {InitEvent}, EventOrder)
    BY DEF IsListOf
  <2>2. ASSUME NEW q \in Queue \ {0}
        PROVE  IsListOf(Arranged(Rest(q), EventOrder), Rest(q), EventOrder)
    <3>1. IsFiniteSet(Rest(q)) /\ IsStrictOrder(EventOrder, Rest(q))
      BY <1>1, <1>5, EventNodes, EventsOrdered
    <3> QED
      BY <3>1, ArrangedInOrder
  <2>3. lists[0] = << InitEvent >> /\ \A q \in Queue \ {0} : lists[q] = Arranged(Rest(q), EventOrder)
    BY <1>2
  <2> HIDE DEF lists, rest
  <2> QED
    BY <1>6, <2>1, <2>2, <2>3
<1> HIDE DEF lists, rest
<1>8. Stands(m, rest)
  BY <1>6, <1>7, FirstStands
<1> HIDE DEF m
<1>9. 0 \in Filled(rest)
  BY <1>2, <1>6 DEF Filled
<1>10. /\ m.active # << >> /\ IsFirst(Head(m.active), Filled(rest), ThreadOrder(m.at))
       /\ Peek(m) = m.at[Head(m.active)]
  BY <1>6, <1>8, <1>9, PeekIsFirst
<1>11. m.at[0] = InitEvent
  BY <1>2, <1>6, <1>8 DEF Stands, IsFirst
<1>12. Head(m.active) = 0
  <2> DEFINE h == Head(m.active)
  <2> SUFFICES ASSUME h # 0 PROVE FALSE
    OBVIOUS
  <2>1. << h, 0 >> \in ThreadOrder(m.at) /\ h \in Queue /\ rest[h] # {}
    BY <1>9, <1>10 DEF IsFirst, Filled
  <2>2. m.at[h].time < 0 \/ h < 0
    BY <1>2, <1>11, <2>1, ThreadPairs
  <2>3. m.at[h].time \in Nat
    <3>1. m.at[h] \in rest[h]
      BY <1>8, <2>1 DEF Stands, IsFirst
    <3> QED
      BY <1>6, <2>1, <3>1, NodeFields
  <2> QED
    BY <1>2, <2>1, <2>2, <2>3
<1>13. CurrentEvent = [queue |-> 0, event |-> InitEvent]
  BY <1>1, <1>10, <1>11, <1>12
<1>14. CurrentInv
  <2>1. \A e \in Events : e.id # 0
    BY <1>3, Constants
  <2> QED
    BY <1>2, <1>3, <1>13, <2>1 DEF CurrentInv
<1>15. QueueInv
  <2>1. Left = [rest EXCEPT ![0] = @ \ {m.at[0]}]
    BY <1>2, <1>5, <1>6, <1>11 DEF Left
  <2>2. Stands(merger, Left)
    BY <1>1, <1>2, <1>6, <1>7, <1>8, <1>10, <1>12, <2>1, ReturnedStands
  <2>3. \A q \in Queue : Rest(q) \cup Held(q) = rest[q]
    BY <1>5, <1>6, <1>13 DEF Held
  <2>4. queues \in [Queue -> Seq(EventNode)]
    <3>1. \A q \in Queue : lists[q] \in Seq(EventNode)
      BY <1>6, <1>7 DEF IsListOf
    <3>2. DOMAIN lists = Queue /\ lists = [q \in Queue |-> lists[q]]
      BY DEF lists
    <3> QED
      BY <1>1, <3>1, <3>2
  <2> QED
    BY <1>1, <1>7, <2>2, <2>3, <2>4 DEF QueueInv
<1> QED
  BY <1>4, <1>14, <1>15

LEMMA NextIterator ==
  TimesInv /\ IteratorInv /\ [MCNext]_<< vars, iterVars >> => IteratorInv'
<1> SUFFICES ASSUME TimesInv, IteratorInv, [MCNext]_<< vars, iterVars >>, pc' # "done"
             PROVE  IDInv' /\ CurrentInv' /\ QueueInv'
  BY DEF IteratorInv
<1>1. CASE UNCHANGED << vars, iterVars >>
  <2>1. /\ UNCHANGED << pc, clock, Events, currentEventID >>
        /\ UNCHANGED << queues, merger, CurrentEvent >>
    BY <1>1 DEF vars, queueVars, iterVars
  <2>2. IDInv /\ CurrentInv /\ QueueInv
    BY <2>1 DEF IteratorInv
  <2>3. Left' = Left /\ (\A q : Rest(q)' = Rest(q)) /\ \A q : Held(q)' = Held(q)
    BY <2>1 DEF Left, Rest, Held, Node
  <2> QED
    BY <2>1, <2>2, <2>3 DEF IDInv, CurrentInv, QueueInv
<1>2. CASE Next /\ Follow
  <2>1. pc # "done"
    <3>1. CASE pc = "done"
      <4>1. Terminated
        BY <1>2, <3>1 DEF Next, Execute, Use, SendSignal, WaitFor, WaitUntil, Finish,
             ProcessEvent, DoneForNow, WakeOnSignal, NoSignalHeard, UnblockNow,
             NotUnblockedNow, UnblockLater, NotUnblocked
      <4> QED
        BY <3>1, <4>1 DEF Terminated, vars
    <3> QED
      BY <3>1
  <2>2. IDInv /\ CurrentInv /\ QueueInv /\ TypeInv /\ TypeInv'
    BY <1>2, <2>1, NextType DEF IteratorInv, TimesInv
  <2>3. CASE \E x : Schedules(x)
    <3>1. PICK x : Schedules(x)
      BY <2>3
    <3>2. Events' = Events \cup {x} /\ x \notin Events
      <4>1. currentEventID \in Nat /\ x.id = currentEventID + 1
        BY <2>2, <3>1 DEF TypeInv, TypeOK, Schedules
      <4>2. \A e \in Events : e.id \in Nat /\ e.id # x.id
        BY <2>2, <4>1, EventNodes DEF IDInv
      <4> QED
        BY <3>1, <4>2 DEF Schedules
    <3>3. Add(x.queue, Node(x))
      BY <1>2, <2>1, <3>2 DEF Follow
    <3> QED
      BY <2>2, <3>1, <3>3, AddStep
  <2>4. CASE \E x : Takes(x)
    <3>1. PICK x : Takes(x)
      BY <2>4
    <3>2. Events' = Events \ {x} /\ x \in Events
      BY <3>1 DEF Takes, IsNextEvent
    <3>3. Advance
      BY <1>2, <2>1, <3>2 DEF Follow
    <3> QED
      BY <2>2, <3>1, <3>3, AdvanceStep
  <2>5. CASE UNCHANGED << Events, currentEventID, clock >>
    <3>1. UNCHANGED << queues, merger, CurrentEvent >>
      BY <1>2, <2>5 DEF Follow, iterVars
    <3>2. Left' = Left /\ (\A q : Rest(q)' = Rest(q)) /\ \A q : Held(q)' = Held(q)
      BY <2>5, <3>1 DEF Left, Rest, Held, Node
    <3> QED
      BY <2>2, <2>5, <3>1, <3>2 DEF IDInv, CurrentInv, QueueInv
  <2> QED
    BY <1>2, <2>3, <2>4, <2>5, EventsStep
<1> QED
  BY <1>1, <1>2 DEF MCNext

\* With the queues next to it the loop behaves as it does alone: what is proved
\* of EventLoop holds when its events come from the queues and the iterator.
THEOREM LoopWithQueues == MCSpec => Spec
<1>1. MCInit => Init
  BY DEF MCInit
<1>2. [MCNext]_<< vars, iterVars >> => [Next]_vars
  BY DEF MCNext
<1> QED
  BY <1>1, <1>2, PTL DEF MCSpec, Spec

\* What Events().peek() returns is the event that is next by time, priority of
\* the queue and number, or none if there is none, as long as ProcessEvents
\* runs, and no addition to the queues is refused (Miterator, multitemplate.H).
THEOREM PeeksAreNext == MCSpec => []PeeksNextEvent
<1>1. MCInit => TimesInv /\ IteratorInv
  BY InitTypeInv, InitTimes, InitIterator DEF MCInit, TimesInv
<1>2. TimesInv /\ IteratorInv /\ [MCNext]_<< vars, iterVars >> => TimesInv' /\ IteratorInv'
  <2>1. [MCNext]_<< vars, iterVars >> => [Next]_vars
    BY DEF MCNext
  <2> QED
    BY <2>1, NextTimes, NextIterator
<1>3. TimesInv /\ IteratorInv => PeeksNextEvent
  <2> SUFFICES ASSUME TimesInv, IteratorInv, pc # "done"
               PROVE  /\ Events = {} => Peek(merger) = NoEvent
                      /\ \A e \in Events : IsNextEvent(e) => Peek(merger) = Node(e)
                      /\ ~merger.thrown
    BY DEF PeeksNextEvent
  <2>1. TypeInv /\ Stands(merger, Left)
    BY DEF TimesInv, IteratorInv, QueueInv
  <2>2. ASSUME Events = {} PROVE Peek(merger) = NoEvent
    <3>1. Left \in [Queue -> SUBSET EventNode] /\ \A q \in Queue : Left[q] = Rest(q)
      BY <2>1, EventNodes
    <3>2. Filled(Left) = {}
      BY <2>2, <3>1 DEF Filled, Rest
    <3> QED
      BY <2>1, <3>1, <3>2, PeekIsFirst
  <2>3. \A e \in Events : IsNextEvent(e) => Peek(merger) = Node(e)
    BY <2>1, PeekIsNext
  <2> QED
    BY <2>1, <2>2, <2>3 DEF Stands
<1> QED
  BY <1>1, <1>2, <1>3, PTL DEF MCSpec
=============================================================================
