-------------------------- MODULE Selections_proofs --------------------------
(***************************************************************************)
(* What Selection returns, for every vector and every set of positions in  *)
(* it: entry n is the one at the position of rank n, later entries come    *)
(* from later positions, and a selection that goes on further begins with  *)
(* the same entries.                                                       *)
(***************************************************************************)
EXTENDS Selections, Integers, FiniteSetTheorems, WellFoundedInduction, TLAPS

\* A set of positions that is not empty has a first one.
LEMMA FirstOf ==
  ASSUME NEW S, S \subseteq Nat, S # {}
  PROVE  \E m \in S : \A k \in S : m <= k
<1>1. PICK m \in S : \A n \in S : ~ (<<n, m>> \in OpToRel(<, Nat))
  BY WFMin, NatLessThanWellFounded
<1>2. \A n \in S : ~ (n < m)
  BY <1>1 DEF OpToRel
<1> QED
  BY <1>2

\* Within a vector it also has a last one.
LEMMA LastOf ==
  ASSUME NEW n \in Nat, NEW S, S \subseteq 1..n, S # {}
  PROVE  \E m \in S : \A k \in S : k <= m
<1> DEFINE T == {n - k : k \in S}
<1>0. \A k \in S : k \in Nat /\ k <= n
  OBVIOUS
<1>1. T \subseteq Nat /\ T # {}
  <2>1. \A k \in S : n - k \in Nat
    BY <1>0
  <2> QED
    BY <2>1
<1>2. PICK d \in T : \A e \in T : d <= e
  BY <1>1, FirstOf
<1>3. PICK m \in S : d = n - m
  OBVIOUS
<1>4. \A k \in S : n - m <= n - k
  BY <1>2, <1>3
<1> QED
  BY <1>4

\* The ranks of the positions in S are the numbers from 1 on, in the same order.
LEMMA Ranks ==
  ASSUME NEW n \in Nat, NEW S, S \subseteq 1..n
  PROVE  /\ Cardinality(S) \in Nat
         /\ \A i \in S : Cardinality(UpTo(S, i)) \in 1..Cardinality(S)
         /\ \A i, j \in S : i < j => Cardinality(UpTo(S, i)) < Cardinality(UpTo(S, j))
         /\ \A k \in 1..Cardinality(S) : \E i \in S : Cardinality(UpTo(S, i)) = k
<1> DEFINE rank == [i \in S |-> Cardinality(UpTo(S, i))]
<1>1. IsFiniteSet(S) /\ Cardinality(S) \in Nat
  <2>1. IsFiniteSet(1..n)
    BY FS_Interval
  <2> QED
    BY <2>1, FS_Subset, FS_CardinalityType
<1>2. \A i \in S : IsFiniteSet(UpTo(S, i)) /\ Cardinality(UpTo(S, i)) \in 1..Cardinality(S)
  <2> TAKE i \in S
  <2>1. UpTo(S, i) \subseteq S /\ i \in UpTo(S, i)
    BY DEF UpTo
  <2>2. IsFiniteSet(UpTo(S, i)) /\ Cardinality(UpTo(S, i)) <= Cardinality(S)
    BY <1>1, <2>1, FS_Subset
  <2>3. Cardinality(UpTo(S, i)) \in Nat /\ Cardinality(UpTo(S, i)) # 0
    BY <2>1, <2>2, FS_CardinalityType, FS_EmptySet
  <2> QED
    BY <1>1, <2>2, <2>3
<1>3. ASSUME NEW i \in S, NEW j \in S, i < j
      PROVE  Cardinality(UpTo(S, i)) < Cardinality(UpTo(S, j))
  <2>0. i \in Nat /\ j \in Nat /\ \A k \in S : k \in Nat
    OBVIOUS
  <2>a. \A k \in S : k <= i => k <= j
    BY <1>3, <2>0
  <2>b. j <= j /\ ~(j <= i)
    BY <1>3, <2>0
  <2>1. UpTo(S, i) \subseteq UpTo(S, j) /\ j \in UpTo(S, j) /\ j \notin UpTo(S, i)
    BY <2>a, <2>b DEF UpTo
  <2>2. /\ Cardinality(UpTo(S, i)) <= Cardinality(UpTo(S, j))
        /\ Cardinality(UpTo(S, i)) # Cardinality(UpTo(S, j))
    BY <1>2, <2>1, FS_Subset
  <2> QED
    BY <1>1, <1>2, <2>2
<1>4. rank \in [S -> 1..Cardinality(S)]
  BY <1>2
<1>5. rank \in Injection(S, 1..Cardinality(S))
  <2>1. ASSUME NEW i \in S, NEW j \in S, rank[i] = rank[j]
        PROVE  i = j
    <3>1. i \in Int /\ j \in Int /\ rank[i] \in Int /\ rank[j] \in Int
      BY <1>4
    <3>2. ~(i < j) /\ ~(j < i)
      BY <1>3, <2>1, <3>1
    <3> QED
      BY <3>1, <3>2
  <2> QED
    BY <1>4, <2>1 DEF Injection, IsInjective
<1>6. rank \in Surjection(S, 1..Cardinality(S))
  <2>1. IsFiniteSet(1..Cardinality(S)) /\ Cardinality(1..Cardinality(S)) = Cardinality(S)
    BY <1>1, FS_Interval
  <2> QED
    BY <1>5, <2>1, FS_Injection
<1> QED
  BY <1>1, <1>2, <1>3, <1>6 DEF Surjection

\* Entry n of a selection is the record at the position of rank n.
LEMMA Selected ==
  ASSUME NEW n \in Nat, NEW S, S \subseteq 1..n, NEW v
  PROVE  /\ \A k \in 1..Cardinality(S) : \E i \in S :
                Cardinality(UpTo(S, i)) = k /\ Selection(v, S)[k] = v[i]
         /\ \A i \in S : Selection(v, S)[Cardinality(UpTo(S, i))] = v[i]
         /\ DOMAIN Selection(v, S) = 1..Cardinality(S)
<1> DEFINE rank(i) == Cardinality(UpTo(S, i))
           chosen(k) == CHOOSE i \in S : rank(i) = k
<1>1. /\ \A i \in S : rank(i) \in 1..Cardinality(S)
      /\ \A i, j \in S : i < j => rank(i) < rank(j)
      /\ \A k \in 1..Cardinality(S) : \E i \in S : rank(i) = k
  BY Ranks
<1>2. Selection(v, S) = [k \in 1..Cardinality(S) |-> v[chosen(k)]]
  BY DEF Selection
<1>3. \A k \in 1..Cardinality(S) : chosen(k) \in S /\ rank(chosen(k)) = k
  <2> HIDE DEF rank
  <2> QED
    BY <1>1
<1>4. \A i, j \in S : rank(i) = rank(j) => i = j
  <2> SUFFICES ASSUME NEW i \in S, NEW j \in S, rank(i) = rank(j)
               PROVE  i = j
    OBVIOUS
  <2> HIDE DEF rank
  <2>1. i \in Nat /\ j \in Nat /\ rank(i) \in 1..Cardinality(S)
    BY <1>1
  <2>2. ~(i < j) /\ ~(j < i)
    BY <1>1, <2>1
  <2> QED
    BY <2>1, <2>2
<1>5. \A i \in S : chosen(rank(i)) = i
  <2> HIDE DEF rank, chosen
  <2> QED
    BY <1>1, <1>3, <1>4
<1> HIDE DEF rank, chosen
<1>6. \A k \in 1..Cardinality(S) : rank(chosen(k)) = k /\ Selection(v, S)[k] = v[chosen(k)] /\ chosen(k) \in S
  BY <1>2, <1>3
<1>7. \A i \in S : Selection(v, S)[rank(i)] = v[i]
  BY <1>1, <1>2, <1>5
<1> QED
  BY <1>2, <1>6, <1>7 DEF rank

\* Later entries come from later positions.
KeepsOrder(v, S) ==
  \A k, l \in 1..Cardinality(S) : k < l =>
    \E i, j \in S : i < j /\ Selection(v, S)[k] = v[i] /\ Selection(v, S)[l] = v[j]

LEMMA SelectedOrder ==
  ASSUME NEW n \in Nat, NEW S, S \subseteq 1..n, NEW v
  PROVE  KeepsOrder(v, S)
<1>1. /\ Cardinality(S) \in Nat
      /\ \A x \in S : Cardinality(UpTo(S, x)) \in 1..Cardinality(S)
      /\ \A x, y \in S : x < y => Cardinality(UpTo(S, x)) < Cardinality(UpTo(S, y))
  BY Ranks
<1>2. /\ \A k \in 1..Cardinality(S) : \E i \in S :
            Cardinality(UpTo(S, i)) = k /\ Selection(v, S)[k] = v[i]
      /\ \A i \in S : Selection(v, S)[Cardinality(UpTo(S, i))] = v[i]
      /\ DOMAIN Selection(v, S) = 1..Cardinality(S)
  BY Selected
<1>3. ASSUME NEW k \in 1..Cardinality(S), NEW l \in 1..Cardinality(S), k < l
      PROVE  \E i, j \in S : i < j /\ Selection(v, S)[k] = v[i] /\ Selection(v, S)[l] = v[j]
  <2>1. PICK i \in S : Cardinality(UpTo(S, i)) = k /\ Selection(v, S)[k] = v[i]
    BY <1>2
  <2>2. PICK j \in S : Cardinality(UpTo(S, j)) = l /\ Selection(v, S)[l] = v[j]
    BY <1>2
  <2>3. i \in Nat /\ j \in Nat /\ k \in Nat /\ l \in Nat
    BY <1>1
  <2>4. i # j
    BY <1>3, <2>1, <2>2, <2>3
  <2>5. ~(j < i)
    BY <1>1, <1>3, <2>1, <2>2, <2>3
  <2> QED
    BY <2>1, <2>2, <2>3, <2>4, <2>5
<1> QED
  BY <1>3 DEF KeepsOrder

\* A selection that goes on further begins with the same entries.
BeginsLike(v, S, w, T) ==
  /\ Cardinality(S) <= Cardinality(T)
  /\ \A k \in 1..Cardinality(S) : Selection(v, S)[k] = Selection(w, T)[k]

LEMMA SelectedPrefix ==
  ASSUME NEW n \in Nat, NEW T, T \subseteq 1..n, NEW S, S \subseteq T, NEW v, NEW w,
         \A i \in S : v[i] = w[i] /\ UpTo(S, i) = UpTo(T, i)
  PROVE  BeginsLike(v, S, w, T)
<1>1. IsFiniteSet(T)
  <2>1. IsFiniteSet(1..n)
    BY FS_Interval
  <2> QED
    BY <2>1, FS_Subset
<1>2. Cardinality(S) <= Cardinality(T)
  BY <1>1, FS_Subset
<1>3. S \subseteq 1..n
  OBVIOUS
<1>4. /\ \A k \in 1..Cardinality(S) : \E i \in S :
            Cardinality(UpTo(S, i)) = k /\ Selection(v, S)[k] = v[i]
      /\ \A i \in S : Selection(v, S)[Cardinality(UpTo(S, i))] = v[i]
      /\ DOMAIN Selection(v, S) = 1..Cardinality(S)
  BY <1>3, Selected
<1>5. /\ \A k \in 1..Cardinality(T) : \E i \in T :
            Cardinality(UpTo(T, i)) = k /\ Selection(w, T)[k] = w[i]
      /\ \A i \in T : Selection(w, T)[Cardinality(UpTo(T, i))] = w[i]
      /\ DOMAIN Selection(w, T) = 1..Cardinality(T)
  BY Selected
<1>6. ASSUME NEW k \in 1..Cardinality(S)
      PROVE  Selection(v, S)[k] = Selection(w, T)[k]
  <2>1. PICK i \in S : Cardinality(UpTo(S, i)) = k /\ Selection(v, S)[k] = v[i]
    BY <1>4
  <2> QED
    BY <1>5, <2>1
<1> QED
  BY <1>2, <1>6 DEF BeginsLike
=============================================================================
