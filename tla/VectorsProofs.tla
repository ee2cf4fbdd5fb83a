--------------------------- MODULE VectorsProofs ---------------------------
(***************************************************************************)
(* What Retain, Arrange and Total of Vectors return, for vectors of any    *)
(* length.                                                                 *)
(***************************************************************************)
EXTENDS Vectors, FiniteSetTheorems, SequenceTheorems, TLAPS

(* The ranks of the elements of a finite totally ordered set are the numbers
   from one to its size, each taken once.                                  *)
LEMMA RankBijection ==
  ASSUME NEW I, IsFiniteSet(I), NEW leq, TotalOrder(I, leq)
  PROVE  [i \in I |-> Rank(I, leq, i)] \in Bijection(I, 1 .. Cardinality(I))
<1> DEFINE Down(i) == {j \in I : <<j, i>> \in leq}
           r == [i \in I |-> Rank(I, leq, i)]
<1>1. ASSUME NEW i \in I
      PROVE  /\ IsFiniteSet(Down(i))
             /\ Cardinality(Down(i)) \in 1 .. Cardinality(I)
  <2>1. Down(i) \in SUBSET I /\ i \in Down(i)
    BY DEF TotalOrder
  <2>2. IsFiniteSet(Down(i)) /\ Cardinality(Down(i)) <= Cardinality(I)
    BY <2>1, FS_Subset
  <2>3. Cardinality(Down(i)) \in Nat /\ Cardinality(I) \in Nat
    BY <2>2, FS_CardinalityType
  <2>4. Cardinality(Down(i)) # 0
    BY <2>1, <2>2, FS_EmptySet
  <2> QED  BY <2>2, <2>3, <2>4
<1>2. ASSUME NEW i \in I, NEW j \in I, <<i, j>> \in leq,
             Cardinality(Down(i)) = Cardinality(Down(j))
      PROVE  i = j
  <2>1. Down(i) \in SUBSET Down(j) /\ j \in Down(j)
    BY <1>2 DEF TotalOrder
  <2>2. Down(j) = Down(i)
    BY <1>1, <1>2, <2>1, FS_Subset
  <2> QED  BY <1>2, <2>1, <2>2 DEF TotalOrder
<1>3. \A i, j \in I : r[i] = r[j] => i = j
  BY <1>2 DEF TotalOrder, Rank
<1>4. r \in [I -> 1 .. Cardinality(I)]
  BY <1>1 DEF Rank
<1>5. r \in Injection(I, 1 .. Cardinality(I))
  BY <1>3, <1>4 DEF Injection, IsInjective
<1>6. Cardinality(I) \in Nat
  BY FS_CardinalityType
<1>7. IsFiniteSet(1 .. Cardinality(I)) /\ Cardinality(1 .. Cardinality(I)) = Cardinality(I)
  BY <1>6, FS_Interval
<1> QED  BY <1>5, <1>7, FS_Injection DEF Bijection

(* An enumeration visits every element once.                               *)
LEMMA EnumerateBijection ==
  ASSUME NEW I, IsFiniteSet(I), NEW leq, TotalOrder(I, leq)
  PROVE  Enumerate(I, leq) \in Bijection(1 .. Cardinality(I), I)
<1> DEFINE r == [i \in I |-> Rank(I, leq, i)]
           e == Enumerate(I, leq)
           N == 1 .. Cardinality(I)
<1> HIDE DEF N
<1>1. r \in Bijection(I, N)
  BY RankBijection DEF N
<1>2. /\ \A i \in I : Rank(I, leq, i) \in N
      /\ \A i, j \in I : Rank(I, leq, i) = Rank(I, leq, j) => i = j
      /\ \A k \in N : \E i \in I : Rank(I, leq, i) = k
  BY <1>1, Zenon DEF Bijection, Injection, Surjection, IsInjective
<1>3. \A k \in N : e[k] \in I /\ Rank(I, leq, e[k]) = k
  BY <1>2 DEF Enumerate, N
<1>4. e \in [N -> I]
  BY <1>3 DEF Enumerate, N
<1>5. \A k, l \in N : e[k] = e[l] => k = l
  BY <1>3
<1>6. \A i \in I : e[Rank(I, leq, i)] = i
  BY <1>2, <1>3
<1>7. \A i \in I : \E k \in N : e[k] = i
  BY <1>2, <1>6
<1>8. e \in Injection(N, I)
  BY <1>4, <1>5 DEF Injection, IsInjective
<1>9. e \in Surjection(N, I)
  BY <1>4, <1>7 DEF Surjection
<1> QED  BY <1>8, <1>9 DEF Bijection, N

(* An arrangement of a part of a vector: its type, its length, its entries
   and where they come from.                                               *)
LEMMA ArrangeLemma ==
  ASSUME NEW S, NEW s \in Seq(S), NEW I \in SUBSET DOMAIN s, NEW leq, TotalOrder(I, leq)
  PROVE  /\ Arrange(s, I, leq) \in Seq(S)
         /\ Len(Arrange(s, I, leq)) = Cardinality(I)
         /\ Cardinality(I) \in Nat
         /\ Cardinality(I) <= Len(s)
         /\ Range(Arrange(s, I, leq)) = {s[i] : i \in I}
         /\ \E p \in Injection(DOMAIN Arrange(s, I, leq), I) :
              \A k \in DOMAIN Arrange(s, I, leq) : Arrange(s, I, leq)[k] = s[p[k]]
<1> DEFINE t == Arrange(s, I, leq)
           e == Enumerate(I, leq)
           n == Cardinality(I)
<1>0. Len(s) \in Nat /\ DOMAIN s = 1 .. Len(s)
  BY LenProperties
<1>1. IsFiniteSet(1 .. Len(s)) /\ Cardinality(1 .. Len(s)) = Len(s)
  <2>1. 1 \in Int /\ Len(s) \in Int
    BY <1>0
  <2>2. Cardinality(1 .. Len(s)) = IF 1 > Len(s) THEN 0 ELSE Len(s) - 1 + 1
    BY <2>1, FS_Interval
  <2>3. IsFiniteSet(1 .. Len(s))
    BY <2>1, FS_Interval
  <2> QED  BY <1>0, <2>2, <2>3
<1>2. IsFiniteSet(I) /\ n <= Len(s) /\ n \in Nat
  BY <1>0, <1>1, FS_Subset, FS_CardinalityType
<1>3. e \in Bijection(1 .. n, I)
  BY <1>2, EnumerateBijection
<1>4. /\ e \in [1 .. n -> I]
      /\ \A i \in I : \E k \in 1 .. n : e[k] = i
      /\ e \in Injection(1 .. n, I)
  BY <1>3 DEF Bijection, Injection, Surjection
<1>5. t = [k \in 1 .. n |-> s[e[k]]]
  BY DEF Arrange
<1> HIDE DEF e, n, t
<1>6. \A i \in I : s[i] \in S
  BY LenProperties
<1>7. t \in [1 .. n -> S]
  BY <1>4, <1>5, <1>6
<1>8. t \in Seq(S) /\ Len(t) = n /\ DOMAIN t = 1 .. n
  BY <1>2, <1>7, LenProperties
<1>9. Range(t) = {s[i] : i \in I}
  BY <1>4, <1>5, <1>8 DEF Range
<1>10. \A k \in DOMAIN t : t[k] = s[e[k]]
  BY <1>5, <1>8
<1> QED  BY <1>2, <1>4, <1>8, <1>9, <1>10 DEF t, n

LEMMA IndexOrderTotal ==
  ASSUME NEW I \in SUBSET Nat
  PROVE  TotalOrder(I, IndexOrder(I))
BY DEF TotalOrder, IndexOrder

(* Retain keeps the type, does not lengthen, and returns the entries asked for. *)
LEMMA RetainLemma ==
  ASSUME NEW S, NEW s \in Seq(S), NEW I \in SUBSET DOMAIN s
  PROVE  /\ Retain(s, I) \in Seq(S)
         /\ Len(Retain(s, I)) <= Len(s)
         /\ Range(Retain(s, I)) = {s[i] : i \in I}
         /\ \E p \in Injection(DOMAIN Retain(s, I), I) :
              \A k \in DOMAIN Retain(s, I) : Retain(s, I)[k] = s[p[k]]
<1>1. I \in SUBSET Nat
  BY LenProperties
<1>2. TotalOrder(I, IndexOrder(I))
  BY <1>1, IndexOrderTotal
<1> DEFINE t == Arrange(s, I, IndexOrder(I))
<1>3. /\ t \in Seq(S)
      /\ Len(t) = Cardinality(I)
      /\ Cardinality(I) <= Len(s)
      /\ Range(t) = {s[i] : i \in I}
      /\ \E p \in Injection(DOMAIN t, I) : \A k \in DOMAIN t : t[k] = s[p[k]]
  BY <1>2, ArrangeLemma
<1> QED  BY <1>3, Zenon DEF Retain

(* The sum of finitely many naturals is a natural.                         *)
LEMMA TotalNat ==
  ASSUME NEW f, IsFiniteSet(DOMAIN f), \A d \in DOMAIN f : f[d] \in Nat
  PROVE  IsFiniteSet(Units(f)) /\ Total(f) \in Nat
<1> DEFINE cells == [d \in DOMAIN f |-> {d} \X (1 .. f[d])]
           T == {{d} \X (1 .. f[d]) : d \in DOMAIN f}
<1>1. cells \in Surjection(DOMAIN f, T)
  BY DEF Surjection
<1>2. IsFiniteSet(T)
  BY <1>1, FS_Surjection
<1>3. \A d \in DOMAIN f : IsFiniteSet({d} \X (1 .. f[d]))
  <2> TAKE d \in DOMAIN f
  <2>1. IsFiniteSet({d})
    BY FS_Singleton
  <2>2. IsFiniteSet(1 .. f[d])
    BY FS_Interval
  <2> QED  BY <2>1, <2>2, FS_Product
<1>4. IsFiniteSet(UNION T)
  BY <1>2, <1>3, FS_UNION
<1> QED  BY <1>4, FS_CardinalityType DEF Units, Total

-----------------------------------------------------------------------------
(* Orders.                                                                 *)

(* An enumeration goes up.                                                 *)
LEMMA EnumerateOrder ==
  ASSUME NEW I, IsFiniteSet(I), NEW leq, TotalOrder(I, leq),
         NEW k \in 1 .. Cardinality(I), NEW l \in 1 .. Cardinality(I), k <= l
  PROVE  /\ Enumerate(I, leq)[k] \in I /\ Enumerate(I, leq)[l] \in I
         /\ <<Enumerate(I, leq)[k], Enumerate(I, leq)[l]>> \in leq
<1> DEFINE e == Enumerate(I, leq)
           Down(i) == {j \in I : <<j, i>> \in leq}
<1>1. /\ \A j \in 1 .. Cardinality(I) : \E i \in I : Rank(I, leq, i) = j
  <2>1. [i \in I |-> Rank(I, leq, i)] \in Bijection(I, 1 .. Cardinality(I))
    BY RankBijection
  <2> QED  BY <2>1, Zenon DEF Bijection, Surjection
<1>2. /\ e[k] \in I /\ Cardinality(Down(e[k])) = k
      /\ e[l] \in I /\ Cardinality(Down(e[l])) = l
  BY <1>1 DEF Enumerate, Rank
<1> HIDE DEF e
<1>3. CASE <<e[k], e[l]>> \in leq
  BY <1>2, <1>3 DEF e
<1>4. CASE <<e[k], e[l]>> \notin leq
  <2>1. <<e[l], e[k]>> \in leq
    BY <1>2, <1>4 DEF TotalOrder
  <2>2. Down(e[l]) \in SUBSET Down(e[k])
    BY <1>2, <2>1 DEF TotalOrder
  <2>3. IsFiniteSet(Down(e[k])) /\ Down(e[k]) \in SUBSET I
    BY FS_Subset
  <2>4. Cardinality(Down(e[l])) <= Cardinality(Down(e[k]))
    BY <2>2, <2>3, FS_Subset
  <2>5. k = l
    BY <1>2, <2>4
  <2> QED  BY <1>2, <1>4, <2>1, <2>5
<1> QED  BY <1>3, <1>4

(* An arrangement goes up, entry by entry.                                 *)
LEMMA ArrangeOrder ==
  ASSUME NEW S, NEW s \in Seq(S), NEW I \in SUBSET DOMAIN s, NEW leq, TotalOrder(I, leq)
  PROVE  \A k, l \in DOMAIN Arrange(s, I, leq) : k <= l =>
           \E p \in leq : /\ p[1] \in I /\ p[2] \in I
                         /\ Arrange(s, I, leq)[k] = s[p[1]]
                         /\ Arrange(s, I, leq)[l] = s[p[2]]
<1> SUFFICES ASSUME NEW k \in DOMAIN Arrange(s, I, leq), NEW l \in DOMAIN Arrange(s, I, leq),
                    k <= l
             PROVE  \E p \in leq : /\ p[1] \in I /\ p[2] \in I
                                   /\ Arrange(s, I, leq)[k] = s[p[1]]
                                   /\ Arrange(s, I, leq)[l] = s[p[2]]
  OBVIOUS
<1>1. IsFiniteSet(I)
  <2>1. Len(s) \in Nat /\ DOMAIN s = 1 .. Len(s)
    BY LenProperties
  <2>2. 1 \in Int /\ Len(s) \in Int
    BY <2>1
  <2>3. IsFiniteSet(DOMAIN s)
    BY <2>1, <2>2, FS_Interval
  <2> QED  BY <2>3, FS_Subset
<1>2. k \in 1 .. Cardinality(I) /\ l \in 1 .. Cardinality(I)
  BY DEF Arrange
<1>3. /\ Enumerate(I, leq)[k] \in I /\ Enumerate(I, leq)[l] \in I
      /\ <<Enumerate(I, leq)[k], Enumerate(I, leq)[l]>> \in leq
  BY <1>1, <1>2, EnumerateOrder
<1>4. /\ Arrange(s, I, leq)[k] = s[Enumerate(I, leq)[k]]
      /\ Arrange(s, I, leq)[l] = s[Enumerate(I, leq)[l]]
  BY <1>2 DEF Arrange
<1> QED  BY <1>3, <1>4

(* Retain keeps the order of what it retains.                              *)
LEMMA RetainOrder ==
  ASSUME NEW S, NEW s \in Seq(S), NEW I \in SUBSET DOMAIN s
  PROVE  \A k, l \in DOMAIN Retain(s, I) : k <= l =>
           \E i, j \in I : i <= j /\ Retain(s, I)[k] = s[i] /\ Retain(s, I)[l] = s[j]
<1> SUFFICES ASSUME NEW k \in DOMAIN Retain(s, I), NEW l \in DOMAIN Retain(s, I), k <= l
             PROVE  \E i, j \in I : i <= j /\ Retain(s, I)[k] = s[i] /\ Retain(s, I)[l] = s[j]
  OBVIOUS
<1> DEFINE leq == IndexOrder(I)
<1>1. I \in SUBSET Nat
  BY LenProperties
<1>2. TotalOrder(I, leq)
  BY <1>1, IndexOrderTotal
<1>3. IsFiniteSet(I)
  <2>1. Len(s) \in Nat /\ DOMAIN s = 1 .. Len(s)
    BY LenProperties
  <2>2. 1 \in Int /\ Len(s) \in Int
    BY <2>1
  <2>3. IsFiniteSet(DOMAIN s)
    BY <2>1, <2>2, FS_Interval
  <2> QED  BY <2>3, FS_Subset
<1>4. k \in 1 .. Cardinality(I) /\ l \in 1 .. Cardinality(I)
  BY DEF Retain, Arrange
<1>5. /\ Retain(s, I)[k] = s[Enumerate(I, leq)[k]]
      /\ Retain(s, I)[l] = s[Enumerate(I, leq)[l]]
  BY <1>4 DEF Retain, Arrange
<1> HIDE DEF leq
<1>6. /\ Enumerate(I, leq)[k] \in I /\ Enumerate(I, leq)[l] \in I
      /\ <<Enumerate(I, leq)[k], Enumerate(I, leq)[l]>> \in leq
  BY <1>2, <1>3, <1>4, EnumerateOrder
<1>7. Enumerate(I, leq)[k] <= Enumerate(I, leq)[l]
  BY <1>6 DEF leq, IndexOrder
<1> QED  BY <1>5, <1>6, <1>7

-----------------------------------------------------------------------------
(* Sums.                                                                   *)

IsTally(f) == IsFiniteSet(DOMAIN f) /\ \A d \in DOMAIN f : f[d] \in Nat

(* f without what it says of d, and what it says of d.                     *)
Without(f, d) == [e \in DOMAIN f \ {d} |-> f[e]]
ValueAt(f, d) == IF d \in DOMAIN f THEN f[d] ELSE 0

LEMMA TotalEmpty ==
  ASSUME NEW f, DOMAIN f = {}
  PROVE  Total(f) = 0
<1>1. Units(f) = {}
  BY DEF Units
<1> QED  BY <1>1, FS_EmptySet DEF Total

(* One value split off.                                                    *)
LEMMA TotalSplit ==
  ASSUME NEW f, IsTally(f), NEW d
  PROVE  /\ IsTally(Without(f, d))
         /\ Total(f) = Total(Without(f, d)) + ValueAt(f, d)
<1> DEFINE g == Without(f, d)
<1>1. DOMAIN g = DOMAIN f \ {d} /\ \A e \in DOMAIN g : g[e] = f[e]
  BY DEF Without
<1> HIDE DEF g
<1>2. IsFiniteSet(DOMAIN f \ {d})
  BY FS_RemoveElement DEF IsTally
<1>3. IsTally(g)
  BY <1>1, <1>2 DEF IsTally
<1>4. /\ IsFiniteSet(Units(g)) /\ Total(g) \in Nat
  BY <1>3, TotalNat DEF IsTally
<1>5. CASE d \in DOMAIN f
  <2> DEFINE U == {d} \X (1 .. f[d])
  <2>1. f[d] \in Nat
    BY <1>5 DEF IsTally
  <2>2. IsFiniteSet({d}) /\ Cardinality({d}) = 1
    BY FS_Singleton
  <2>3. IsFiniteSet(1 .. f[d]) /\ Cardinality(1 .. f[d]) = f[d]
    <3>1. 1 \in Int /\ f[d] \in Int
      BY <2>1
    <3> QED  BY <2>1, <3>1, FS_Interval
  <2>4. IsFiniteSet(U) /\ Cardinality(U) = 1 * f[d]
    BY <2>2, <2>3, FS_Product
  <2>5. Units(f) = Units(g) \union U
    BY <1>1, <1>5 DEF Units
  <2>6. Units(g) \intersect U = {}
    BY <1>1 DEF Units
  <2> HIDE DEF U
  <2>7. Cardinality(Units(f)) = Cardinality(Units(g)) + Cardinality(U) - Cardinality({})
    BY <1>4, <2>4, <2>5, <2>6, FS_Union
  <2>8. Cardinality({}) = 0
    BY FS_EmptySet
  <2> QED  BY <1>3, <1>4, <1>5, <2>1, <2>4, <2>7, <2>8 DEF Total, ValueAt, g
<1>6. CASE d \notin DOMAIN f
  <2>1. Units(g) = Units(f)
    BY <1>1, <1>6 DEF Units
  <2> QED  BY <1>3, <1>4, <1>6, <2>1 DEF Total, ValueAt, g
<1> QED  BY <1>5, <1>6

(* No value exceeds the sum.                                               *)
LEMMA TotalBound ==
  ASSUME NEW f, IsTally(f), NEW d
  PROVE  ValueAt(f, d) \in Nat /\ ValueAt(f, d) <= Total(f)
<1>1. Total(f) = Total(Without(f, d)) + ValueAt(f, d) /\ IsTally(Without(f, d))
  BY TotalSplit
<1>2. Total(Without(f, d)) \in Nat
  BY <1>1, TotalNat DEF IsTally
<1>3. ValueAt(f, d) \in Nat
  BY DEF ValueAt, IsTally
<1> QED  BY <1>1, <1>2, <1>3

LEMMA TotalOne ==
  ASSUME NEW f, NEW d, DOMAIN f = {d}, f[d] \in Nat
  PROVE  Total(f) = f[d]
<1>1. IsFiniteSet(DOMAIN f)
  BY FS_Singleton
<1>2. IsTally(f)
  BY <1>1 DEF IsTally
<1>3. Total(f) = Total(Without(f, d)) + f[d]
  BY <1>2, TotalSplit DEF ValueAt
<1>4. Total(Without(f, d)) = 0
  <2>1. DOMAIN Without(f, d) = {}
    BY DEF Without
  <2> QED  BY <2>1, TotalEmpty
<1> QED  BY <1>3, <1>4

(* One value changed.                                                      *)
LEMMA TotalChange ==
  ASSUME NEW f, IsTally(f), NEW g, IsTally(g), NEW d, Without(f, d) = Without(g, d)
  PROVE  /\ Total(f) \in Nat /\ Total(g) \in Nat
         /\ ValueAt(f, d) \in Nat /\ ValueAt(g, d) \in Nat
         /\ Total(g) + ValueAt(f, d) = Total(f) + ValueAt(g, d)
<1>1. /\ Total(f) = Total(Without(f, d)) + ValueAt(f, d)
      /\ Total(g) = Total(Without(g, d)) + ValueAt(g, d)
      /\ IsTally(Without(f, d))
  BY TotalSplit
<1>2. Total(Without(f, d)) \in Nat
  BY <1>1, TotalNat DEF IsTally
<1>3. ValueAt(f, d) \in Nat /\ ValueAt(g, d) \in Nat
  BY DEF ValueAt, IsTally
<1> QED  BY <1>1, <1>2, <1>3

(* All values alike.                                                       *)
LEMMA TotalConstant ==
  ASSUME NEW S, IsFiniteSet(S), NEW n \in Nat
  PROVE  Total([e \in S |-> n]) = Cardinality(S) * n
<1>1. Units([e \in S |-> n]) = S \X (1 .. n)
  BY DEF Units
<1>2. IsFiniteSet(1 .. n) /\ Cardinality(1 .. n) = n
  <2>1. 1 \in Int /\ n \in Int
    OBVIOUS
  <2> QED  BY <2>1, FS_Interval
<1> QED  BY <1>1, <1>2, FS_Product DEF Total
=============================================================================
