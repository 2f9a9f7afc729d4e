------------------------------- MODULE Lemmas -------------------------------
(***************************************************************************)
(* What the other proofs need to know of the natural numbers, of recursive *)
(* functions over them or down the numbers of buses, of how often an       *)
(* element is on a list, of powers of two, of nextlg() (it is the least    *)
(* power not below its argument, monotonic, and commutes with shifts), of  *)
(* the alignment and of the bits of an address, and of lists of lists put  *)
(* one after the other.  The provers have no theory of exponents: the      *)
(* facts about 2^n are those of the subsets of 1..n.                       *)
(***************************************************************************)
EXTENDS Bitlib, SequencesExt, FiniteSetTheorems, FunctionTheorems, SequenceTheorems, TLAPS

(* The library's induction theorems take a predicate as a parameter, which *)
(* the provers cannot instantiate.  Here a set takes its place: it is all  *)
(* of Nat, or else there is a smallest number that it lacks.               *)
LEMMA LeastNatural ==
  ASSUME NEW T, T \subseteq Nat, T # {}
  PROVE  \E m \in T : \A n \in T : m <= n
<1>1. IsWellFoundedOn(OpToRel(<, Nat), Nat)  BY NatLessThanWellFounded
<1>2. PICK m \in T : \A n \in T : ~(<<n, m>> \in OpToRel(<, Nat))
  BY <1>1, WFMin
<1>3. ASSUME NEW n \in T, ~(m <= n) PROVE FALSE
  <2>1. n \in Nat /\ m \in Nat /\ n < m  BY <1>3
  <2>2. <<n, m>> \in OpToRel(<, Nat)  BY <2>1 DEF OpToRel
  <2>3. QED  BY <2>2, <1>2
<1>4. QED  BY <1>3

LEMMA NatSetInduction ==
  ASSUME NEW S, 0 \in S, \A n \in Nat : n \in S => n + 1 \in S
  PROVE  Nat \subseteq S
<1> DEFINE T == {n \in Nat : n \notin S}
<1> SUFFICES ASSUME T # {} PROVE FALSE  OBVIOUS
<1>1. PICK m \in T : \A n \in T : m <= n  BY LeastNatural
<1>2. m # 0 /\ m - 1 \in Nat  BY <1>1
<1>3. m - 1 \in S  BY <1>1, <1>2
<1>4. (m - 1) + 1 = m  BY <1>1
<1>5. QED  BY <1>1, <1>2, <1>3, <1>4
-----------------------------------------------------------------------------
(* A recursive function over 0..N exists: TLA+ chooses one, and the choice *)
(* says nothing until there is a function to choose.  The step is given as *)
(* a function of the place and of what comes before it.                    *)
Steps(N, X) == [(1..N) \X X -> X]

IsRecursion(f, N, X, base, G) ==
  /\ f \in [0..N -> X]
  /\ f[0] = base /\ \A n \in 1..N : f[n] = G[<<n, f[n - 1]>>]

LEMMA RecursionExists ==
  ASSUME NEW N \in Nat, NEW X, NEW base \in X, NEW G \in Steps(N, X)
  PROVE  \E f : IsRecursion(f, N, X, base, G)
<1> DEFINE Until(f, k) == f[0] = base /\ \A n \in 1..k : f[n] = G[<<n, f[n - 1]>>]
           S == {k \in Nat : k <= N => \E f \in [0..k -> X] : Until(f, k)}
<1>1. 0 \in S
  <2> DEFINE f == [n \in 0..0 |-> base]
  <2>1. f \in [0..0 -> X] /\ f[0] = base  OBVIOUS
  <2>2. 1..0 = {}  OBVIOUS
  <2>3. Until(f, 0)  BY <2>1, <2>2
  <2>4. QED  BY <2>1, <2>3
<1>2. ASSUME NEW k \in Nat, k \in S PROVE k + 1 \in S
  <2>1. SUFFICES ASSUME k + 1 <= N
                 PROVE  \E f \in [0..(k + 1) -> X] : Until(f, k + 1)
    OBVIOUS
  <2>2. k <= N  BY <2>1
  <2>3. PICK f \in [0..k -> X] : Until(f, k)  BY <1>2, <2>2
  <2> DEFINE v == G[<<k + 1, f[k]>>]
             g == [n \in 0..(k + 1) |-> IF n = k + 1 THEN v ELSE f[n]]
  <2>4. f[k] \in X /\ k + 1 \in 1..N  BY <2>1, <2>3
  <2>5. v \in X
    <3>1. <<k + 1, f[k]>> \in (1..N) \X X  BY <2>4
    <3>2. QED  BY <3>1 DEF Steps
  <2> HIDE DEF v
  <2>6. g \in [0..(k + 1) -> X]
    <3> SUFFICES ASSUME NEW n \in 0..(k + 1), n # k + 1 PROVE f[n] \in X
      BY <2>5
    <3>1. n \in 0..k  OBVIOUS
    <3>2. QED  BY <3>1, <2>3
  <2>7. g[0] = base  BY <2>3
  <2>8. ASSUME NEW n \in 1..(k + 1) PROVE g[n] = G[<<n, g[n - 1]>>]
    <3>1. n - 1 \in 0..k /\ n - 1 # k + 1 /\ n \in 0..(k + 1) /\ n - 1 \in 0..(k + 1)
      OBVIOUS
    <3>2. g[n - 1] = f[n - 1]  BY <3>1
    <3>3. CASE n = k + 1
      <4>1. g[n] = v /\ n - 1 = k  BY <3>1, <3>3
      <4>2. QED  BY <4>1, <3>2, <3>3 DEF v
    <3>4. CASE n # k + 1
      <4>1. n \in 1..k  BY <3>4
      <4>2. g[n] = f[n]  BY <3>1, <3>4
      <4>3. f[n] = G[<<n, f[n - 1]>>]  BY <4>1, <2>3
      <4>4. QED  BY <4>2, <4>3, <3>2
    <3>5. QED  BY <3>3, <3>4
  <2> HIDE DEF g
  <2>9. Until(g, k + 1)  BY <2>7, <2>8
  <2>10. QED  BY <2>6, <2>9
<1> HIDE DEF S
<1>3. Nat \subseteq S  BY <1>1, <1>2, NatSetInduction
<1>4. \E f \in [0..N -> X] : Until(f, N)
  <2>1. N \in S /\ N <= N  BY <1>3
  <2> HIDE DEF Until
  <2>2. QED  BY <2>1 DEF S
<1>5. QED  BY <1>4 DEF IsRecursion
-----------------------------------------------------------------------------
(* How many places of a list hold an element of K.                         *)
Hits(q, K) == {i \in DOMAIN q : q[i] \in K}
Tally(q, K) == Cardinality(Hits(q, K))

LEMMA TallyType ==
  ASSUME NEW S, NEW q \in Seq(S), NEW K
  PROVE  /\ IsFiniteSet(Hits(q, K)) /\ Tally(q, K) \in Nat
         /\ Tally(q, K) <= Len(q)
<1>1. Len(q) \in Nat /\ DOMAIN q = 1..Len(q)  BY LenProperties
<1>2. IsFiniteSet(1..Len(q)) /\ Cardinality(1..Len(q)) = Len(q)
  BY <1>1, FS_Interval
<1>3. Hits(q, K) \in SUBSET (1..Len(q))  BY <1>1 DEF Hits
<1>4. IsFiniteSet(Hits(q, K)) /\ Tally(q, K) <= Len(q)
  BY <1>2, <1>3, FS_Subset DEF Tally
<1>5. Tally(q, K) \in Nat  BY <1>4, FS_CardinalityType DEF Tally
<1>6. QED  BY <1>4, <1>5

LEMMA TallyEmpty ==
  ASSUME NEW K
  PROVE  Tally(<<>>, K) = 0
<1>1. Hits(<<>>, K) = {}  BY DEF Hits
<1>2. QED  BY <1>1, FS_EmptySet DEF Tally

(* All of the places, and none of them.                                    *)
LEMMA TallyAll ==
  ASSUME NEW S, NEW q \in Seq(S), NEW K
  PROVE  /\ (\A i \in DOMAIN q : q[i] \in K) <=> Tally(q, K) = Len(q)
         /\ (\A i \in DOMAIN q : q[i] \notin K) <=> Tally(q, K) = 0
<1>1. Len(q) \in Nat /\ DOMAIN q = 1..Len(q)  BY LenProperties
<1>2. IsFiniteSet(1..Len(q)) /\ Cardinality(1..Len(q)) = Len(q)
  BY <1>1, FS_Interval
<1>3. Hits(q, K) \in SUBSET (1..Len(q))  BY <1>1 DEF Hits
<1>4. Tally(q, K) = Len(q) => Hits(q, K) = 1..Len(q)
  BY <1>2, <1>3, FS_Subset DEF Tally
<1>5. Hits(q, K) = 1..Len(q) => Tally(q, K) = Len(q)  BY <1>2 DEF Tally
<1>6. Tally(q, K) = 0 <=> Hits(q, K) = {}
  BY TallyType, FS_EmptySet DEF Tally
<1>7. QED  BY <1>1, <1>4, <1>5, <1>6 DEF Hits

LEMMA AppendTally ==
  ASSUME NEW S, NEW q \in Seq(S), NEW x \in S, NEW K
  PROVE  Tally(Append(q, x), K) = Tally(q, K) + (IF x \in K THEN 1 ELSE 0)
<1> DEFINE r == Append(q, x)
           n == Len(q) + 1
<1>1. Len(q) \in Nat /\ DOMAIN q = 1..Len(q)  BY LenProperties
<1>2. /\ r \in Seq(S) /\ Len(r) = n /\ r[n] = x
      /\ \A i \in 1..Len(q) : r[i] = q[i]
  BY <1>1
<1>3. DOMAIN r = 1..n /\ 1..n = (1..Len(q)) \cup {n} /\ n \notin 1..Len(q)
  BY <1>1, <1>2, LenProperties
<1>4. IsFiniteSet(Hits(q, K)) /\ Tally(q, K) \in Nat  BY TallyType
<1>5. n \notin Hits(q, K)  BY <1>1, <1>3 DEF Hits
<1>6. CASE x \in K
  <2>1. Hits(r, K) = Hits(q, K) \cup {n}
    <3> HIDE DEF r, n
    <3>1. QED  BY <1>1, <1>2, <1>3, <1>6 DEF Hits
  <2>2. Cardinality(Hits(q, K) \cup {n}) = Cardinality(Hits(q, K)) + 1
    BY <1>4, <1>5, FS_AddElement
  <2>3. QED  BY <2>1, <2>2, <1>6 DEF Tally
<1>7. CASE x \notin K
  <2>1. Hits(r, K) = Hits(q, K)
    <3> HIDE DEF r, n
    <3>1. QED  BY <1>1, <1>2, <1>3, <1>7 DEF Hits
  <2>2. QED  BY <2>1, <1>4, <1>7 DEF Tally
<1>8. QED  BY <1>6, <1>7

(* What erase() leaves: the places after the one erased move up.           *)
LEMMA Erased ==
  ASSUME NEW S, NEW q \in Seq(S), NEW i \in 1..Len(q)
  PROVE  /\ RemoveAt(q, i) \in Seq(S)
         /\ Len(RemoveAt(q, i)) = Len(q) - 1
         /\ \A j \in 1..(Len(q) - 1) :
              RemoveAt(q, i)[j] = q[IF j < i THEN j ELSE j + 1]
<1> DEFINE a == SubSeq(q, 1, i - 1)
           b == SubSeq(q, i + 1, Len(q))
<1>1. Len(q) \in Nat /\ i \in Nat /\ i >= 1 /\ i <= Len(q)  BY LenProperties
<1>2. \A k \in 1..Len(q) : q[k] \in S  BY ElementOfSeq
<1>3. /\ a \in Seq(S) /\ Len(a) = i - 1
      /\ \A j \in 1..(i - 1) : a[j] = q[j]
  <2>1. \A k \in 1..(i - 1) : q[k] \in S  BY <1>1, <1>2
  <2>2. 1 \in Int /\ i - 1 \in Int  BY <1>1
  <2>3. /\ a \in Seq(S) /\ Len(a) = IF 1 <= i - 1 THEN i - 1 - 1 + 1 ELSE 0
        /\ \A j \in 1..(i - 1 - 1 + 1) : a[j] = q[1 + j - 1]
    BY <2>1, <2>2, SubSeqProperties
  <2> HIDE DEF a
  <2>4. Len(a) = i - 1  BY <2>3, <1>1
  <2>5. ASSUME NEW j \in 1..(i - 1) PROVE a[j] = q[j]
    <3>1. j \in 1..(i - 1 - 1 + 1) /\ 1 + j - 1 = j  BY <1>1
    <3>2. QED  BY <3>1, <2>3
  <2>6. QED  BY <2>3, <2>4, <2>5
<1>4. /\ b \in Seq(S) /\ Len(b) = Len(q) - i
      /\ \A j \in 1..(Len(q) - i) : b[j] = q[i + j]
  <2>1. \A k \in (i + 1)..Len(q) : q[k] \in S  BY <1>1, <1>2
  <2>2. i + 1 \in Int /\ Len(q) \in Int  BY <1>1
  <2>3. /\ b \in Seq(S)
        /\ Len(b) = IF i + 1 <= Len(q) THEN Len(q) - (i + 1) + 1 ELSE 0
        /\ \A j \in 1..(Len(q) - (i + 1) + 1) : b[j] = q[(i + 1) + j - 1]
    BY <2>1, <2>2, SubSeqProperties
  <2> HIDE DEF b
  <2>4. Len(b) = Len(q) - i  BY <2>3, <1>1
  <2>5. ASSUME NEW j \in 1..(Len(q) - i) PROVE b[j] = q[i + j]
    <3>1. j \in 1..(Len(q) - (i + 1) + 1) /\ (i + 1) + j - 1 = i + j  BY <1>1
    <3>2. QED  BY <3>1, <2>3
  <2>6. QED  BY <2>3, <2>4, <2>5
<1>5. RemoveAt(q, i) = a \o b  BY DEF RemoveAt
<1> HIDE DEF a, b
<1>6. /\ a \o b \in Seq(S) /\ Len(a \o b) = Len(a) + Len(b)
      /\ \A j \in 1..(Len(a) + Len(b)) :
           (a \o b)[j] = IF j <= Len(a) THEN a[j] ELSE b[j - Len(a)]
  BY <1>3, <1>4, ConcatProperties
<1>7. Len(a) + Len(b) = Len(q) - 1  BY <1>1, <1>3, <1>4
<1>8. ASSUME NEW j \in 1..(Len(q) - 1)
      PROVE  (a \o b)[j] = q[IF j < i THEN j ELSE j + 1]
  <2>1. (a \o b)[j] = IF j <= Len(a) THEN a[j] ELSE b[j - Len(a)]
    BY <1>6, <1>7
  <2>2. CASE j < i
    <3>1. j \in 1..(i - 1) /\ j <= Len(a)  BY <1>1, <1>3, <2>2
    <3>2. QED  BY <3>1, <2>1, <2>2, <1>3
  <2>3. CASE ~(j < i)
    <3>1. /\ ~(j <= Len(a)) /\ j - Len(a) = j - i + 1
          /\ j - i + 1 \in 1..(Len(q) - i) /\ i + (j - i + 1) = j + 1
      BY <1>1, <1>3, <2>3
    <3>2. b[j - i + 1] = q[i + (j - i + 1)]  BY <3>1, <1>4
    <3>3. QED  BY <3>1, <3>2, <2>1, <2>3
  <2>4. QED  BY <2>2, <2>3
<1>9. QED  BY <1>5, <1>6, <1>7, <1>8

LEMMA ErasedTally ==
  ASSUME NEW S, NEW q \in Seq(S), NEW i \in 1..Len(q), NEW K
  PROVE  Tally(RemoveAt(q, i), K) + (IF q[i] \in K THEN 1 ELSE 0) = Tally(q, K)
<1> DEFINE r == RemoveAt(q, i)
           up(j) == IF j < i THEN j ELSE j + 1
           A == Hits(r, K)
           B == Hits(q, K) \ {i}
           f == [j \in A |-> up(j)]
<1>1. Len(q) \in Nat /\ DOMAIN q = 1..Len(q) /\ i \in Nat /\ i >= 1 /\ i <= Len(q)
  BY LenProperties
<1>2. /\ r \in Seq(S) /\ Len(r) = Len(q) - 1
      /\ \A j \in 1..(Len(q) - 1) : r[j] = q[up(j)]
  BY Erased
<1>3. DOMAIN r = 1..(Len(q) - 1)  BY <1>2, LenProperties
<1>4. IsFiniteSet(Hits(q, K)) /\ Tally(q, K) \in Nat  BY TallyType
<1>5. IsFiniteSet(A) /\ Tally(r, K) \in Nat
  <2> HIDE DEF r
  <2>1. QED  BY <1>2, TallyType
<1>0. r = RemoveAt(q, i)  OBVIOUS
<1> HIDE DEF r
<1>6. \A j \in A : j \in 1..(Len(q) - 1) /\ q[up(j)] \in K
  BY <1>2, <1>3 DEF Hits
<1>7. \A j \in 1..(Len(q) - 1) : q[up(j)] \in K => j \in A
  BY <1>2, <1>3 DEF Hits
<1>8. \A k : k \in B <=> (k \in 1..Len(q) /\ k # i /\ q[k] \in K)
  BY <1>1 DEF Hits
<1>9. f \in Bijection(A, B)
  <2>1. ASSUME NEW j \in A PROVE up(j) \in B
    <3>1. j \in 1..(Len(q) - 1) /\ q[up(j)] \in K  BY <1>6
    <3>2. up(j) \in 1..Len(q) /\ up(j) # i  BY <1>1, <3>1
    <3>3. QED  BY <3>1, <3>2, <1>8
  <2>2. ASSUME NEW j \in A, NEW k \in A, up(j) = up(k) PROVE j = k
    <3>1. j \in Nat /\ k \in Nat  BY <1>6
    <3>2. QED  BY <3>1, <2>2, <1>1
  <2>3. ASSUME NEW k \in B PROVE \E j \in A : up(j) = k
    <3>1. k \in 1..Len(q) /\ k # i /\ q[k] \in K  BY <1>8
    <3>2. CASE k < i
      <4>1. k \in 1..(Len(q) - 1) /\ up(k) = k  BY <1>1, <3>1, <3>2
      <4>2. k \in A  BY <4>1, <3>1, <1>7
      <4>3. QED  BY <4>1, <4>2
    <3>3. CASE k > i
      <4>1. k - 1 \in 1..(Len(q) - 1) /\ up(k - 1) = k  BY <1>1, <3>1, <3>3
      <4>2. k - 1 \in A  BY <4>1, <3>1, <1>7
      <4>3. QED  BY <4>1, <4>2
    <3>4. QED  BY <1>1, <3>1, <3>2, <3>3
  <2> HIDE DEF A, B, up
  <2>4. f \in [A -> B]  BY <2>1
  <2>5. \A j, k \in A : f[j] = f[k] => j = k  BY <2>2
  <2>6. \A k \in B : \E j \in A : f[j] = k  BY <2>3
  <2> HIDE DEF f
  <2>7. QED  BY <2>4, <2>5, <2>6, Fun_IsBij
<1>10. Cardinality(B) = Cardinality(A)
  <2>1. ExistsBijection(A, B)  BY <1>9 DEF ExistsBijection
  <2> HIDE DEF A, B
  <2>2. QED  BY <1>5, <2>1, FS_Bijection
<1>11. Cardinality(B) = IF i \in Hits(q, K) THEN Tally(q, K) - 1 ELSE Tally(q, K)
  BY <1>4, FS_RemoveElement DEF Tally
<1>12. i \in Hits(q, K) <=> q[i] \in K  BY <1>1 DEF Hits
<1>13. Cardinality(A) = Tally(r, K)  BY DEF Tally
<1> HIDE DEF A, B
<1>14. Tally(r, K) + (IF q[i] \in K THEN 1 ELSE 0) = Tally(q, K)
  <2>1. PICK t \in Nat : t = Tally(q, K)  BY <1>4
  <2>2. PICK u \in Nat : u = Tally(r, K)  BY <1>5
  <2>3. u = IF q[i] \in K THEN t - 1 ELSE t
    BY <2>1, <2>2, <1>10, <1>11, <1>12, <1>13
  <2>4. u + (IF q[i] \in K THEN 1 ELSE 0) = t  BY <2>3
  <2>5. QED  BY <2>1, <2>2, <2>4
<1>15. QED  BY <1>0, <1>14

LEMMA TallyUnion ==
  ASSUME NEW S, NEW q \in Seq(S), NEW K, NEW L, K \cap L = {}
  PROVE  Tally(q, K \cup L) = Tally(q, K) + Tally(q, L)
<1>1. Hits(q, K \cup L) = Hits(q, K) \cup Hits(q, L)  BY DEF Hits
<1>2. Hits(q, K) \cap Hits(q, L) = {}  BY DEF Hits
<1>3. /\ IsFiniteSet(Hits(q, K)) /\ IsFiniteSet(Hits(q, L))
      /\ Tally(q, K) \in Nat /\ Tally(q, L) \in Nat
  BY TallyType
<1>4. Cardinality(Hits(q, K) \cap Hits(q, L)) = 0  BY <1>2, FS_EmptySet
<1>5. Cardinality(Hits(q, K) \cup Hits(q, L)) = Tally(q, K) + Tally(q, L) - 0
  BY <1>3, <1>4, FS_Union DEF Tally
<1>6. Cardinality(Hits(q, K) \cup Hits(q, L)) = Tally(q, K \cup L)
  BY <1>1 DEF Tally
<1>7. PICK t \in Nat : t = Tally(q, K)  BY <1>3
<1>8. PICK u \in Nat : u = Tally(q, L)  BY <1>3
<1>9. t + u - 0 = t + u  OBVIOUS
<1>10. QED  BY <1>5, <1>6, <1>7, <1>8, <1>9

(* An element that goes from one list to another is still counted once.    *)
LEMMA MovedTally ==
  ASSUME NEW S, NEW p \in Seq(S), NEW q \in Seq(S), NEW i \in 1..Len(p), NEW K
  PROVE  Tally(RemoveAt(p, i), K) + Tally(Append(q, p[i]), K) = Tally(p, K) + Tally(q, K)
<1>1. p[i] \in S  BY ElementOfSeq
<1>2. PICK a \in Nat : a = Tally(p, K)  BY TallyType
<1>3. PICK b \in Nat : b = Tally(q, K)  BY TallyType
<1>4. PICK r \in Nat : r = Tally(RemoveAt(p, i), K)  BY Erased, TallyType
<1>5. r + (IF p[i] \in K THEN 1 ELSE 0) = a  BY <1>2, <1>4, ErasedTally
<1>6. Tally(Append(q, p[i]), K) = b + (IF p[i] \in K THEN 1 ELSE 0)
  BY <1>1, <1>3, AppendTally
<1>7. r + (b + (IF p[i] \in K THEN 1 ELSE 0)) = a + b  BY <1>5
<1>8. QED  BY <1>2, <1>3, <1>4, <1>6, <1>7

LEMMA Appended ==
  ASSUME NEW S, NEW q \in Seq(S), NEW x \in S
  PROVE  /\ Append(q, x) \in Seq(S) /\ Len(Append(q, x)) = Len(q) + 1
         /\ DOMAIN Append(q, x) = 1..(Len(q) + 1)
         /\ \A i \in 1..Len(q) : Append(q, x)[i] = q[i]
         /\ Append(q, x)[Len(q) + 1] = x
<1>1. /\ Append(q, x) \in Seq(S) /\ Len(Append(q, x)) = Len(q) + 1
      /\ \A i \in 1..Len(q) : Append(q, x)[i] = q[i]
      /\ Append(q, x)[Len(q) + 1] = x
  OBVIOUS
<1>2. DOMAIN Append(q, x) = 1..(Len(q) + 1)  BY <1>1, LenProperties
<1>3. QED  BY <1>1, <1>2
-----------------------------------------------------------------------------
(* The elements of a list, after it has been added to or erased from.      *)
LEMMA ToSetType ==
  ASSUME NEW S, NEW q \in Seq(S)
  PROVE  ToSet(q) \subseteq S /\ q \in Seq(ToSet(q)) /\ \A i \in 1..Len(q) : q[i] \in ToSet(q)
<1>1. Len(q) \in Nat /\ DOMAIN q = 1..Len(q) /\ \A i \in 1..Len(q) : q[i] \in S
  BY LenProperties, ElementOfSeq
<1>2. \A i \in 1..Len(q) : q[i] \in ToSet(q)  BY <1>1 DEF ToSet
<1>3. q \in Seq(ToSet(q))
  <2>1. q = [i \in 1..Len(q) |-> q[i]]  BY LenProperties
  <2>2. q \in [1..Len(q) -> ToSet(q)]  BY <1>2, <2>1
  <2>3. QED  BY <2>2, <1>1, SeqDef
<1>4. QED  BY <1>1, <1>2, <1>3 DEF ToSet

LEMMA AppendSet ==
  ASSUME NEW S, NEW q \in Seq(S), NEW x \in S
  PROVE  ToSet(Append(q, x)) = ToSet(q) \cup {x}
<1>1. Len(q) \in Nat /\ DOMAIN q = 1..Len(q)  BY LenProperties
<1>2. /\ DOMAIN Append(q, x) = 1..(Len(q) + 1)
      /\ \A i \in 1..Len(q) : Append(q, x)[i] = q[i]
      /\ Append(q, x)[Len(q) + 1] = x
  BY Appended
<1>3. 1..(Len(q) + 1) = (1..Len(q)) \cup {Len(q) + 1}  BY <1>1
<1> DEFINE r == Append(q, x)
<1> HIDE DEF r
<1>4. r = Append(q, x)  BY DEF r
<1>5. ToSet(r) = ToSet(q) \cup {x}
  <2>1. \A i \in DOMAIN r : r[i] \in ToSet(q) \cup {x}
    BY <1>1, <1>2, <1>3, <1>4 DEF ToSet
  <2>2. \A y \in ToSet(q) : \E i \in DOMAIN r : r[i] = y
    BY <1>1, <1>2, <1>3, <1>4 DEF ToSet
  <2>3. \E i \in DOMAIN r : r[i] = x  BY <1>2, <1>3, <1>4
  <2>4. QED  BY <2>1, <2>2, <2>3 DEF ToSet
<1>6. QED  BY <1>4, <1>5

(* An element that is on a list once is not on what erasing it leaves.     *)
LEMMA ErasedSet ==
  ASSUME NEW S, NEW q \in Seq(S), NEW i \in 1..Len(q),
         \A j, k \in 1..Len(q) : q[j] = q[k] => j = k
  PROVE  /\ ToSet(RemoveAt(q, i)) = ToSet(q) \ {q[i]}
         /\ \A j, k \in 1..Len(RemoveAt(q, i)) :
              RemoveAt(q, i)[j] = RemoveAt(q, i)[k] => j = k
<1>1. Len(q) \in Nat /\ DOMAIN q = 1..Len(q)  BY LenProperties
<1> DEFINE r == RemoveAt(q, i)
           up(j) == IF j < i THEN j ELSE j + 1
<1>2. /\ r \in Seq(S) /\ Len(r) = Len(q) - 1
      /\ \A j \in 1..(Len(q) - 1) : r[j] = q[up(j)]
  BY Erased
<1>3. DOMAIN r = 1..(Len(q) - 1)  BY <1>2, LenProperties
<1>4. \A j \in 1..(Len(q) - 1) : up(j) \in 1..Len(q) /\ up(j) # i  BY <1>1
<1>5. \A j, k \in 1..(Len(q) - 1) : up(j) = up(k) => j = k  BY <1>1
<1>6. \A k \in 1..Len(q) : k # i => \E j \in 1..(Len(q) - 1) : up(j) = k
  <2> SUFFICES ASSUME NEW k \in 1..Len(q), k # i
               PROVE  \E j \in 1..(Len(q) - 1) : up(j) = k
    OBVIOUS
  <2>1. CASE k < i  BY <2>1, <1>1
  <2>2. CASE k > i
    <3>1. k - 1 \in 1..(Len(q) - 1) /\ up(k - 1) = k  BY <2>2, <1>1
    <3>2. QED  BY <3>1
  <2>3. QED  BY <2>1, <2>2, <1>1
<1>7. r = RemoveAt(q, i)  OBVIOUS
<1> HIDE DEF r, up
<1>8. \A j, k \in 1..Len(r) : r[j] = r[k] => j = k
  BY <1>2, <1>4, <1>5
<1>9. ToSet(r) = ToSet(q) \ {q[i]}
  <2>1. \A j \in DOMAIN r : r[j] \in ToSet(q) \ {q[i]}
    BY <1>1, <1>2, <1>3, <1>4 DEF ToSet
  <2>2. \A y \in ToSet(q) \ {q[i]} : \E j \in DOMAIN r : r[j] = y
    <3> SUFFICES ASSUME NEW y \in ToSet(q) \ {q[i]} PROVE \E j \in DOMAIN r : r[j] = y
      OBVIOUS
    <3>1. PICK k \in 1..Len(q) : q[k] = y  BY <1>1 DEF ToSet
    <3>2. k # i  BY <3>1
    <3>3. PICK j \in 1..(Len(q) - 1) : up(j) = k  BY <3>2, <1>6
    <3>4. QED  BY <3>1, <3>3, <1>2, <1>3
  <2>3. QED  BY <2>1, <2>2 DEF ToSet
<1>10. QED  BY <1>7, <1>8, <1>9
-----------------------------------------------------------------------------
(* 2^n counts the subsets of 1..n.                                         *)
LEMMA PowerCountsSubsets ==
  ASSUME NEW n \in Nat
  PROVE  /\ IsFiniteSet(SUBSET (1..n))
         /\ Cardinality(SUBSET (1..n)) = 2^n
<1>1. IsFiniteSet(1..n) /\ Cardinality(1..n) = n
  BY FS_Interval
<1>2. QED  BY <1>1, FS_SUBSET

(* A power of two is a positive number: no region is empty.                *)
LEMMA PowerPositive ==
  ASSUME NEW n \in Nat
  PROVE  2^n \in Nat /\ 2^n > 0
<1>1. IsFiniteSet(SUBSET (1..n)) /\ Cardinality(SUBSET (1..n)) = 2^n
  BY PowerCountsSubsets
<1>2. Cardinality(SUBSET (1..n)) \in Nat
  BY <1>1, FS_CardinalityType
<1>3. Cardinality(SUBSET (1..n)) # 0
  <2>1. {} \in SUBSET (1..n)  OBVIOUS
  <2>2. QED  BY <2>1, <1>1, FS_EmptySet
<1>4. QED  BY <1>1, <1>2, <1>3

(* More address bits never give a smaller region.                          *)
LEMMA PowerMonotonic ==
  ASSUME NEW m \in Nat, NEW n \in Nat, m <= n
  PROVE  2^m <= 2^n
<1>1. SUBSET (1..m) \in SUBSET (SUBSET (1..n))  BY SMT
<1>2. /\ IsFiniteSet(SUBSET (1..n))
      /\ Cardinality(SUBSET (1..n)) = 2^n
      /\ Cardinality(SUBSET (1..m)) = 2^m
  BY PowerCountsSubsets
<1>3. Cardinality(SUBSET (1..m)) <= Cardinality(SUBSET (1..n))
  BY <1>1, <1>2, FS_Subset, Zenon
<1>4. QED  BY <1>2, <1>3

(* The number of address lines of a slave is a natural number.             *)
LEMMA NextLgType ==
  ASSUME NEW vl
  PROVE  NextLg(vl) \in 0..(MaxLg + 1)
<1> DEFINE smaller == {r \in 0..MaxLg : 2^r < vl}
<1>1. IsFiniteSet(0..MaxLg) /\ Cardinality(0..MaxLg) = MaxLg + 1
  <2>1. MaxLg \in Int /\ MaxLg >= 0  BY DEF MaxLg
  <2>2. QED  BY <2>1, FS_Interval
<1>2. smaller \in SUBSET (0..MaxLg)  OBVIOUS
<1>3. IsFiniteSet(smaller) /\ Cardinality(smaller) <= MaxLg + 1
  BY <1>1, <1>2, FS_Subset
<1>4. Cardinality(smaller) \in Nat  BY <1>3, FS_CardinalityType
<1>5. QED  BY <1>3, <1>4 DEF NextLg, MaxLg

(* ... whatever the number of addresses, and no larger than MaxLg + 1.     *)
LEMMA NextLgNat ==
  ASSUME NEW vl
  PROVE  NextLg(vl) \in Nat
BY NextLgType, SMT DEF MaxLg

(* (x + size - 1) & -size: the first multiple of size that is not below x. *)
LEMMA AlignUpProperties ==
  ASSUME NEW x \in Nat, NEW size \in Nat, size > 0
  PROVE  /\ AlignUp(x, size) \in Nat
         /\ x <= AlignUp(x, size)
         /\ AlignUp(x, size) < x + size
         /\ AlignUp(x, size) % size = 0
<1> DEFINE q == (x + (size - 1)) \div size
           r == (x + (size - 1)) % size
<1>1. /\ q \in Nat /\ r \in Nat /\ r < size
      /\ x + (size - 1) = size * q + r
  BY Z3
<1>2. AlignUp(x, size) = size * q  BY <1>1 DEF AlignUp
<1>3. (size * q) % size = 0  BY <1>1, Z3
<1>4. size * q \in Nat  BY <1>1
<1>5. QED  BY <1>1, <1>2, <1>3, <1>4
-----------------------------------------------------------------------------
(* One more bit, twice as many: a subset of 1..(n+1) is one of 1..n, with  *)
(* or without n+1.                                                         *)
LEMMA PowerZero == 2^0 = 1
<1>1. 1..0 = {} /\ SUBSET {} = {{}}  OBVIOUS
<1>2. Cardinality(SUBSET (1..0)) = 1  BY <1>1, FS_Singleton
<1>3. QED  BY <1>2, PowerCountsSubsets

LEMMA PowerSucc ==
  ASSUME NEW n \in Nat
  PROVE  2^(n + 1) = 2 * 2^n
<1> DEFINE A == SUBSET (1..n)
           f == [s \in A |-> s \cup {n + 1}]
           B == {s \cup {n + 1} : s \in A}
<1>1. IsFiniteSet(A) /\ Cardinality(A) = 2^n /\ 2^n \in Nat
  BY PowerCountsSubsets, PowerPositive
<1>2. SUBSET (1..(n + 1)) = A \cup B
  <2>1. 1..(n + 1) = (1..n) \cup {n + 1}  OBVIOUS
  <2>2. ASSUME NEW t \in SUBSET (1..(n + 1)), t \notin A PROVE t \in B
    <3>1. n + 1 \in t /\ t \ {n + 1} \in A  BY <2>1, <2>2
    <3>2. t = (t \ {n + 1}) \cup {n + 1}  BY <3>1
    <3>3. QED  BY <3>1, <3>2
  <2>3. A \subseteq SUBSET (1..(n + 1)) /\ B \subseteq SUBSET (1..(n + 1))
    BY <2>1
  <2>4. QED  BY <2>2, <2>3
<1>3. A \cap B = {}
  <2>1. n + 1 \notin 1..n  OBVIOUS
  <2>2. QED  BY <2>1
<1>4. f \in Bijection(A, B)
  <2>1. n + 1 \notin 1..n  OBVIOUS
  <2>2. ASSUME NEW s \in A, NEW t \in A, f[s] = f[t] PROVE s = t
    <3>1. n + 1 \notin s /\ n + 1 \notin t  BY <2>1
    <3>2. s \cup {n + 1} = t \cup {n + 1}  BY <2>2
    <3>3. s = (s \cup {n + 1}) \ {n + 1} /\ t = (t \cup {n + 1}) \ {n + 1}
      BY <3>1
    <3>4. QED  BY <3>2, <3>3
  <2>3. f \in [A -> B] /\ \A t \in B : \E s \in A : f[s] = t  OBVIOUS
  <2> HIDE DEF A, B, f
  <2>4. QED  BY <2>2, <2>3, Fun_IsBij
<1>5. IsFiniteSet(B) /\ Cardinality(B) = 2^n
  <2>1. ExistsBijection(A, B)  BY <1>4 DEF ExistsBijection
  <2> HIDE DEF A, B
  <2>2. QED  BY <1>1, <2>1, FS_Bijection
<1>6. Cardinality(A \cup B) = 2^n + 2^n - 0
  <2> HIDE DEF A, B
  <2>1. Cardinality(A \cap B) = 0  BY <1>3, FS_EmptySet
  <2>2. QED  BY <1>1, <1>5, <2>1, FS_Union
<1>7. Cardinality(SUBSET (1..(n + 1))) = 2^(n + 1)
  <2>1. n + 1 \in Nat  OBVIOUS
  <2>2. QED  BY <2>1, PowerCountsSubsets
<1> HIDE DEF A, B, f
<1>8. Cardinality(A \cup B) = 2^(n + 1)  BY <1>2, <1>7
<1>9. QED  BY <1>1, <1>6, <1>8

LEMMA PowerSum ==
  ASSUME NEW m \in Nat, NEW n \in Nat
  PROVE  2^(m + n) = 2^m * 2^n
<1> DEFINE S == {k \in Nat : 2^(m + k) = 2^m * 2^k}
<1>1. 2^m \in Nat  BY PowerPositive
<1>2. 0 \in S
  <2>1. m + 0 = m /\ 2^m * 1 = 2^m  BY <1>1
  <2>2. QED  BY <2>1, PowerZero
<1>3. ASSUME NEW k \in Nat, k \in S PROVE k + 1 \in S
  <2>1. /\ 2^(m + k + 1) = 2 * 2^(m + k) /\ 2^(k + 1) = 2 * 2^k
        /\ 2^k \in Nat
    BY PowerSucc, PowerPositive
  <2>2. 2^(m + k) = 2^m * 2^k  BY <1>3
  <2>3. \A x, y \in Nat : 2 * (x * y) = x * (2 * y)  OBVIOUS
  <2>4. m + (k + 1) = m + k + 1  OBVIOUS
  <2>5. 2^(m + (k + 1)) = 2^m * 2^(k + 1)  BY <1>1, <2>1, <2>2, <2>3, <2>4
  <2>6. QED  BY <2>5
<1> HIDE DEF S
<1>4. Nat \subseteq S  BY <1>2, <1>3, NatSetInduction
<1>5. QED  BY <1>4 DEF S

(* nextlg(): as many bits as the number needs, as long as it has no more   *)
(* than MaxLg + 1 of them.                                                 *)
LEMMA NextLgReaches ==
  ASSUME NEW x \in Nat, x <= 2^(MaxLg + 1)
  PROVE  x <= 2^NextLg(x)
<1> DEFINE smaller == {r \in 0..MaxLg : 2^r < x}
           c == Cardinality(smaller)
<1>1. c = NextLg(x) /\ c \in 0..(MaxLg + 1)  BY NextLgType DEF NextLg
<1>2. c \in Nat /\ MaxLg \in Nat  BY <1>1 DEF MaxLg
<1>3. SUFFICES ASSUME ~(x <= 2^c) PROVE FALSE  BY <1>1
<1>4. 2^c \in Nat /\ 2^c < x  BY <1>2, <1>3, PowerPositive
<1>5. c <= MaxLg  BY <1>1, <1>2, <1>4
<1>6. 0..c \in SUBSET smaller
  <2> SUFFICES ASSUME NEW r \in 0..c PROVE r \in 0..MaxLg /\ 2^r < x
    OBVIOUS
  <2>1. r \in Nat /\ r <= c  BY <1>2
  <2>2. 2^r \in Nat /\ 2^r <= 2^c  BY <1>2, <2>1, PowerMonotonic, PowerPositive
  <2>3. QED  BY <1>2, <1>4, <1>5, <2>1, <2>2
<1>7. IsFiniteSet(smaller)
  <2>1. IsFiniteSet(0..MaxLg)  BY <1>2, FS_Interval
  <2>2. smaller \in SUBSET (0..MaxLg)  OBVIOUS
  <2>3. QED  BY <2>1, <2>2, FS_Subset
<1>8. Cardinality(0..c) = c + 1  BY <1>2, FS_Interval
<1>9. Cardinality(0..c) <= c
  <2> HIDE DEF smaller
  <2>1. Cardinality(0..c) <= Cardinality(smaller)  BY <1>6, <1>7, FS_Subset
  <2>2. QED  BY <2>1
<1>10. QED  BY <1>2, <1>8, <1>9

LEMMA NextLgAtLeast ==
  ASSUME NEW x \in Nat, NEW n \in 0..(MaxLg + 1), 2^n <= x
  PROVE  n <= NextLg(x)
<1> DEFINE smaller == {r \in 0..MaxLg : 2^r < x}
<1>1. n \in Nat /\ MaxLg \in Nat  BY DEF MaxLg
<1>2. 0..(n - 1) \in SUBSET smaller
  <2> SUFFICES ASSUME NEW r \in 0..(n - 1) PROVE r \in 0..MaxLg /\ 2^r < x
    OBVIOUS
  <2>1. r \in Nat /\ r + 1 <= n /\ r <= MaxLg  BY <1>1
  <2>2. 2^(r + 1) = 2 * 2^r /\ 2^(r + 1) <= 2^n
    BY <1>1, <2>1, PowerSucc, PowerMonotonic
  <2>3. 2^r \in Nat /\ 2^r > 0 /\ 2^n \in Nat  BY <1>1, <2>1, PowerPositive
  <2>4. QED  BY <2>1, <2>2, <2>3
<1>3. IsFiniteSet(smaller)
  <2>1. IsFiniteSet(0..MaxLg)  BY <1>1, FS_Interval
  <2>2. smaller \in SUBSET (0..MaxLg)  OBVIOUS
  <2>3. QED  BY <2>1, <2>2, FS_Subset
<1>4. Cardinality(0..(n - 1)) = n
  <2>1. 0 \in Int /\ n - 1 \in Int  BY <1>1
  <2>2. Cardinality(0..(n - 1)) = IF 0 > n - 1 THEN 0 ELSE (n - 1) - 0 + 1
    BY <2>1, FS_Interval
  <2>3. QED  BY <1>1, <2>2
<1>5. Cardinality(0..(n - 1)) <= Cardinality(smaller)
  <2> HIDE DEF smaller
  <2>1. QED  BY <1>2, <1>3, FS_Subset
<1>6. QED  BY <1>4, <1>5 DEF NextLg
-----------------------------------------------------------------------------
(* Multiplying by a positive number keeps an order.                        *)
LEMMA TimesKeepsOrder ==
  ASSUME NEW a \in Int, NEW b \in Int, NEW c \in Nat, c > 0
  PROVE  (a <= b <=> a * c <= b * c) /\ (a < b <=> a * c < b * c)
<1>1. ASSUME NEW x \in Int, NEW y \in Int, x < y PROVE x * c < y * c
  <2>1. y - x >= 1 /\ (y - x) * c >= c  BY <1>1, Z3
  <2>2. (y - x) * c = y * c - x * c  BY Z3
  <2>3. QED  BY <2>1, <2>2
<1>2. a < b => a * c < b * c  BY <1>1
<1>3. b < a => b * c < a * c  BY <1>1
<1>4. a = b => a * c = b * c  OBVIOUS
<1>5. QED  BY <1>2, <1>3, <1>4

(* The quotient is the only one that leaves a remainder below the divisor. *)
LEMMA QuotientUnique ==
  ASSUME NEW x \in Nat, NEW p \in Nat, p > 0, NEW k \in Int
  PROVE  x \div p = k <=> (k * p <= x /\ x < k * p + p)
<1> DEFINE q == x \div p
           r == x % p
<1>1. q \in Nat /\ r \in Nat /\ r < p /\ x = q * p + r  BY Z3
<1> HIDE DEF q, r
<1>2. q = k => k * p <= x /\ x < k * p + p  BY <1>1
<1>3. ASSUME k * p <= x, x < k * p + p PROVE q = k
  <2>1. CASE q < k
    <3>1. q + 1 <= k /\ (q + 1) * p <= k * p  BY <1>1, <2>1, TimesKeepsOrder
    <3>2. (q + 1) * p = q * p + p  BY <1>1, Z3
    <3>3. q * p \in Int /\ k * p \in Int  BY <1>1
    <3>4. QED  BY <1>1, <1>3, <3>1, <3>2, <3>3
  <2>2. CASE k < q
    <3>1. k + 1 <= q /\ (k + 1) * p <= q * p  BY <1>1, <2>2, TimesKeepsOrder
    <3>2. (k + 1) * p = k * p + p  BY Z3
    <3>3. q * p \in Int /\ k * p \in Int  BY <1>1
    <3>4. QED  BY <1>1, <1>3, <3>1, <3>2, <3>3
  <2>3. QED  BY <1>1, <2>1, <2>2
<1>4. QED  BY <1>2, <1>3 DEF q

(* A decoder that compares bits n-d..t-1 of a bus address (whose words     *)
(* have 2^d octets) with those of a base that is a multiple of 2^n selects *)
(* the 2^n octets from the base up.                                        *)
LEMMA DecoderSelects ==
  ASSUME NEW base \in Nat, NEW n \in Nat, NEW d \in Nat, d <= n, NEW t \in Nat,
         base % 2^n = 0, base + 2^n <= 2^(t + d),
         NEW addr \in 0..(2^t - 1)
  PROVE  (addr % 2^t) \div 2^(n - d) = ((base \div 2^d) % 2^t) \div 2^(n - d)
           <=> (base <= addr * 2^d /\ addr * 2^d < base + 2^n)
<1>1. /\ 2^d \in Nat /\ 2^d > 0 /\ 2^(n - d) \in Nat /\ 2^(n - d) > 0
      /\ 2^t \in Nat /\ 2^t > 0 /\ n - d \in Nat
  BY PowerPositive
<1>2. 2^n = 2^(n - d) * 2^d /\ 2^(t + d) = 2^t * 2^d
  <2>1. (n - d) + d = n  OBVIOUS
  <2>2. QED  BY <1>1, <2>1, PowerSum
<1> DEFINE D == 2^d
           P == 2^(n - d)
           T == 2^t
           k == base \div (P * D)
<1>3. P * D \in Nat /\ P * D > 0
  <2>1. \A x, y \in Nat : x > 0 /\ y > 0 => x * y \in Nat /\ x * y > 0
    <3>1. \A x, y \in Nat : x > 0 /\ y > 0 => x * y >= y
      BY TimesKeepsOrder, Z3
    <3>2. QED  BY <3>1
  <2>2. QED  BY <1>1, <2>1
<1>4. k \in Nat /\ base = k * (P * D)
  <2>1. base % (P * D) = 0  BY <1>2
  <2>2. \A x, y \in Nat : y > 0 /\ x % y = 0 => x \div y \in Nat /\ x = (x \div y) * y
    BY Z3
  <2>3. QED  BY <1>3, <2>1, <2>2
<1> HIDE DEF D, P, T, k
<1>5. /\ D \in Nat /\ D > 0 /\ P \in Nat /\ P > 0 /\ T \in Nat /\ T > 0
      /\ base + P * D <= T * D /\ addr \in Nat /\ addr < T
  BY <1>1, <1>2 DEF D, P, T
<1>6. base = (k * P) * D /\ k * P \in Nat
  <2>1. k * (P * D) = (k * P) * D  BY <1>4, <1>5, Z3
  <2>2. QED  BY <1>4, <1>5, <2>1
<1>7. base \div D = k * P
  <2>1. (k * P) * D <= base /\ base < (k * P) * D + D  BY <1>5, <1>6
  <2>2. QED  BY <1>5, <1>6, <2>1, QuotientUnique
<1>8. k * P + P <= T
  <2>1. (k * P + P) * D = base + P * D  BY <1>5, <1>6, Z3
  <2>2. (k * P + P) * D <= T * D  BY <1>5, <2>1
  <2>3. k * P + P \in Int  BY <1>5, <1>6
  <2>4. QED  BY <1>5, <2>2, <2>3, TimesKeepsOrder
<1>9. addr % T = addr /\ (k * P) % T = k * P
  <2>1. \A x, y \in Nat : x < y => x % y = x  BY Z3
  <2>2. k * P < T  BY <1>5, <1>6, <1>8
  <2>3. QED  BY <1>5, <1>6, <2>1, <2>2
<1>10. (k * P) \div P = k
  <2>1. k * P <= k * P /\ k * P < k * P + P  BY <1>5, <1>6
  <2>2. QED  BY <1>4, <1>5, <1>6, <2>1, QuotientUnique
<1>11. addr \div P = k <=> (k * P <= addr /\ addr < k * P + P)
  BY <1>4, <1>5, QuotientUnique
<1>12. /\ k * P <= addr <=> base <= addr * D
       /\ addr < k * P + P <=> addr * D < base + P * D
  <2>1. (k * P + P) * D = base + P * D  BY <1>5, <1>6, Z3
  <2>2. k * P \in Int /\ k * P + P \in Int /\ addr \in Int  BY <1>5, <1>6
  <2>3. QED  BY <1>5, <1>6, <2>1, <2>2, TimesKeepsOrder
<1>13. QED  BY <1>2, <1>7, <1>9, <1>10, <1>11, <1>12 DEF D, P, T

(* The same of a bus whose words are octets, and of any address: the bits  *)
(* above those that the bus has are not looked at.                         *)
LEMMA FieldSelects ==
  ASSUME NEW base \in Nat, NEW n \in Nat, NEW t \in Nat,
         base % 2^n = 0, base + 2^n <= 2^t, NEW a \in Nat
  PROVE  (a % 2^t) \div 2^n = (base % 2^t) \div 2^n
           <=> (base <= a % 2^t /\ a % 2^t < base + 2^n)
<1>1. 2^t \in Nat /\ 2^t > 0 /\ 2^n \in Nat  BY PowerPositive
<1> DEFINE low == a % 2^t
<1>2. low \in Nat /\ low \in 0..(2^t - 1) /\ low % 2^t = low
  <2>1. \A T \in Nat : T > 0 => a % T \in 0..(T - 1)  BY Z3
  <2>2. \A T \in Nat, x \in Nat : x < T => x % T = x  BY Z3
  <2>3. low \in 0..(2^t - 1)  BY <1>1, <2>1
  <2>4. low \in Nat /\ low < 2^t  BY <1>1, <2>3
  <2>5. QED  BY <1>1, <2>2, <2>3, <2>4
<1> HIDE DEF low
<1>3. PICK d \in Nat : d = 0  OBVIOUS
<1>4. n - d = n /\ t + d = t  BY <1>3
<1>5. d <= n  BY <1>3
<1>6. base + 2^n <= 2^(t + d)  BY <1>4
<1>7. (low % 2^t) \div 2^(n - d) = ((base \div 2^d) % 2^t) \div 2^(n - d)
        <=> (base <= low * 2^d /\ low * 2^d < base + 2^n)
  BY <1>2, <1>5, <1>6, DecoderSelects
<1>8. base \div 2^d = base /\ low * 2^d = low
  <2>1. base * 1 <= base /\ base < base * 1 + 1  OBVIOUS
  <2>2. 1 \in Nat /\ 1 > 0 /\ base \in Int  OBVIOUS
  <2>3. base \div 1 = base  BY <2>1, <2>2, QuotientUnique
  <2>4. low * 1 = low  BY <1>2
  <2>5. QED  BY <1>3, <2>3, <2>4, PowerZero
<1>9. low \div 2^n = (base % 2^t) \div 2^n <=> (base <= low /\ low < base + 2^n)
  BY <1>2, <1>4, <1>7, <1>8
<1>10. QED  BY <1>9 DEF low

(* The low bits of an address are its distance from a base that is a       *)
(* multiple of at least so large a size.                                   *)
LEMMA OffsetBits ==
  ASSUME NEW base \in Nat, NEW n \in Nat, NEW t \in Nat, t <= n, base % 2^n = 0,
         NEW a \in Nat, base <= a, a - base < 2^t
  PROVE  a % 2^t = a - base
<1>1. PICK T \in Nat, P \in Nat : T = 2^t /\ T > 0 /\ P = 2^(n - t) /\ P > 0
  <2>1. n - t \in Nat  OBVIOUS
  <2>2. QED  BY <2>1, PowerPositive
<1>2. 2^n = T * P
  <2>1. n - t \in Nat /\ t + (n - t) = n  OBVIOUS
  <2>2. 2^(t + (n - t)) = 2^t * 2^(n - t)  BY <2>1, PowerSum
  <2>3. QED  BY <1>1, <2>1, <2>2
<1>3. PICK N \in Nat : N = T * P /\ N > 0 /\ base % N = 0
  <2>1. T * P \in Nat /\ T * P > 0
    <3>1. T * P \in Nat  BY <1>1
    <3>2. 0 * P < T * P  BY <1>1, TimesKeepsOrder
    <3>3. QED  BY <3>1, <3>2, <1>1
  <2>2. QED  BY <1>2, <2>1
<1>4. PICK q \in Nat : base = q * N
  <2>1. \A x \in Nat, m \in Nat : m > 0 /\ x % m = 0 => \E z \in Nat : x = z * m
    <3> SUFFICES ASSUME NEW x \in Nat, NEW m \in Nat, m > 0, x % m = 0
                 PROVE  \E z \in Nat : x = z * m
      OBVIOUS
    <3>1. x = (x \div m) * m /\ x \div m \in Nat  BY Z3
    <3>2. QED  BY <3>1
  <2>2. QED  BY <1>3, <2>1
<1>5. PICK k \in Nat : k = q * P  BY <1>1, <1>4
<1>6. base = k * T
  <2>1. \A x, y, z \in Nat : x * (y * z) = (x * z) * y
    <3> SUFFICES ASSUME NEW x \in Nat, NEW y \in Nat, NEW z \in Nat
                 PROVE  x * (y * z) = (x * z) * y
      OBVIOUS
    <3>1. QED  BY Z3
  <2>2. QED  BY <1>1, <1>3, <1>4, <1>5, <2>1
<1>7. k * T <= a /\ a < k * T + T
  BY <1>1, <1>6
<1>8. a \div T = k
  BY <1>1, <1>7, QuotientUnique
<1>9. a % T = a - k * T
  <2>1. \A x \in Nat, m \in Nat : m > 0 => x % m = x - (x \div m) * m  BY Z3
  <2>2. QED  BY <1>1, <1>8, <2>1
<1>10. QED  BY <1>1, <1>6, <1>9

(* nextlg() of a mask that compares two address bits or more, up to the    *)
(* last: the address width.                                                *)
LEMMA NextLgOfMask ==
  ASSUME NEW u \in Nat, NEW t \in 0..(MaxLg + 1), 3 * 2^u <= 2^t
  PROVE  NextLg(2^t - 2^u) = t
<1>1. t \in Nat /\ MaxLg \in Nat /\ t <= MaxLg + 1  BY DEF MaxLg
<1>2. /\ 2^u \in Nat /\ 2^u > 0 /\ 2^t \in Nat
      /\ 2^(u + 1) = 2 * 2^u
  BY <1>1, PowerPositive, PowerSucc
<1>3. t > u + 1
  <2>1. SUFFICES ASSUME t <= u + 1 PROVE FALSE  BY <1>1
  <2>2. 2^t <= 2^(u + 1)  BY <1>1, <2>1, PowerMonotonic
  <2>3. QED  BY <1>2, <2>2
<1>4. PICK h \in Nat : h = t - 1 /\ u + 1 <= h /\ h + 1 = t  BY <1>1, <1>3
<1>5. 2^h \in Nat /\ 2^t = 2 * 2^h /\ 2 * 2^u <= 2^h
  <2>1. 2^(u + 1) <= 2^h  BY <1>4, PowerMonotonic
  <2>2. 2^(h + 1) = 2 * 2^h /\ 2^h \in Nat  BY PowerSucc, PowerPositive
  <2>3. QED  BY <1>2, <1>4, <2>1, <2>2
<1> DEFINE mask == 2^t - 2^u
           smaller == {r \in 0..MaxLg : 2^r < mask}
<1>6. mask \in Nat /\ 2^h < mask /\ mask < 2^t  BY <1>2, <1>5
<1> HIDE DEF mask
<1>7. smaller = 0..h
  <2>1. ASSUME NEW r \in 0..h PROVE r \in smaller
    <3>1. r \in Nat /\ r <= h  OBVIOUS
    <3>2. 2^r <= 2^h /\ 2^r \in Nat  BY <3>1, PowerMonotonic, PowerPositive
    <3>3. r \in 0..MaxLg  BY <1>1, <1>4, <3>1
    <3>4. 2^r < mask  BY <1>5, <1>6, <3>2
    <3>5. QED  BY <3>3, <3>4
  <2>2. ASSUME NEW r \in smaller PROVE r \in 0..h
    <3>1. r \in Nat /\ 2^r < mask  BY <1>1
    <3>2. ~(t <= r)
      <4>1. t <= r => 2^t <= 2^r  BY <1>1, <3>1, PowerMonotonic
      <4>2. 2^r \in Nat  BY <3>1, PowerPositive
      <4>3. QED  BY <1>2, <1>6, <3>1, <4>1, <4>2
    <3>3. QED  BY <1>1, <1>4, <3>1, <3>2
  <2>3. QED  BY <2>1, <2>2
<1>8. Cardinality(0..h) = t
  <2>1. h - 0 + 1 = t /\ 0 <= h  BY <1>4
  <2>2. QED  BY <2>1, FS_Interval
<1>9. QED  BY <1>7, <1>8 DEF NextLg, mask
-----------------------------------------------------------------------------
LEMMA NextLgGrows ==
  ASSUME NEW x \in Int, NEW y \in Int, x <= y
  PROVE  NextLg(x) <= NextLg(y)
<1> DEFINE below(v) == {r \in 0..MaxLg : 2^r < v}
<1>1. IsFiniteSet(0..MaxLg)
  <2>1. MaxLg \in Int /\ 0 \in Int  BY DEF MaxLg
  <2>2. QED  BY <2>1, FS_Interval
<1>2. IsFiniteSet(below(y))  BY <1>1, FS_Subset
<1>3. below(x) \subseteq below(y)
  <2> SUFFICES ASSUME NEW r \in 0..MaxLg, 2^r < x PROVE 2^r < y  OBVIOUS
  <2>1. r \in Nat  BY DEF MaxLg
  <2>2. 2^r \in Nat  BY <2>1, PowerPositive
  <2>3. QED  BY <2>2
<1>4. Cardinality(below(x)) <= Cardinality(below(y))  BY <1>2, <1>3, FS_Subset
<1>5. QED  BY <1>4 DEF NextLg

(* No fewer bits would do.                                                 *)
LEMMA NextLgTight ==
  ASSUME NEW x \in Nat, NEW n \in Nat, n < NextLg(x)
  PROVE  2^n < x
<1> DEFINE smaller == {r \in 0..MaxLg : 2^r < x}
<1> SUFFICES ASSUME x <= 2^n PROVE FALSE
  <2>1. 2^n \in Nat  BY PowerPositive
  <2>2. QED  BY <2>1
<1>1. smaller \subseteq 0..(n - 1)
  <2> SUFFICES ASSUME NEW r \in smaller, n <= r PROVE FALSE
    BY DEF MaxLg
  <2>1. r \in Nat  BY DEF MaxLg
  <2>2. 2^n \in Nat /\ 2^r \in Nat /\ 2^n <= 2^r
    BY <2>1, PowerPositive, PowerMonotonic
  <2>3. QED  BY <2>2
<1>2. IsFiniteSet(0..(n - 1)) /\ Cardinality(0..(n - 1)) = n
  <2>1. CASE n = 0  BY <2>1, FS_EmptySet
  <2>2. CASE n > 0
    <3>1. 0 <= n - 1 /\ n - 1 \in Int /\ (n - 1) - 0 + 1 = n  BY <2>2
    <3>2. QED  BY <3>1, FS_Interval
  <2>3. QED  BY <2>1, <2>2
<1>3. Cardinality(smaller) <= n  BY <1>1, <1>2, FS_Subset
<1>4. NextLg(x) \in Nat  BY NextLgNat
<1>5. QED  BY <1>3, <1>4 DEF NextLg

LEMMA NextLgUnique ==
  ASSUME NEW x \in Nat, NEW u \in 0..(MaxLg + 1), x <= 2^u,
         u > 0 => 2^(u - 1) < x
  PROVE  NextLg(x) = u
<1>1. u \in Nat /\ NextLg(x) \in Nat /\ MaxLg + 1 \in Nat
  BY NextLgNat DEF MaxLg
<1>2. 2^u \in Nat  BY <1>1, PowerPositive
<1>3. ~(u < NextLg(x))  BY <1>1, <1>2, NextLgTight
<1>4. ~(NextLg(x) < u)
  <2> SUFFICES ASSUME NextLg(x) < u PROVE FALSE  OBVIOUS
  <2>1. /\ u - 1 \in Nat /\ NextLg(x) <= u - 1 /\ u <= MaxLg + 1
    BY <1>1
  <2>2. 2^u <= 2^(MaxLg + 1) /\ 2^(MaxLg + 1) \in Nat
    BY <1>1, <2>1, PowerPositive, PowerMonotonic
  <2>3. x <= 2^NextLg(x)  BY <1>2, <2>2, NextLgReaches
  <2>4. /\ 2^NextLg(x) <= 2^(u - 1)
        /\ 2^NextLg(x) \in Nat /\ 2^(u - 1) \in Nat
    BY <1>1, <2>1, PowerPositive, PowerMonotonic
  <2>5. QED  BY <2>1, <2>3, <2>4
<1>5. QED  BY <1>1, <1>3, <1>4

(* Counting in words of 2^d octets takes d bits less.                      *)
LEMMA NextLgShift ==
  ASSUME NEW x \in Nat, x > 0, NEW d \in Nat, x * 2^d <= 2^(MaxLg + 1)
  PROVE  NextLg(x * 2^d) = NextLg(x) + d
<1>1. PICK t \in Nat : t = NextLg(x)  BY NextLgNat
<1>2. PICK p \in Nat : p = 2^d /\ p > 0  BY PowerPositive
<1>3. PICK top \in Nat : top = 2^(MaxLg + 1)
  <2>1. MaxLg + 1 \in Nat  BY DEF MaxLg
  <2>2. QED  BY <2>1, PowerPositive
<1>4. PICK X \in Nat : X = x * p  BY <1>2
<1>5. x <= X
  <2>1. 1 * x <= p * x  BY <1>2, TimesKeepsOrder
  <2>2. 1 * x = x /\ p * x = x * p  OBVIOUS
  <2>3. QED  BY <1>4, <2>1, <2>2
<1>6. x <= 2^t  BY <1>1, <1>2, <1>3, <1>4, <1>5, NextLgReaches
<1>7. X <= 2^(t + d)
  <2>1. PICK a \in Nat : a = 2^t  BY PowerPositive
  <2>2. x * p <= a * p  BY <1>2, <1>6, <2>1, TimesKeepsOrder
  <2>3. 2^(t + d) = a * p  BY <1>2, <2>1, PowerSum
  <2>4. QED  BY <1>4, <2>2, <2>3
<1>8. t + d > 0 => 2^(t + d - 1) < X
  <2>1. CASE t > 0
    <3>1. t - 1 \in Nat /\ t - 1 < NextLg(x)  BY <1>1, <2>1
    <3>2. PICK a \in Nat : a = 2^(t - 1)  BY <3>1, PowerPositive
    <3>3. a < x  BY <3>1, <3>2, NextLgTight
    <3>4. a * p < x * p  BY <1>2, <3>3, TimesKeepsOrder
    <3>5. (t - 1) + d = t + d - 1  OBVIOUS
    <3>6. 2^((t - 1) + d) = a * p  BY <1>2, <3>1, <3>2, PowerSum
    <3>7. QED  BY <1>4, <3>4, <3>5, <3>6
  <2>2. CASE t = 0 /\ d > 0
    <3>1. d - 1 \in Nat /\ (d - 1) + 1 = d /\ t + d - 1 = d - 1  BY <2>2
    <3>2. PICK a \in Nat : a = 2^(d - 1) /\ a > 0  BY <3>1, PowerPositive
    <3>3. p = 2 * a  BY <1>2, <3>1, <3>2, PowerSucc
    <3>4. 1 * p <= x * p  BY <1>2, TimesKeepsOrder
    <3>5. p <= X  BY <1>4, <3>4
    <3>6. a < X  BY <3>2, <3>3, <3>5
    <3>7. QED  BY <3>1, <3>2, <3>6
  <2>3. QED  BY <2>1, <2>2
<1>9. t + d \in 0..(MaxLg + 1)
  <2> SUFFICES ASSUME t + d > MaxLg + 1 PROVE FALSE  BY DEF MaxLg
  <2>1. /\ MaxLg + 1 \in Nat /\ t + d - 1 \in Nat /\ MaxLg + 1 <= t + d - 1
        /\ t + d > 0
    BY DEF MaxLg
  <2>2. PICK a \in Nat : a = 2^(t + d - 1)  BY <2>1, PowerPositive
  <2>3. top <= a  BY <1>3, <2>1, <2>2, PowerMonotonic
  <2>4. a < X  BY <1>8, <2>1, <2>2
  <2>5. X <= top  BY <1>2, <1>3, <1>4
  <2>6. QED  BY <2>3, <2>4, <2>5
<1>10. NextLg(X) = t + d  BY <1>7, <1>8, <1>9, NextLgUnique
<1>11. QED  BY <1>1, <1>2, <1>4, <1>10

(* Alignment does not depend on the unit that addresses are counted in.    *)
LEMMA AlignUpScaled ==
  ASSUME NEW x \in Nat, NEW s \in Nat, s > 0, NEW p \in Nat, p > 0
  PROVE  AlignUp(x * p, s * p) = AlignUp(x, s) * p
<1>1. PICK q \in Int : q = (x + (s - 1)) \div s  OBVIOUS
<1>2. x + (s - 1) \in Nat  OBVIOUS
<1>3. q * s <= x + (s - 1) /\ x + (s - 1) < q * s + s
  BY <1>1, <1>2, QuotientUnique
<1>4. PICK b \in Int : b = q * s  BY <1>1
<1>5. PICK B \in Int : B = b * p  BY <1>4
<1>6. PICK X \in Nat : X = x * p  OBVIOUS
<1>7. PICK S \in Nat : S = s * p /\ S > 0
  <2>1. 0 * p < s * p  BY TimesKeepsOrder
  <2>2. QED  BY <2>1
<1>8. X <= B
  <2>1. x <= b  BY <1>3, <1>4
  <2>2. QED  BY <1>5, <1>6, <2>1, TimesKeepsOrder, <1>4
<1>9. B < X + S
  <2>1. PICK y \in Nat : y = x + s  OBVIOUS
  <2>2. b < y  BY <1>3, <1>4, <2>1
  <2>3. b * p < y * p  BY <2>1, <2>2, <1>4, TimesKeepsOrder
  <2>4. y * p = X + S  BY <1>6, <1>7, <2>1, Z3
  <2>5. QED  BY <1>5, <2>3, <2>4
<1>10. q * S = B  BY <1>1, <1>4, <1>5, <1>7, Z3
<1>11. PICK n \in Nat : n = X + (S - 1)  BY <1>7
<1>12. n \div S = q
  <2>1. q * S <= n /\ n < q * S + S  BY <1>8, <1>9, <1>10, <1>11
  <2>2. QED  BY <1>1, <1>7, <1>11, <2>1, QuotientUnique
<1>13. AlignUp(X, S) = B  BY <1>10, <1>11, <1>12 DEF AlignUp
<1>14. AlignUp(x, s) = b  BY <1>1, <1>4 DEF AlignUp
<1>15. QED  BY <1>5, <1>6, <1>7, <1>13, <1>14

(* What is aligned to more, from further on, does not come earlier.        *)
LEMMA AlignUpGrows ==
  ASSUME NEW x \in Nat, NEW y \in Nat, x <= y,
         NEW s \in Nat, s > 0, NEW k \in Nat, k > 0
  PROVE  AlignUp(x, s) <= AlignUp(y, s * k)
<1>1. PICK q \in Int : q = (x + (s - 1)) \div s  OBVIOUS
<1>2. q * s <= x + (s - 1)
  <2>1. x + (s - 1) \in Nat  OBVIOUS
  <2>2. QED  BY <1>1, <2>1, QuotientUnique
<1>3. PICK S \in Nat : S = s * k /\ S > 0
  <2>1. 0 * k < s * k  BY TimesKeepsOrder
  <2>2. QED  BY <2>1
<1>4. PICK c \in Int : c = (y + (S - 1)) \div S  BY <1>3
<1>5. AlignUp(x, s) = q * s /\ AlignUp(y, S) = c * S  BY <1>1, <1>4 DEF AlignUp
<1>6. y <= c * S  BY <1>3, <1>5, AlignUpProperties
<1>7. PICK e \in Int : e = c * k  BY <1>4
<1>8. c * S = e * s  BY <1>3, <1>4, <1>7, Z3
<1>9. PICK r \in Int : r = q - 1  BY <1>1
<1>10. r * s < e * s
  <2>1. r * s = q * s - s  BY <1>1, <1>9, Z3
  <2>2. q * s \in Int /\ c * S \in Int  BY <1>1, <1>3, <1>4
  <2>3. QED  BY <1>2, <1>6, <1>8, <2>1, <2>2
<1>11. r < e  BY <1>9, <1>7, <1>10, TimesKeepsOrder
<1>12. q <= e  BY <1>9, <1>11, <1>1, <1>7
<1>13. q * s <= e * s  BY <1>1, <1>7, <1>12, TimesKeepsOrder
<1>14. QED  BY <1>3, <1>5, <1>8, <1>13

-----------------------------------------------------------------------------
(* Sequences made of others: when two are the same, and what it means to   *)
(* put the pieces of a list of lists one after the other.                  *)
LEMMA SameSeq ==
  ASSUME NEW T, NEW s \in Seq(T), NEW t \in Seq(T), Len(s) = Len(t),
         \A i \in 1..Len(s) : s[i] = t[i]
  PROVE  s = t
OBVIOUS

LEMMA IsList ==
  ASSUME NEW T, NEW n \in Nat, NEW f \in [1..n -> T]
  PROVE  f \in Seq(T) /\ Len(f) = n
OBVIOUS

LEMMA JoinedIs ==
  ASSUME NEW T, NEW s \in Seq(T), NEW t \in Seq(T)
  PROVE  /\ s \o t \in Seq(T) /\ Len(s \o t) = Len(s) + Len(t)
         /\ \A i \in 1..Len(s) : (s \o t)[i] = s[i]
         /\ \A i \in 1..Len(t) : (s \o t)[Len(s) + i] = t[i]
<1>1. s \o t \in Seq(T) /\ Len(s \o t) = Len(s) + Len(t)  OBVIOUS
<1>2. \A i \in 1..Len(s) : (s \o t)[i] = s[i]  OBVIOUS
<1>3. ASSUME NEW i \in 1..Len(t) PROVE (s \o t)[Len(s) + i] = t[i]
  <2>1. /\ Len(s) + i \in 1..(Len(s) + Len(t))
        /\ ~(Len(s) + i <= Len(s)) /\ (Len(s) + i) - Len(s) = i
    OBVIOUS
  <2>2. PICK k : k = Len(s) + i  OBVIOUS
  <2>3. (s \o t)[k] = IF k <= Len(s) THEN s[k] ELSE t[k - Len(s)]
    BY <2>1, <2>2, ConcatProperties
  <2>4. QED  BY <2>1, <2>2, <2>3
<1>4. QED  BY <1>1, <1>2, <1>3

(* The pieces of a list of lists, put one after the other.                 *)
Joins(f, g, T) ==
  /\ f \in [1..Len(g) -> Seq(T)]
  /\ f[1] = g[1] /\ \A i \in 2..Len(g) : f[i] = f[i - 1] \o g[i]

LEMMA FlattenIs ==
  ASSUME NEW T, NEW g \in Seq(Seq(T)), Len(g) # 0
  PROVE  \E f : Joins(f, g, T) /\ FlattenSeq(g) = f[Len(g)]
<1> DEFINE L == Len(g)
           P(f) == f = [i \in 1..L |-> IF i = 1 THEN g[i] ELSE f[i - 1] \o g[i]]
           h == CHOOSE f : P(f)
           G == [a \in (1..(L - 1)) \X Seq(T) |-> a[2] \o g[a[1] + 1]]
<1>1. L \in Nat /\ L - 1 \in Nat /\ g[1] \in Seq(T)  OBVIOUS
<1>2. G \in Steps(L - 1, Seq(T))
  <2>1. ASSUME NEW a \in (1..(L - 1)) \X Seq(T) PROVE a[2] \o g[a[1] + 1] \in Seq(T)
    <3>1. a[2] \in Seq(T) /\ a[1] + 1 \in 1..L  BY <1>1
    <3>2. g[a[1] + 1] \in Seq(T)  BY <3>1
    <3>3. QED  BY <3>1, <3>2
  <2>2. QED  BY <2>1 DEF Steps
<1>3. PICK e : IsRecursion(e, L - 1, Seq(T), g[1], G)  BY <1>1, <1>2, RecursionExists
<1> DEFINE f == [i \in 1..L |-> e[i - 1]]
<1>4. Joins(f, g, T)
  <2>1. ASSUME NEW i \in 1..L PROVE e[i - 1] \in Seq(T)
    <3>1. i - 1 \in 0..(L - 1)  BY <1>1
    <3>2. QED  BY <1>3, <3>1 DEF IsRecursion
  <2>2. f \in [1..L -> Seq(T)]  BY <2>1
  <2>3. f[1] = g[1]  BY <1>1, <1>3 DEF IsRecursion
  <2>4. ASSUME NEW i \in 2..L PROVE f[i] = f[i - 1] \o g[i]
    <3>1. i - 1 \in 1..(L - 1) /\ i \in 1..L /\ i - 1 \in 1..L /\ (i - 1) + 1 = i  BY <1>1
    <3>2. PICK k, s : k = i - 1 /\ s = e[k - 1]  OBVIOUS
    <3>3. k \in 1..(L - 1) /\ s \in Seq(T)  BY <2>1, <3>1, <3>2
    <3>4. e[k] = G[<<k, s>>]  BY <1>3, <3>2, <3>3 DEF IsRecursion
    <3>5. G[<<k, s>>] = s \o g[k + 1]  BY <3>3
    <3>6. f[i] = e[k] /\ f[i - 1] = s /\ k + 1 = i  BY <3>1, <3>2
    <3>7. QED  BY <3>4, <3>5, <3>6
  <2> HIDE DEF f
  <2>5. QED  BY <2>2, <2>3, <2>4 DEF Joins
<1>5. P(f)
  <2> HIDE DEF f
  <2>1. f = [i \in 1..L |-> f[i]]  BY <1>4 DEF Joins
  <2>2. \A i \in 1..L : f[i] = IF i = 1 THEN g[i] ELSE f[i - 1] \o g[i]
    <3>1. \A i \in 1..L : i = 1 \/ i \in 2..L  BY <1>1
    <3>2. QED  BY <1>4, <3>1 DEF Joins
  <2>3. QED  BY <2>1, <2>2
<1>6. P(h)
  <2> HIDE DEF P, f
  <2>1. QED  BY <1>5
<1>7. FlattenSeq(g) = h[L]  BY DEF FlattenSeq
<1>8. ASSUME NEW i \in 1..L PROVE h[i] = f[i]
  <2> HIDE DEF f, h
  <2>1. \A j \in 1..L : h[j] = IF j = 1 THEN g[j] ELSE h[j - 1] \o g[j]  BY <1>6
  <2> DEFINE S == {n \in Nat : n + 1 <= L => h[n + 1] = f[n + 1]}
  <2>2. 0 \in S  BY <1>1, <1>4, <2>1 DEF Joins
  <2>3. ASSUME NEW n \in Nat, n \in S PROVE n + 1 \in S
    <3> SUFFICES ASSUME (n + 1) + 1 <= L PROVE h[(n + 1) + 1] = f[(n + 1) + 1]  OBVIOUS
    <3>1. PICK j \in Nat : j = (n + 1) + 1  OBVIOUS
    <3>2. j \in 1..L /\ j \in 2..L /\ j # 1 /\ j - 1 = n + 1 /\ h[n + 1] = f[n + 1]
      BY <1>1, <2>3, <3>1
    <3>3. h[j] = h[j - 1] \o g[j] /\ f[j] = f[j - 1] \o g[j]  BY <1>4, <2>1, <3>2 DEF Joins
    <3>4. QED  BY <3>1, <3>2, <3>3
  <2> HIDE DEF S
  <2>4. Nat \subseteq S  BY <2>2, <2>3, NatSetInduction
  <2>5. PICK n \in Nat : n + 1 = i  BY i - 1 \in Nat
  <2>6. n \in S /\ n + 1 <= L  BY <1>1, <2>4, <2>5
  <2>7. QED  BY <2>5, <2>6 DEF S
<1> HIDE DEF f, h
<1>9. h[L] = f[L]  BY <1>1, <1>8
<1>10. QED  BY <1>4, <1>7, <1>9

LEMMA FlattenNone == FlattenSeq(<<>>) = <<>>
BY DEF FlattenSeq

LEMMA FlattenType ==
  ASSUME NEW T, NEW g \in Seq(Seq(T))
  PROVE  FlattenSeq(g) \in Seq(T)
<1>1. CASE Len(g) = 0
  <2>1. g = <<>> /\ <<>> \in Seq(T)  BY <1>1
  <2>2. FlattenSeq(g) = <<>>  BY <2>1, FlattenNone
  <2>3. QED  BY <2>1, <2>2
<1>2. CASE Len(g) # 0
  <2>1. PICK f : Joins(f, g, T) /\ FlattenSeq(g) = f[Len(g)]  BY <1>2, FlattenIs
  <2>2. Len(g) \in 1..Len(g)  BY <1>2
  <2>3. QED  BY <2>1, <2>2 DEF Joins
<1>3. QED  BY <1>1, <1>2

LEMMA JoinsSame ==
  ASSUME NEW T, NEW g \in Seq(Seq(T)), NEW k \in Seq(Seq(T)), NEW f, NEW h,
         Joins(f, g, T), Joins(h, k, T),
         NEW n \in Nat, 1 <= n, n <= Len(g), n <= Len(k), \A i \in 1..n : g[i] = k[i]
  PROVE  f[n] = h[n]
<1> DEFINE S == {m \in Nat : m + 1 <= n => f[m + 1] = h[m + 1]}
<1>1. 0 \in S  BY DEF Joins
<1>2. ASSUME NEW m \in Nat, m \in S PROVE m + 1 \in S
  <2> SUFFICES ASSUME (m + 1) + 1 <= n PROVE f[(m + 1) + 1] = h[(m + 1) + 1]  OBVIOUS
  <2>1. PICK j \in Nat : j = (m + 1) + 1  OBVIOUS
  <2>2. j \in 1..n /\ j \in 2..Len(g) /\ j \in 2..Len(k) /\ j - 1 = m + 1 /\ f[m + 1] = h[m + 1]
    BY <1>2, <2>1
  <2>3. f[j] = f[j - 1] \o g[j] /\ h[j] = h[j - 1] \o k[j]  BY <2>2 DEF Joins
  <2>4. QED  BY <2>1, <2>2, <2>3
<1> HIDE DEF S
<1>3. Nat \subseteq S  BY <1>1, <1>2, NatSetInduction
<1>4. PICK m \in Nat : m + 1 = n  BY n - 1 \in Nat
<1>5. m \in S  BY <1>3
<1>6. QED  BY <1>4, <1>5 DEF S

LEMMA FlattenAppend ==
  ASSUME NEW T, NEW g \in Seq(Seq(T)), NEW x \in Seq(T)
  PROVE  FlattenSeq(Append(g, x)) = FlattenSeq(g) \o x
<1>1. PICK k : k = Append(g, x)  OBVIOUS
<1>2. /\ k \in Seq(Seq(T)) /\ Len(k) = Len(g) + 1 /\ k[Len(g) + 1] = x /\ Len(g) \in Nat
      /\ \A i \in 1..Len(g) : k[i] = g[i]
  BY <1>1
<1>3. PICK h : Joins(h, k, T) /\ FlattenSeq(k) = h[Len(k)]  BY <1>2, FlattenIs
<1>4. CASE Len(g) = 0
  <2>1. g = <<>>  BY <1>4
  <2>2. h[1] = x  BY <1>2, <1>3, <1>4 DEF Joins
  <2>3. FlattenSeq(k) = x  BY <1>2, <1>3, <1>4, <2>2
  <2>4. <<>> \o x = x  OBVIOUS
  <2>5. QED  BY <1>1, <2>1, <2>3, <2>4, FlattenNone
<1>5. CASE Len(g) # 0
  <2>1. PICK f : Joins(f, g, T) /\ FlattenSeq(g) = f[Len(g)]  BY <1>5, FlattenIs
  <2>2. PICK n \in Nat : n = Len(g)  BY <1>2
  <2>3. f[n] = h[n]
    <3>1. 1 <= n /\ n <= Len(g) /\ n <= Len(k)
      <4>1. PICK a \in Nat, b \in Nat : a = Len(g) /\ b = Len(k) /\ b = a + 1 /\ n = a /\ a # 0
        BY <1>2, <1>5, <2>2
      <4>2. 1 <= a /\ a <= b  BY <4>1
      <4>3. QED  BY <4>1, <4>2
    <3>4. \A i \in 1..n : g[i] = k[i]  BY <1>2, <2>2
    <3>2. Joins(f, g, T) /\ Joins(h, k, T) /\ k \in Seq(Seq(T))  BY <1>2, <1>3, <2>1
    <3>3. QED  BY <3>1, <3>2, <3>4, JoinsSame
  <2>4. n + 1 \in 2..Len(k) /\ (n + 1) - 1 = n  BY <1>2, <1>5, <2>2
  <2>5. h[n + 1] = h[n] \o k[n + 1]  BY <1>3, <2>4 DEF Joins
  <2>6. FlattenSeq(k) = h[n] \o x  BY <1>2, <1>3, <2>2, <2>5
  <2>7. QED  BY <1>1, <2>1, <2>2, <2>3, <2>6
<1>6. QED  BY <1>4, <1>5

(* A list that is not empty is a shorter one and its last element.         *)
LEMMA LastSplit ==
  ASSUME NEW T, NEW g \in Seq(T), NEW n \in Nat, Len(g) = n + 1
  PROVE  \E h \in Seq(T), x \in T : g = Append(h, x) /\ Len(h) = n
<1> DEFINE h == SubSeq(g, 1, n)
           x == g[n + 1]
<1>1. h \in Seq(T) /\ Len(h) = n /\ \A i \in 1..n : h[i] = g[i]  OBVIOUS
<1>2. x \in T  OBVIOUS
<1> HIDE DEF h
<1>3. Append(h, x) = g
  <2>1. Append(h, x) \in Seq(T) /\ Len(Append(h, x)) = n + 1  BY <1>1, <1>2
  <2>2. \A i \in 1..(n + 1) : Append(h, x)[i] = g[i]  BY <1>1, <1>2
  <2>3. QED  BY <2>1, <2>2
<1>4. QED  BY <1>1, <1>2, <1>3

LEMMA JoinedThree == \A S : \A a, b, c \in Seq(S) : (a \o b) \o c = a \o (b \o c)
BY ConcatAssociative

LEMMA FlattenConcat ==
  ASSUME NEW T, NEW g \in Seq(Seq(T)), NEW h \in Seq(Seq(T))
  PROVE  FlattenSeq(g \o h) = FlattenSeq(g) \o FlattenSeq(h)
<1>0. ASSUME NEW t \in Seq(T), NEW u \in Seq(T), NEW v \in Seq(T)
      PROVE  (t \o u) \o v = t \o (u \o v)
  BY JoinedThree
<1> DEFINE S == {n \in Nat : \A k \in Seq(Seq(T)) :
                   Len(k) = n => FlattenSeq(g \o k) = FlattenSeq(g) \o FlattenSeq(k)}
<1>1. 0 \in S
  <2> SUFFICES ASSUME NEW k \in Seq(Seq(T)), Len(k) = 0
               PROVE  FlattenSeq(g \o k) = FlattenSeq(g) \o FlattenSeq(k)
    OBVIOUS
  <2>1. k = <<>> /\ g \o k = g  OBVIOUS
  <2>2. FlattenSeq(g) \in Seq(T)  BY FlattenType
  <2>3. FlattenSeq(g) \o <<>> = FlattenSeq(g)  BY <2>2
  <2>4. QED  BY <2>1, <2>3, FlattenNone
<1>2. ASSUME NEW n \in Nat, n \in S PROVE n + 1 \in S
  <2> SUFFICES ASSUME NEW k \in Seq(Seq(T)), Len(k) = n + 1
               PROVE  FlattenSeq(g \o k) = FlattenSeq(g) \o FlattenSeq(k)
    OBVIOUS
  <2>1. PICK j \in Seq(Seq(T)), x \in Seq(T) : k = Append(j, x) /\ Len(j) = n  BY LastSplit
  <2>2. FlattenSeq(g \o j) = FlattenSeq(g) \o FlattenSeq(j)  BY <1>2, <2>1
  <2>3. g \o k = Append(g \o j, x) /\ g \o j \in Seq(Seq(T))  BY <2>1
  <2>4. FlattenSeq(g \o k) = FlattenSeq(g \o j) \o x  BY <2>3, FlattenAppend
  <2>5. FlattenSeq(k) = FlattenSeq(j) \o x  BY <2>1, FlattenAppend
  <2>6. PICK a \in Seq(T), b \in Seq(T) : a = FlattenSeq(g) /\ b = FlattenSeq(j)  BY FlattenType
  <2> HIDE DEF S
  <2>7. (a \o b) \o x = a \o (b \o x)  BY <1>0
  <2>8. QED  BY <2>2, <2>4, <2>5, <2>6, <2>7
<1> HIDE DEF S
<1>3. Nat \subseteq S  BY <1>1, <1>2, NatSetInduction
<1>4. Len(h) \in Nat  OBVIOUS
<1>5. Len(h) \in S  BY <1>3, <1>4
<1>6. QED  BY <1>5 DEF S

(* A list of lists of one element each.                                    *)
LEMMA FlattenOnes ==
  ASSUME NEW T, NEW q \in Seq(T)
  PROVE  FlattenSeq([i \in DOMAIN q |-> <<q[i]>>]) = q
<1> DEFINE ones(k) == [i \in DOMAIN k |-> <<k[i]>>]
           S == {n \in Nat : \A k \in Seq(T) : Len(k) = n => FlattenSeq(ones(k)) = k}
<1>1. 0 \in S
  <2> SUFFICES ASSUME NEW k \in Seq(T), Len(k) = 0 PROVE FlattenSeq(ones(k)) = k  OBVIOUS
  <2>1. k = <<>> /\ ones(k) = <<>>  OBVIOUS
  <2>2. QED  BY <2>1, FlattenNone
<1>2. ASSUME NEW n \in Nat, n \in S PROVE n + 1 \in S
  <2> SUFFICES ASSUME NEW k \in Seq(T), Len(k) = n + 1 PROVE FlattenSeq(ones(k)) = k  OBVIOUS
  <2>1. PICK j \in Seq(T), x \in T : k = Append(j, x) /\ Len(j) = n  BY LastSplit
  <2>2. FlattenSeq(ones(j)) = j  BY <1>2, <2>1
  <2>3. ones(j) \in Seq(Seq(T)) /\ ones(k) \in Seq(Seq(T)) /\ <<x>> \in Seq(T)
        /\ Len(ones(j)) = n /\ Len(ones(k)) = n + 1
    BY <2>1
  <2>4. ones(k) = Append(ones(j), <<x>>)
    <3>1. \A i \in 1..(n + 1) : ones(k)[i] = Append(ones(j), <<x>>)[i]  BY <2>1
    <3>2. Append(ones(j), <<x>>) \in Seq(Seq(T)) /\ Len(Append(ones(j), <<x>>)) = n + 1
      BY <2>3
    <3> HIDE DEF ones
    <3>3. QED  BY <2>3, <3>1, <3>2
  <2>5. FlattenSeq(ones(k)) = FlattenSeq(ones(j)) \o <<x>>  BY <2>3, <2>4, FlattenAppend
  <2>6. j \o <<x>> = Append(j, x)  OBVIOUS
  <2> HIDE DEF ones
  <2>7. QED  BY <2>1, <2>2, <2>5, <2>6
<1> HIDE DEF S
<1>3. Nat \subseteq S  BY <1>1, <1>2, NatSetInduction
<1>4. Len(q) \in S  BY <1>3
<1>5. SUFFICES FlattenSeq(ones(q)) = q  OBVIOUS
<1> HIDE DEF ones
<1>6. QED  BY <1>4 DEF S

(* Every element is replaced by a list: in the whole, or in each piece.    *)
Mapped(R, q) == [j \in DOMAIN q |-> R[q[j]]]
EachMapped(R, g) == [i \in DOMAIN g |-> FlattenSeq(Mapped(R, g[i]))]

LEMMA FlattenMap ==
  ASSUME NEW T, NEW R \in [T -> Seq(T)], NEW g \in Seq(Seq(T))
  PROVE  FlattenSeq(Mapped(R, FlattenSeq(g))) = FlattenSeq(EachMapped(R, g))
<1> DEFINE map(k) == [j \in DOMAIN k |-> R[k[j]]]
           each(k) == [i \in DOMAIN k |-> FlattenSeq(map(k[i]))]
           S == {n \in Nat : \A k \in Seq(Seq(T)) : Len(k) = n =>
                   FlattenSeq(map(FlattenSeq(k))) = FlattenSeq(each(k))}
<1>0. \A k \in Seq(T) : map(k) \in Seq(Seq(T)) /\ Len(map(k)) = Len(k)
  <2> TAKE k \in Seq(T)
  <2>1. \A j \in DOMAIN k : k[j] \in T /\ R[k[j]] \in Seq(T)  OBVIOUS
  <2>2. map(k) \in [1..Len(k) -> Seq(T)] /\ Len(k) \in Nat  BY <2>1
  <2> HIDE DEF map
  <2>3. map(k) \in Seq(Seq(T))
    <3>1. PICK f, n : f = map(k) /\ n = Len(k)  OBVIOUS
    <3>2. f \in [1..n -> Seq(T)] /\ n \in Nat  BY <2>2, <3>1
    <3>3. f \in Seq(Seq(T))  BY <3>2
    <3>4. QED  BY <3>1, <3>3
  <2>4. QED  BY <2>2, <2>3
<1>1. 0 \in S
  <2> SUFFICES ASSUME NEW k \in Seq(Seq(T)), Len(k) = 0
               PROVE  FlattenSeq(map(FlattenSeq(k))) = FlattenSeq(each(k))
    OBVIOUS
  <2>1. k = <<>> /\ each(k) = <<>> /\ map(<<>>) = <<>>  OBVIOUS
  <2>2. QED  BY <2>1, FlattenNone
<1>2. ASSUME NEW n \in Nat, n \in S PROVE n + 1 \in S
  <2> SUFFICES ASSUME NEW k \in Seq(Seq(T)), Len(k) = n + 1
               PROVE  FlattenSeq(map(FlattenSeq(k))) = FlattenSeq(each(k))
    <3> HIDE DEF map, each
    <3> QED  OBVIOUS
  <2>1. PICK l \in Seq(Seq(T)), x \in Seq(T) : k = Append(l, x) /\ Len(l) = n  BY LastSplit
  <2>2. FlattenSeq(map(FlattenSeq(l))) = FlattenSeq(each(l))  BY <1>2, <2>1
  <2>3. PICK a \in Seq(T) : a = FlattenSeq(l)  BY FlattenType
  <2>4. FlattenSeq(k) = a \o x  BY <2>1, <2>3, FlattenAppend
  <2>5. map(a \o x) = map(a) \o map(x)
    <3>1. Len(a \o x) = Len(a) + Len(x) /\ a \o x \in Seq(T)  OBVIOUS
    <3>2. map(a) \in Seq(Seq(T)) /\ map(x) \in Seq(Seq(T)) /\ map(a \o x) \in Seq(Seq(T))
          /\ Len(map(a)) = Len(a) /\ Len(map(x)) = Len(x) /\ Len(map(a \o x)) = Len(a \o x)
      BY <1>0, <3>1
    <3>3. ASSUME NEW i \in 1..(Len(a) + Len(x))
          PROVE  map(a \o x)[i] = (map(a) \o map(x))[i]
      <4>1. map(a \o x)[i] = R[(a \o x)[i]]  BY <3>1
      <4>2. CASE i <= Len(a)
        <5>1. (a \o x)[i] = a[i]  BY <4>2
        <5>2. (map(a) \o map(x))[i] = map(a)[i]  BY <3>2, <4>2
        <5>3. map(a)[i] = R[a[i]]  BY <4>2
        <5>4. QED  BY <4>1, <5>1, <5>2, <5>3
      <4>3. CASE ~(i <= Len(a))
        <5>1. PICK m : m = i - Len(a)  OBVIOUS
        <5>2. m \in 1..Len(x)  BY <4>3, <5>1
        <5>3. (a \o x)[i] = x[m]  BY <4>3, <5>1
        <5>4. (map(a) \o map(x))[i] = map(x)[m]
          <6>1. PICK u \in Seq(Seq(T)), v \in Seq(Seq(T)) :
                  u = map(a) /\ v = map(x) /\ Len(u) = Len(a) /\ Len(v) = Len(x)
            BY <3>2
          <6>2. (u \o v)[Len(u) + m] = v[m]  BY <5>2, <6>1, JoinedIs
          <6>3. Len(u) + m = i
            <7>1. Len(a) \in Nat /\ i \in Nat  OBVIOUS
            <7>2. Len(a) + m = i  BY <5>1, <7>1
            <7>3. QED  BY <6>1, <7>2
          <6>4. QED  BY <6>1, <6>2, <6>3
        <5>5. map(x)[m] = R[x[m]]  BY <5>2
        <5>6. QED  BY <4>1, <5>3, <5>4, <5>5
      <4>4. QED  BY <4>2, <4>3
    <3> HIDE DEF map
    <3>4. PICK u \in Seq(Seq(T)), v \in Seq(Seq(T)), w \in Seq(Seq(T)) :
            u = map(a) /\ v = map(x) /\ w = map(a \o x)
      BY <3>2
    <3>5. PICK z \in Seq(Seq(T)) : z = u \o v /\ Len(z) = Len(u) + Len(v)
      <4>1. u \o v \in Seq(Seq(T)) /\ Len(u \o v) = Len(u) + Len(v)  BY JoinedIs
      <4>2. QED  BY <4>1
    <3>6. w = z
      <4>1. Len(w) = Len(z) /\ \A i \in 1..Len(w) : w[i] = z[i]
        BY <3>1, <3>2, <3>3, <3>4, <3>5
      <4>2. QED  BY <4>1, SameSeq
    <3>7. QED  BY <3>4, <3>5, <3>6
  <2>6. FlattenSeq(map(a \o x)) = FlattenSeq(map(a)) \o FlattenSeq(map(x))
    <3>1. map(a) \in Seq(Seq(T)) /\ map(x) \in Seq(Seq(T))  BY <1>0
    <3> HIDE DEF map
    <3>2. QED  BY <2>5, <3>1, FlattenConcat
  <2>7. each(k) = Append(each(l), FlattenSeq(map(x))) /\ each(l) \in Seq(Seq(T))
        /\ FlattenSeq(map(x)) \in Seq(T)
    <3>1. \A y \in Seq(T) : FlattenSeq(map(y)) \in Seq(T)  BY <1>0, FlattenType
    <3> HIDE DEF map
    <3>2. each(k) \in Seq(Seq(T)) /\ each(l) \in Seq(Seq(T))
          /\ Len(each(k)) = n + 1 /\ Len(each(l)) = n
      BY <2>1, <3>1
    <3>3. PICK y \in Seq(T) : y = FlattenSeq(map(x))  BY <3>1
    <3>4. \A i \in 1..(n + 1) : each(k)[i] = Append(each(l), y)[i]  BY <2>1, <3>2, <3>3
    <3> HIDE DEF each
    <3>5. PICK u \in Seq(Seq(T)), v \in Seq(Seq(T)) : u = each(k) /\ v = each(l)  BY <3>2
    <3>6. u = Append(v, y)
      <4>1. Append(v, y) \in Seq(Seq(T)) /\ Len(Append(v, y)) = Len(u)  BY <3>2, <3>5
      <4>2. \A i \in 1..Len(u) : u[i] = Append(v, y)[i]  BY <3>2, <3>4, <3>5
      <4>3. PICK z \in Seq(Seq(T)) : z = Append(v, y)  BY <4>1
      <4>4. QED  BY <4>1, <4>2, <4>3, SameSeq
    <3>7. QED  BY <3>2, <3>3, <3>5, <3>6
  <2>8. FlattenSeq(each(k)) = FlattenSeq(each(l)) \o FlattenSeq(map(x))
    <3> HIDE DEF each, map
    <3>1. QED  BY <2>7, FlattenAppend
  <2> HIDE DEF each, map
  <2>9. QED  BY <2>2, <2>3, <2>4, <2>6, <2>8
<1> HIDE DEF S
<1>3. Nat \subseteq S  BY <1>1, <1>2, NatSetInduction
<1>4. Len(g) \in S  BY <1>3
<1>5. SUFFICES FlattenSeq(map(FlattenSeq(g))) = FlattenSeq(each(g))  BY DEF Mapped, EachMapped
<1> HIDE DEF each, map
<1>6. QED  BY <1>4 DEF S

(* The elements of the whole are those of the pieces.                      *)
LEMMA FlattenRange ==
  ASSUME NEW T, NEW g \in Seq(Seq(T))
  PROVE  Range(FlattenSeq(g)) = UNION {Range(g[i]) : i \in DOMAIN g}
<1> DEFINE S == {n \in Nat : \A k \in Seq(Seq(T)) : Len(k) = n =>
                   Range(FlattenSeq(k)) = UNION {Range(k[i]) : i \in DOMAIN k}}
<1>1. 0 \in S
  <2> SUFFICES ASSUME NEW k \in Seq(Seq(T)), Len(k) = 0
               PROVE  Range(FlattenSeq(k)) = UNION {Range(k[i]) : i \in DOMAIN k}
    OBVIOUS
  <2>1. k = <<>> /\ DOMAIN k = {} /\ Range(<<>>) = {}  BY DEF Range
  <2>2. QED  BY <2>1, FlattenNone
<1>2. ASSUME NEW n \in Nat, n \in S PROVE n + 1 \in S
  <2> SUFFICES ASSUME NEW k \in Seq(Seq(T)), Len(k) = n + 1
               PROVE  Range(FlattenSeq(k)) = UNION {Range(k[i]) : i \in DOMAIN k}
    OBVIOUS
  <2>1. PICK l \in Seq(Seq(T)), x \in Seq(T) : k = Append(l, x) /\ Len(l) = n  BY LastSplit
  <2>2. Range(FlattenSeq(l)) = UNION {Range(l[i]) : i \in DOMAIN l}  BY <1>2, <2>1
  <2>3. PICK a \in Seq(T) : a = FlattenSeq(l)  BY FlattenType
  <2>4. FlattenSeq(k) = a \o x  BY <2>1, <2>3, FlattenAppend
  <2> HIDE DEF S
  <2>5. Range(a \o x) = Range(a) \cup Range(x)  BY RangeConcatenation
  <2>6. DOMAIN k = DOMAIN l \cup {n + 1} /\ k[n + 1] = x /\ \A i \in DOMAIN l : k[i] = l[i]
    BY <2>1
  <2>7. UNION {Range(k[i]) : i \in DOMAIN k} = (UNION {Range(l[i]) : i \in DOMAIN l}) \cup Range(x)
    <3>1. {Range(k[i]) : i \in DOMAIN k} = {Range(l[i]) : i \in DOMAIN l} \cup {Range(x)}
      BY <2>6
    <3>2. PICK A, B : A = {Range(k[i]) : i \in DOMAIN k} /\ B = {Range(l[i]) : i \in DOMAIN l}
      OBVIOUS
    <3>3. A = B \cup {Range(x)}  BY <3>1, <3>2
    <3>4. UNION A = (UNION B) \cup Range(x)  BY <3>3
    <3>5. QED  BY <3>2, <3>4
  <2>8. PICK U : U = UNION {Range(l[i]) : i \in DOMAIN l}  OBVIOUS
  <2>9. Range(FlattenSeq(k)) = U \cup Range(x)  BY <2>2, <2>3, <2>4, <2>5, <2>8
  <2>10. QED  BY <2>7, <2>8, <2>9
<1> HIDE DEF S
<1>3. Nat \subseteq S  BY <1>1, <1>2, NatSetInduction
<1>4. Len(g) \in S  BY <1>3
<1>5. QED  BY <1>4 DEF S

(* Recursion from each bus to those below it, which have larger numbers:   *)
(* a function that is what B makes of it exists, if B looks at nothing     *)
(* else.                                                                   *)
LooksBelow(N, Y, B) ==
  \A b \in 1..N : \A t, u \in [1..N -> Y] :
    (\A c \in 1..N : c > b => t[c] = u[c]) => B[<<b, t>>] = B[<<b, u>>]

IsDescent(f, N, Y, B) ==
  f \in [1..N -> Y] /\ \A b \in 1..N : f[b] = B[<<b, f>>]

Descents(N, Y) == [(1..N) \X [1..N -> Y] -> Y]

LEMMA DescentExists ==
  ASSUME NEW N \in Nat, NEW Y, Y # {}, NEW B \in Descents(N, Y),
         LooksBelow(N, Y, B)
  PROVE  \E f : IsDescent(f, N, Y, B)
<1> DEFINE T == [1..N -> Y]
           row(n, t) == [b \in 1..N |-> IF b = N + 1 - n THEN B[<<b, t>>] ELSE t[b]]
           G == [p \in (1..N) \X T |-> row(p[1], p[2])]
<1>1. PICK y \in Y : TRUE  OBVIOUS
<1> USE DEF Descents
<1>2. PICK base \in T : TRUE
  <2>1. [b \in 1..N |-> y] \in T  OBVIOUS
  <2>2. QED  BY <2>1
<1>3. ASSUME NEW n \in 1..N, NEW t \in T
      PROVE  row(n, t) \in T
  <2>1. \A b \in 1..N : <<b, t>> \in (1..N) \X T  OBVIOUS
  <2>2. \A b \in 1..N : B[<<b, t>>] \in Y  BY <2>1
  <2>3. \A b \in 1..N : (IF b = N + 1 - n THEN B[<<b, t>>] ELSE t[b]) \in Y  BY <2>2
  <2>4. QED  BY <2>3
<1>4. G \in Steps(N, T)
  <2> HIDE DEF T, row
  <2>1. \A p \in (1..N) \X T : p[1] \in 1..N /\ p[2] \in T  OBVIOUS
  <2>2. \A p \in (1..N) \X T : row(p[1], p[2]) \in T  BY <1>3, <2>1
  <2>3. QED  BY <2>2 DEF Steps
<1>5. \A n \in 1..N, t \in T : G[<<n, t>>] = row(n, t)
  <2> HIDE DEF T, row
  <2>1. QED  OBVIOUS
<1>6. PICK g : IsRecursion(g, N, T, base, G)
  <2> HIDE DEF T, G
  <2>1. QED  BY <1>2, <1>4, RecursionExists
<1>7. /\ \A n \in 0..N : g[n] \in T
      /\ \A n \in 1..N : g[n] = row(n, g[n - 1])
  <2> HIDE DEF T, row, G
  <2>1. g \in [0..N -> T] /\ \A n \in 1..N : g[n] = G[<<n, g[n - 1]>>]
    BY <1>6 DEF IsRecursion
  <2>2. \A n \in 1..N : n - 1 \in 0..N  OBVIOUS
  <2>3. QED  BY <1>5, <2>1, <2>2
<1> DEFINE Fixed(n) == n <= N => \A b \in 1..N : b > N - n => g[n][b] = B[<<b, g[n]>>]
           Done == {n \in Nat : Fixed(n)}
<1>8. 0 \in Done  OBVIOUS
<1>9. ASSUME NEW n \in Nat, Fixed(n) PROVE Fixed(n + 1)
  <2> SUFFICES ASSUME n + 1 <= N, NEW b \in 1..N, b > N - (n + 1)
               PROVE  g[n + 1][b] = B[<<b, g[n + 1]>>]
    <3> HIDE DEF T, row, G
    <3>1. QED  OBVIOUS
  <2>1. n + 1 \in 1..N /\ n \in 0..N /\ n + 1 \in 0..N /\ (n + 1) - 1 = n /\ n <= N
    OBVIOUS
  <2>2. g[n] \in T /\ g[n + 1] \in T /\ g[n + 1] = row(n + 1, g[n])
    <3> HIDE DEF T, row, Done
    <3>1. QED  BY <1>7, <2>1
  <2>3. \A c \in 1..N : g[n + 1][c] = IF c = N - n THEN B[<<c, g[n]>>] ELSE g[n][c]
    BY <2>2
  <2> HIDE DEF T, row, G
  <2>4. \A c \in 1..N : c > b => g[n][c] = g[n + 1][c]
    <3>1. \A c \in 1..N : c > b => c # N - n  OBVIOUS
    <3>2. QED  BY <2>3, <3>1
  <2>5. B[<<b, g[n]>>] = B[<<b, g[n + 1]>>]
    BY <2>2, <2>4 DEF LooksBelow, T
  <2>6. CASE b = N - n  BY <2>3, <2>5, <2>6
  <2>7. CASE b # N - n
    <3>1. b > N - n  BY <2>7
    <3>2. g[n][b] = B[<<b, g[n]>>]  BY <1>9, <2>1, <3>1
    <3>3. QED  BY <2>3, <2>5, <2>7, <3>2
  <2>8. QED  BY <2>6, <2>7
<1>10. N \in Done
  <2>1. 0 \in Done /\ \A n \in Nat : n \in Done => n + 1 \in Done
    <3> HIDE DEF Fixed
    <3>1. QED  BY <1>8, <1>9
  <2> HIDE DEF Done
  <2>2. QED  BY <2>1, NatSetInduction
<1>11. Fixed(N)  BY <1>10
<1>12. \A b \in 1..N : g[N][b] = B[<<b, g[N]>>]
  <2> HIDE DEF T, row, G
  <2>1. N <= N /\ \A b \in 1..N : b > N - N  OBVIOUS
  <2>2. QED  BY <1>11, <2>1
<1>13. g[N] \in [1..N -> Y]  BY <1>7
<1>14. QED  BY <1>12, <1>13 DEF IsDescent

(* What holds of a bus when it holds of all those below holds of each.     *)
LEMMA DescentInduction ==
  ASSUME NEW N \in Nat, NEW S,
         \A b \in 1..N : (\A c \in 1..N : c > b => c \in S) => b \in S
  PROVE  \A b \in 1..N : b \in S
<1> DEFINE Done == {n \in Nat : \A b \in 1..N : b > N - n => b \in S}
<1>1. 0 \in Done  OBVIOUS
<1>2. ASSUME NEW n \in Nat, n \in Done PROVE n + 1 \in Done
  <2> SUFFICES ASSUME NEW b \in 1..N, b > N - (n + 1) PROVE b \in S  OBVIOUS
  <2>1. \A c \in 1..N : c > b => c \in S  BY <1>2
  <2>2. QED  BY <2>1
<1>3. Nat \subseteq Done
  <2> HIDE DEF Done
  <2>1. QED  BY <1>1, <1>2, NatSetInduction
<1>4. N \in Done  BY <1>3
<1>5. QED  BY <1>4

(* A word of a bus begins at or above a multiple of its size just when its *)
(* octets do.                                                              *)
LEMMA WordsKeepOrder ==
  ASSUME NEW q \in Nat, NEW p \in Nat, p > 0, NEW a \in Nat
  PROVE  a \div p \in Nat /\ (q * p <= a <=> q * p <= (a \div p) * p)
<1>1. PICK w \in Nat : w = a \div p
  <2>1. a \div p \in Nat  BY Z3
  <2>2. QED  BY <2>1
<1>2. w * p <= a /\ a < w * p + p  BY <1>1, QuotientUnique
<1>3. PICK x \in Nat, y \in Nat : x = q * p /\ y = w * p  OBVIOUS
<1>4. x <= a => x <= y
  <2> SUFFICES ASSUME x <= a, x > y PROVE FALSE  BY <1>3
  <2>1. w < q  BY <1>3, TimesKeepsOrder
  <2>2. (w + 1) * p <= q * p  BY <2>1, TimesKeepsOrder
  <2>3. (w + 1) * p = w * p + p  BY Z3
  <2>4. QED  BY <1>2, <1>3, <2>2, <2>3
<1>5. x <= y => x <= a  BY <1>2, <1>3
<1>6. QED  BY <1>1, <1>3, <1>4, <1>5

(* nextlg() of a power of two.                                             *)
LEMMA NextLgOfPower ==
  ASSUME NEW n \in 0..(MaxLg + 1)
  PROVE  NextLg(2^n) = n
<1>1. n \in Nat /\ 2^n \in Nat  BY PowerPositive
<1>2. n > 0 => 2^(n - 1) < 2^n
  <2> SUFFICES ASSUME n > 0 PROVE 2^(n - 1) < 2^n  OBVIOUS
  <2>1. PICK m \in Nat : m = n - 1 /\ n = m + 1
    <3>1. n - 1 \in Nat /\ n = (n - 1) + 1  BY <1>1
    <3>2. QED  BY <3>1
  <2>2. 2^m \in Nat /\ 2^m > 0 /\ 2^(m + 1) = 2 * 2^m  BY PowerPositive, PowerSucc
  <2>3. QED  BY <2>1, <2>2
<1>3. QED  BY <1>1, <1>2, NextLgUnique

(* A slave with as many lines as nextlg() gives it has room for NADDR.     *)
LEMMA NextLgRoom ==
  ASSUME NEW x \in Nat, NextLg(x) <= MaxLg
  PROVE  x <= 2^NextLg(x)
<1>1. MaxLg \in Nat /\ MaxLg + 1 \in 0..(MaxLg + 1)  BY DEF MaxLg
<1>2. NextLg(x) \in Nat  BY NextLgNat
<1>3. ~(2^(MaxLg + 1) <= x)
  <2> SUFFICES ASSUME 2^(MaxLg + 1) <= x PROVE FALSE  OBVIOUS
  <2>1. MaxLg + 1 <= NextLg(x)  BY <1>1, NextLgAtLeast
  <2>2. QED  BY <2>1, <1>1, <1>2
<1>4. 2^(MaxLg + 1) \in Nat  BY <1>1, PowerPositive
<1>5. QED  BY <1>3, <1>4, NextLgReaches

(* What fits into 2^t octets has no more than t lines of its own.          *)
LEMMA FitsPower ==
  ASSUME NEW t \in Nat, NEW n \in Nat, NEW base \in Nat, base + 2^n <= 2^t
  PROVE  n <= t
<1> SUFFICES ASSUME t + 1 <= n PROVE FALSE  OBVIOUS
<1>1. PICK m \in Nat : m = t + 1  OBVIOUS
<1>2. PICK p \in Nat, q \in Nat : p = 2^t /\ p > 0 /\ q = 2^n  BY PowerPositive
<1>3. 2^m <= q  BY <1>1, <1>2, PowerMonotonic
<1>4. 2^m = 2 * p  BY <1>1, <1>2, PowerSucc
<1>5. QED  BY <1>2, <1>3, <1>4

(* The bits of an address.                                                 *)
BitAt(a, i) == (a \div 2^i) % 2

LEMMA Halves ==
  ASSUME NEW q \in Nat
  PROVE  /\ q \div 2 \in Nat /\ q % 2 \in {0, 1}
         /\ q = 2 * (q \div 2) + (q % 2)
BY Z3

LEMMA DivMod ==
  ASSUME NEW a \in Nat, NEW p \in Nat, p > 0
  PROVE  /\ a \div p \in Nat /\ a % p \in Nat /\ a % p < p
         /\ a = (a \div p) * p + (a % p)
<1>1. a \div p \in Nat  BY Z3
<1>2. a % p \in Nat /\ a % p < p  BY Z3
<1>3. a = (a \div p) * p + (a % p)  BY Z3
<1>4. QED  BY <1>1, <1>2, <1>3

LEMMA QuotientType ==
  ASSUME NEW a \in Nat, NEW i \in Nat
  PROVE  a \div 2^i \in Nat
<1>1. PICK p \in Nat : p = 2^i /\ p > 0  BY PowerPositive
<1>2. a \div p \in Nat  BY <1>1, DivMod
<1>3. QED  BY <1>1, <1>2

(* One more bit is left out.                                               *)
LEMMA NextQuotient ==
  ASSUME NEW a \in Nat, NEW i \in Nat
  PROVE  a \div 2^i = 2 * (a \div 2^(i + 1)) + BitAt(a, i)
<1>1. PICK p \in Nat : p = 2^i /\ p > 0 /\ 2^(i + 1) = 2 * p  BY PowerPositive, PowerSucc
<1>2. PICK q \in Nat : q = a \div 2^i  BY QuotientType
<1>3. PICK h \in Nat, e \in {0, 1} : h = q \div 2 /\ e = q % 2 /\ q = 2 * h + e  BY Halves
<1>4. q * p <= a /\ a < q * p + p  BY <1>1, <1>2, QuotientUnique
<1>5. PICK x \in Nat : x = h * p  OBVIOUS
<1>6. q * p = 2 * x + e * p
  <2>1. (2 * h + e) * p = 2 * (h * p) + e * p  BY Z3
  <2>2. QED  BY <1>3, <1>5, <2>1
<1>7. e * p = 0 \/ e * p = p  BY <1>3
<1>8. h * (2 * p) = 2 * x
  <2>1. h * (2 * p) = 2 * (h * p)  BY Z3
  <2>2. QED  BY <1>5, <2>1
<1>9. h * (2 * p) <= a /\ a < h * (2 * p) + 2 * p
  BY <1>1, <1>4, <1>5, <1>6, <1>7, <1>8
<1>10. a \div (2 * p) = h
  <2>1. PICK r \in Nat : r = 2 * p /\ r > 0  BY <1>1
  <2>2. a \div r = h  BY <1>9, <2>1, QuotientUnique
  <2>3. QED  BY <2>1, <2>2
<1>11. QED  BY <1>1, <1>2, <1>3, <1>10 DEF BitAt

LEMMA SameBits ==
  ASSUME NEW n \in Nat, NEW t \in Nat, n <= t,
         NEW a \in 0..(2^t - 1), NEW b \in 0..(2^t - 1)
  PROVE  (\A i \in n..(t - 1) : BitAt(a, i) = BitAt(b, i)) <=> a \div 2^n = b \div 2^n
<1> DEFINE Same(i) == a \div 2^i = b \div 2^i
<1>1. ASSUME \A i \in n..(t - 1) : BitAt(a, i) = BitAt(b, i) PROVE Same(n)
  <2> DEFINE S == {k \in Nat : k <= t - n => Same(t - k)}
  <2>1. 0 \in S
    <3>1. PICK p \in Nat : p = 2^t /\ p > 0  BY PowerPositive
    <3>2. a \div p = 0 /\ b \div p = 0  BY <3>1, QuotientUnique
    <3>3. t - 0 = t  OBVIOUS
    <3>4. QED  BY <3>1, <3>2, <3>3
  <2>2. ASSUME NEW k \in Nat, k \in S PROVE k + 1 \in S
    <3> SUFFICES ASSUME k + 1 <= t - n PROVE Same(t - (k + 1))
      OBVIOUS
    <3>1. PICK i \in n..(t - 1) : i = t - (k + 1) /\ i + 1 = t - k /\ i \in Nat
      <4>1. t - (k + 1) \in n..(t - 1) /\ (t - (k + 1)) + 1 = t - k  OBVIOUS
      <4>2. QED  BY <4>1
    <3>2. Same(i + 1)  BY <2>2, <3>1
    <3>3. BitAt(a, i) = BitAt(b, i)  BY <1>1
    <3>4. a \in Nat /\ b \in Nat  BY PowerPositive
    <3>5. a \div 2^i = 2 * (a \div 2^(i + 1)) + BitAt(a, i)  BY <3>1, <3>4, NextQuotient
    <3>6. b \div 2^i = 2 * (b \div 2^(i + 1)) + BitAt(b, i)  BY <3>1, <3>4, NextQuotient
    <3>7. Same(i)  BY <3>2, <3>3, <3>5, <3>6
    <3>8. QED  BY <3>1, <3>7
  <2>3. Nat \subseteq S
    <3> HIDE DEF S
    <3>1. QED  BY <2>1, <2>2, NatSetInduction
  <2>4. t - n \in Nat /\ t - (t - n) = n  OBVIOUS
  <2>5. t - n \in S  BY <2>3, <2>4
  <2>6. QED  BY <2>4, <2>5
<1>2. ASSUME Same(n), NEW i \in n..(t - 1) PROVE BitAt(a, i) = BitAt(b, i)
  <2> DEFINE S == {k \in Nat : Same(n + k)}
  <2>1. 0 \in S  BY <1>2
  <2>2. ASSUME NEW k \in Nat, k \in S PROVE k + 1 \in S
    <3>1. PICK j \in Nat : j = n + k /\ n + (k + 1) = j + 1  OBVIOUS
    <3>2. Same(j)  BY <2>2, <3>1
    <3>3. BitAt(a, j) = BitAt(b, j)  BY <3>2 DEF BitAt
    <3>4. PICK x \in Nat, y \in Nat : x = a \div 2^(j + 1) /\ y = b \div 2^(j + 1)
      <4>1. j + 1 \in Nat  OBVIOUS
      <4>2. QED  BY <4>1, QuotientType
    <3>5. PICK e \in {0, 1} : e = BitAt(a, j)
      <4>1. a \div 2^j \in Nat  BY QuotientType
      <4>2. QED  BY <4>1, Halves DEF BitAt
    <3>6. 2 * x + e = 2 * y + e
      <4>1. a \div 2^j = 2 * x + e  BY <3>4, <3>5, NextQuotient
      <4>2. b \div 2^j = 2 * y + e  BY <3>3, <3>4, <3>5, NextQuotient
      <4>3. QED  BY <3>2, <4>1, <4>2
    <3>7. x = y  BY <3>6
    <3>8. QED  BY <3>1, <3>4, <3>7
  <2>3. Nat \subseteq S
    <3> HIDE DEF S
    <3>1. QED  BY <2>1, <2>2, NatSetInduction
  <2>4. i - n \in S /\ n + (i - n) = i  BY <2>3
  <2>5. Same(i)  BY <2>4
  <2>6. QED  BY <2>5 DEF BitAt
<1>3. QED  BY <1>1, <1>2

(* The bits below 2^t of an address are those of what is left of it there. *)
LEMMA LowBits ==
  ASSUME NEW a \in Nat, NEW t \in Nat, NEW i \in Nat, i < t
  PROVE  BitAt(a, i) = BitAt(a % 2^t, i)
<1>1. PICK k \in Nat : k = t - (i + 1) /\ t = (k + 1) + i
  <2>1. t - (i + 1) \in Nat /\ t = ((t - (i + 1)) + 1) + i  OBVIOUS
  <2>2. QED  BY <2>1
<1>2. PICK p \in Nat, h \in Nat : p = 2^i /\ p > 0 /\ h = 2^k /\ 2^t = (2 * h) * p
  <2>1. 2^t = 2^(k + 1) * 2^i  BY <1>1, PowerSum
  <2>2. 2^(k + 1) = 2 * 2^k  BY PowerSucc
  <2>3. QED  BY <2>1, <2>2, PowerPositive
<1>3. PICK T \in Nat : T = 2^t /\ T > 0  BY PowerPositive
<1>4. PICK q \in Nat, r \in Nat : r = a % T /\ a = q * T + r
  <2>1. a \div T \in Nat /\ a % T \in Nat /\ a = (a \div T) * T + (a % T)  BY <1>3, DivMod
  <2>2. QED  BY <2>1
<1>5. PICK v \in Nat : v = r \div p
  <2>1. r \div p \in Nat  BY <1>2, DivMod
  <2>2. QED  BY <2>1
<1>6. v * p <= r /\ r < v * p + p  BY <1>2, <1>5, QuotientUnique
<1>7. PICK g \in Nat : g = q * h  OBVIOUS
<1>8. (2 * g + v) * p = q * T + v * p
  <2>1. (2 * (q * h) + v) * p = q * ((2 * h) * p) + v * p  BY Z3
  <2>2. QED  BY <1>2, <1>3, <1>7, <2>1
<1>9. a \div p = 2 * g + v
  <2>1. PICK x \in Nat, y \in Nat : x = q * T /\ y = v * p  OBVIOUS
  <2>2. (2 * g + v) * p <= a /\ a < (2 * g + v) * p + p
    BY <1>2, <1>4, <1>6, <1>8, <2>1
  <2>3. 2 * g + v \in Int  OBVIOUS
  <2>4. QED  BY <1>2, <2>2, <2>3, QuotientUnique
<1>10. (2 * g + v) % 2 = v % 2  BY Z3
<1>11. QED  BY <1>2, <1>3, <1>4, <1>5, <1>9, <1>10 DEF BitAt

LEMMA LowerLines ==
  ASSUME NEW a \in Nat, NEW w \in Nat, NEW t \in Nat, w <= t
  PROVE  (a % 2^t) % 2^w = a % 2^w
<1>1. PICK k \in Nat : k = t - w /\ t = k + w
  <2>1. t - w \in Nat /\ t = (t - w) + w  OBVIOUS
  <2>2. QED  BY <2>1
<1>2. PICK p \in Nat, h \in Nat : p = 2^w /\ p > 0 /\ h = 2^k /\ 2^t = h * p
  BY <1>1, PowerPositive, PowerSum
<1>3. PICK T \in Nat : T = 2^t /\ T > 0  BY PowerPositive
<1>4. PICK q \in Nat, r \in Nat : r = a % T /\ a = q * T + r
  <2>1. a \div T \in Nat /\ a % T \in Nat /\ a = (a \div T) * T + (a % T)  BY <1>3, DivMod
  <2>2. QED  BY <2>1
<1>5. PICK u \in Nat, v \in Nat : v = r % p /\ r = u * p + v /\ v < p
  <2>1. r \div p \in Nat /\ r % p \in Nat /\ r = (r \div p) * p + (r % p) /\ r % p < p
    BY <1>2, DivMod
  <2>2. QED  BY <2>1
<1>6. PICK g \in Nat : g = q * h + u  OBVIOUS
<1>7. a = g * p + v
  <2>1. (q * h + u) * p + v = q * (h * p) + (u * p + v)  BY Z3
  <2>2. QED  BY <1>2, <1>3, <1>4, <1>5, <1>6, <2>1
<1>8. PICK x \in Nat : x = g * p  OBVIOUS
<1>9. a \div p = g  BY <1>2, <1>5, <1>7, <1>8, QuotientUnique
<1>10. a = (a \div p) * p + (a % p)  BY <1>2, DivMod
<1>11. a % p \in Nat  BY <1>2, DivMod
<1>12. a % p = v  BY <1>7, <1>8, <1>9, <1>10, <1>11
<1>13. QED  BY <1>2, <1>3, <1>4, <1>5, <1>12
=============================================================================
