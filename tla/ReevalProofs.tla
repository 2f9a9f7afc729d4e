---------------------------- MODULE ReevalProofs ----------------------------
(* Proofs about the evaluation of expressions and strings, for every       *)
(* design: each value is what the expression means, and each text what the *)
(* string reads as, in the database as it stands when reeval() is done.    *)
(* After these, about the database itself, for every set of files: its     *)
(* tables are trees, components inherit what they lack, and a key has what *)
(* is appended to it, in order.                                            *)
EXTENDS Reeval, Database, Lemmas

(* The most rounds in which the values of the expressions come out.        *)
N == Cardinality(Exprs)

(* The values after each round of definitions.                             *)
IsMeanings(m) ==
  /\ DOMAIN m = 0..N
  /\ m[0] = Defined
  /\ \A n \in 1..N : m[n] = Means(m[n - 1])

(* Meaning is the last of these rounds.                                    *)
LEMMA RoundsExist ==
  ASSUME N \in Nat
  PROVE  \E m : IsMeanings(m) /\ Meaning = m[N]
<1> DEFINE P(f) == f = [n \in 0..N |-> IF n = 0 THEN Defined ELSE Means(f[n - 1])]
           h == CHOOSE f : P(f)
           Q(f, k) == /\ f = [n \in 0..k |-> f[n]]
                      /\ f[0] = Defined /\ \A n \in 1..k : f[n] = Means(f[n - 1])
           S == {k \in Nat : \E f : Q(f, k)}
<1>1. 0 \in S
  <2> DEFINE f == [n \in 0..0 |-> Defined]
  <2>1. f = [n \in 0..0 |-> f[n]] /\ f[0] = Defined /\ 1..0 = {}  OBVIOUS
  <2> HIDE DEF f
  <2>2. QED  BY <2>1
<1>2. ASSUME NEW k \in Nat, k \in S PROVE k + 1 \in S
  <2>1. PICK f : Q(f, k)  BY <1>2
  <2> DEFINE v == Means(f[k])
             g == [n \in 0..(k + 1) |-> IF n = k + 1 THEN v ELSE f[n]]
  <2> HIDE DEF v
  <2>2. g = [n \in 0..(k + 1) |-> g[n]] /\ g[0] = Defined  BY <2>1
  <2>3. ASSUME NEW n \in 1..(k + 1) PROVE g[n] = Means(g[n - 1])
    <3>1. n - 1 \in 0..k /\ n \in 0..(k + 1) /\ n - 1 \in 0..(k + 1) /\ n - 1 # k + 1
      OBVIOUS
    <3>2. g[n - 1] = f[n - 1]  BY <3>1
    <3>3. CASE n = k + 1
      <4>1. g[n] = v /\ n - 1 = k  BY <3>1, <3>3
      <4>2. QED  BY <4>1, <3>2 DEF v
    <3>4. CASE n # k + 1
      <4>1. n \in 1..k /\ g[n] = f[n]  BY <3>1, <3>4
      <4>2. QED  BY <4>1, <3>2, <2>1
    <3>5. QED  BY <3>3, <3>4
  <2> HIDE DEF g
  <2>4. Q(g, k + 1)  BY <2>2, <2>3
  <2> HIDE DEF Q
  <2>5. QED  BY <2>4
<1> HIDE DEF S
<1>3. N \in S  BY <1>1, <1>2, NatSetInduction
<1>4. PICK f : Q(f, N)  BY <1>3 DEF S
<1>5. P(f)
  <2>1. \A n \in 0..N : n # 0 => n \in 1..N  OBVIOUS
  <2>2. \A n \in 0..N : f[n] = IF n = 0 THEN Defined ELSE Means(f[n - 1])  BY <1>4, <2>1
  <2> HIDE DEF P
  <2>3. f = [n \in 0..N |-> f[n]]  BY <1>4
  <2>4. QED  BY <2>2, <2>3 DEF P
<1>6. P(h)
  <2> HIDE DEF P
  <2>1. QED  BY <1>5
<1>7. Meaning = h[N]  BY DEF Meaning, N
<1>8. IsMeanings(h)
  <2> HIDE DEF h
  <2>1. DOMAIN h = 0..N /\ \A n \in 0..N : h[n] = IF n = 0 THEN Defined ELSE Means(h[n - 1])
    BY <1>6
  <2>2. 0 \in 0..N /\ \A n \in 1..N : n \in 0..N /\ n # 0  OBVIOUS
  <2>3. QED  BY <2>1, <2>2 DEF IsMeanings
<1>9. QED  BY <1>7, <1>8

(* get_named_kvpair() takes the first of the scopes that has the name.     *)
LEMMA FirstOf ==
  ASSUME NEW s, Len(s) \in Nat, NEW n, NEW E
  PROVE  \/ /\ \A i \in 1..Len(s) : <<s[i], n>> \notin E
            /\ First(s, n, E) = NoPlace
         \/ \E i \in 1..Len(s) :
              /\ <<s[i], n>> \in E /\ First(s, n, E) = <<s[i], n>>
              /\ \A j \in 1..Len(s) : <<s[j], n>> \in E => i <= j
<1> DEFINE I == {i \in 1..Len(s) : <<s[i], n>> \in E}
           found == SelectInSeq(s, LAMBDA c : <<c, n>> \in E)
<1>1. found = IF I # {} THEN Min(I) ELSE 0  BY DEF SelectInSeq
<1>2. First(s, n, E) = IF found = 0 THEN NoPlace ELSE <<s[found], n>>  BY DEF First
<1> HIDE DEF found
<1>3. CASE I = {}  BY <1>1, <1>2, <1>3
<1>4. CASE I # {}
  <2>1. I \subseteq Nat  OBVIOUS
  <2> HIDE DEF I
  <2>2. \E m \in I : \A j \in I : m <= j  BY <2>1, <1>4, LeastNatural
  <2>3. Min(I) \in I /\ \A j \in I : Min(I) <= j  BY <2>2 DEF Min
  <2>4. found \in I /\ \A j \in I : found <= j  BY <1>1, <1>4, <2>3
  <2>5. found # 0  BY <2>4 DEF I
  <2>6. QED  BY <1>2, <2>4, <2>5 DEF I
<1>5. QED  BY <1>3, <1>4

(* What is found is a place that has the name, in one of the scopes.       *)
LEMMA FirstFound ==
  ASSUME NEW s, Len(s) \in Nat, NEW n, NEW E
  PROVE  First(s, n, E) \in E \cup {NoPlace}
<1>1. PICK f : f = First(s, n, E)  OBVIOUS
<1>2. f = NoPlace \/ \E i \in 1..Len(s) : <<s[i], n>> \in E /\ f = <<s[i], n>>
  BY <1>1, FirstOf
<1>3. QED  BY <1>1, <1>2

(* With one scope ...                                                      *)
LEMMA FirstOfOne ==
  ASSUME NEW a, NEW n, NEW E
  PROVE  First(<<a>>, n, E) = IF <<a, n>> \in E THEN <<a, n>> ELSE NoPlace
<1>1. Len(<<a>>) = 1 /\ <<a>>[1] = a  OBVIOUS
<1>2. PICK s : s = <<a>>  OBVIOUS
<1>3. Len(s) = 1 /\ s[1] = a  BY <1>1, <1>2
<1>4. Len(s) \in Nat /\ 1..Len(s) = {1}  BY <1>3
<1>5. First(s, n, E) = IF <<a, n>> \in E THEN <<a, n>> ELSE NoPlace
  BY <1>3, <1>4, FirstOf
<1>6. QED  BY <1>2, <1>5

(* ... with two ...                                                        *)
LEMMA FirstOfTwo ==
  ASSUME NEW a, NEW b, NEW n, NEW E
  PROVE  First(<<a, b>>, n, E) = IF <<a, n>> \in E THEN <<a, n>>
                                 ELSE IF <<b, n>> \in E THEN <<b, n>> ELSE NoPlace
<1>1. PICK s : s = <<a, b>>  OBVIOUS
<1>2. Len(s) = 2 /\ s[1] = a /\ s[2] = b  BY <1>1
<1>3. Len(s) \in Nat /\ 1..Len(s) = {1, 2}  BY <1>2
<1>4. First(s, n, E) = IF <<a, n>> \in E THEN <<a, n>>
                       ELSE IF <<b, n>> \in E THEN <<b, n>> ELSE NoPlace
  <2>1. CASE <<a, n>> \in E
    <3>1. \A i \in 1..Len(s) : i <= 1 => i = 1  BY <1>3
    <3>2. QED  BY <1>2, <1>3, <2>1, <3>1, FirstOf
  <2>2. CASE <<a, n>> \notin E /\ <<b, n>> \in E
    <3>1. QED  BY <1>2, <1>3, <2>2, FirstOf
  <2>3. CASE <<a, n>> \notin E /\ <<b, n>> \notin E
    <3>1. \A i \in 1..Len(s) : <<s[i], n>> \notin E  BY <1>2, <1>3, <2>3
    <3>2. QED  BY <1>3, <2>3, <3>1, FirstOf
  <2>4. QED  BY <2>1, <2>2, <2>3
<1>5. QED  BY <1>1, <1>4

(* ... and with three.                                                     *)
LEMMA FirstOfThree ==
  ASSUME NEW a, NEW b, NEW c, NEW n, NEW E
  PROVE  First(<<a, b, c>>, n, E) = IF <<a, n>> \in E THEN <<a, n>>
                                    ELSE IF <<b, n>> \in E THEN <<b, n>>
                                    ELSE IF <<c, n>> \in E THEN <<c, n>> ELSE NoPlace
<1>1. PICK s : s = <<a, b, c>>  OBVIOUS
<1>2. Len(s) = 3 /\ s[1] = a /\ s[2] = b /\ s[3] = c  BY <1>1
<1>3. Len(s) \in Nat /\ 1..Len(s) = {1, 2, 3}  BY <1>2
<1>4. First(s, n, E) = IF <<a, n>> \in E THEN <<a, n>>
                       ELSE IF <<b, n>> \in E THEN <<b, n>>
                       ELSE IF <<c, n>> \in E THEN <<c, n>> ELSE NoPlace
  <2>1. CASE <<a, n>> \in E
    <3>1. \A i \in 1..Len(s) : i <= 1 => i = 1  BY <1>3
    <3>2. QED  BY <1>2, <1>3, <2>1, <3>1, FirstOf
  <2>2. CASE <<a, n>> \notin E /\ <<b, n>> \in E
    <3>1. \A i \in 1..Len(s) : i <= 2 => i = 1 \/ i = 2  BY <1>3
    <3>2. QED  BY <1>2, <1>3, <2>2, <3>1, FirstOf
  <2>3. CASE <<a, n>> \notin E /\ <<b, n>> \notin E /\ <<c, n>> \in E
    <3>1. QED  BY <1>2, <1>3, <2>3, FirstOf
  <2>4. CASE <<a, n>> \notin E /\ <<b, n>> \notin E /\ <<c, n>> \notin E
    <3>1. \A i \in 1..Len(s) : <<s[i], n>> \notin E  BY <1>2, <1>3, <2>4
    <3>2. QED  BY <1>3, <2>4, <3>1, FirstOf
  <2>5. QED  BY <2>1, <2>2, <2>3, <2>4
<1>5. QED  BY <1>1, <1>4

(* Where the walk looks a name up, by its scope.                           *)
LEMMA NearestIs ==
  ASSUME NEW p, NEW r, NEW E, E = DOMAIN Keys
  PROVE  /\ r.scope = "plain" /\ Direct(p) => Nearest(p, r) = First(<<0, p[1]>>, r.name, E)
         /\ r.scope = "plain" /\ ~Direct(p) => Nearest(p, r) = First(<<p[1], 0>>, r.name, E)
         /\ r.scope = "this" /\ Direct(p) => Nearest(p, r) = First(<<0>>, r.name, E)
         /\ r.scope = "this" /\ ~Direct(p) => Nearest(p, r) = First(<<p[1]>>, r.name, E)
         /\ r.scope = "top" => Nearest(p, r) = First(<<0>>, r.name, E)
         /\ r.scope = "in" => Nearest(p, r) = First(<<r.comp>>, r.name, E)
BY DEF Nearest

LEMMA NearestHere ==
  ASSUME NEW p, NEW r, NEW E, E = DOMAIN Keys, Here(p) = p[1]
  PROVE  /\ r.scope = "plain" => Nearest(p, r) = First(<<p[1], 0>>, r.name, E)
         /\ r.scope = "this" => Nearest(p, r) = First(<<p[1]>>, r.name, E)
<1>1. CASE ~Direct(p)  BY <1>1, NearestIs
<1>2. CASE Direct(p)
  <2>1. p[1] = 0  BY <1>2 DEF Direct, Here
  <2>2. PICK c : c = p[1]  OBVIOUS
  <2>3. <<0, p[1]>> = <<p[1], 0>> /\ <<0>> = <<p[1]>>  BY <2>1
  <2>4. QED  BY <1>2, <2>3, NearestIs
<1>3. QED  BY <1>1, <1>2

(* What is nearest is a key of the database, or there is nothing.          *)
LEMMA NearestFound ==
  ASSUME NEW p, NEW r, Ref(r)
  PROVE  Nearest(p, r) \in DOMAIN Keys \cup {NoPlace}
<1>1. \A s, n : Len(s) \in Nat => First(s, n, DOMAIN Keys) \in DOMAIN Keys \cup {NoPlace}
  BY FirstFound
<1>2. /\ Len(<<0, p[1]>>) \in Nat /\ Len(<<p[1], 0>>) \in Nat /\ Len(<<p[1]>>) \in Nat
      /\ Len(<<0>>) \in Nat /\ Len(<<r.comp>>) \in Nat
  OBVIOUS
<1> DEFINE E == DOMAIN Keys
<1>3. /\ First(<<0, p[1]>>, r.name, E) \in E \cup {NoPlace}
      /\ First(<<p[1], 0>>, r.name, E) \in E \cup {NoPlace}
      /\ First(<<p[1]>>, r.name, E) \in E \cup {NoPlace}
      /\ First(<<0>>, r.name, E) \in E \cup {NoPlace}
      /\ First(<<r.comp>>, r.name, E) \in E \cup {NoPlace}
  BY <1>1, <1>2
<1>4. r.scope \in {"plain", "this", "top", "in"}  BY DEF Ref
<1> HIDE DEF E
<1>5. PICK x : x = Nearest(p, r)  OBVIOUS
<1>6. x \in E \cup {NoPlace}
  <2>1. E = DOMAIN Keys  BY DEF E
  <2>2. QED  BY <1>3, <1>4, <1>5, <2>1, NearestIs
<1>7. QED  BY <1>5, <1>6 DEF E

(* What has a value after some rounds keeps it.                            *)
LEMMA ValueStays ==
  ASSUME N \in Nat, NEW m, IsMeanings(m), design \in Designs,
         NEW n \in Nat, n + 1 <= N
  PROVE  \A p \in DOMAIN Keys : m[n][p] # 0 => m[n + 1][p] = m[n][p]
<1> DEFINE Q(k) == \A p \in DOMAIN Keys : m[k][p] # 0 => m[k + 1][p] = m[k][p]
           S == {k \in Nat : k + 1 <= N => Q(k)}
<1>1. 0 \in S
  <2> SUFFICES ASSUME 1 <= N, NEW p \in DOMAIN Keys, m[0][p] # 0 PROVE m[1][p] = m[0][p]
    OBVIOUS
  <2>1. m[0] = Defined /\ m[1] = Means(m[0])
    <3>1. 1 \in 1..N /\ 1 - 1 = 0  OBVIOUS
    <3>2. \A k \in 1..N : m[k] = Means(m[k - 1])  BY DEF IsMeanings
    <3>3. m[1] = Means(m[1 - 1])  BY <3>1, <3>2, Zenon
    <3>4. QED  BY <3>1, <3>3 DEF IsMeanings
  <2>2. QED  BY <2>1 DEF Defined, Means
<1>2. ASSUME NEW k \in Nat, k \in S PROVE k + 1 \in S
  <2> SUFFICES ASSUME k + 2 <= N, NEW p \in DOMAIN Keys, m[k + 1][p] # 0
               PROVE  m[k + 2][p] = m[k + 1][p]
    OBVIOUS
  <2>1. Q(k)  BY <1>2
  <2>2. k + 1 \in 1..N /\ k + 2 \in 1..N /\ (k + 1) - 1 = k /\ (k + 2) - 1 = k + 1
    OBVIOUS
  <2>3. m[k + 1] = Means(m[k]) /\ m[k + 2] = Means(m[k + 1])  BY <2>2 DEF IsMeanings
  <2>4. CASE Keys[p].kind # "expr"  BY <2>3, <2>4 DEF Means
  <2>5. CASE Keys[p].kind = "expr"
    <3> DEFINE vals(v) == [i \in DOMAIN Keys[p].refs |-> ValueAt(Nearest(p, Keys[p].refs[i]), v)]
    <3>1. \A v : Means(v)[p] = IF IsDefined(vals(v)) THEN Evaluated(p, vals(v)) ELSE 0
      BY <2>5 DEF Means
    <3>2. IsDefined(vals(m[k]))  BY <3>1, <2>3
    <3>3. ASSUME NEW i \in DOMAIN Keys[p].refs
          PROVE  ValueAt(Nearest(p, Keys[p].refs[i]), m[k + 1])
                   = ValueAt(Nearest(p, Keys[p].refs[i]), m[k])
      <4>1. PICK q : q = Nearest(p, Keys[p].refs[i])  OBVIOUS
      <4>2. ValueAt(q, m[k]) # 0  BY <3>2, <4>1 DEF IsDefined
      <4>3. Ref(Keys[p].refs[i])  BY DesignAssumption, <2>5 DEF Keys
      <4>4. q # NoPlace /\ q \in DOMAIN Keys
        BY <4>1, <4>2, <4>3, NearestFound DEF ValueAt
      <4>5. QED  BY <4>1, <4>2, <4>4, <2>1 DEF ValueAt
    <3>4. vals(m[k + 1]) = vals(m[k])  BY <3>3
    <3>5. QED  BY <3>1, <3>4, <2>3
  <2>6. QED  BY <2>4, <2>5
<1> HIDE DEF S
<1>3. n \in S  BY <1>1, <1>2, NatSetInduction
<1>4. QED  BY <1>3 DEF S

(* ... whatever the number of rounds that follow.                          *)
LEMMA ValueKept ==
  ASSUME N \in Nat, NEW m, IsMeanings(m), design \in Designs,
         NEW n \in Nat, NEW k \in Nat, n <= k, k <= N, NEW p \in DOMAIN Keys, m[n][p] # 0
  PROVE  m[k][p] = m[n][p]
<1> DEFINE S == {d \in Nat : n + d <= N => m[n + d][p] = m[n][p]}
<1>1. 0 \in S  OBVIOUS
<1>2. ASSUME NEW d \in Nat, d \in S PROVE d + 1 \in S
  <2> SUFFICES ASSUME n + (d + 1) <= N PROVE m[n + (d + 1)][p] = m[n][p]  OBVIOUS
  <2>1. PICK e \in Nat : e = n + d  OBVIOUS
  <2>2. e + 1 <= N /\ n + (d + 1) = e + 1 /\ m[e][p] = m[n][p]  BY <1>2, <2>1
  <2>3. m[e + 1][p] = m[e][p]  BY <2>2, ValueStays
  <2>4. QED  BY <2>2, <2>3
<1> HIDE DEF S
<1>3. k - n \in S  BY <1>1, <1>2, NatSetInduction
<1>4. n + (k - n) = k  OBVIOUS
<1>5. QED  BY <1>3, <1>4 DEF S

(* The rounds are as many as the expressions of the database.              *)
LEMMA FiniteExprs ==
  ASSUME design \in Designs
  PROVE  IsFiniteSet(Exprs) /\ N \in Nat
<1>1. IsFiniteSet(DOMAIN Keys)  BY DesignAssumption DEF Keys
<1>2. Exprs \in SUBSET DOMAIN Keys  BY DEF Exprs
<1>3. QED  BY <1>1, <1>2, FS_Subset, FS_CardinalityType DEF N

(* The expressions that have had their round of definitions.               *)
Known == {p \in Exprs : num[p] # 0 \/ Keys[p].refs = <<>>}

(* The meanings of a design are those of the last round.                   *)
LEMMA MeaningIs ==
  ASSUME design \in Designs, NEW v, IsMeanings(v)
  PROVE  Meaning = v[N]
<1>1. N \in Nat  BY FiniteExprs
<1>2. PICK m : IsMeanings(m) /\ Meaning = m[N]  BY <1>1, RoundsExist
<1>3. \A n \in Nat : n <= N => v[n] = m[n]
  <2> DEFINE S == {n \in Nat : n <= N => v[n] = m[n]}
  <2>1. 0 \in S  BY <1>2 DEF IsMeanings
  <2>2. ASSUME NEW n \in Nat, n \in S PROVE n + 1 \in S
    <3> SUFFICES ASSUME n + 1 <= N PROVE v[n + 1] = m[n + 1]  OBVIOUS
    <3>1. n + 1 \in 1..N /\ (n + 1) - 1 = n /\ v[n] = m[n]  BY <1>1, <2>2
    <3>2. QED  BY <1>2, <3>1 DEF IsMeanings
  <2> HIDE DEF S
  <2>3. Nat \subseteq S  BY <2>1, <2>2, NatSetInduction
  <2>4. QED  BY <2>3 DEF S
<1>4. QED  BY <1>1, <1>2, <1>3

(* The known expressions are no more than the rounds.                      *)
LEMMA KnownSize ==
  ASSUME design \in Designs
  PROVE  /\ IsFiniteSet(Known) /\ Cardinality(Known) \in Nat /\ Cardinality(Known) <= N
         /\ Known # {} => Cardinality(Known) >= 1
<1>1. Known \in SUBSET Exprs  BY DEF Known
<1>2. IsFiniteSet(Known) /\ Cardinality(Known) <= N
  BY <1>1, FiniteExprs, FS_Subset DEF N
<1>3. Cardinality(Known) \in Nat  BY <1>2, FS_CardinalityType
<1>4. Known # {} => Cardinality(Known) # 0  BY <1>2, FS_EmptySet
<1>5. QED  BY <1>2, <1>3, <1>4

(* An expression without references has its constant for a value.          *)
LEMMA NoneAdded ==
  ASSUME NEW p, NEW v, DOMAIN v = {}
  PROVE  IsDefined(v) /\ Evaluated(p, v) = Keys[p].val
<1> DEFINE op(a, b) == a + b
           base == Keys[p].val
           P(f) == f = [s \in SUBSET {} |->
                          IF s = {} THEN base
                          ELSE LET x == Max(s) IN op(f[s \ {x}], v[x])]
           h == CHOOSE f : P(f)
<1>1. Evaluated(p, v) = h[{}]  BY DEF Evaluated, FoldLeft, MapThenFoldSet
<1>2. P([s \in SUBSET {} |-> base])
  <2>1. \A s \in SUBSET {} : s = {}  OBVIOUS
  <2>2. QED  BY <2>1
<1>3. P(h)
  <2> HIDE DEF P
  <2>1. QED  BY <1>2
<1> HIDE DEF h
<1>4. h[{}] = base  BY <1>3
<1>5. QED  BY <1>1, <1>4 DEF IsDefined

(* A constant has its value after the first round.                         *)
LEMMA ConstantsFirst ==
  ASSUME design \in Designs, NEW m, IsMeanings(m),
         NEW p \in Exprs, Keys[p].refs = <<>>, NEW k \in Nat, 1 <= k, k <= N
  PROVE  m[k][p] = Keys[p].val
<1> DEFINE vals(v) == [i \in DOMAIN Keys[p].refs |-> ValueAt(Nearest(p, Keys[p].refs[i]), v)]
<1>1. \A v : Means(v)[p] = Keys[p].val
  <2> SUFFICES ASSUME NEW v PROVE Means(v)[p] = Keys[p].val  OBVIOUS
  <2>1. Means(v)[p] = IF IsDefined(vals(v)) THEN Evaluated(p, vals(v)) ELSE 0
    BY DEF Means, Exprs
  <2>2. PICK w : w = vals(v)  OBVIOUS
  <2>3. DOMAIN w = {}  BY <2>2
  <2>4. IsDefined(w) /\ Evaluated(p, w) = Keys[p].val  BY <2>3, NoneAdded
  <2>5. QED  BY <2>1, <2>2, <2>4
<1>2. k \in 1..N /\ N \in Nat  BY FiniteExprs
<1>3. m[k] = Means(m[k - 1])  BY <1>2 DEF IsMeanings
<1>4. QED  BY <1>1, <1>3

(* No key that is added after the first call is nearer to a component than *)
(* one of its name at the top level, with which the call may have gone on. *)
NoLateShadow ==
  \A q \in design.late : q[1] # 0 => <<0, q[2]>> \notin DOMAIN Keys \ design.late

(* What the steps keep of the variables of the evaluation.                 *)
EvalTypes ==
  /\ design \in Designs
  /\ present = DOMAIN Keys \ design.late \/ present = DOMAIN Keys
  /\ num = [p \in Exprs |-> num[p]]
  /\ ids = [p \in Exprs |-> ids[p]]
  /\ \A p \in Exprs : ids[p] = [i \in DOMAIN Keys[p].refs |-> ids[p][i]]

(* What is known has come out in as many rounds as there are known         *)
(* expressions, at the most; an identifier has the value of the nearest.   *)
KnownRight(m) ==
  \A p \in Exprs : num[p] # 0 => num[p] = m[Cardinality(Known)][p]

IdsRight(m) ==
  \A p \in Exprs : \A i \in DOMAIN Keys[p].refs : ids[p][i] # 0 =>
    /\ Nearest(p, Keys[p].refs[i]) \in DOMAIN Keys \ {NoPlace}
    /\ ids[p][i] = m[Cardinality(Known)][Nearest(p, Keys[p].refs[i])]

(* The inductive invariant: the rounds of the design are some m (rather    *)
(* than Meaning, which a step would have to be shown to keep).             *)
EvalInv ==
  /\ EvalTypes
  /\ \E m : IsMeanings(m) /\ (NoLateShadow => KnownRight(m) /\ IdsRight(m))

(* NoPlace is no key.                                                      *)
LEMMA NoPlaceIsNoKey ==
  ASSUME design \in Designs
  PROVE  NoPlace \notin DOMAIN Keys
<1>1. DOMAIN Keys \subseteq Nat \X STRING  BY DesignAssumption DEF Keys
<1>2. -1 \notin Nat  OBVIOUS
<1>3. NoPlace \notin Nat \X STRING  BY <1>2 DEF NoPlace
<1>4. QED  BY <1>1, <1>3

(* What is looked for from its own component is found nearest to it.       *)
LEMMA FindsNearest ==
  ASSUME design \in Designs, NoLateShadow,
         present = DOMAIN Keys \ design.late \/ present = DOMAIN Keys,
         NEW p, Here(p) = p[1], NEW r, Ref(r), Lookup(p, r) # NoPlace
  PROVE  Lookup(p, r) = Nearest(p, r) /\ Lookup(p, r) \in DOMAIN Keys
<1>1. Here(p) = p[1]  OBVIOUS
<1>2. present \subseteq DOMAIN Keys  OBVIOUS
<1>0. PICK n, E : n = r.name /\ E = DOMAIN Keys  OBVIOUS
<1>3. CASE r.scope = "plain"
  <2>1. Scopes(p, r) = <<p[1], p[1], 0>>  BY <1>1, <1>3 DEF Scopes
  <2>2. Lookup(p, r) = IF <<p[1], n>> \in present THEN <<p[1], n>>
                       ELSE IF <<0, n>> \in present THEN <<0, n>> ELSE NoPlace
    BY <1>0, <2>1, FirstOfThree DEF Lookup
  <2>3. Nearest(p, r) = IF <<p[1], n>> \in E THEN <<p[1], n>>
                        ELSE IF <<0, n>> \in E THEN <<0, n>> ELSE NoPlace
    <3>1. Nearest(p, r) = First(<<p[1], 0>>, n, E)  BY <1>0, <1>1, <1>3, NearestHere
    <3>2. First(<<p[1], 0>>, n, E) = IF <<p[1], n>> \in E THEN <<p[1], n>>
                        ELSE IF <<0, n>> \in E THEN <<0, n>> ELSE NoPlace
      BY FirstOfTwo
    <3>3. QED  BY <3>1, <3>2
  <2>4. ASSUME <<p[1], n>> \notin present, <<0, n>> \in present, <<p[1], n>> \in E, p[1] # 0
        PROVE  FALSE
    <3>1. <<p[1], n>> \in design.late /\ <<0, n>> \in E \ design.late  BY <1>0, <2>4
    <3>2. PICK q : q = <<p[1], n>>  OBVIOUS
    <3>3. q \in design.late /\ q[1] # 0 /\ <<0, q[2]>> \in E \ design.late
      BY <2>4, <3>1, <3>2
    <3>4. QED  BY <1>0, <3>3 DEF NoLateShadow
  <2>5. QED  BY <1>0, <1>2, <2>2, <2>3, <2>4
<1>4. CASE r.scope = "this"
  <2>1. Scopes(p, r) = <<p[1]>>  BY <1>1, <1>4 DEF Scopes
  <2>2. Lookup(p, r) = IF <<p[1], n>> \in present THEN <<p[1], n>> ELSE NoPlace
    BY <1>0, <2>1, FirstOfOne DEF Lookup
  <2>3. Nearest(p, r) = IF <<p[1], n>> \in E THEN <<p[1], n>> ELSE NoPlace
    <3>1. Nearest(p, r) = First(<<p[1]>>, n, E)  BY <1>0, <1>1, <1>4, NearestHere
    <3>2. First(<<p[1]>>, n, E) = IF <<p[1], n>> \in E THEN <<p[1], n>> ELSE NoPlace
      BY FirstOfOne
    <3>3. QED  BY <3>1, <3>2
  <2>4. QED  BY <1>0, <1>2, <2>2, <2>3
<1>5. CASE r.scope = "top"
  <2>1. Scopes(p, r) = <<0>>  BY <1>5 DEF Scopes
  <2>2. Lookup(p, r) = IF <<0, n>> \in present THEN <<0, n>> ELSE NoPlace
    BY <1>0, <2>1, FirstOfOne DEF Lookup
  <2>3. Nearest(p, r) = IF <<0, n>> \in E THEN <<0, n>> ELSE NoPlace
    <3>1. Nearest(p, r) = First(<<0>>, n, E)  BY <1>0, <1>5, NearestIs
    <3>2. First(<<0>>, n, E) = IF <<0, n>> \in E THEN <<0, n>> ELSE NoPlace
      BY FirstOfOne
    <3>3. QED  BY <3>1, <3>2
  <2>4. QED  BY <1>0, <1>2, <2>2, <2>3
<1>6. CASE r.scope = "in"
  <2>1. Scopes(p, r) = <<r.comp>>  BY <1>6 DEF Scopes
  <2>2. Lookup(p, r) = IF <<r.comp, n>> \in present THEN <<r.comp, n>> ELSE NoPlace
    BY <1>0, <2>1, FirstOfOne DEF Lookup
  <2>3. Nearest(p, r) = IF <<r.comp, n>> \in E THEN <<r.comp, n>> ELSE NoPlace
    <3>1. Nearest(p, r) = First(<<r.comp>>, n, E)  BY <1>0, <1>6, NearestIs
    <3>2. First(<<r.comp>>, n, E) = IF <<r.comp, n>> \in E THEN <<r.comp, n>> ELSE NoPlace
      BY FirstOfOne
    <3>3. QED  BY <3>1, <3>2
  <2>4. QED  BY <1>0, <1>2, <2>2, <2>3
<1>7. QED  BY <1>3, <1>4, <1>5, <1>6 DEF Ref

(* The value of a key that has one is its value after so many rounds.      *)
LEMMA NumRight ==
  ASSUME EvalTypes, NEW m, IsMeanings(m), KnownRight(m), NEW q \in DOMAIN Keys, NumOf(q) # 0
  PROVE  NumOf(q) = m[Cardinality(Known)][q] /\ Keys[q].kind # "str"
<1> DEFINE r == Cardinality(Known)
<1>0. design \in Designs /\ IsMeanings(m) /\ N \in Nat /\ r \in Nat /\ r <= N
  BY FiniteExprs, KnownSize DEF EvalTypes
<1>1. q # NoPlace  BY <1>0, NoPlaceIsNoKey
<1>2. Keys[q].kind \in {"int", "expr", "str"} /\ (Keys[q].kind = "str" => Keys[q].val = 0)
  BY <1>0, DesignAssumption DEF Keys
<1>3. Keys[q].kind # "str"  BY <1>1 DEF NumOf
<1>4. CASE Keys[q].kind = "int"
  <2>1. NumOf(q) = Keys[q].val  BY <1>1, <1>4 DEF NumOf
  <2>2. Defined[q] = Keys[q].val /\ \A v : Means(v)[q] = Keys[q].val
    BY <1>4 DEF Defined, Means
  <2>3. r = 0 \/ r \in 1..N  BY <1>0
  <2>4. QED  BY <1>0, <1>3, <2>1, <2>2, <2>3 DEF IsMeanings
<1>5. CASE Keys[q].kind = "expr" /\ Keys[q].refs = <<>>
  <2>1. q \in Exprs /\ NumOf(q) = Keys[q].val  BY <1>1, <1>5 DEF NumOf, Exprs
  <2>2. q \in Known  BY <1>5, <2>1 DEF Known
  <2>3. 1 <= r  BY <1>0, <2>2, KnownSize
  <2> HIDE DEF r
  <2>4. QED  BY <1>0, <1>3, <1>5, <2>1, <2>3, ConstantsFirst DEF r
<1>6. CASE Keys[q].kind = "expr" /\ Keys[q].refs # <<>>
  <2>1. q \in Exprs /\ NumOf(q) = num[q]  BY <1>1, <1>6 DEF NumOf, Exprs
  <2>2. QED  BY <1>3, <2>1 DEF KnownRight
<1>7. QED  BY <1>2, <1>3, <1>4, <1>5, <1>6

(* What an expression defines an identifier to be is the value of the      *)
(* nearest.                                                                *)
LEMMA DefinesRight ==
  ASSUME EvalTypes, NoLateShadow, NEW m, IsMeanings(m), KnownRight(m), IdsRight(m),
         NEW p \in Exprs, NEW i \in DOMAIN Keys[p].refs, Define(p)[i] # 0
  PROVE  /\ Nearest(p, Keys[p].refs[i]) \in DOMAIN Keys \ {NoPlace}
         /\ Define(p)[i] = m[Cardinality(Known)][Nearest(p, Keys[p].refs[i])]
<1>1. CASE ids[p][i] # 0
  <2>1. Define(p)[i] = ids[p][i]  BY <1>1 DEF Define
  <2>2. QED  BY <1>1, <2>1 DEF IdsRight
<1>2. CASE ids[p][i] = 0
  <2>1. PICK q : q = Lookup(p, Keys[p].refs[i])  OBVIOUS
  <2>2. Define(p)[i] = NumOf(q) /\ NumOf(q) # 0  BY <1>2, <2>1 DEF Define
  <2>3. q # NoPlace  BY <2>2 DEF NumOf
  <2>4. Ref(Keys[p].refs[i])  BY DesignAssumption DEF Keys, Exprs, EvalTypes
  <2>5. q = Nearest(p, Keys[p].refs[i]) /\ q \in DOMAIN Keys
    BY <2>1, <2>3, <2>4, FindsNearest DEF EvalTypes, Here, Exprs
  <2>6. QED  BY <2>2, <2>3, <2>5, NumRight
<1>3. QED  BY <1>1, <1>2

(* The database stays as it is: what its keys mean, too.                   *)
LEMMA SameMeanings ==
  ASSUME design' = design, NEW m, IsMeanings(m)
  PROVE  IsMeanings(m)' /\ NoLateShadow' = NoLateShadow
<1>1. Keys' = Keys  BY DEF Keys
<1>2. Exprs' = Exprs /\ N' = N  BY <1>1 DEF Exprs, N
<1>3. Defined' = Defined  BY <1>1 DEF Defined
<1>4. \A p, r : Nearest(p, r)' = Nearest(p, r)  BY <1>1 DEF Nearest, Direct
<1>5. \A v : Means(v)' = Means(v)
  <2>1. \A p, w : Evaluated(p, w)' = Evaluated(p, w)
    BY <1>1 DEF Evaluated, FoldLeft, MapThenFoldSet
  <2>2. TAKE v
  <2>3. ASSUME NEW p \in DOMAIN Keys PROVE Means(v)'[p] = Means(v)[p]
    <3> DEFINE vals == [i \in DOMAIN Keys[p].refs |-> ValueAt(Nearest(p, Keys[p].refs[i]), v)]
    <3>1. PICK w : w = vals  OBVIOUS
    <3>2. vals' = w
      <4>1. ASSUME NEW i \in DOMAIN Keys[p].refs
            PROVE  ValueAt(Nearest(p, Keys[p].refs[i]), v)' = ValueAt(Nearest(p, Keys[p].refs[i]), v)
        <5>1. Nearest(p, Keys[p].refs[i])' = Nearest(p, Keys[p].refs[i])  BY <1>1, <1>4
        <5>2. QED  BY <5>1 DEF ValueAt, NoPlace
      <4>2. QED  BY <1>1, <3>1, <4>1
    <3>3. Means(v)[p] = IF Keys[p].kind # "expr" THEN Keys[p].val
                        ELSE IF IsDefined(w) THEN Evaluated(p, w) ELSE 0
      BY <3>1 DEF Means
    <3>4. Means(v)'[p] = IF Keys[p].kind # "expr" THEN Keys[p].val
                         ELSE IF IsDefined(w) THEN Evaluated(p, w)' ELSE 0
      BY <1>1, <3>2 DEF Means, IsDefined
    <3>5. QED  BY <2>1, <3>3, <3>4
  <2>4. QED  BY <1>1, <2>3 DEF Means
<1>6. QED  BY <1>1, <1>2, <1>3, <1>5 DEF IsMeanings, NoLateShadow

(* The walk that evaluates an expression keeps the values right.           *)
LEMMA EvalExprKeeps ==
  ASSUME EvalTypes, NoLateShadow, NEW m, IsMeanings(m), KnownRight(m), IdsRight(m), EvalExpr
  PROVE  KnownRight(m)' /\ IdsRight(m)'
<1> DEFINE p == Key
           values == Define(p)
           r == Cardinality(Known)
<1>1. /\ p \in Exprs /\ num[p] = 0 /\ design' = design
      /\ ids' = [ids EXCEPT ![p] = values]
      /\ num' = IF IsDefined(values) THEN [num EXCEPT ![p] = Evaluated(p, values)] ELSE num
  BY DEF EvalExpr
<1>2. design \in Designs  BY DEF EvalTypes
<1>3. Keys' = Keys /\ Exprs' = Exprs  BY <1>1 DEF Keys, Exprs
<1>4. \A q, x : Nearest(q, x)' = Nearest(q, x)  BY <1>3 DEF Nearest, Direct
<1>5. N \in Nat /\ r \in Nat /\ r <= N  BY <1>2, FiniteExprs, KnownSize
<1>6. /\ \A q \in Exprs : q # p => ids'[q] = ids[q] /\ num'[q] = num[q]
      /\ ids'[p] = values
      /\ num'[p] = IF IsDefined(values) THEN Evaluated(p, values) ELSE 0
  <2>1. num = [q \in Exprs |-> num[q]] /\ ids = [q \in Exprs |-> ids[q]]  BY DEF EvalTypes
  <2> HIDE DEF p, values
  <2>2. QED  BY <1>1, <2>1
<1>7. values = [i \in DOMAIN Keys[p].refs |-> values[i]]  BY DEF Define
<1> HIDE DEF p, values, r
<1>8. \A i \in DOMAIN Keys[p].refs : values[i] # 0 =>
        /\ Nearest(p, Keys[p].refs[i]) \in DOMAIN Keys \ {NoPlace}
        /\ values[i] = m[r][Nearest(p, Keys[p].refs[i])]
  BY <1>1, DefinesRight DEF values, r
<1>9. \A q \in Exprs : \A i \in DOMAIN Keys[q].refs : ids'[q][i] # 0 =>
        /\ Nearest(q, Keys[q].refs[i]) \in DOMAIN Keys \ {NoPlace}
        /\ ids'[q][i] = m[r][Nearest(q, Keys[q].refs[i])]
  <2>1. TAKE q \in Exprs
  <2>2. CASE q = p  BY <1>6, <1>8, <2>2
  <2>3. CASE q # p  BY <1>6, <2>3 DEF IdsRight, r
  <2>4. QED  BY <2>2, <2>3
<1>10. CASE num'[p] = 0 \/ Keys[p].refs = <<>>
  <2>1. Known' = Known  BY <1>1, <1>3, <1>6, <1>10 DEF Known
  <2>2. Cardinality(Known)' = r  BY <2>1 DEF r
  <2>3. num'[p] # 0 => num'[p] = m[r][p]
    <3> SUFFICES ASSUME num'[p] # 0 PROVE num'[p] = m[r][p]  OBVIOUS
    <3>1. Keys[p].refs = <<>> /\ p \in Known  BY <1>1, <1>10 DEF Known
    <3>2. DOMAIN values = {}  BY <3>1, <1>7
    <3>3. Evaluated(p, values) = Keys[p].val /\ IsDefined(values)  BY <3>2, NoneAdded
    <3>4. 1 <= r  BY <1>2, <3>1, <1>5, KnownSize DEF r
    <3>5. m[r][p] = Keys[p].val  BY <1>1, <1>2, <1>5, <3>1, <3>4, ConstantsFirst
    <3>6. QED  BY <1>6, <3>3, <3>5
  <2>4. \A q \in Exprs : num'[q] # 0 => num'[q] = m[r][q]
    BY <1>6, <2>3 DEF KnownRight, r
  <2>5. QED  BY <1>3, <1>4, <1>9, <2>2, <2>4 DEF KnownRight, IdsRight, NoPlace
<1>11. CASE num'[p] # 0 /\ Keys[p].refs # <<>>
  <2>1. Known' = Known \cup {p} /\ p \notin Known  BY <1>1, <1>3, <1>6, <1>11 DEF Known
  <2>2. IsFiniteSet(Known)  BY <1>2, KnownSize
  <2>3. Cardinality(Known \cup {p}) = r + 1  BY <2>1, <2>2, FS_AddElement DEF r
  <2>4. r + 1 <= N
    <3>1. Known \cup {p} \in SUBSET Exprs  BY <1>1 DEF Known
    <3>2. Cardinality(Known \cup {p}) <= N  BY <1>2, <3>1, FiniteExprs, FS_Subset DEF N
    <3>3. QED  BY <2>3, <3>2
  <2>5. Cardinality(Known)' = r + 1  BY <2>1, <2>3
  <2>6. \A q \in DOMAIN Keys : m[r][q] # 0 => m[r + 1][q] = m[r][q]
    BY <1>2, <1>5, <2>4, ValueStays
  <2>7. num'[p] = m[r + 1][p]
    <3> DEFINE vals == [i \in DOMAIN Keys[p].refs |-> ValueAt(Nearest(p, Keys[p].refs[i]), m[r])]
    <3>1. IsDefined(values) /\ num'[p] = Evaluated(p, values)  BY <1>6, <1>11
    <3>2. \A i \in DOMAIN Keys[p].refs : values[i] # 0  BY <1>7, <3>1 DEF IsDefined
    <3>3. ASSUME NEW i \in DOMAIN Keys[p].refs
          PROVE  ValueAt(Nearest(p, Keys[p].refs[i]), m[r]) = values[i]
      <4>1. PICK q : q = Nearest(p, Keys[p].refs[i])  OBVIOUS
      <4>2. q # NoPlace /\ values[i] = m[r][q]  BY <1>8, <3>2, <4>1
      <4>3. QED  BY <4>1, <4>2 DEF ValueAt
    <3>4. vals = values  BY <1>7, <3>3
    <3>5. Means(m[r])[p] = IF IsDefined(vals) THEN Evaluated(p, vals) ELSE 0
      BY <1>1 DEF Means, Exprs
    <3>6. r + 1 \in 1..N /\ (r + 1) - 1 = r  BY <1>5, <2>4
    <3>7. m[r + 1] = Means(m[r])  BY <3>6 DEF IsMeanings
    <3>8. QED  BY <3>1, <3>4, <3>5, <3>7
  <2>8. \A q \in Exprs : num'[q] # 0 => num'[q] = m[r + 1][q]
    <3>1. Exprs \subseteq DOMAIN Keys  BY DEF Exprs
    <3>2. \A q \in Exprs : num[q] # 0 => num[q] = m[r][q]  BY DEF KnownRight, r
    <3>3. QED  BY <1>6, <2>6, <2>7, <3>1, <3>2
  <2>9. \A q \in Exprs : \A i \in DOMAIN Keys[q].refs : ids'[q][i] # 0 =>
          /\ Nearest(q, Keys[q].refs[i]) \in DOMAIN Keys \ {NoPlace}
          /\ ids'[q][i] = m[r + 1][Nearest(q, Keys[q].refs[i])]
    BY <1>9, <2>6
  <2>10. KnownRight(m)'  BY <1>3, <2>5, <2>8 DEF KnownRight
  <2>11. IdsRight(m)'
    <3>1. PICK k : k = r + 1  OBVIOUS
    <3>2. \A q \in Exprs : \A i \in DOMAIN Keys[q].refs : ids'[q][i] # 0 =>
            /\ Nearest(q, Keys[q].refs[i]) \in DOMAIN Keys \ {NoPlace}
            /\ ids'[q][i] = m[k][Nearest(q, Keys[q].refs[i])]
      BY <2>9, <3>1
    <3>3. Cardinality(Known)' = k  BY <2>5, <3>1
    <3>4. QED  BY <1>3, <1>4, <3>2, <3>3 DEF IdsRight, NoPlace
  <2>12. QED  BY <2>10, <2>11
<1>12. QED  BY <1>10, <1>11

(* No step takes a value of another kind.                                  *)
LEMMA EvalTypesKept ==
  ASSUME EvalTypes, [Next]_vars
  PROVE  EvalTypes'
<1>1. design' = design /\ (present' = present \/ present' = DOMAIN Keys)
  BY DEF Next, vars, EvalExpr, EvalOther, EndEval, SubstString, SubstExpr,
         EndSubst, CallAgain, Finish
<1>2. Keys' = Keys /\ Exprs' = Exprs  BY <1>1 DEF Keys, Exprs
<1>3. CASE EvalExpr
  <2>1. PICK p, values : /\ p = Key /\ values = Define(p) /\ p \in Exprs
                         /\ ids' = [ids EXCEPT ![p] = values]
    BY <1>3 DEF EvalExpr
  <2>2. values = [i \in DOMAIN Keys[p].refs |-> values[i]]  BY <2>1 DEF Define
  <2>3. ids' = [q \in Exprs |-> ids'[q]] /\ ids'[p] = values
        /\ \A q \in Exprs : q # p => ids'[q] = ids[q]
    BY <2>1 DEF EvalTypes
  <2>4. \A q \in Exprs : ids'[q] = [i \in DOMAIN Keys[q].refs |-> ids'[q][i]]
    <3>1. TAKE q \in Exprs
    <3>2. CASE q = p  BY <2>2, <2>3, <3>2
    <3>3. CASE q # p  BY <2>3, <3>3 DEF EvalTypes
    <3>4. QED  BY <3>2, <3>3
  <2>5. num' = [q \in Exprs |-> num'[q]]  BY <1>3 DEF EvalExpr, EvalTypes
  <2>6. QED  BY <1>1, <1>2, <2>3, <2>4, <2>5 DEF EvalTypes
<1>4. CASE ~EvalExpr
  <2>1. ids' = ids /\ num' = num
    BY <1>4 DEF Next, vars, EvalOther, EndEval, SubstString, SubstExpr, EndSubst,
           CallAgain, Finish
  <2>2. QED  BY <1>1, <1>2, <2>1 DEF EvalTypes
<1>5. QED  BY <1>3, <1>4

(* Every step keeps the values right.                                      *)
LEMMA EvalInvKept ==
  ASSUME EvalInv, [Next]_vars
  PROVE  EvalInv'
<1>1. EvalTypes'  BY EvalTypesKept DEF EvalInv
<1>2. design' = design
  BY DEF Next, vars, EvalExpr, EvalOther, EndEval, SubstString, SubstExpr,
         EndSubst, CallAgain, Finish
<1>3. PICK m : IsMeanings(m) /\ (NoLateShadow => KnownRight(m) /\ IdsRight(m))
  BY DEF EvalInv
<1>4. IsMeanings(m)' /\ NoLateShadow' = NoLateShadow  BY <1>2, <1>3, SameMeanings
<1>5. ASSUME NoLateShadow PROVE KnownRight(m)' /\ IdsRight(m)'
  <2>1. CASE EvalExpr  BY <1>3, <1>5, <2>1, EvalExprKeeps DEF EvalInv
  <2>2. CASE ~EvalExpr
    <3>1. ids' = ids /\ num' = num
      BY <2>2 DEF Next, vars, EvalOther, EndEval, SubstString, SubstExpr, EndSubst,
             CallAgain, Finish
    <3>2. Keys' = Keys /\ Exprs' = Exprs  BY <1>2 DEF Keys, Exprs
    <3>3. \A q, x : Nearest(q, x)' = Nearest(q, x)  BY <3>2 DEF Nearest, Direct
    <3>4. Known' = Known  BY <3>1, <3>2 DEF Known
    <3>5. Cardinality(Known)' = Cardinality(Known)  BY <3>4
    <3>6. KnownRight(m) /\ IdsRight(m)  BY <1>3, <1>5
    <3>7. KnownRight(m)'  BY <3>1, <3>2, <3>5, <3>6 DEF KnownRight
    <3>8. PICK k : k = Cardinality(Known) /\ k = Cardinality(Known)'  BY <3>5
    <3>9. \A q \in Exprs : \A i \in DOMAIN Keys[q].refs : ids'[q][i] # 0 =>
            /\ Nearest(q, Keys[q].refs[i]) \in DOMAIN Keys \ {NoPlace}
            /\ ids'[q][i] = m[k][Nearest(q, Keys[q].refs[i])]
      BY <3>1, <3>6, <3>8 DEF IdsRight
    <3>10. Cardinality(Known)' = k  BY <3>8
    <3>11. IdsRight(m)'  BY <3>2, <3>3, <3>9, <3>10 DEF IdsRight, NoPlace
    <3>12. QED  BY <3>7, <3>11
  <2>3. QED  BY <2>1, <2>2
<1>6. QED  BY <1>1, <1>4, <1>5 DEF EvalInv

(* At first nothing but the constants has a value.                         *)
LEMMA EvalInvInit ==
  ASSUME Init
  PROVE  EvalInv
<1>1. design \in Designs  BY DEF Init
<1>2. EvalTypes  BY DEF Init, EvalTypes
<1>3. PICK m : IsMeanings(m)  BY <1>1, FiniteExprs, RoundsExist
<1>4. KnownRight(m) /\ IdsRight(m)  BY DEF Init, KnownRight, IdsRight
<1>5. QED  BY <1>2, <1>3, <1>4 DEF EvalInv

(* The values of the invariant are those that are meant.                   *)
LEMMA EvalInvRight ==
  ASSUME EvalInv, NoLateShadow
  PROVE  EvaluatedRight
<1>1. PICK m : IsMeanings(m) /\ KnownRight(m)  BY DEF EvalInv
<1>2. design \in Designs  BY DEF EvalInv, EvalTypes
<1>3. Meaning = m[N]  BY <1>1, <1>2, MeaningIs
<1>4. PICK r : r = Cardinality(Known)  OBVIOUS
<1>5. N \in Nat /\ r \in Nat /\ r <= N  BY <1>2, <1>4, FiniteExprs, KnownSize
<1>6. SUFFICES ASSUME NEW p \in Exprs, num[p] # 0 PROVE num[p] = m[N][p]
  BY <1>3 DEF EvaluatedRight
<1>7. num[p] = m[r][p] /\ p \in DOMAIN Keys  BY <1>1, <1>4, <1>6 DEF KnownRight, Exprs
<1>8. m[r][p] # 0  BY <1>6, <1>7
<1>9. m[N][p] = m[r][p]  BY <1>1, <1>2, <1>5, <1>7, <1>8, ValueKept
<1>10. QED  BY <1>7, <1>9

(* A value that an expression has is what it means in the finished         *)
(* database, whatever was evaluated first and however often reeval() is    *)
(* called, provided that no key added in between hides one of the top.     *)
THEOREM ExpressionsRight == Spec => [](NoLateShadow => EvaluatedRight)
<1>1. Init => EvalInv  BY EvalInvInit
<1>2. EvalInv /\ [Next]_vars => EvalInv'  BY EvalInvKept
<1>3. EvalInv => (NoLateShadow => EvaluatedRight)  BY EvalInvRight
<1>4. QED  BY <1>1, <1>2, <1>3, PTL DEF Spec

-----------------------------------------------------------------------------
(* The most rounds in which the texts of the strings are filled in.        *)
M == Cardinality(Strings)

(* The texts after each round of filling in, where the numbers have the    *)
(* values v; and what a reference stands for, with the texts t.            *)
IsReadings(s, v) ==
  /\ DOMAIN s = 0..M
  /\ s[0] = [p \in Strings |-> Keys[p].refs]
  /\ \A n \in 1..M : s[n] = Reads(s[n - 1], v)

Part(p, i, t, v) ==
  LET r == Keys[p].refs[i]
      q == IF Ref(r) THEN Nearest(p, r) ELSE NoPlace
  IN  IF q = NoPlace THEN <<r>> ELSE Piece(q, r, t, v)
Parts(p, t, v) == [i \in DOMAIN Keys[p].refs |-> Part(p, i, t, v)]

NoRefs(x) == ~\E y \in Range(x) : Ref(y)
Items(v) == (UNION {Range(Keys[p].refs) : p \in Strings}) \cup {Text(v[q]) : q \in DOMAIN Keys}
Texts(v) == [Strings -> Seq(Items(v))]

(* Reading is the last of these rounds.                                    *)
LEMMA ReadingExists ==
  ASSUME M \in Nat
  PROVE  \E s : IsReadings(s, Meaning) /\ Reading = s[M]
<1> DEFINE refs == [p \in Strings |-> Keys[p].refs]
           P(f) == f = [n \in 0..M |-> IF n = 0 THEN refs ELSE Reads(f[n - 1], Meaning)]
           h == CHOOSE f : P(f)
           Q(f, k) == /\ f = [n \in 0..k |-> f[n]]
                      /\ f[0] = refs /\ \A n \in 1..k : f[n] = Reads(f[n - 1], Meaning)
           S == {k \in Nat : \E f : Q(f, k)}
<1> HIDE DEF refs
<1>1. 0 \in S
  <2> DEFINE f == [n \in 0..0 |-> refs]
  <2>1. f = [n \in 0..0 |-> f[n]] /\ f[0] = refs /\ 1..0 = {}  OBVIOUS
  <2> HIDE DEF f
  <2>2. QED  BY <2>1
<1>2. ASSUME NEW k \in Nat, k \in S PROVE k + 1 \in S
  <2>1. PICK f : Q(f, k)  BY <1>2
  <2> DEFINE w == Reads(f[k], Meaning)
             g == [n \in 0..(k + 1) |-> IF n = k + 1 THEN w ELSE f[n]]
  <2> HIDE DEF w
  <2>2. g = [n \in 0..(k + 1) |-> g[n]] /\ g[0] = refs  BY <2>1
  <2>3. ASSUME NEW n \in 1..(k + 1) PROVE g[n] = Reads(g[n - 1], Meaning)
    <3>1. n - 1 \in 0..k /\ n \in 0..(k + 1) /\ n - 1 \in 0..(k + 1) /\ n - 1 # k + 1
      OBVIOUS
    <3>2. g[n - 1] = f[n - 1]  BY <3>1
    <3>3. CASE n = k + 1
      <4>1. g[n] = w /\ n - 1 = k  BY <3>1, <3>3
      <4>2. QED  BY <4>1, <3>2 DEF w
    <3>4. CASE n # k + 1
      <4>1. n \in 1..k /\ g[n] = f[n]  BY <3>1, <3>4
      <4>2. QED  BY <4>1, <3>2, <2>1
    <3>5. QED  BY <3>3, <3>4
  <2> HIDE DEF g
  <2>4. Q(g, k + 1)  BY <2>2, <2>3
  <2> HIDE DEF Q
  <2>5. QED  BY <2>4
<1> HIDE DEF S
<1>3. M \in S  BY <1>1, <1>2, NatSetInduction
<1>4. PICK f : Q(f, M)  BY <1>3 DEF S
<1>5. P(f)
  <2>1. \A n \in 0..M : n # 0 => n \in 1..M  OBVIOUS
  <2>2. \A n \in 0..M : f[n] = IF n = 0 THEN refs ELSE Reads(f[n - 1], Meaning)
    BY <1>4, <2>1
  <2> HIDE DEF P
  <2>3. f = [n \in 0..M |-> f[n]]  BY <1>4
  <2>4. QED  BY <2>2, <2>3 DEF P
<1>6. P(h)
  <2> HIDE DEF P
  <2>1. QED  BY <1>5
<1>7. Reading = h[M]  BY DEF Reading, M, refs
<1>8. IsReadings(h, Meaning)
  <2> HIDE DEF h
  <2>1. DOMAIN h = 0..M /\ \A n \in 0..M : h[n] = IF n = 0 THEN refs ELSE Reads(h[n - 1], Meaning)
    BY <1>6
  <2>2. 0 \in 0..M /\ \A n \in 1..M : n \in 0..M /\ n # 0  OBVIOUS
  <2>3. QED  BY <2>1, <2>2 DEF IsReadings, refs
<1>9. QED  BY <1>7, <1>8

(* The rounds are as many as the strings of the database.                  *)
LEMMA FiniteStrings ==
  ASSUME design \in Designs
  PROVE  IsFiniteSet(Strings) /\ M \in Nat
<1>1. IsFiniteSet(DOMAIN Keys)  BY DesignAssumption DEF Keys
<1>2. Strings \in SUBSET DOMAIN Keys  BY DEF Strings
<1>3. QED  BY <1>1, <1>2, FS_Subset, FS_CardinalityType DEF M

(* What the strings of a design read as is the last round.                 *)
LEMMA ReadingIs ==
  ASSUME design \in Designs, NEW s, IsReadings(s, Meaning)
  PROVE  Reading = s[M]
<1>1. M \in Nat  BY FiniteStrings
<1>2. PICK t : IsReadings(t, Meaning) /\ Reading = t[M]  BY <1>1, ReadingExists
<1>3. \A n \in Nat : n <= M => s[n] = t[n]
  <2> DEFINE S == {n \in Nat : n <= M => s[n] = t[n]}
  <2>1. 0 \in S  BY <1>2 DEF IsReadings
  <2>2. ASSUME NEW n \in Nat, n \in S PROVE n + 1 \in S
    <3> SUFFICES ASSUME n + 1 <= M PROVE s[n + 1] = t[n + 1]  OBVIOUS
    <3>1. n + 1 \in 1..M /\ (n + 1) - 1 = n /\ s[n] = t[n]  BY <1>1, <2>2
    <3>2. QED  BY <1>2, <3>1 DEF IsReadings
  <2> HIDE DEF S
  <2>3. Nat \subseteq S  BY <2>1, <2>2, NatSetInduction
  <2>4. QED  BY <2>3 DEF S
<1>4. QED  BY <1>1, <1>2, <1>3

(* The references of a string, and what may stand in a text.               *)
LEMMA RefsAre ==
  ASSUME design \in Designs, NEW v, NEW p \in Strings
  PROVE  /\ Keys[p].refs \in Seq(Items(v))
         /\ \A i \in DOMAIN Keys[p].refs :
              Keys[p].refs[i] \in Items(v) /\ (Ref(Keys[p].refs[i]) \/ Keys[p].refs[i].scope = "text")
<1>1. p \in DOMAIN Keys  BY DEF Strings
<1>2. PICK q : q = Keys[p].refs  OBVIOUS
<1>3. q \in Seq(Range(q)) /\ \A i \in DOMAIN q : Ref(q[i]) \/ q[i].scope = "text"
  BY <1>1, <1>2, DesignAssumption DEF Keys
<1>4. Range(q) \subseteq Items(v)  BY <1>2 DEF Items
<1>5. q \in Seq(Items(v))  BY <1>3, <1>4, SeqMonotonic
<1>6. \A i \in DOMAIN q : q[i] \in Items(v)  BY <1>4 DEF Range
<1>7. QED  BY <1>2, <1>3, <1>5, <1>6

(* A value as text is among them.                                          *)
LEMMA ItemsAre ==
  ASSUME design \in Designs, NEW v, NEW x \in Items(v)
  PROVE  Ref(x) \/ x.scope = "text"
<1>1. CASE \E q \in DOMAIN Keys : x = Text(v[q])
  <2>1. \A y : Text(y).scope = "text"  BY DEF Text
  <2>2. QED  BY <1>1, <2>1
<1>2. CASE \E p \in Strings : x \in Range(Keys[p].refs)
  <2>1. PICK p \in Strings : x \in Range(Keys[p].refs)  BY <1>2
  <2>2. PICK i \in DOMAIN Keys[p].refs : x = Keys[p].refs[i]  BY <2>1 DEF Range
  <2>3. QED  BY <2>2, RefsAre
<1>3. QED  BY <1>1, <1>2 DEF Items

(* A value as text refers to nothing.                                      *)
LEMMA TextIsNoRef ==
  ASSUME NEW x, x.scope = "text"
  PROVE  ~Ref(x)
BY DEF Ref

(* A text of one item.                                                     *)
LEMMA OneRef ==
  ASSUME NEW x
  PROVE  NoRefs(<<x>>) <=> ~Ref(x)
<1>1. Range(<<x>>) = {x}  BY DEF Range
<1>2. QED  BY <1>1 DEF NoRefs

(* What a reference stands for is a text.                                  *)
LEMMA PartType ==
  ASSUME design \in Designs, NEW v, NEW t \in Texts(v), NEW p \in Strings, NEW i \in DOMAIN Keys[p].refs
  PROVE  Part(p, i, t, v) \in Seq(Items(v))
<1>1. PICK r : r = Keys[p].refs[i]  OBVIOUS
<1>2. r \in Items(v)  BY <1>1, RefsAre
<1>3. <<r>> \in Seq(Items(v))  BY <1>2
<1>4. PICK q : q = IF Ref(r) THEN Nearest(p, r) ELSE NoPlace  OBVIOUS
<1>5. q \in DOMAIN Keys \cup {NoPlace}  BY <1>4, NearestFound
<1>6. Part(p, i, t, v) = IF q = NoPlace THEN <<r>> ELSE Piece(q, r, t, v)
  BY <1>1, <1>4 DEF Part
<1>7. CASE q = NoPlace  BY <1>3, <1>6, <1>7
<1>8. CASE q # NoPlace
  <2>1. q \in DOMAIN Keys  BY <1>5, <1>8
  <2>2. CASE Keys[q].kind # "str"
    <3>1. Text(v[q]) \in Items(v)  BY <2>1 DEF Items
    <3>2. <<Text(v[q])>> \in Seq(Items(v))  BY <3>1
    <3>3. QED  BY <1>3, <1>6, <1>8, <2>2, <3>2 DEF Piece
  <2>3. CASE Keys[q].kind = "str"
    <3>1. q \in Strings  BY <2>1, <2>3 DEF Strings
    <3>2. t[q] \in Seq(Items(v))  BY <3>1 DEF Texts
    <3>3. QED  BY <1>3, <1>6, <1>8, <2>3, <3>2 DEF Piece
  <2>4. QED  BY <2>2, <2>3
<1>9. QED  BY <1>7, <1>8

(* ... and a text is made of them.                                         *)
LEMMA PartsType ==
  ASSUME design \in Designs, NEW v, NEW t \in Texts(v), NEW p \in Strings
  PROVE  /\ Parts(p, t, v) \in Seq(Seq(Items(v))) /\ Len(Parts(p, t, v)) = Len(Keys[p].refs)
         /\ Reads(t, v)[p] = FlattenSeq(Parts(p, t, v))
<1>1. Keys[p].refs \in Seq(Items(v))  BY RefsAre
<1>2. PICK L \in Nat : L = Len(Keys[p].refs) /\ DOMAIN Keys[p].refs = 1..L  BY <1>1
<1>3. \A i \in 1..L : Part(p, i, t, v) \in Seq(Items(v))  BY <1>2, PartType
<1>4. PICK f : f = Parts(p, t, v)  OBVIOUS
<1>5. f \in [1..L -> Seq(Items(v))]  BY <1>2, <1>3, <1>4 DEF Parts
<1>6. f \in Seq(Seq(Items(v))) /\ Len(f) = L  BY <1>5
<1>7. Reads(t, v)[p] = FlattenSeq(f)  BY <1>4 DEF Reads, Parts, Part
<1>8. QED  BY <1>2, <1>4, <1>6, <1>7

(* Every round has a text for each string.                                 *)
LEMMA ReadingsType ==
  ASSUME design \in Designs, NEW v, NEW s, IsReadings(s, v), NEW n \in Nat, n <= M
  PROVE  s[n] \in Texts(v)
<1> DEFINE S == {k \in Nat : k <= M => s[k] \in Texts(v)}
<1>0. M \in Nat  BY FiniteStrings
<1>1. 0 \in S
  <2>1. \A p \in Strings : Keys[p].refs \in Seq(Items(v))  BY RefsAre
  <2>2. s[0] \in Texts(v)  BY <2>1 DEF IsReadings, Texts
  <2>3. QED  BY <2>2
<1>2. ASSUME NEW k \in Nat, k \in S PROVE k + 1 \in S
  <2> SUFFICES ASSUME k + 1 <= M PROVE s[k + 1] \in Texts(v)  OBVIOUS
  <2>1. k + 1 \in 1..M /\ (k + 1) - 1 = k /\ s[k] \in Texts(v)  BY <1>0, <1>2
  <2>2. s[k + 1] = Reads(s[k], v)  BY <2>1 DEF IsReadings
  <2>3. PICK t \in Texts(v) : t = s[k]  BY <2>1
  <2>4. ASSUME NEW p \in Strings PROVE Reads(t, v)[p] \in Seq(Items(v))
    <3>1. Parts(p, t, v) \in Seq(Seq(Items(v))) /\ Reads(t, v)[p] = FlattenSeq(Parts(p, t, v))
      BY PartsType
    <3>2. QED  BY <3>1, FlattenType
  <2>5. Reads(t, v) = [p \in Strings |-> Reads(t, v)[p]]  BY DEF Reads
  <2>6. Reads(t, v) \in Texts(v)  BY <2>4, <2>5 DEF Texts
  <2>7. QED  BY <2>2, <2>3, <2>6
<1> HIDE DEF S
<1>3. n \in S  BY <1>1, <1>2, NatSetInduction
<1>4. QED  BY <1>3 DEF S

(* What a reference stands for stays once it is without references.        *)
LEMMA PartStays ==
  ASSUME design \in Designs, NEW v, NEW t, NEW u,
         \A q \in Strings : NoRefs(t[q]) => u[q] = t[q],
         NEW p \in Strings, NEW i \in DOMAIN Keys[p].refs, NoRefs(Part(p, i, t, v))
  PROVE  Part(p, i, u, v) = Part(p, i, t, v)
<1>1. PICK r : r = Keys[p].refs[i]  OBVIOUS
<1>2. PICK q : q = IF Ref(r) THEN Nearest(p, r) ELSE NoPlace  OBVIOUS
<1>3. q \in DOMAIN Keys \cup {NoPlace}  BY <1>2, NearestFound
<1>4. \A w : Part(p, i, w, v) = IF q = NoPlace THEN <<r>> ELSE Piece(q, r, w, v)
  BY <1>1, <1>2 DEF Part
<1>5. CASE q = NoPlace \/ Keys[q].kind # "str"  BY <1>4, <1>5 DEF Piece
<1>6. CASE q # NoPlace /\ Keys[q].kind = "str"
  <2>1. q \in Strings /\ Ref(r)  BY <1>2, <1>3, <1>6 DEF Strings
  <2>2. \A w : Part(p, i, w, v) = IF NoRefs(w[q]) THEN w[q] ELSE <<r>>
    BY <1>4, <1>6 DEF Piece, NoRefs
  <2>3. NoRefs(t[q])  BY <2>1, <2>2, OneRef
  <2>4. QED  BY <2>1, <2>2, <2>3
<1>7. QED  BY <1>5, <1>6

(* The pieces of a text without references have none either.               *)
LEMMA PiecesNoRefs ==
  ASSUME NEW T, NEW g \in Seq(Seq(T)), NoRefs(FlattenSeq(g)), NEW i \in DOMAIN g
  PROVE  NoRefs(g[i])
<1>1. Range(FlattenSeq(g)) = UNION {Range(g[j]) : j \in DOMAIN g}  BY FlattenRange
<1>2. Range(g[i]) \subseteq Range(FlattenSeq(g))  BY <1>1
<1>3. QED  BY <1>2 DEF NoRefs

(* A text without references is that of every later round.                 *)
LEMMA ReadStays ==
  ASSUME design \in Designs, NEW v, NEW s, IsReadings(s, v), NEW n \in Nat, n + 1 <= M
  PROVE  \A p \in Strings : NoRefs(s[n][p]) => s[n + 1][p] = s[n][p]
<1> DEFINE Q(k) == \A p \in Strings : NoRefs(s[k][p]) => s[k + 1][p] = s[k][p]
           S == {k \in Nat : k + 1 <= M => Q(k)}
<1>0. M \in Nat /\ \A k \in Nat : k <= M => s[k] \in Texts(v)
  BY FiniteStrings, ReadingsType
<1>1. 0 \in S
  <2> SUFFICES ASSUME 1 <= M, NEW p \in Strings, NoRefs(s[0][p]) PROVE s[1][p] = s[0][p]
    OBVIOUS
  <2>1. s[0][p] = Keys[p].refs /\ s[1] = Reads(s[0], v) /\ s[0] \in Texts(v)
    BY <1>0 DEF IsReadings
  <2>2. PICK q \in Seq(Items(v)) : q = Keys[p].refs  BY RefsAre
  <2>3. Reads(s[0], v)[p] = FlattenSeq(Parts(p, s[0], v))  BY <2>1, PartsType
  <2>4. ASSUME NEW i \in DOMAIN q PROVE Part(p, i, s[0], v) = <<q[i]>>
    <3>1. ~Ref(q[i])  BY <2>1, <2>2 DEF NoRefs, Range
    <3>2. QED  BY <2>2, <3>1 DEF Part
  <2>5. Parts(p, s[0], v) = [i \in DOMAIN q |-> <<q[i]>>]  BY <2>2, <2>4 DEF Parts
  <2>6. FlattenSeq([i \in DOMAIN q |-> <<q[i]>>]) = q  BY FlattenOnes
  <2>7. QED  BY <2>1, <2>2, <2>3, <2>5, <2>6
<1>2. ASSUME NEW k \in Nat, k \in S PROVE k + 1 \in S
  <2> SUFFICES ASSUME k + 2 <= M, NEW p \in Strings, NoRefs(s[k + 1][p])
               PROVE  s[k + 2][p] = s[k + 1][p]
    OBVIOUS
  <2>1. Q(k)  BY <1>0, <1>2
  <2>2. k + 1 \in 1..M /\ k + 2 \in 1..M /\ (k + 1) - 1 = k /\ (k + 2) - 1 = k + 1
    BY <1>0
  <2>3. PICK t, u : t = s[k] /\ u = s[k + 1]  OBVIOUS
  <2>4. u = Reads(t, v) /\ s[k + 2] = Reads(u, v) /\ t \in Texts(v) /\ u \in Texts(v)
    BY <1>0, <2>2, <2>3 DEF IsReadings
  <2>5. /\ Parts(p, t, v) \in Seq(Seq(Items(v)))
        /\ u[p] = FlattenSeq(Parts(p, t, v)) /\ s[k + 2][p] = FlattenSeq(Parts(p, u, v))
    BY <2>4, PartsType
  <2>6. DOMAIN Parts(p, t, v) = DOMAIN Keys[p].refs
        /\ \A i \in DOMAIN Keys[p].refs : Parts(p, t, v)[i] = Part(p, i, t, v)
    BY DEF Parts
  <2>7. \A i \in DOMAIN Keys[p].refs : NoRefs(Part(p, i, t, v))
    BY <2>3, <2>5, <2>6, PiecesNoRefs
  <2>8. \A q \in Strings : NoRefs(t[q]) => u[q] = t[q]  BY <2>1, <2>3
  <2>9. \A i \in DOMAIN Keys[p].refs : Part(p, i, u, v) = Part(p, i, t, v)
    BY <2>7, <2>8, PartStays
  <2>10. Parts(p, u, v) = Parts(p, t, v)  BY <2>9 DEF Parts
  <2>11. QED  BY <2>3, <2>5, <2>10
<1> HIDE DEF S
<1>3. n \in S  BY <1>1, <1>2, NatSetInduction
<1>4. QED  BY <1>3 DEF S

(* ... whatever the number of rounds that follow.                          *)
LEMMA ReadKept ==
  ASSUME design \in Designs, NEW v, NEW s, IsReadings(s, v),
         NEW n \in Nat, NEW k \in Nat, n <= k, k <= M, NEW p \in Strings, NoRefs(s[n][p])
  PROVE  s[k][p] = s[n][p]
<1> DEFINE S == {d \in Nat : n + d <= M => s[n + d][p] = s[n][p]}
<1>0. M \in Nat  BY FiniteStrings
<1>1. 0 \in S  OBVIOUS
<1>2. ASSUME NEW d \in Nat, d \in S PROVE d + 1 \in S
  <2> SUFFICES ASSUME n + (d + 1) <= M PROVE s[n + (d + 1)][p] = s[n][p]  OBVIOUS
  <2>1. PICK e \in Nat : e = n + d  OBVIOUS
  <2>2. e + 1 <= M /\ n + (d + 1) = e + 1 /\ s[e][p] = s[n][p]  BY <1>0, <1>2, <2>1
  <2>3. NoRefs(s[e][p])  BY <2>2
  <2>4. s[e + 1][p] = s[e][p]  BY <2>2, <2>3, ReadStays
  <2>5. QED  BY <2>2, <2>4
<1> HIDE DEF S
<1>3. Nat \subseteq S  BY <1>1, <1>2, NatSetInduction
<1>4. PICK d \in Nat : n + d = k  BY k - n \in Nat
<1>5. d \in S  BY <1>3
<1>6. QED  BY <1>4, <1>5 DEF S

(* No key that comes late to the top level hides one of a component that   *)
(* was there before it.                                                    *)
NoLateTop ==
  \A q \in design.late : q[1] = 0 =>
    \A c : c # 0 => <<c, q[2]>> \notin DOMAIN Keys \ design.late

(* What a string looks up is what is nearest to it.                        *)
LEMMA StringFindsNearest ==
  ASSUME design \in Designs, NoLateShadow, NoLateTop,
         present = DOMAIN Keys \ design.late \/ present = DOMAIN Keys,
         NEW p \in Strings, NEW r \in Range(Keys[p].refs), Ref(r), Lookup(p, r) # NoPlace
  PROVE  Lookup(p, r) = Nearest(p, r) /\ Lookup(p, r) \in DOMAIN Keys
<1>1. CASE Here(p) = p[1]  BY <1>1, FindsNearest
<1>2. CASE Here(p) # p[1]
  <2>1. Here(p) = 0 /\ present \subseteq DOMAIN Keys  BY <1>2 DEF Here
  <2>2. PICK n, E : n = r.name /\ E = DOMAIN Keys  OBVIOUS
  <2>3. \A a : First(<<a>>, n, present) = IF <<a, n>> \in present THEN <<a, n>> ELSE NoPlace
    BY FirstOfOne
  <2>4. \A a : First(<<a>>, n, E) = IF <<a, n>> \in E THEN <<a, n>> ELSE NoPlace
    BY FirstOfOne
  <2>5. Direct(p)  BY <1>2 DEF Here, Direct
  <2>6. CASE r.scope = "plain"
    <3>1. Scopes(p, r) = <<0, p[1], 0>>  BY <2>1, <2>6 DEF Scopes
    <3>2. Lookup(p, r) = IF <<0, n>> \in present THEN <<0, n>>
                         ELSE IF <<p[1], n>> \in present THEN <<p[1], n>>
                         ELSE IF <<0, n>> \in present THEN <<0, n>> ELSE NoPlace
      BY <2>2, <3>1, FirstOfThree DEF Lookup
    <3>3. Nearest(p, r) = IF <<0, n>> \in E THEN <<0, n>>
                          ELSE IF <<p[1], n>> \in E THEN <<p[1], n>> ELSE NoPlace
      <4>1. Nearest(p, r) = First(<<0, p[1]>>, n, E)  BY <2>2, <2>5, <2>6, NearestIs
      <4>2. First(<<0, p[1]>>, n, E) = IF <<0, n>> \in E THEN <<0, n>>
                                       ELSE IF <<p[1], n>> \in E THEN <<p[1], n>> ELSE NoPlace
        BY FirstOfTwo
      <4>3. QED  BY <4>1, <4>2
    <3>4. ASSUME <<0, n>> \notin present, <<p[1], n>> \in present, <<0, n>> \in E
          PROVE  FALSE
      <4>1. <<0, n>> \in design.late /\ <<p[1], n>> \in E \ design.late  BY <2>2, <3>4
      <4>2. PICK q : q = <<0, n>>  OBVIOUS
      <4>3. q \in design.late /\ q[1] = 0 /\ <<p[1], q[2]>> \in E \ design.late
        BY <4>1, <4>2
      <4>4. PICK c : c = p[1] /\ c # 0  BY <1>2, <2>1
      <4>5. QED  BY <2>2, <4>3, <4>4 DEF NoLateTop
    <3>5. QED  BY <2>1, <2>2, <3>2, <3>3, <3>4
  <2>7. CASE r.scope = "this"
    <3>1. Scopes(p, r) = <<0>>  BY <2>1, <2>7 DEF Scopes
    <3>2. Lookup(p, r) = First(<<0>>, n, present)  BY <2>2, <3>1 DEF Lookup
    <3>3. Nearest(p, r) = First(<<0>>, n, E)  BY <2>2, <2>5, <2>7, NearestIs
    <3>4. QED  BY <2>1, <2>2, <2>3, <2>4, <3>2, <3>3
  <2>8. CASE r.scope = "top"
    <3>1. Scopes(p, r) = <<0>>  BY <2>8 DEF Scopes
    <3>2. Lookup(p, r) = First(<<0>>, n, present)  BY <2>2, <3>1 DEF Lookup
    <3>3. Nearest(p, r) = First(<<0>>, n, E)  BY <2>2, <2>8, NearestIs
    <3>4. QED  BY <2>1, <2>2, <2>3, <2>4, <3>2, <3>3
  <2>9. CASE r.scope = "in"
    <3>1. Scopes(p, r) = <<r.comp>>  BY <2>9 DEF Scopes
    <3>2. Lookup(p, r) = First(<<r.comp>>, n, present)  BY <2>2, <3>1 DEF Lookup
    <3>3. Nearest(p, r) = First(<<r.comp>>, n, E)  BY <2>2, <2>9, NearestIs
    <3>4. QED  BY <2>1, <2>2, <2>3, <2>4, <3>2, <3>3
  <2>10. QED  BY <2>6, <2>7, <2>8, <2>9 DEF Ref
<1>3. QED  BY <1>1, <1>2

(* What is looked up is a key.                                             *)
LEMMA LookupFound ==
  ASSUME NEW p, NEW r, Ref(r), present \subseteq DOMAIN Keys
  PROVE  Lookup(p, r) \in DOMAIN Keys \cup {NoPlace}
<1>1. PICK s : s = Scopes(p, r) /\ Len(s) \in Nat
  <2>1. /\ Len(<<Here(p), p[1], 0>>) \in Nat /\ Len(<<Here(p)>>) \in Nat
        /\ Len(<<0>>) \in Nat /\ Len(<<r.comp>>) \in Nat
    OBVIOUS
  <2>2. r.scope \in {"plain", "this", "top", "in"}  BY DEF Ref
  <2>3. Len(Scopes(p, r)) \in Nat  BY <2>1, <2>2 DEF Scopes
  <2>4. QED  BY <2>3
<1>2. First(s, r.name, present) \in present \cup {NoPlace}  BY <1>1, FirstFound
<1>3. QED  BY <1>1, <1>2 DEF Lookup

(* A value that a key has is the one it means.                             *)
LEMMA NumIsMeaning ==
  ASSUME EvalInv, NoLateShadow, NEW q \in DOMAIN Keys, NumOf(q) # 0
  PROVE  NumOf(q) = Meaning[q] /\ Keys[q].kind # "str"
<1>1. PICK m : IsMeanings(m) /\ KnownRight(m)  BY DEF EvalInv
<1>2. design \in Designs  BY DEF EvalInv, EvalTypes
<1>3. Meaning = m[N]  BY <1>1, <1>2, MeaningIs
<1>4. PICK r : r = Cardinality(Known)  OBVIOUS
<1>5. N \in Nat /\ r \in Nat /\ r <= N  BY <1>2, <1>4, FiniteExprs, KnownSize
<1>6. PICK x : x = NumOf(q)  OBVIOUS
<1>7. x = m[r][q] /\ Keys[q].kind # "str"  BY <1>1, <1>4, <1>6, NumRight DEF EvalInv
<1>8. m[r][q] # 0  BY <1>6, <1>7
<1>9. m[N][q] = m[r][q]  BY <1>1, <1>2, <1>5, <1>8, ValueKept
<1>10. QED  BY <1>3, <1>6, <1>7, <1>9

(* The strings that are filled in.  The text of a string is made of pieces *)
(* one for each reference: the reference still, or what it stands for.     *)
Full == {p \in Strings : NoRefs(text[p])}

Good(p, i, x, t, v) == x = <<Keys[p].refs[i]>> \/ (NoRefs(x) /\ x = Part(p, i, t, v))

MadeOf(p, g, t, v) ==
  /\ g \in Seq(Seq(Items(v))) /\ Len(g) = Len(Keys[p].refs)
  /\ text[p] = FlattenSeq(g)
  /\ \A i \in DOMAIN Keys[p].refs : Good(p, i, g[i], t, v)

TextRight(s, v) ==
  /\ \A p \in Strings : \E g : MadeOf(p, g, s[Cardinality(Full)], v)
  /\ \A p \in Full : text[p] = s[Cardinality(Full)][p]

(* One more text is without references: they were fewer than the rounds.   *)
LEMMA FullSize ==
  ASSUME design \in Designs
  PROVE  /\ IsFiniteSet(Full) /\ Cardinality(Full) \in Nat /\ Cardinality(Full) <= M
         /\ \A p \in Strings : p \notin Full =>
              Cardinality(Full \cup {p}) = Cardinality(Full) + 1 /\ Cardinality(Full) + 1 <= M
<1>1. Full \in SUBSET Strings  BY DEF Full
<1>2. IsFiniteSet(Full) /\ Cardinality(Full) <= M
  BY <1>1, FiniteStrings, FS_Subset DEF M
<1>3. Cardinality(Full) \in Nat  BY <1>2, FS_CardinalityType
<1>4. ASSUME NEW p \in Strings, p \notin Full
      PROVE  Cardinality(Full \cup {p}) = Cardinality(Full) + 1 /\ Cardinality(Full) + 1 <= M
  <2>1. Cardinality(Full \cup {p}) = Cardinality(Full) + 1  BY <1>2, <1>4, FS_AddElement
  <2>2. Full \cup {p} \in SUBSET Strings  BY <1>1
  <2>3. Cardinality(Full \cup {p}) <= M  BY <2>2, FiniteStrings, FS_Subset DEF M
  <2>4. QED  BY <2>1, <2>3
<1>5. QED  BY <1>2, <1>3, <1>4

(* What is put in the place of a reference is what it stands for.          *)
LEMMA ReplacementRight ==
  ASSUME EvalInv, NoLateShadow, NoLateTop, NEW s, NEW v, v = Meaning,
         \A q \in Full : text[q] = s[q],
         NEW p \in Strings, NEW i \in DOMAIN Keys[p].refs
  PROVE  Good(p, i, Replacement(p, Keys[p].refs[i]), s, v)
<1> DEFINE r == Keys[p].refs[i]
           x == Replacement(p, r)
<1>0. design \in Designs /\ (present = DOMAIN Keys \ design.late \/ present = DOMAIN Keys)
  BY DEF EvalInv, EvalTypes
<1>1. r \in Range(Keys[p].refs) /\ (Ref(r) \/ r.scope = "text")
  BY <1>0, RefsAre DEF Range
<1>2. CASE r.scope = "text"
  <2>1. x = <<r>>  BY <1>2 DEF Replacement
  <2>2. QED  BY <2>1 DEF Good
<1>3. CASE Ref(r)
  <2>1. r.scope # "text"  BY <1>3, TextIsNoRef
  <2>2. PICK q : q = Lookup(p, r)  OBVIOUS
  <2>3. x = IF q # NoPlace /\ Keys[q].kind = "str" /\ NoRefs(text[q]) THEN text[q]
            ELSE IF NumOf(q) # 0 THEN <<Text(NumOf(q))>> ELSE <<r>>
    BY <2>1, <2>2 DEF Replacement, NoRefs
  <2>4. CASE q = NoPlace
    <3>1. NumOf(q) = 0  BY <2>4 DEF NumOf
    <3>2. x = <<r>>  BY <2>3, <2>4, <3>1
    <3>3. QED  BY <3>2 DEF Good
  <2>5. CASE q # NoPlace
    <3>1. q = Nearest(p, r) /\ q \in DOMAIN Keys
      BY <1>0, <1>1, <1>3, <2>2, <2>5, StringFindsNearest
    <3>2. Part(p, i, s, v) = Piece(q, r, s, v)  BY <1>3, <2>5, <3>1 DEF Part
    <3>3. CASE Keys[q].kind = "str" /\ NoRefs(text[q])
      <4>1. q \in Full  BY <3>1, <3>3 DEF Full, Strings
      <4>2. text[q] = s[q] /\ x = text[q]  BY <2>3, <2>5, <3>3, <4>1
      <4>3. Piece(q, r, s, v) = s[q]  BY <3>3, <4>2 DEF Piece, NoRefs
      <4>4. QED  BY <3>2, <3>3, <4>2, <4>3 DEF Good
    <3>4. CASE ~(Keys[q].kind = "str" /\ NoRefs(text[q])) /\ NumOf(q) # 0
      <4>1. NumOf(q) = v[q] /\ Keys[q].kind # "str"  BY <3>1, <3>4, NumIsMeaning
      <4>2. x = <<Text(v[q])>>  BY <2>3, <2>5, <3>4, <4>1
      <4>3. Piece(q, r, s, v) = <<Text(v[q])>>  BY <3>4, <4>1 DEF Piece
      <4>4. ~Ref(Text(v[q]))
        <5>1. \A y : Text(y).scope = "text"  BY DEF Text
        <5>2. QED  BY <5>1, TextIsNoRef
      <4>5. NoRefs(x)  BY <4>2, <4>4, OneRef
      <4>6. QED  BY <3>2, <4>2, <4>3, <4>5 DEF Good
    <3>5. CASE ~(Keys[q].kind = "str" /\ NoRefs(text[q])) /\ NumOf(q) = 0
      <4>1. x = <<r>>  BY <2>3, <3>5
      <4>2. QED  BY <4>1 DEF Good
    <3>6. QED  BY <3>3, <3>4, <3>5
  <2>6. QED  BY <2>4, <2>5
<1>4. QED  BY <1>1, <1>2, <1>3

(* What is put in the place of a reference is a text.                      *)
LEMMA ReplacementType ==
  ASSUME EvalInv, NoLateShadow, NEW v, v = Meaning, text \in Texts(v),
         NEW p \in Strings, NEW x \in Items(v)
  PROVE  /\ Replacement(p, x) \in Seq(Items(v))
         /\ ~Ref(x) => Replacement(p, x) = <<x>>
<1>0. design \in Designs /\ present \subseteq DOMAIN Keys
  BY DEF EvalInv, EvalTypes
<1>1. Ref(x) \/ x.scope = "text"  BY <1>0, ItemsAre
<1>2. <<x>> \in Seq(Items(v))  OBVIOUS
<1>3. CASE x.scope = "text"
  <2>1. Replacement(p, x) = <<x>>  BY <1>3 DEF Replacement
  <2>2. QED  BY <1>2, <2>1
<1>4. CASE Ref(x)
  <2>1. PICK q : q = Lookup(p, x)  OBVIOUS
  <2>2. q \in DOMAIN Keys \cup {NoPlace}  BY <1>0, <1>4, <2>1, LookupFound
  <2>3. x.scope # "text"  BY <1>4, TextIsNoRef
  <2>4. Replacement(p, x) =
          IF q # NoPlace /\ Keys[q].kind = "str" /\ NoRefs(text[q]) THEN text[q]
          ELSE IF NumOf(q) # 0 THEN <<Text(NumOf(q))>> ELSE <<x>>
    BY <2>1, <2>3 DEF Replacement, NoRefs
  <2>5. q # NoPlace /\ Keys[q].kind = "str" => text[q] \in Seq(Items(v))
    BY <2>2 DEF Strings, Texts
  <2>6. NumOf(q) # 0 => <<Text(NumOf(q))>> \in Seq(Items(v))
    <3> SUFFICES ASSUME NumOf(q) # 0 PROVE <<Text(NumOf(q))>> \in Seq(Items(v))  OBVIOUS
    <3>1. q \in DOMAIN Keys  BY <2>2 DEF NumOf
    <3>2. NumOf(q) = v[q]  BY <3>1, NumIsMeaning
    <3>3. Text(NumOf(q)) \in Items(v)  BY <3>1, <3>2 DEF Items
    <3>4. PICK y \in Items(v) : y = Text(NumOf(q))  BY <3>3
    <3>5. QED  BY <3>4
  <2>7. QED  BY <1>2, <1>4, <2>4, <2>5, <2>6
<1>5. QED  BY <1>1, <1>3, <1>4

(* A text without references is left as it is.                             *)
LEMMA NothingReplaced ==
  ASSUME NEW T, NEW R \in [T -> Seq(T)], \A x \in T : ~Ref(x) => R[x] = <<x>>,
         NEW q \in Seq(T), NoRefs(q)
  PROVE  FlattenSeq(Mapped(R, q)) = q
<1>1. ASSUME NEW j \in DOMAIN q PROVE R[q[j]] = <<q[j]>>
  <2>1. q[j] \in T /\ q[j] \in Range(q)  BY DEF Range
  <2>2. QED  BY <2>1 DEF NoRefs
<1>2. [j \in DOMAIN q |-> R[q[j]]] = [j \in DOMAIN q |-> <<q[j]>>]  BY <1>1
<1>3. QED  BY <1>2, FlattenOnes DEF Mapped

(* An item that is put in its own place.                                   *)
LEMMA OneReplaced ==
  ASSUME NEW T, NEW R \in [T -> Seq(T)], NEW x \in T
  PROVE  FlattenSeq(Mapped(R, <<x>>)) = R[x]
<1>1. PICK y \in Seq(T) : y = R[x]  OBVIOUS
<1>2. Mapped(R, <<x>>) = <<y>>  BY <1>1 DEF Mapped
<1>3. FlattenSeq(<<y>>) = y
  <2>1. <<>> \in Seq(Seq(T)) /\ Append(<<>>, y) = <<y>> /\ <<>> \o y = y  OBVIOUS
  <2>2. FlattenSeq(Append(<<>>, y)) = FlattenSeq(<<>>) \o y  BY <2>1, FlattenAppend
  <2>3. QED  BY <2>1, <2>2, FlattenNone
<1>4. QED  BY <1>1, <1>2, <1>3

(* The text of a string after a step is made of the pieces that its own    *)
(* pieces become.                                                          *)
LEMMA SubstitutedRight ==
  ASSUME EvalInv, NoLateShadow, NoLateTop, NEW s, NEW v, v = Meaning, text \in Texts(v),
         \A q \in Full : text[q] = s[q],
         NEW p \in Strings, NEW g, MadeOf(p, g, s, v)
  PROVE  /\ Substituted(p) \in Seq(Items(v))
         /\ p \in Full => Substituted(p) = text[p]
         /\ \E h : /\ h \in Seq(Seq(Items(v))) /\ Len(h) = Len(Keys[p].refs)
                   /\ Substituted(p) = FlattenSeq(h)
                   /\ \A i \in DOMAIN Keys[p].refs : Good(p, i, h[i], s, v)
<1>0. design \in Designs  BY DEF EvalInv, EvalTypes
<1>a. PICK T : T = Items(v)  OBVIOUS
<1>b. [x \in T |-> Replacement(p, x)] \in [T -> Seq(T)]  BY <1>a, ReplacementType
<1>c. PICK R \in [T -> Seq(T)] : R = [x \in T |-> Replacement(p, x)]  BY <1>b
<1>1. \A x \in T : ~Ref(x) => R[x] = <<x>>  BY <1>a, <1>c, ReplacementType
<1>2. PICK L \in Nat : L = Len(Keys[p].refs) /\ DOMAIN Keys[p].refs = 1..L
  <2>1. Keys[p].refs \in Seq(Items(v))  BY <1>0, RefsAre
  <2>2. QED  BY <2>1
<1>3. g \in Seq(Seq(T)) /\ Len(g) = L /\ DOMAIN g = 1..L  BY <1>a, <1>2 DEF MadeOf
<1>4. text[p] = FlattenSeq(g) /\ text[p] \in Seq(T)  BY <1>a DEF MadeOf, Texts
<1>5. Substituted(p) = FlattenSeq(Mapped(R, text[p]))
  <2>1. \A j \in DOMAIN text[p] : text[p][j] \in T  BY <1>4
  <2>2. [j \in DOMAIN text[p] |-> R[text[p][j]]] = [j \in DOMAIN text[p] |-> Replacement(p, text[p][j])]
    BY <1>c, <2>1
  <2>3. QED  BY <2>2 DEF Substituted, Mapped
<1> DEFINE h == EachMapped(R, g)
<1>6. Substituted(p) = FlattenSeq(h)  BY <1>3, <1>4, <1>5, FlattenMap
<1>7. ASSUME NEW i \in 1..L PROVE h[i] \in Seq(T) /\ Good(p, i, h[i], s, v)
  <2>1. PICK y \in Seq(T) : y = g[i]  BY <1>3
  <2>2. h[i] = FlattenSeq(Mapped(R, y))  BY <1>3, <2>1 DEF EachMapped
  <2>3. Good(p, i, y, s, v)  BY <1>2, <2>1 DEF MadeOf
  <2>4. CASE NoRefs(y)
    <3>1. h[i] = y  BY <1>1, <2>2, <2>4, NothingReplaced
    <3>2. QED  BY <2>3, <3>1
  <2>5. CASE y = <<Keys[p].refs[i]>>
    <3>1. PICK r \in T : r = Keys[p].refs[i]  BY <1>0, <1>a, <1>2, RefsAre
    <3>2. FlattenSeq(Mapped(R, <<r>>)) = R[r]  BY <1>1, OneReplaced
    <3>3. h[i] = R[r]  BY <2>2, <2>5, <3>1, <3>2
    <3>4. R[r] = Replacement(p, Keys[p].refs[i])  BY <1>c, <3>1
    <3>5. Good(p, i, R[r], s, v)  BY <1>2, <3>4, ReplacementRight
    <3>6. R[r] \in Seq(T)  OBVIOUS
    <3>7. QED  BY <3>3, <3>5, <3>6
  <2>6. QED  BY <2>3, <2>4, <2>5 DEF Good
<1>8. h \in Seq(Seq(T)) /\ Len(h) = L
  <2>1. PICK f : f = h  OBVIOUS
  <2>2. f \in [1..L -> Seq(T)]  BY <1>3, <1>7, <2>1 DEF EachMapped
  <2>3. f \in Seq(Seq(T)) /\ Len(f) = L  BY <2>2, IsList
  <2>4. QED  BY <2>1, <2>3
<1>9. FlattenSeq(h) \in Seq(T)
  <2> HIDE DEF h
  <2>1. QED  BY <1>8, FlattenType
<1>10. p \in Full => Substituted(p) = text[p]
  <2> SUFFICES ASSUME p \in Full PROVE Substituted(p) = text[p]  OBVIOUS
  <2>1. NoRefs(text[p])  BY DEF Full
  <2>2. PICK q \in Seq(T) : q = text[p]  BY <1>4
  <2>3. FlattenSeq(Mapped(R, q)) = q  BY <1>1, <2>1, <2>2, NothingReplaced
  <2>4. QED  BY <1>5, <2>2, <2>3
<1> HIDE DEF h
<1>11. QED  BY <1>a, <1>2, <1>6, <1>7, <1>8, <1>9, <1>10

(* The database stays as it is: what its strings read, too.                *)
LEMMA SameReadings ==
  ASSUME design' = design, NEW v
  PROVE  /\ Keys' = Keys /\ Strings' = Strings /\ Items(v)' = Items(v) /\ NoLateTop' = NoLateTop
         /\ \A p, i, t : Part(p, i, t, v)' = Part(p, i, t, v)
         /\ \A s : IsReadings(s, v) => IsReadings(s, v)'
<1>1. Keys' = Keys  BY DEF Keys
<1>2. Strings' = Strings /\ M' = M  BY <1>1 DEF Strings, M
<1>3. \A p, r : Nearest(p, r)' = Nearest(p, r)  BY <1>1 DEF Nearest, Direct
<1>4. Items(v)' = Items(v)  BY <1>1, <1>2 DEF Items, Text
<1>5. \A p, i, t : Part(p, i, t, v)' = Part(p, i, t, v)
  <2> TAKE p, i, t
  <2>1. PICK r : r = Keys[p].refs[i]  OBVIOUS
  <2>2. PICK q : q = IF Ref(r) THEN Nearest(p, r) ELSE NoPlace  OBVIOUS
  <2>3. Part(p, i, t, v) = IF q = NoPlace THEN <<r>> ELSE Piece(q, r, t, v)
    BY <2>1, <2>2 DEF Part
  <2>4. Part(p, i, t, v)' = IF q = NoPlace THEN <<r>> ELSE Piece(q, r, t, v)'
    <3>1. q = IF Ref(r) THEN Nearest(p, r)' ELSE NoPlace  BY <1>3, <2>2
    <3>2. r = Keys'[p].refs[i]  BY <1>1, <2>1
    <3>3. QED  BY <3>1, <3>2 DEF Part, NoPlace, Ref
  <2>5. Piece(q, r, t, v)' = Piece(q, r, t, v)  BY <1>1 DEF Piece, Text, Ref
  <2>6. QED  BY <2>3, <2>4, <2>5
<1>6. \A t : Reads(t, v)' = Reads(t, v)
  <2> TAKE t
  <2>1. Reads(t, v) = [p \in Strings |-> FlattenSeq([i \in DOMAIN Keys[p].refs |-> Part(p, i, t, v)])]
    BY DEF Reads, Part
  <2>2. ASSUME NEW p PROVE Parts(p, t, v)' = Parts(p, t, v)  BY <1>1, <1>5 DEF Parts
  <2>3. Reads(t, v) = [p \in Strings |-> FlattenSeq(Parts(p, t, v))]  BY <2>1 DEF Parts
  <2>4. Reads(t, v)' = [p \in Strings' |-> FlattenSeq(Parts(p, t, v)')]
    BY DEF Reads, Part, Parts
  <2>5. QED  BY <1>2, <2>2, <2>3, <2>4
<1>7. NoLateTop' = NoLateTop  BY <1>1 DEF NoLateTop
<1>8. \A s : IsReadings(s, v) => IsReadings(s, v)'  BY <1>1, <1>2, <1>6 DEF IsReadings
<1>9. QED  BY <1>1, <1>2, <1>4, <1>5, <1>7, <1>8

StringsInv ==
  /\ EvalInv
  /\ text = [p \in Strings |-> text[p]]
  /\ \E m, s, v : /\ IsMeanings(m) /\ v = m[N] /\ IsReadings(s, v)
                  /\ NoLateShadow /\ NoLateTop => TextRight(s, v)

LEMMA TextsType ==
  ASSUME design \in Designs, text = [p \in Strings |-> text[p]], NEW s, NEW v, TextRight(s, v)
  PROVE  text \in Texts(v)
<1>1. ASSUME NEW p \in Strings PROVE text[p] \in Seq(Items(v))
  <2>1. PICK g : MadeOf(p, g, s[Cardinality(Full)], v)  BY DEF TextRight
  <2>2. g \in Seq(Seq(Items(v))) /\ text[p] = FlattenSeq(g)  BY <2>1 DEF MadeOf
  <2>3. QED  BY <2>2, FlattenType
<1>2. QED  BY <1>1 DEF Texts

LEMMA SubstStringKeeps ==
  ASSUME EvalInv, NoLateShadow, NoLateTop, text = [p \in Strings |-> text[p]],
         NEW s, NEW v, v = Meaning, IsReadings(s, v), TextRight(s, v),
         SubstString
  PROVE  TextRight(s, v)'
<1>0. design \in Designs /\ design' = design  BY DEF EvalInv, EvalTypes, SubstString
<1>1. PICK p \in Strings : text' = [text EXCEPT ![p] = Substituted(p)]  BY DEF SubstString
<1>2. PICK r : r = Cardinality(Full)  OBVIOUS
<1>3. M \in Nat /\ r \in Nat /\ r <= M  BY <1>0, <1>2, FiniteStrings, FullSize
<1>4. text \in Texts(v) /\ \A q \in Full : text[q] = s[r][q]
  BY <1>0, <1>2, TextsType DEF TextRight
<1>5. PICK w : w = Substituted(p)  OBVIOUS
<1>6. PICK g : MadeOf(p, g, s[r], v)  BY <1>2 DEF TextRight
<1>7. PICK h : /\ h \in Seq(Seq(Items(v))) /\ Len(h) = Len(Keys[p].refs)
               /\ w = FlattenSeq(h)
               /\ \A i \in DOMAIN Keys[p].refs : Good(p, i, h[i], s[r], v)
  BY <1>4, <1>5, <1>6, SubstitutedRight
<1>8. p \in Full => w = text[p]  BY <1>4, <1>5, <1>6, SubstitutedRight
<1>9. text'[p] = w /\ \A q \in Strings : q # p => text'[q] = text[q]  BY <1>1, <1>5
<1>10. Keys' = Keys /\ Strings' = Strings /\ Items(v)' = Items(v)
       /\ \A q, i, t : Part(q, i, t, v)' = Part(q, i, t, v)
  BY <1>0, SameReadings
<1>11. Full' = IF p \notin Full /\ NoRefs(w) THEN Full \cup {p} ELSE Full
  <2>1. Full' = {q \in Strings : NoRefs(text'[q])}  BY <1>10 DEF Full, NoRefs, Ref
  <2>2. \A q \in Strings : NoRefs(text'[q]) <=> IF q = p THEN NoRefs(w) ELSE q \in Full
    BY <1>9 DEF Full
  <2>3. p \in Full => NoRefs(w)  BY <1>8 DEF Full
  <2>4. Full \subseteq Strings  BY DEF Full
  <2>5. QED  BY <2>1, <2>2, <2>3, <2>4
<1>12. PICK k : k = Cardinality(Full)'  OBVIOUS
<1>13. k = (IF p \notin Full /\ NoRefs(w) THEN r + 1 ELSE r) /\ k \in Nat /\ r <= k /\ k <= M
  BY <1>0, <1>2, <1>3, <1>11, <1>12, FullSize
<1>14. \A q \in Strings : NoRefs(s[r][q]) => s[k][q] = s[r][q]
  BY <1>0, <1>3, <1>13, ReadKept
<1>15. \A q \in Strings : \A i \in DOMAIN Keys[q].refs : \A x :
         Good(q, i, x, s[r], v) => Good(q, i, x, s[k], v)
  <2> TAKE q \in Strings
  <2> TAKE i \in DOMAIN Keys[q].refs
  <2> TAKE x
  <2>1. NoRefs(Part(q, i, s[r], v)) => Part(q, i, s[k], v) = Part(q, i, s[r], v)
    BY <1>0, <1>14, PartStays
  <2>2. QED  BY <2>1 DEF Good
<1>16. ASSUME NEW q \in Strings
       PROVE  \E f : /\ f \in Seq(Seq(Items(v))) /\ Len(f) = Len(Keys[q].refs)
                     /\ text'[q] = FlattenSeq(f)
                     /\ \A i \in DOMAIN Keys[q].refs : Good(q, i, f[i], s[k], v)
  <2>1. CASE q = p  BY <1>7, <1>9, <1>15, <2>1
  <2>2. CASE q # p
    <3>1. PICK f : MadeOf(q, f, s[r], v)  BY <1>2 DEF TextRight
    <3>2. \A i \in DOMAIN Keys[q].refs : Good(q, i, f[i], s[k], v)
      BY <1>15, <3>1 DEF MadeOf
    <3>3. f \in Seq(Seq(Items(v))) /\ Len(f) = Len(Keys[q].refs) /\ text'[q] = FlattenSeq(f)
      BY <1>9, <2>2, <3>1 DEF MadeOf
    <3>4. QED  BY <3>2, <3>3
  <2>3. QED  BY <2>1, <2>2
<1>17. ASSUME NEW q \in Full' PROVE text'[q] = s[k][q]
  <2>1. CASE q \in Full
    <3>1. text[q] = s[r][q] /\ NoRefs(text[q]) /\ q \in Strings  BY <1>4, <2>1 DEF Full
    <3>2. s[k][q] = s[r][q]  BY <1>14, <3>1
    <3>3. text'[q] = text[q]  BY <1>8, <1>9, <2>1, <3>1
    <3>4. QED  BY <3>1, <3>2, <3>3
  <2>2. CASE q \notin Full
    <3>1. q = p /\ NoRefs(w) /\ k = r + 1  BY <1>11, <1>13, <1>17, <2>2
    <3>2. PICK L \in Nat : L = Len(Keys[p].refs) /\ DOMAIN Keys[p].refs = 1..L
      <4>1. Keys[p].refs \in Seq(Items(v))  BY <1>0, RefsAre
      <4>2. QED  BY <4>1
    <3>3. s[r] \in Texts(v)  BY <1>0, <1>3, ReadingsType
    <3>4. r + 1 \in 1..M /\ (r + 1) - 1 = r  BY <1>3, <1>13, <3>1
    <3>5. s[k] = Reads(s[r], v)  BY <3>1, <3>4 DEF IsReadings
    <3>6. /\ Parts(p, s[r], v) \in Seq(Seq(Items(v))) /\ Len(Parts(p, s[r], v)) = L
          /\ s[k][p] = FlattenSeq(Parts(p, s[r], v))
      BY <1>0, <3>2, <3>3, <3>5, PartsType
    <3>7. ASSUME NEW i \in 1..L PROVE h[i] = Parts(p, s[r], v)[i]
      <4>1. i \in DOMAIN h /\ h \in Seq(Seq(Items(v)))  BY <1>7, <3>2
      <4>2. NoRefs(h[i])  BY <1>7, <3>1, <4>1, PiecesNoRefs
      <4>3. Parts(p, s[r], v)[i] = Part(p, i, s[r], v)  BY <3>2 DEF Parts
      <4>4. Good(p, i, h[i], s[r], v)  BY <1>7, <3>2
      <4>5. CASE h[i] = <<Keys[p].refs[i]>>
        <5>1. ~Ref(Keys[p].refs[i])  BY <4>2, <4>5, OneRef
        <5>2. Part(p, i, s[r], v) = <<Keys[p].refs[i]>>  BY <5>1 DEF Part
        <5>3. QED  BY <4>3, <4>5, <5>2
      <4>6. QED  BY <4>3, <4>4, <4>5 DEF Good
    <3>8. h = Parts(p, s[r], v)
      <4>1. PICK u \in Seq(Seq(Items(v))) : u = Parts(p, s[r], v) /\ Len(u) = L  BY <3>6
      <4>2. Len(h) = L /\ \A i \in 1..L : h[i] = u[i]  BY <1>7, <3>2, <3>7, <4>1
      <4>3. h = u  BY <1>7, <4>1, <4>2, SameSeq
      <4>4. QED  BY <4>1, <4>3
    <3>9. QED  BY <1>7, <1>9, <3>1, <3>6, <3>8
  <2>3. QED  BY <2>1, <2>2
<1>18. \A q \in Strings' : \E g1 : MadeOf(q, g1, s[Cardinality(Full)], v)'
  <2> TAKE q \in Strings'
  <2>1. q \in Strings  BY <1>10
  <2>2. PICK f : /\ f \in Seq(Seq(Items(v))) /\ Len(f) = Len(Keys[q].refs)
                 /\ text'[q] = FlattenSeq(f)
                 /\ \A i \in DOMAIN Keys[q].refs : Good(q, i, f[i], s[k], v)
    BY <1>16, <2>1
  <2>3. \A i, x, t : Good(q, i, x, t, v)' = Good(q, i, x, t, v)
    BY <1>10 DEF Good, NoRefs, Ref
  <2>4. MadeOf(q, f, s[k], v)'  BY <1>10, <2>2, <2>3 DEF MadeOf
  <2>5. QED  BY <1>12, <2>4
<1>19. QED  BY <1>12, <1>17, <1>18 DEF TextRight

LEMMA StringsInvKept ==
  ASSUME StringsInv, [Next]_vars
  PROVE  StringsInv'
<1>1. EvalInv'  BY EvalInvKept DEF StringsInv
<1>2. design \in Designs /\ design' = design
  BY DEF StringsInv, EvalInv, EvalTypes, Next, vars, EvalExpr, EvalOther, EndEval,
         SubstString,
         SubstExpr, EndSubst, CallAgain, Finish
<1>3. PICK m, s, v : /\ IsMeanings(m) /\ v = m[N] /\ IsReadings(s, v)
                     /\ NoLateShadow /\ NoLateTop => TextRight(s, v)
  BY DEF StringsInv
<1>4. IsMeanings(m)' /\ NoLateShadow' = NoLateShadow  BY <1>2, <1>3, SameMeanings
<1>5. IsReadings(s, v)' /\ NoLateTop' = NoLateTop /\ Keys' = Keys /\ Strings' = Strings
      /\ Items(v)' = Items(v) /\ \A p, i, t : Part(p, i, t, v)' = Part(p, i, t, v)
  BY <1>2, <1>3, SameReadings
<1>6. N' = N  BY <1>5 DEF N, Exprs
<1>7. v = Meaning  BY <1>2, <1>3, MeaningIs
<1>8. text' = text \/ SubstString
  BY DEF Next, vars, EvalExpr, EvalOther, EndEval, SubstExpr, EndSubst, CallAgain, Finish
<1>9. text' = [p \in Strings |-> text'[p]]
  <2>1. CASE text' = text  BY <2>1 DEF StringsInv
  <2>2. CASE SubstString
    <3>1. PICK p \in Strings : text' = [text EXCEPT ![p] = Substituted(p)]
      BY <2>2 DEF SubstString
    <3>2. QED  BY <3>1 DEF StringsInv
  <2>3. QED  BY <1>8, <2>1, <2>2
<1>10. ASSUME NoLateShadow, NoLateTop PROVE TextRight(s, v)'
  <2>1. TextRight(s, v)  BY <1>3, <1>10
  <2>2. CASE SubstString
    BY <1>3, <1>7, <1>10, <2>1, <2>2, SubstStringKeeps DEF StringsInv
  <2>3. CASE text' = text
    <3>1. Full' = Full  BY <1>5, <2>3 DEF Full, NoRefs, Ref
    <3>2. PICK k : k = Cardinality(Full)  OBVIOUS
    <3>3. Cardinality(Full)' = k  BY <3>1, <3>2
    <3>4. \A i, p, x, t : Good(p, i, x, t, v)' = Good(p, i, x, t, v)
      BY <1>5 DEF Good, NoRefs, Ref
    <3>5. \A p, g : MadeOf(p, g, s[k], v)' <=> MadeOf(p, g, s[k], v)
      BY <1>5, <2>3, <3>4 DEF MadeOf
    <3>6. \A p \in Strings : \E g : MadeOf(p, g, s[k], v)  BY <2>1, <3>2 DEF TextRight
    <3>7. \A p \in Full : text[p] = s[k][p]  BY <2>1, <3>2 DEF TextRight
    <3>8. \A p \in Strings' : \E g : MadeOf(p, g, s[k], v)'  BY <1>5, <3>5, <3>6
    <3>9. QED  BY <2>3, <3>1, <3>3, <3>7, <3>8 DEF TextRight
  <2>4. QED  BY <1>8, <2>2, <2>3
<1>11. text' = [p \in Strings' |-> text'[p]]  BY <1>5, <1>9
<1>12. \E m1, s1, v1 : /\ IsMeanings(m1)' /\ v1 = m1[N'] /\ IsReadings(s1, v1)'
                       /\ (NoLateShadow /\ NoLateTop)' => TextRight(s1, v1)'
  BY <1>3, <1>4, <1>5, <1>6, <1>10
<1>13. QED  BY <1>1, <1>11, <1>12 DEF StringsInv

LEMMA StringsInvInit ==
  ASSUME Init
  PROVE  StringsInv
<1>1. design \in Designs  BY DEF Init
<1>2. EvalInv /\ text = [p \in Strings |-> text[p]]  BY EvalInvInit DEF Init
<1>3. PICK m : IsMeanings(m)  BY <1>1, FiniteExprs, RoundsExist
<1>4. PICK v : v = m[N]  OBVIOUS
<1>5. v = Meaning  BY <1>1, <1>3, <1>4, MeaningIs
<1>6. PICK s : IsReadings(s, v)  BY <1>1, <1>5, FiniteStrings, ReadingExists
<1>7. PICK k : k = Cardinality(Full)  OBVIOUS
<1>8. M \in Nat /\ k \in Nat /\ k <= M  BY <1>1, <1>7, FiniteStrings, FullSize
<1>9. ASSUME NEW p \in Strings PROVE \E g : MadeOf(p, g, s[k], v)
  <2>1. PICK q \in Seq(Items(v)) : q = Keys[p].refs  BY <1>1, RefsAre
  <2> DEFINE g == [i \in DOMAIN q |-> <<q[i]>>]
  <2>2. g \in Seq(Seq(Items(v))) /\ Len(g) = Len(q) /\ \A i \in DOMAIN q : g[i] = <<q[i]>>
    <3>0. PICK T : T = Seq(Items(v))  OBVIOUS
    <3>1. PICK L \in Nat : L = Len(q)  OBVIOUS
    <3>2. DOMAIN q = 1..L  BY <3>1
    <3>3. \A i \in DOMAIN q : <<q[i]>> \in T /\ g[i] = <<q[i]>>  BY <3>0
    <3>4. g \in [1..L -> T]  BY <3>2, <3>3
    <3>5. g \in Seq(T) /\ Len(g) = L  BY <3>4, IsList
    <3>6. QED  BY <3>0, <3>1, <3>3, <3>5
  <2>3. FlattenSeq(g) = q  BY FlattenOnes
  <2>4. text[p] = q  BY <2>1 DEF Init
  <2> HIDE DEF g
  <2>5. MadeOf(p, g, s[k], v)  BY <2>1, <2>2, <2>3, <2>4 DEF MadeOf, Good
  <2>6. QED  BY <2>5
<1>10. ASSUME NEW p \in Full PROVE text[p] = s[k][p]
  <2>1. p \in Strings /\ NoRefs(text[p]) /\ text[p] = Keys[p].refs  BY DEF Full, Init
  <2>2. s[0][p] = text[p]  BY <1>6, <2>1 DEF IsReadings
  <2>3. QED  BY <1>1, <1>6, <1>8, <2>1, <2>2, ReadKept
<1>11. TextRight(s, v)  BY <1>7, <1>9, <1>10 DEF TextRight
<1>12. QED  BY <1>2, <1>3, <1>4, <1>6, <1>11 DEF StringsInv

(* The texts of the invariant are those that are meant.                    *)
LEMMA StringsInvRight ==
  ASSUME StringsInv, NoLateShadow, NoLateTop
  PROVE  StringsReadRight
<1>1. PICK m, s, v : IsMeanings(m) /\ v = m[N] /\ IsReadings(s, v) /\ TextRight(s, v)
  BY DEF StringsInv
<1>2. design \in Designs  BY DEF StringsInv, EvalInv, EvalTypes
<1>3. v = Meaning  BY <1>1, <1>2, MeaningIs
<1>4. Reading = s[M]  BY <1>1, <1>2, <1>3, ReadingIs
<1>5. PICK k : k = Cardinality(Full)  OBVIOUS
<1>6. M \in Nat /\ k \in Nat /\ k <= M  BY <1>2, <1>5, FiniteStrings, FullSize
<1>7. SUFFICES ASSUME NEW p \in Strings, NoRefs(text[p]) PROVE text[p] = Reading[p]
  BY DEF StringsReadRight, NoRefs
<1>8. text[p] = s[k][p]  BY <1>1, <1>5, <1>7 DEF TextRight, Full
<1>9. NoRefs(s[k][p])  BY <1>7, <1>8
<1>10. s[M][p] = s[k][p]  BY <1>1, <1>2, <1>6, <1>9, ReadKept
<1>11. QED  BY <1>4, <1>8, <1>10

(* A text whose references are all filled in is what the string reads as   *)
(* in the finished database, whatever was filled in first and however      *)
(* often reeval() is called, with the same provision, and if no key that   *)
(* comes late to the top level hides one that a component had before it.   *)
THEOREM StringsRight == Spec => [](NoLateShadow /\ NoLateTop => StringsReadRight)
<1>1. Init => StringsInv  BY StringsInvInit
<1>2. StringsInv /\ [Next]_vars => StringsInv'  BY StringsInvKept
<1>3. StringsInv => (NoLateShadow /\ NoLateTop => StringsReadRight)  BY StringsInvRight
<1>4. QED  BY <1>1, <1>2, <1>3, PTL DEF Spec

-----------------------------------------------------------------------------
(* The database of keys (Database).                                        *)

(* Paths.  The keys on the way to a path are what it begins with.          *)
Path == Seq(Tags)

LEMMA HeadSplit ==
  ASSUME NEW S, NEW p \in Seq(S), NEW h
  PROVE  h \in Heads(p) <=> h \in Seq(S) /\ h # <<>> /\ \E u \in Seq(S) : u # <<>> /\ p = h \o u
<1>1. ASSUME h \in Heads(p)
      PROVE  h \in Seq(S) /\ h # <<>> /\ \E u \in Seq(S) : u # <<>> /\ p = h \o u
  <2>1. PICK k \in 1..Len(p) - 1 : h = SubSeq(p, 1, k)  BY <1>1 DEF Heads
  <2>2. k \in Nat /\ k + 1 \in Nat /\ k >= 1 /\ k + 1 <= Len(p)  BY <2>1
  <2>3. h \in Seq(S) /\ Len(h) = k  BY <2>1, <2>2
  <2> DEFINE u == SubSeq(p, k + 1, Len(p))
  <2>4. u \in Seq(S) /\ Len(u) = Len(p) - k  BY <2>2
  <2>5. p = h \o u
    <3>1. SubSeq(p, 1, k) \o SubSeq(p, k + 1, Len(p)) = SubSeq(p, 1, Len(p))
      BY <2>2, ConcatAdjacentSubSeq
    <3>2. QED  BY <3>1, <2>1, SubSeqFull
  <2>6. h # <<>> /\ u # <<>>
    <3>1. Len(h) > 0 /\ Len(u) > 0  BY <2>2, <2>3, <2>4
    <3> HIDE DEF u
    <3>2. QED  BY <3>1
  <2>7. QED  BY <2>3, <2>4, <2>5, <2>6
<1>2. ASSUME h \in Seq(S), h # <<>>, NEW u \in Seq(S), u # <<>>, p = h \o u
      PROVE  h \in Heads(p)
  <2>1. Len(h) \in 1..Len(p) - 1
    <3>1. Len(p) = Len(h) + Len(u)  BY <1>2
    <3>2. Len(h) \in Nat /\ Len(u) \in Nat /\ Len(h) > 0 /\ Len(u) > 0  BY <1>2
    <3>3. QED  BY <3>1, <3>2
  <2>2. SubSeq(p, 1, Len(h)) = SubSeq(h, 1, Len(h))
    <3>1. 1 \in 1..Len(h) /\ Len(h) \in 1..Len(h)  BY <2>1
    <3>2. QED  BY <3>1, <1>2, SubSeqOfConcat1
  <2>3. h = SubSeq(p, 1, Len(h))  BY <2>2, <1>2, SubSeqFull
  <2>4. QED  BY <2>1, <2>3 DEF Heads
<1>3. QED  BY <1>1, <1>2

LEMMA PrefixSplit ==
  ASSUME NEW S, NEW p \in Seq(S), NEW q \in Seq(S)
  PROVE  IsPrefix(p, q) <=> \E u \in Seq(S) : q = p \o u
<1>1. ASSUME IsPrefix(p, q) PROVE \E u \in Seq(S) : q = p \o u
  <2>1. Len(p) <= Len(q) /\ SubSeq(q, 1, Len(p)) = p
    BY <1>1, SubSeqFull DEF IsPrefix
  <2> DEFINE u == SubSeq(q, Len(p) + 1, Len(q))
  <2>2. u \in Seq(S)  BY <2>1
  <2>3. SubSeq(q, 1, Len(p)) \o u = SubSeq(q, 1, Len(q))
    <3>1. Len(p) \in Nat /\ Len(q) \in Nat  OBVIOUS
    <3>2. /\ 1 \in 1..Len(q) + 1 /\ Len(p) \in 1 - 1..Len(q) /\ Len(q) \in Len(p)..Len(q)
      BY <2>1, <3>1
    <3>3. QED  BY <3>2, ConcatAdjacentSubSeq
  <2>4. QED  BY <2>1, <2>2, <2>3, SubSeqFull
<1>2. ASSUME NEW u \in Seq(S), q = p \o u PROVE IsPrefix(p, q)
  <2>1. Len(p) <= Len(q)  BY <1>2
  <2>2. CASE p = <<>>
    <3>1. SubSeq(p, 1, 0) = <<>> /\ SubSeq(q, 1, 0) = <<>>  BY SubSeqEmpty
    <3>2. QED  BY <2>1, <2>2, <3>1 DEF IsPrefix
  <2>3. CASE p # <<>>
    <3>1. 1 \in 1..Len(p) /\ Len(p) \in 1..Len(p)  BY <2>3
    <3>2. SubSeq(q, 1, Len(p)) = SubSeq(p, 1, Len(p))  BY <1>2, <3>1, SubSeqOfConcat1
    <3>3. QED  BY <2>1, <3>2 DEF IsPrefix
  <2>4. QED  BY <2>2, <2>3
<1>3. QED  BY <1>1, <1>2

LEMMA StrictSplit ==
  ASSUME NEW S, NEW p \in Seq(S), NEW q \in Seq(S)
  PROVE  IsStrictPrefix(p, q) <=> \E u \in Seq(S) : u # <<>> /\ q = p \o u
<1>1. \A u \in Seq(S) : p = p \o u <=> u = <<>>
  <2> SUFFICES ASSUME NEW u \in Seq(S) PROVE p = p \o u <=> u = <<>>  OBVIOUS
  <2>1. Len(p \o u) = Len(p) + Len(u)  OBVIOUS
  <2>2. QED  BY <2>1
<1>2. IsPrefix(p, q) <=> \E u \in Seq(S) : q = p \o u  BY PrefixSplit
<1>3. QED  BY <1>1, <1>2 DEF IsStrictPrefix

LEMMA RelativeOf ==
  ASSUME NEW S, NEW p \in Seq(S), NEW u \in Seq(S)
  PROVE  Relative(p, p \o u) = u
<1>1. Len(p \o u) = Len(p) + Len(u)  OBVIOUS
<1>2. CASE u = <<>>
  <2>1. Len(p \o u) < Len(p) + 1  BY <1>1, <1>2
  <2>2. QED  BY <1>2, <2>1, SubSeqEmpty DEF Relative
<1>3. CASE u # <<>>
  <2>1. /\ Len(p) + 1 \in Len(p) + 1..Len(p) + Len(u)
        /\ Len(p) + Len(u) \in Len(p) + 1..Len(p) + Len(u)
    BY <1>3
  <2>2. /\ SubSeq(p \o u, Len(p) + 1, Len(p) + Len(u))
             = SubSeq(u, (Len(p) + 1) - Len(p), (Len(p) + Len(u)) - Len(p))
    BY <2>1, SubSeqOfConcat2
  <2>3. (Len(p) + 1) - Len(p) = 1 /\ (Len(p) + Len(u)) - Len(p) = Len(u)  OBVIOUS
  <2>4. QED  BY <1>1, <2>2, <2>3, SubSeqFull DEF Relative
<1>4. QED  BY <1>2, <1>3

LEMMA JoinCancel ==
  ASSUME NEW S, NEW p \in Seq(S), NEW u \in Seq(S), NEW v \in Seq(S), p \o u = p \o v
  PROVE  u = v
BY RelativeOf

LEMMA PrefixRest ==
  ASSUME NEW S, NEW p \in Seq(S), NEW q \in Seq(S), IsPrefix(p, q)
  PROVE  Relative(p, q) \in Seq(S) /\ q = p \o Relative(p, q)
<1>1. \E u \in Seq(S) : q = p \o u  BY PrefixSplit
<1>2. PICK u \in Seq(S) : q = p \o u  BY <1>1
<1>3. Relative(p, q) = u  BY <1>2, RelativeOf
<1>4. QED  BY <1>2, <1>3

(* Of two beginnings of a path, the shorter is the beginning of the other. *)
LEMMA JoinLonger ==
  ASSUME NEW S, NEW a \in Seq(S), NEW b \in Seq(S), NEW u \in Seq(S), NEW v \in Seq(S),
         a \o u = b \o v, Len(a) <= Len(b)
  PROVE  IsPrefix(a, b)
<1>1. a \o u \in Seq(S) /\ b \o v \in Seq(S)  OBVIOUS
<1>2. IsPrefix(b, a \o u) /\ IsPrefix(a, a \o u)  BY <1>1, PrefixSplit
<1>3. SubSeq(a \o u, 1, Len(b)) = b /\ SubSeq(a \o u, 1, Len(a)) = a
  BY <1>2, SubSeqFull DEF IsPrefix
<1>4. IsPrefix(a, b)
  <2>1. CASE a = <<>>
    <3>1. b = a \o b  BY <2>1
    <3>2. \E z \in Seq(S) : b = a \o z  BY <3>1
    <3>3. QED  BY <3>2, PrefixSplit
  <2>2. CASE a # <<>>
    <3>1. Len(a) \in 1..Len(b) /\ Len(b) <= Len(a \o u)  BY <2>2, <1>2 DEF IsPrefix
    <3>2. SubSeq(SubSeq(a \o u, 1, Len(b)), 1, Len(a)) = SubSeq(a \o u, 1, Len(a))
      <4>1. /\ 1 \in 1..Len(a \o u) /\ Len(b) \in 1..Len(a \o u)
            /\ 1 \in 1..Len(b) - 1 + 1 /\ Len(a) \in 1..Len(b) - 1 + 1
            /\ 1 + 1 - 1 = 1 /\ 1 + Len(a) - 1 = Len(a)
        BY <3>1
      <4>2. SubSeq(SubSeq(a \o u, 1, Len(b)), 1, Len(a))
              = SubSeq(a \o u, 1 + 1 - 1, 1 + Len(a) - 1)
        BY <1>1, <4>1, SubSeqOfSubSeq
      <4>3. QED  BY <4>1, <4>2
    <3>3. SubSeq(b, 1, Len(a)) = SubSeq(a, 1, Len(a))  BY <1>3, <3>2, SubSeqFull
    <3>4. QED  BY <3>1, <3>3 DEF IsPrefix
  <2>3. QED  BY <2>1, <2>2
<1>5. QED  BY <1>4

LEMMA EmptyJoin ==
  ASSUME NEW S, NEW p \in Seq(S)
  PROVE  p \o <<>> = p /\ <<>> \o p = p
OBVIOUS

LEMMA JoinEmpty ==
  ASSUME NEW S, NEW p \in Seq(S), NEW u \in Seq(S)
  PROVE  /\ p \o u \in Seq(S)
         /\ p \o u = <<>> <=> p = <<>> /\ u = <<>>
<1>1. Len(p \o u) = Len(p) + Len(u)  OBVIOUS
<1>2. QED  BY <1>1

LEMMA HeadRest ==
  ASSUME NEW S, NEW p \in Seq(S), NEW h, h \in Heads(p)
  PROVE  /\ h \in Seq(S) /\ h # <<>>
         /\ Relative(h, p) \in Seq(S) /\ Relative(h, p) # <<>>
         /\ p = h \o Relative(h, p)
<1>1. h \in Seq(S) /\ h # <<>> /\ \E u \in Seq(S) : u # <<>> /\ p = h \o u
  BY HeadSplit
<1>2. PICK u \in Seq(S) : u # <<>> /\ p = h \o u  BY <1>1
<1>3. Relative(h, p) = u  BY <1>1, <1>2, RelativeOf
<1>4. QED  BY <1>1, <1>2, <1>3

LEMMA HeadOf ==
  ASSUME NEW S, NEW h \in Seq(S), NEW u \in Seq(S), h # <<>>, u # <<>>
  PROVE  h \in Heads(h \o u)
<1>1. h \o u \in Seq(S)  OBVIOUS
<1>2. QED  BY <1>1, HeadSplit

(* The keys on the way to a path that goes on from another.                *)
LEMMA HeadsJoin ==
  ASSUME NEW S, NEW p \in Seq(S), NEW u \in Seq(S), u # <<>>, NEW h
  PROVE  h \in Heads(p \o u)
           <=> h \in Heads(p) \/ (h = p /\ p # <<>>) \/ \E g \in Heads(u) : h = p \o g
<1>0. p \o u \in Seq(S)  OBVIOUS
<1>1. ASSUME h \in Heads(p \o u)
      PROVE  h \in Heads(p) \/ (h = p /\ p # <<>>) \/ \E g \in Heads(u) : h = p \o g
  <2> DEFINE v == Relative(h, p \o u)
  <2>1. h \in Seq(S) /\ h # <<>> /\ v \in Seq(S) /\ v # <<>> /\ p \o u = h \o v
    BY <1>0, <1>1, HeadRest
  <2> HIDE DEF v
  <2>3. CASE Len(p) <= Len(h)
    <3> DEFINE z == Relative(p, h)
    <3>0. h \in Seq(S) /\ v \in Seq(S) /\ p \o u = h \o v /\ Len(p) <= Len(h)  BY <2>1, <2>3
    <3>1. IsPrefix(p, h)  BY <3>0, JoinLonger
    <3>5. z \in Seq(S) /\ h = p \o z  BY <3>0, <3>1, PrefixRest
    <3> HIDE DEF z
    <3>6. (p \o z) \o v = p \o (z \o v) /\ z \o v \in Seq(S)  BY <3>0, <3>5, JoinedThree
    <3>7. u = z \o v  BY <3>0, <3>5, <3>6, JoinCancel
    <3>2. CASE z = <<>>
      <4>1. h = p  BY <3>5, <3>2, EmptyJoin
      <4>2. QED  BY <4>1, <2>1
    <3>3. CASE z # <<>>
      <4>1. z \in Heads(u)  BY <3>5, <3>7, <3>3, <2>1, HeadOf
      <4>2. QED  BY <3>5, <4>1
    <3>4. QED  BY <3>2, <3>3
  <2>4. CASE Len(h) <= Len(p)
    <3> DEFINE z == Relative(h, p)
    <3>0. h \in Seq(S) /\ v \in Seq(S) /\ h \o v = p \o u /\ Len(h) <= Len(p)  BY <2>1, <2>4
    <3>1. IsPrefix(h, p)  BY <3>0, JoinLonger
    <3>5. z \in Seq(S) /\ p = h \o z  BY <3>0, <3>1, PrefixRest
    <3> HIDE DEF z
    <3>2. CASE z = <<>>
      <4>1. h = p  BY <2>1, <3>5, <3>2, EmptyJoin
      <4>2. QED  BY <4>1, <2>1
    <3>3. CASE z # <<>>
      <4>1. h \in Heads(p)  BY <2>1, <3>5, <3>3, HeadOf
      <4>2. QED  BY <4>1
    <3>4. QED  BY <3>2, <3>3
  <2>5. Len(p) <= Len(h) \/ Len(h) <= Len(p)
    <3>1. Len(p) \in Nat /\ Len(h) \in Nat  BY <2>1
    <3>2. QED  BY <3>1
  <2>6. QED  BY <2>3, <2>4, <2>5
<1>2. ASSUME h \in Heads(p) PROVE h \in Heads(p \o u)
  <2> DEFINE v == Relative(h, p)
  <2>1. h \in Seq(S) /\ h # <<>> /\ v \in Seq(S) /\ v # <<>> /\ p = h \o v
    BY <1>2, HeadRest
  <2> HIDE DEF v
  <2>3. (h \o v) \o u = h \o (v \o u)  BY <2>1, JoinedThree
  <2>4. v \o u \in Seq(S) /\ v \o u # <<>>  BY <2>1, JoinEmpty
  <2>5. h \in Heads(h \o (v \o u))  BY <2>1, <2>4, HeadOf
  <2>6. QED  BY <2>1, <2>3, <2>5
<1>3. ASSUME h = p, p # <<>> PROVE h \in Heads(p \o u)
  BY <1>3, HeadOf
<1>4. ASSUME NEW g \in Heads(u) PROVE p \o g \in Heads(p \o u)
  <2> DEFINE v == Relative(g, u)
  <2>1. g \in Seq(S) /\ g # <<>> /\ v \in Seq(S) /\ v # <<>> /\ u = g \o v
    BY <1>4, HeadRest
  <2> HIDE DEF v
  <2>3. (p \o g) \o v = p \o (g \o v)  BY <2>1, JoinedThree
  <2>4. p \o g \in Seq(S) /\ p \o g # <<>>  BY <2>1, JoinEmpty
  <2>5. p \o g \in Heads((p \o g) \o v)  BY <2>1, <2>4, HeadOf
  <2>6. QED  BY <2>1, <2>3, <2>5
<1>5. QED  BY <1>1, <1>2, <1>3, <1>4

(* What is on the way to a key on the way is on the way.                   *)
LEMMA HeadsOfHeads ==
  ASSUME NEW S, NEW p \in Seq(S), NEW h \in Heads(p)
  PROVE  h \in Seq(S) /\ h # <<>> /\ h # p /\ \A g \in Heads(h) : g \in Heads(p)
<1> DEFINE v == Relative(h, p)
<1>1. h \in Seq(S) /\ h # <<>> /\ v \in Seq(S) /\ v # <<>> /\ p = h \o v
  BY HeadRest
<1> HIDE DEF v
<1>3. \A g \in Heads(h) : g \in Heads(p)
  <2> SUFFICES ASSUME NEW g \in Heads(h) PROVE g \in Heads(p)  OBVIOUS
  <2>1. g \in Heads(h \o v)  BY <1>1, HeadsJoin
  <2>2. QED  BY <2>1, <1>1
<1>4. h # p
  <2>1. Len(p) = Len(h) + Len(v) /\ Len(v) > 0  BY <1>1
  <2>2. QED  BY <2>1, <1>1
<1>5. QED  BY <1>1, <1>3, <1>4

(* The last key of a path.                                                 *)
LEMMA PathEnds ==
  ASSUME NEW S, NEW p \in Seq(S), p # <<>>
  PROVE  /\ Len(p) > 0 /\ Front(p) \in Seq(S) /\ Last(p) \in S
         /\ p = Front(p) \o <<Last(p)>> /\ Len(Front(p)) = Len(p) - 1
<1>1. Len(p) > 0 /\ Len(p) \in Nat  OBVIOUS
<1>2. Front(p) \in Seq(S) /\ Len(Front(p)) = Len(p) - 1
  <2>1. 1 \in Int /\ Len(p) - 1 \in Int /\ \A i \in 1..Len(p) - 1 : p[i] \in S  BY <1>1
  <2>2. /\ SubSeq(p, 1, Len(p) - 1) \in Seq(S)
        /\ Len(SubSeq(p, 1, Len(p) - 1)) = IF 1 <= Len(p) - 1 THEN Len(p) - 1 - 1 + 1 ELSE 0
    BY <2>1, SubSeqProperties
  <2>3. Front(p) = SubSeq(p, 1, Len(p) - 1)  BY DEF Front
  <2>0. \A n \in Nat : n > 0 /\ ~(1 <= n - 1) => n - 1 = 0  OBVIOUS
  <2>4. Len(Front(p)) = Len(p) - 1
    <3>1. CASE 1 <= Len(p) - 1  BY <1>1, <2>2, <2>3, <3>1
    <3>2. CASE ~(1 <= Len(p) - 1)
      <4>1. Len(SubSeq(p, 1, Len(p) - 1)) = 0  BY <2>2, <3>2
      <4>2. Len(p) - 1 = 0  BY <1>1, <3>2, <2>0
      <4>3. QED  BY <2>3, <4>1, <4>2
    <3>3. QED  BY <3>1, <3>2
  <2>5. QED  BY <2>2, <2>3, <2>4
<1>3. Last(p) \in S  BY <1>1 DEF Last
<1>4. p = Front(p) \o <<Last(p)>>
  <2>1. Len(p) \in 1..Len(p) /\ 1 \in 1..Len(p) /\ Len(p) \in 1..Len(p)  BY <1>1
  <2>2. SubSeq(p, 1, Len(p)) = SubSeq(p, 1, Len(p) - 1) \o <<p[Len(p)]>>
    BY <2>1, SubSeqRecursiveSecond
  <2>3. QED  BY <2>2, SubSeqFull DEF Front, Last
<1>5. QED  BY <1>1, <1>2, <1>3, <1>4

LEMMA EndsOf ==
  ASSUME NEW S, NEW p \in Seq(S), NEW k \in S
  PROVE  Last(p \o <<k>>) = k /\ Front(p \o <<k>>) = p
<1>1. p \o <<k>> = Append(p, k)  BY AppendIsConcat
<1>2. Len(Append(p, k)) = Len(p) + 1 /\ Append(p, k)[Len(p) + 1] = k  OBVIOUS
<1>3. Last(p \o <<k>>) = k  BY <1>1, <1>2 DEF Last
<1>4. Front(p \o <<k>>) \o <<k>> = p \o <<k>> /\ Front(p \o <<k>>) \in Seq(S)
  <2>1. p \o <<k>> \in Seq(S) /\ p \o <<k>> # <<>>  BY <1>1, <1>2
  <2>2. QED  BY <1>3, <2>1, PathEnds
<1>5. Append(Front(p \o <<k>>), k) = Append(p, k)
  BY <1>1, <1>4, AppendIsConcat
<1> DEFINE f == Front(p \o <<k>>)
<1> HIDE DEF f
<1>6. f \in Seq(S) /\ Append(f, k) = Append(p, k)  BY <1>4, <1>5 DEF f
<1>8. f = p  BY <1>6, AppendInjective
<1>9. QED  BY <1>3, <1>8 DEF f

LEMMA LastJoin ==
  ASSUME NEW S, NEW p \in Seq(S), NEW u \in Seq(S), u # <<>>
  PROVE  Last(p \o u) = Last(u) /\ Front(p \o u) = p \o Front(u)
<1>1. PICK f \in Seq(S), k \in S : f = Front(u) /\ k = Last(u)  BY PathEnds
<1>2. u = f \o <<k>>  BY <1>1, PathEnds
<1>3. <<k>> \in Seq(S)  OBVIOUS
<1>4. (p \o f) \o <<k>> = p \o (f \o <<k>>)  BY <1>3, JoinedThree
<1>5. p \o f \in Seq(S)  OBVIOUS
<1>6. Last((p \o f) \o <<k>>) = k /\ Front((p \o f) \o <<k>>) = p \o f  BY <1>5, EndsOf
<1>7. QED  BY <1>1, <1>2, <1>4, <1>6

(* The last key of a path in place of which another stands.                *)
LEMMA LastChanged ==
  ASSUME NEW S, NEW p \in Seq(S), p # <<>>, NEW k \in S
  PROVE  /\ [p EXCEPT ![Len(p)] = k] \in Seq(S)
         /\ [p EXCEPT ![Len(p)] = k] = Front(p) \o <<k>>
<1> DEFINE q == [p EXCEPT ![Len(p)] = k]
<1> DEFINE r == Front(p) \o <<k>>
<1>1. /\ Len(p) \in Nat /\ Len(p) > 0 /\ Front(p) \in Seq(S)
      /\ p = Front(p) \o <<Last(p)>> /\ Len(Front(p)) = Len(p) - 1 /\ Last(p) \in S
  <2>1. /\ Len(p) > 0 /\ Front(p) \in Seq(S) /\ Last(p) \in S
        /\ p = Front(p) \o <<Last(p)>> /\ Len(Front(p)) = Len(p) - 1
    BY PathEnds
  <2>2. Len(p) \in Nat  OBVIOUS
  <2>3. QED  BY <2>1, <2>2
<1>2. q \in Seq(S) /\ Len(q) = Len(p)  BY <1>1
<1>3. r \in Seq(S) /\ Len(r) = Len(p)
  <2>1. <<k>> \in Seq(S) /\ Len(<<k>>) = 1  OBVIOUS
  <2>2. r \in Seq(S) /\ Len(r) = Len(Front(p)) + 1  BY <1>1, <2>1
  <2>3. QED  BY <1>1, <2>2
<1>4. \A i \in 1..Len(p) : q[i] = r[i]
  <2> SUFFICES ASSUME NEW i \in 1..Len(p) PROVE q[i] = r[i]  OBVIOUS
  <2>1. CASE i = Len(p)
    <3>1. q[i] = k  BY <1>1, <2>1
    <3>2. r[i] = k
      <4>1. Front(p) \o <<k>> = Append(Front(p), k)  BY <1>1, AppendIsConcat
      <4>2. Append(Front(p), k)[Len(Front(p)) + 1] = k  BY <1>1
      <4>3. Len(Front(p)) + 1 = Len(p)  BY <1>1
      <4>4. QED  BY <4>1, <4>2, <4>3, <2>1
    <3>3. QED  BY <3>1, <3>2
  <2>2. CASE i # Len(p)
    <3>1. i \in 1..Len(Front(p))  BY <1>1, <2>2
    <3>2. p[i] = (Front(p) \o <<Last(p)>>)[i]  BY <1>1
    <3>3. (Front(p) \o <<Last(p)>>)[i] = Front(p)[i]  BY <1>1, <3>1
    <3>4. r[i] = Front(p)[i]  BY <1>1, <3>1
    <3>5. q[i] = p[i]  BY <1>1, <2>2
    <3>6. QED  BY <3>2, <3>3, <3>4, <3>5
  <2>3. QED  BY <2>1, <2>2
<1>5. q = r
  <2> HIDE DEF q, r
  <2>1. QED  BY <1>2, <1>3, <1>4, SameSeq
<1>6. QED  BY <1>2, <1>5

LEMMA HeadsOne ==
  ASSUME NEW S, NEW f \in Seq(S), NEW k \in S, NEW h
  PROVE  h \in Heads(f \o <<k>>) <=> h \in Heads(f) \/ (h = f /\ f # <<>>)
<1>1. <<k>> \in Seq(S) /\ <<k>> # <<>> /\ Len(<<k>>) = 1  OBVIOUS
<1>2. Heads(<<k>>) = {}
  <2>1. 1..(Len(<<k>>) - 1) = {}  BY <1>1
  <2>2. QED  BY <2>1 DEF Heads
<1>3. h \in Heads(f \o <<k>>)
        <=> h \in Heads(f) \/ (h = f /\ f # <<>>) \/ \E g \in Heads(<<k>>) : h = f \o g
  <2> DEFINE u == <<k>>
  <2>1. u \in Seq(S) /\ u # <<>>  BY <1>1
  <2> HIDE DEF u
  <2>2. h \in Heads(f \o u)
          <=> h \in Heads(f) \/ (h = f /\ f # <<>>) \/ \E g \in Heads(u) : h = f \o g
    BY <2>1, HeadsJoin, SMTT(60)
  <2>3. QED  BY <2>2 DEF u
<1>4. QED  BY <1>2, <1>3

Ends(p, k) == [p EXCEPT ![Len(p)] = k]

LEMMA Siblings ==
  ASSUME NEW S, NEW p \in Seq(S), p # <<>>, NEW k \in S
  PROVE  /\ Ends(p, k) \in Seq(S) /\ Ends(p, k) # <<>>
         /\ Last(Ends(p, k)) = k /\ Front(Ends(p, k)) = Front(p) /\ Heads(Ends(p, k)) = Heads(p)
<1> DEFINE q == Ends(p, k)
<1>1. q \in Seq(S) /\ q = Front(p) \o <<k>>  BY LastChanged DEF Ends
<1> HIDE DEF q
<1>2. Front(p) \in Seq(S) /\ Last(p) \in S /\ p = Front(p) \o <<Last(p)>>  BY PathEnds
<1>3. Last(q) = k /\ Front(q) = Front(p)
  <2> DEFINE f == Front(p)
  <2> HIDE DEF f
  <2>1. Last(f \o <<k>>) = k /\ Front(f \o <<k>>) = f  BY <1>2, EndsOf DEF f
  <2>2. QED  BY <1>1, <2>1 DEF f
<1>4. q # <<>>
  <2>1. <<k>> \in Seq(S) /\ <<k>> # <<>>  OBVIOUS
  <2>2. QED  BY <1>1, <1>2, <2>1, JoinEmpty
<1>5. \A h : h \in Heads(q) <=> h \in Heads(Front(p)) \/ (h = Front(p) /\ Front(p) # <<>>)
  <2> DEFINE f == Front(p)
  <2> HIDE DEF f
  <2>1. \A h : h \in Heads(f \o <<k>>) <=> h \in Heads(f) \/ (h = f /\ f # <<>>)
    BY <1>2, HeadsOne DEF f
  <2>2. QED  BY <1>1, <2>1 DEF f
<1>6. \A h : h \in Heads(p) <=> h \in Heads(Front(p)) \/ (h = Front(p) /\ Front(p) # <<>>)
  <2> DEFINE f == Front(p)  l == Last(p)
  <2> HIDE DEF f, l
  <2>1. \A h : h \in Heads(f \o <<l>>) <=> h \in Heads(f) \/ (h = f /\ f # <<>>)
    BY <1>2, HeadsOne DEF f, l
  <2>2. f \o <<l>> = p  BY <1>2 DEF f, l
  <2>3. QED  BY <2>1, <2>2 DEF f
<1>7. QED  BY <1>1, <1>3, <1>4, <1>5, <1>6 DEF q

(* The keys "K" and "+K" are beside each other.                            *)
LEMMA TwinIs ==
  ASSUME NEW p \in Path, p # <<>>
  PROVE  /\ Twin(p) \in Path /\ Twin(p) # <<>> /\ Heads(Twin(p)) = Heads(p)
         /\ Front(Twin(p)) = Front(p) /\ Last(Twin(p)) = <<"+", Last(p)[2]>>
<1>1. Last(p) \in Tags  BY PathEnds DEF Path
<1>2. <<"+", Last(p)[2]>> \in Tags  BY <1>1 DEF Tags
<1>3. Twin(p) = [p EXCEPT ![Len(p)] = <<"+", Last(p)[2]>>]
  BY DEF Twin, Appending, Last
<1>4. p \in Seq(Tags)  BY DEF Path
<1> HIDE DEF Path
<1> DEFINE k == <<"+", Last(p)[2]>>
<1> HIDE DEF k
<1>5. k \in Tags /\ Twin(p) = [p EXCEPT ![Len(p)] = k]  BY <1>2, <1>3 DEF k
<1> DEFINE q == Twin(p)
<1> HIDE DEF q
<1>6. /\ q \in Seq(Tags) /\ q # <<>>
      /\ Last(q) = k /\ Front(q) = Front(p) /\ Heads(q) = Heads(p)
  <2>1. q = Ends(p, k)  BY <1>5 DEF q, Ends
  <2>2. QED  BY <1>4, <1>5, <2>1, Siblings
<1>7. QED  BY <1>6 DEF Path, k, q

LEMMA PlainIs ==
  ASSUME NEW p \in Path, p # <<>>
  PROVE  /\ Plain(p) \in Path /\ Plain(p) # <<>> /\ Heads(Plain(p)) = Heads(p)
         /\ Front(Plain(p)) = Front(p) /\ Last(Plain(p)) = <<"", Last(p)[2]>>
<1>1. Last(p) \in Tags  BY PathEnds DEF Path
<1>2. <<"", Last(p)[2]>> \in Tags  BY <1>1 DEF Tags
<1>3. Plain(p) = [p EXCEPT ![Len(p)] = <<"", Last(p)[2]>>]
  BY DEF Plain, Tag, Last
<1>4. p \in Seq(Tags)  BY DEF Path
<1> HIDE DEF Path
<1> DEFINE k == <<"", Last(p)[2]>>
<1> HIDE DEF k
<1>5. k \in Tags /\ Plain(p) = [p EXCEPT ![Len(p)] = k]  BY <1>2, <1>3 DEF k
<1> DEFINE q == Plain(p)
<1> HIDE DEF q
<1>6. /\ q \in Seq(Tags) /\ q # <<>>
      /\ Last(q) = k /\ Front(q) = Front(p) /\ Heads(q) = Heads(p)
  <2>1. q = Ends(p, k)  BY <1>5 DEF q, Ends
  <2>2. QED  BY <1>4, <1>5, <2>1, Siblings
<1>7. QED  BY <1>6 DEF Path, k, q

LEMMA ConcatType ==
  ASSUME NEW v \in Value, NEW x \in Value
  PROVE  Concat(v, x) \in Value /\ Concat(v, x).typ = v.typ
<1>1. v.val \in Seq(Contents) /\ x.val \in Seq(Contents)  BY DEF Value
<1>2. v.val \o x.val \in Seq(Contents)  BY <1>1
<1>3. QED  BY <1>2 DEF Concat, Value

LEMMA ValueTypes ==
  /\ Map \in Value /\ Map.typ = "map"
  /\ \A x \in Contents : Str(<<x>>) \in Value /\ Str(<<x>>).typ = "str"
BY DEF Map, Str, Value

(* What keeps a table a tree: new keys below what is a map, or is to be.   *)
Fits(t, p, v) ==
  /\ p \in Path /\ p # <<>> /\ v \in Value
  /\ Last(p)[1] = "+" => (v.typ = "map" <=> Last(p) = Plus)

LEMMA TableIs ==
  ASSUME NEW t
  PROVE  IsTable(t) <=>
           /\ t = [p \in DOMAIN t |-> t[p]]
           /\ \A p \in DOMAIN t : Fits(t, p, t[p]) /\ \A h \in Heads(p) : IsMap(t, h)
BY DEF IsTable, Fits, Path, IsMap

LEMMA TableExtended ==
  ASSUME NEW t, NEW u, IsTable(t), u = [p \in DOMAIN u |-> u[p]],
         \A p \in DOMAIN u : Fits(t, p, u[p]),
         \A p \in DOMAIN u : \A h \in Heads(p) : IsMap(t, h) \/ (h \notin DOMAIN t /\ IsMap(u, h))
  PROVE  IsTable(t ++ u)
<1> DEFINE w == t ++ u
<1>1. /\ DOMAIN w = DOMAIN t \cup DOMAIN u
      /\ w = [p \in DOMAIN w |-> w[p]]
      /\ \A p \in DOMAIN t : w[p] = t[p]
      /\ \A p \in DOMAIN u : p \notin DOMAIN t => w[p] = u[p]
  <2>1. w = [p \in DOMAIN t \cup DOMAIN u |-> IF p \in DOMAIN t THEN t[p] ELSE u[p]]  BY DEF ++
  <2> HIDE DEF w
  <2>2. QED  BY <2>1
<1> HIDE DEF w
<1>2. \A h : IsMap(t, h) \/ (h \notin DOMAIN t /\ IsMap(u, h)) => IsMap(w, h)
  BY <1>1 DEF IsMap
<1>3. ASSUME NEW p \in DOMAIN w PROVE Fits(w, p, w[p]) /\ \A h \in Heads(p) : IsMap(w, h)
  <2>1. CASE p \in DOMAIN t
    <3>1. Fits(t, p, t[p]) /\ \A h \in Heads(p) : IsMap(t, h)  BY <2>1, TableIs
    <3>2. QED  BY <3>1, <1>1, <1>2, <2>1 DEF Fits
  <2>2. CASE p \notin DOMAIN t
    <3>1. p \in DOMAIN u  BY <1>1, <1>3, <2>2
    <3>2. Fits(t, p, u[p])  BY <3>1
    <3>3. w[p] = u[p]  BY <1>1, <3>1, <2>2
    <3>4. QED  BY <3>1, <3>2, <3>3, <1>2 DEF Fits
  <2>3. QED  BY <2>1, <2>2
<1>4. IsTable(w)  BY <1>1, <1>3, TableIs
<1>5. QED  BY <1>4 DEF w

(* A key that is no map may go; one that stays is what it was.             *)
LEMMA TablePruned ==
  ASSUME NEW t, NEW u, IsTable(t), u = [p \in DOMAIN u |-> u[p]], DOMAIN u \subseteq DOMAIN t,
         \A p \in DOMAIN u : u[p] \in Value /\ (u[p].typ = "map" <=> t[p].typ = "map"),
         \A p \in DOMAIN t \ DOMAIN u : t[p].typ # "map"
  PROVE  IsTable(u)
<1>1. ASSUME NEW p \in DOMAIN u PROVE Fits(u, p, u[p]) /\ \A h \in Heads(p) : IsMap(u, h)
  <2>1. Fits(t, p, t[p]) /\ \A h \in Heads(p) : IsMap(t, h)  BY TableIs
  <2>2. \A h : IsMap(t, h) => IsMap(u, h)  BY DEF IsMap
  <2>3. QED  BY <2>1, <2>2 DEF Fits
<1>2. QED  BY <1>1, TableIs

LEMMA ExtendedIs ==
  ASSUME NEW t, NEW u
  PROVE  /\ DOMAIN (t ++ u) = DOMAIN t \cup DOMAIN u
         /\ t ++ u = [p \in DOMAIN (t ++ u) |-> (t ++ u)[p]]
         /\ \A p \in DOMAIN t : (t ++ u)[p] = t[p]
         /\ \A p \in DOMAIN u : p \notin DOMAIN t => (t ++ u)[p] = u[p]
<1> DEFINE w == t ++ u
<1>1. w = [p \in DOMAIN t \cup DOMAIN u |-> IF p \in DOMAIN t THEN t[p] ELSE u[p]]  BY DEF ++
<1> HIDE DEF w
<1>2. QED  BY <1>1 DEF w

LEMMA SingleIs ==
  ASSUME NEW p, NEW v
  PROVE  /\ DOMAIN Single(p, v) = {p} /\ Single(p, v)[p] = v
         /\ Single(p, v) = [q \in DOMAIN Single(p, v) |-> Single(p, v)[q]]
BY DEF Single

(* What is a map remains one.                                              *)
MapsRemain(t, u) == \A p : IsMap(t, p) => IsMap(u, p)

LEMMA ExtendedKeeps ==
  ASSUME NEW t, NEW u
  PROVE  MapsRemain(t, t ++ u)
<1>1. DOMAIN (t ++ u) = DOMAIN t \cup DOMAIN u /\ \A p \in DOMAIN t : (t ++ u)[p] = t[p]
  <2> DEFINE w == t ++ u
  <2>1. w = [p \in DOMAIN t \cup DOMAIN u |-> IF p \in DOMAIN t THEN t[p] ELSE u[p]]  BY DEF ++
  <2> HIDE DEF w
  <2>2. QED  BY <2>1 DEF w
<1>2. QED  BY <1>1 DEF MapsRemain, IsMap

LEMMA SingleAdded ==
  ASSUME NEW t, NEW p, NEW v, IsTable(t), Fits(t, p, v), \A h \in Heads(p) : IsMap(t, h)
  PROVE  IsTable(t ++ Single(p, v)) /\ MapsRemain(t, t ++ Single(p, v))
<1> DEFINE u == Single(p, v)
<1>1. DOMAIN u = {p} /\ u[p] = v /\ u = [q \in DOMAIN u |-> u[q]]  BY SingleIs
<1> HIDE DEF u
<1>2. IsTable(t ++ u)
  <2>1. \A q \in DOMAIN u : Fits(t, q, u[q])  BY <1>1
  <2>2. \A q \in DOMAIN u : \A h \in Heads(q) : IsMap(t, h) \/ (h \notin DOMAIN t /\ IsMap(u, h))
    BY <1>1
  <2>3. QED  BY <1>1, <2>1, <2>2, TableExtended
<1>3. MapsRemain(t, t ++ u)  BY ExtendedKeeps
<1>4. QED  BY <1>2, <1>3 DEF u

(* The table of a key that is opened: the table itself, or one below it.   *)
Opened(t, dev) == dev \in Path /\ (dev = <<>> \/ IsMap(t, dev))

LEMMA HeadShorter ==
  ASSUME NEW p \in Path, NEW h \in Heads(p)
  PROVE  h \in Path /\ h # <<>> /\ Len(h) < Len(p)
<1> DEFINE v == Relative(h, p)
<1>1. p \in Seq(Tags)  BY DEF Path
<1>2. h \in Seq(Tags) /\ h # <<>> /\ v \in Seq(Tags) /\ v # <<>> /\ p = h \o v
  BY <1>1, HeadRest
<1> HIDE DEF v
<1>3. Len(h \o v) = Len(h) + Len(v) /\ Len(h) \in Nat /\ Len(v) \in Nat /\ Len(v) > 0  BY <1>2
<1>4. Len(h) < Len(p)  BY <1>2, <1>3
<1>5. QED  BY <1>2, <1>4 DEF Path

LEMMA HeadsNone == Heads(<<>>) = {}
<1>1. Len(<<>>) = 0 /\ 1..(0 - 1) = {}  OBVIOUS
<1>2. QED  BY <1>1 DEF Heads

LEMMA HeadsBelow ==
  ASSUME NEW t, NEW dev, IsTable(t), Opened(t, dev), NEW g \in Path, g # <<>>,
         NEW h \in Heads(dev \o g)
  PROVE  \/ IsMap(t, h) /\ ~(Len(h) > Len(dev))
         \/ /\ Len(h) > Len(dev)
            /\ \E f \in Heads(g) : h = dev \o f
<1>1. dev \in Seq(Tags) /\ g \in Seq(Tags)  BY DEF Opened, Path
<1>2. h \in Heads(dev) \/ (h = dev /\ dev # <<>>) \/ \E f \in Heads(g) : h = dev \o f
  BY <1>1, HeadsJoin, SMTT(60)
<1>3. CASE h \in Heads(dev)
  <2>1. Len(h) < Len(dev) /\ Len(h) \in Nat /\ Len(dev) \in Nat
    <3>1. dev \in Path  BY DEF Opened
    <3>2. Len(h) < Len(dev) /\ h \in Path  BY <1>3, <3>1, HeadShorter
    <3>3. QED  BY <3>1, <3>2 DEF Path
  <2>2. dev # <<>>
    <3>1. QED  BY <1>3, HeadsNone
  <2>3. IsMap(t, dev)  BY <2>2 DEF Opened
  <2>4. IsMap(t, h)  BY <2>3, <1>3, TableIs DEF IsMap
  <2>5. QED  BY <2>1, <2>4
<1>4. CASE h = dev /\ dev # <<>>
  <2>1. IsMap(t, h)  BY <1>4 DEF Opened
  <2>2. ~(Len(h) > Len(dev))
    <3>1. Len(dev) \in Nat  BY <1>1
    <3>2. QED  BY <3>1, <1>4
  <2>3. QED  BY <2>1, <2>2
<1>5. CASE \E f \in Heads(g) : h = dev \o f
  <2>1. PICK f \in Heads(g) : h = dev \o f  BY <1>5
  <2>2. f \in Seq(Tags) /\ f # <<>>
    <3>1. f \in Path /\ f # <<>>  BY HeadShorter
    <3>2. QED  BY <3>1 DEF Path
  <2>3. Len(h) = Len(dev) + Len(f) /\ Len(f) \in Nat /\ Len(f) > 0 /\ Len(dev) \in Nat  BY <1>1, <2>1, <2>2
  <2>4. Len(h) > Len(dev)  BY <2>3
  <2>5. QED  BY <2>1, <2>4
<1>6. QED  BY <1>2, <1>3, <1>4, <1>5

(* The keys of a line of a data file: none is appended to in them.         *)
Named == {"", "/"} \X (Names \ {""})

LEMMA KeysNamed ==
  ASSUME NEW key \in Seq(Named), key # <<>>
  PROVE  /\ key \in Path /\ Last(key) \in Named
         /\ \A f \in Heads(key) : f \in Path /\ f # <<>> /\ Last(f) \in Named
<1>1. Named \subseteq Tags  BY DEF Named, Tags
<1>2. \A s \in Seq(Named) : s \in Seq(Tags)
  BY <1>1, SeqMonotonic
<1>3. Last(key) \in Named  BY PathEnds
<1>4. ASSUME NEW f \in Heads(key) PROVE f \in Path /\ f # <<>> /\ Last(f) \in Named
  <2>1. f \in Seq(Named) /\ f # <<>>  BY HeadRest
  <2>2. Last(f) \in Named  BY <2>1, PathEnds
  <2>3. QED  BY <2>1, <2>2, <1>2 DEF Path
<1>5. QED  BY <1>2, <1>3, <1>4 DEF Path

LEMMA LongerSplit ==
  ASSUME NEW t, NEW dev, IsTable(t), Opened(t, dev), NEW key \in Seq(Named), key # <<>>
  PROVE  /\ dev \o key \in Path /\ dev \o key # <<>> /\ Last(dev \o key) \in Named
         /\ \A h \in Heads(dev \o key) :
              /\ h \in Path /\ h # <<>>
              /\ ~(Len(h) > Len(dev)) => IsMap(t, h)
              /\ Len(h) > Len(dev) => Last(h) \in Named
<1>1. dev \in Seq(Tags) /\ key \in Seq(Tags) /\ Last(key) \in Named  BY KeysNamed DEF Opened, Path
<1>2. dev \o key \in Seq(Tags) /\ dev \o key # <<>>  BY <1>1, JoinEmpty
<1>3. Last(dev \o key) = Last(key)  BY <1>1, LastJoin
<1>4. ASSUME NEW h \in Heads(dev \o key)
      PROVE  /\ h \in Path /\ h # <<>>
             /\ ~(Len(h) > Len(dev)) => IsMap(t, h)
             /\ Len(h) > Len(dev) => Last(h) \in Named
  <2>1. h \in Path /\ h # <<>>
    <3>1. dev \o key \in Path  BY <1>2 DEF Path
    <3>2. QED  BY <3>1, <1>4, HeadShorter
  <2>2. key \in Path  BY <1>1 DEF Path
  <2>3. \/ IsMap(t, h) /\ ~(Len(h) > Len(dev))
        \/ Len(h) > Len(dev) /\ \E f \in Heads(key) : h = dev \o f
    BY <1>4, <2>2, HeadsBelow
  <2>4. ASSUME NEW f \in Heads(key), h = dev \o f PROVE Last(h) \in Named
    <3>1. f \in Path /\ f # <<>> /\ Last(f) \in Named  BY KeysNamed
    <3>2. f \in Seq(Tags)  BY <3>1 DEF Path
    <3>3. Last(dev \o f) = Last(f)  BY <1>1, <3>1, <3>2, LastJoin
    <3>4. QED  BY <3>1, <3>3, <2>4
  <2>5. QED  BY <2>1, <2>3, <2>4
<1>5. QED  BY <1>1, <1>2, <1>3, <1>4 DEF Path

LEMMA NamedFits ==
  ASSUME NEW t, NEW p \in Path, p # <<>>, NEW v \in Value, Last(p)[1] # "+"
  PROVE  Fits(t, p, v)
BY DEF Fits

(* The maps that a line makes on the way to its key.                       *)
LEMMA MapsMade ==
  ASSUME NEW t, NEW u, NEW missing, NEW maps, IsTable(t), IsTable(u), MapsRemain(t, u),
         maps = [h \in missing |-> Map],
         \A h \in missing : /\ h \in Path /\ h # <<>> /\ Last(h)[1] # "+"
                            /\ \A g \in Heads(h) : IsMap(t, g) \/ (g \in missing /\ g \notin DOMAIN u)
  PROVE  /\ IsTable(u ++ maps)
         /\ \A h : IsMap(t, h) \/ (h \in missing /\ h \notin DOMAIN u) => IsMap(u ++ maps, h)
<1>1. DOMAIN maps = missing /\ maps = [h \in DOMAIN maps |-> maps[h]] /\ \A h \in missing : maps[h] = Map
  OBVIOUS
<1>2. \A p \in DOMAIN maps : Fits(u, p, maps[p])
  BY <1>1, ValueTypes, NamedFits
<1>3. \A h \in missing : IsMap(maps, h)  BY <1>1, ValueTypes DEF IsMap
<1>4. \A p \in DOMAIN maps : \A h \in Heads(p) : IsMap(u, h) \/ (h \notin DOMAIN u /\ IsMap(maps, h))
  BY <1>1, <1>3 DEF MapsRemain
<1>5. IsTable(u ++ maps)  BY <1>1, <1>2, <1>4, TableExtended
<1>6. MapsRemain(u, u ++ maps)  BY ExtendedKeeps
<1>7. ASSUME NEW h \in missing, h \notin DOMAIN u PROVE IsMap(u ++ maps, h)
  <2>1. h \in DOMAIN (u ++ maps) /\ (u ++ maps)[h] = maps[h]
    <3> DEFINE w == u ++ maps
    <3>1. w = [p \in DOMAIN u \cup DOMAIN maps |-> IF p \in DOMAIN u THEN u[p] ELSE maps[p]]  BY DEF ++
    <3> HIDE DEF w
    <3>2. QED  BY <3>1, <1>1, <1>7 DEF w
  <2>2. QED  BY <2>1, <1>1, <1>7, ValueTypes DEF IsMap
<1>8. QED  BY <1>5, <1>6, <1>7 DEF MapsRemain

LEMMA AppendingNamed ==
  \A n : <<"+", n>>[1] = "+" /\ (n # "" => <<"+", n>> # Plus)
<1> SUFFICES ASSUME NEW n PROVE <<"+", n>>[1] = "+" /\ (n # "" => <<"+", n>> # Plus)  OBVIOUS
<1>1. <<"+", n>>[2] = n /\ Plus[2] = ""  BY DEF Plus
<1>2. QED  BY <1>1

LEMMA AddToMapTable ==
  ASSUME NEW t, NEW dev, IsTable(t), Opened(t, dev), NEW key \in Seq(Named), key # <<>>,
         NEW x \in Contents
  PROVE  IsTable(AddToMap(t, dev, key, x)) /\ MapsRemain(t, AddToMap(t, dev, key, x))
<1> DEFINE p == dev \o key
           heads == {h \in Heads(p) : Len(h) > Len(dev)}
           missing == heads \ DOMAIN t
           maps == [h \in missing |-> Map]
           kept == [q \in DOMAIN t \ {Twin(h) : h \in missing} |-> t[q]]
<1>1. AddToMap(t, dev, key, x) =
        IF \E h \in heads : IsLeaf(t, h) THEN t ELSE kept ++ maps ++ Single(p, Str(<<x>>))
  BY DEF AddToMap
<1>2. /\ p \in Path /\ p # <<>> /\ Last(p) \in Named
      /\ \A h \in Heads(p) : /\ h \in Path /\ h # <<>>
                             /\ ~(Len(h) > Len(dev)) => IsMap(t, h)
                             /\ Len(h) > Len(dev) => Last(h) \in Named
  BY LongerSplit
<1> HIDE DEF p
<1>3. CASE \E h \in heads : IsLeaf(t, h)
  BY <1>1, <1>3 DEF MapsRemain
<1>4. CASE ~ \E h \in heads : IsLeaf(t, h)
  <2>1. \A k \in Named : k[1] # "+" /\ k[2] # ""  BY DEF Named
  <2>2. \A h \in heads : IsMap(t, h) \/ h \in missing  BY <1>4 DEF IsMap, IsLeaf
  <2>3. \A h \in Heads(p) : IsMap(t, h) \/ h \in missing  BY <1>2, <2>2
  <2>4. \A h \in missing : Twin(h) \in DOMAIN t => t[Twin(h)].typ # "map"
    <3> SUFFICES ASSUME NEW h \in missing, Twin(h) \in DOMAIN t PROVE t[Twin(h)].typ # "map"
      OBVIOUS
    <3>1. h \in Path /\ h # <<>> /\ Last(h) \in Named  BY <1>2
    <3>2. Last(Twin(h)) = <<"+", Last(h)[2]>>  BY <3>1, TwinIs
    <3>3. Last(Twin(h)) # Plus /\ Last(Twin(h))[1] = "+"  BY <2>1, <3>1, <3>2, AppendingNamed
    <3>4. Fits(t, Twin(h), t[Twin(h)])  BY TableIs
    <3>5. QED  BY <3>3, <3>4 DEF Fits
  <2>5. IsTable(kept) /\ MapsRemain(t, kept) /\ DOMAIN kept \subseteq DOMAIN t
    <3>1. /\ DOMAIN kept = DOMAIN t \ {Twin(h) : h \in missing}
          /\ kept = [q \in DOMAIN kept |-> kept[q]]
          /\ \A q \in DOMAIN kept : kept[q] = t[q]
      OBVIOUS
    <3> HIDE DEF kept
    <3>2. \A q \in DOMAIN t \ DOMAIN kept : t[q].typ # "map"
      <4> HIDE DEF missing
      <4>1. QED  BY <3>1, <2>4
    <3> HIDE DEF missing
    <3>3. \A q \in DOMAIN t : t[q] \in Value  BY TableIs DEF Fits
    <3>4. IsTable(kept)  BY <3>1, <3>2, <3>3, TablePruned
    <3>5. MapsRemain(t, kept)  BY <3>1, <3>2 DEF MapsRemain, IsMap
    <3>6. QED  BY <3>1, <3>4, <3>5
  <2> HIDE DEF kept
  <2>6. \A h \in missing : /\ h \in Path /\ h # <<>> /\ Last(h)[1] # "+"
                           /\ \A g \in Heads(h) : IsMap(t, g) \/ (g \in missing /\ g \notin DOMAIN kept)
    <3> SUFFICES ASSUME NEW h \in missing
                 PROVE  /\ h \in Path /\ h # <<>> /\ Last(h)[1] # "+"
                        /\ \A g \in Heads(h) : IsMap(t, g) \/ (g \in missing /\ g \notin DOMAIN kept)
      OBVIOUS
    <3>1. h \in Heads(p) /\ h \in Path /\ h # <<>> /\ Last(h) \in Named  BY <1>2
    <3>2. \A g \in Heads(h) : g \in Heads(p)
      <4>1. p \in Seq(Tags)  BY <1>2 DEF Path
      <4>2. QED  BY <3>1, <4>1, HeadsOfHeads
    <3>3. QED  BY <2>1, <2>3, <2>5, <3>1, <3>2
  <2>7. \A h \in missing : h \notin DOMAIN kept  BY <2>5
  <2>8. maps = [h \in missing |-> Map]  OBVIOUS
  <2> HIDE DEF missing, heads, maps
  <2>9. /\ IsTable(kept ++ maps)
        /\ \A h : IsMap(t, h) \/ (h \in missing /\ h \notin DOMAIN kept) => IsMap(kept ++ maps, h)
    BY <2>5, <2>6, <2>8, MapsMade
  <2>10. \A h \in Heads(p) : IsMap(kept ++ maps, h)  BY <2>3, <2>7, <2>9
  <2>11. Fits(kept ++ maps, p, Str(<<x>>))  BY <1>2, <2>1, ValueTypes, NamedFits
  <2> DEFINE w == kept ++ maps
  <2>12. IsTable(w) /\ Fits(w, p, Str(<<x>>)) /\ (\A h \in Heads(p) : IsMap(w, h)) /\ MapsRemain(t, w)
    BY <2>9, <2>10, <2>11 DEF MapsRemain
  <2> HIDE DEF w
  <2>13. IsTable(w ++ Single(p, Str(<<x>>))) /\ MapsRemain(w, w ++ Single(p, Str(<<x>>)))
    BY <2>12, SingleAdded
  <2>14. AddToMap(t, dev, key, x) = w ++ Single(p, Str(<<x>>))  BY <1>1, <1>4 DEF w, heads
  <2>15. QED  BY <2>12, <2>13, <2>14 DEF MapsRemain
<1>5. QED  BY <1>3, <1>4

LEMMA AppendToMapTable ==
  ASSUME NEW t, NEW dev, IsTable(t), Opened(t, dev), NEW key \in Seq(Named), key # <<>>,
         NEW x \in Contents,
         \A h \in Heads(dev \o key) : Len(h) > Len(dev) => ~IsLeaf(t, h)
  PROVE  IsTable(AppendToMap(t, dev, key, x)) /\ MapsRemain(t, AppendToMap(t, dev, key, x))
<1> DEFINE p == dev \o key
           missing == {h \in Heads(p) \ DOMAIN t : Len(h) > Len(dev)}
           maps == [h \in missing |-> Map]
           to == IF p \in DOMAIN t THEN p ELSE Twin(p)
           longer == [t EXCEPT ![to] = Concat(@, Str(<<x>>))]
<1>1. AppendToMap(t, dev, key, x) =
        IF to \in DOMAIN t THEN longer ELSE t ++ maps ++ Single(to, Str(<<x>>))
  BY DEF AppendToMap
<1>2. /\ p \in Path /\ p # <<>> /\ Last(p) \in Named
      /\ \A h \in Heads(p) : /\ h \in Path /\ h # <<>>
                             /\ ~(Len(h) > Len(dev)) => IsMap(t, h)
                             /\ Len(h) > Len(dev) => Last(h) \in Named
  BY LongerSplit
<1>0. \A h \in Heads(p) : Len(h) > Len(dev) => ~IsLeaf(t, h)  OBVIOUS
<1> HIDE DEF p
<1>3. CASE to \in DOMAIN t
  <2> HIDE DEF to
  <2>1. /\ DOMAIN longer = DOMAIN t /\ longer = [q \in DOMAIN longer |-> longer[q]]
        /\ longer[to] = Concat(t[to], Str(<<x>>))
        /\ \A q \in DOMAIN t : q # to => longer[q] = t[q]
    <3>1. t = [q \in DOMAIN t |-> t[q]]  BY TableIs
    <3>2. QED  BY <1>3, <3>1
  <2>2. \A q \in DOMAIN t : t[q] \in Value  BY TableIs DEF Fits
  <2>3. Concat(t[to], Str(<<x>>)) \in Value /\ Concat(t[to], Str(<<x>>)).typ = t[to].typ
    BY <1>3, <2>2, ValueTypes, ConcatType
  <2> HIDE DEF longer
  <2>4. \A q \in DOMAIN t : longer[q] \in Value /\ longer[q].typ = t[q].typ
    BY <2>1, <2>2, <2>3
  <2>5. IsTable(longer)  BY <2>1, <2>4, TablePruned
  <2>6. MapsRemain(t, longer)  BY <2>1, <2>4 DEF MapsRemain, IsMap
  <2>7. QED  BY <1>1, <1>3, <2>5, <2>6
<1>4. CASE to \notin DOMAIN t
  <2>1. \A k \in Named : k[1] # "+" /\ k[2] # ""  BY DEF Named
  <2>2. p \notin DOMAIN t /\ to = Twin(p)  BY <1>4
  <2>3. /\ to \in Path /\ to # <<>> /\ Heads(to) = Heads(p) /\ Last(to) = <<"+", Last(p)[2]>>
    BY <1>2, <2>2, TwinIs
  <2>4. \A h \in Heads(p) : IsMap(t, h) \/ h \in missing  BY <1>0, <1>2 DEF IsMap, IsLeaf
  <2>6. \A h \in missing : /\ h \in Path /\ h # <<>> /\ Last(h)[1] # "+"
                           /\ \A g \in Heads(h) : IsMap(t, g) \/ (g \in missing /\ g \notin DOMAIN t)
    <3> SUFFICES ASSUME NEW h \in missing
                 PROVE  /\ h \in Path /\ h # <<>> /\ Last(h)[1] # "+"
                        /\ \A g \in Heads(h) : IsMap(t, g) \/ (g \in missing /\ g \notin DOMAIN t)
      OBVIOUS
    <3>1. h \in Heads(p) /\ h \in Path /\ h # <<>> /\ Last(h) \in Named  BY <1>2
    <3>2. \A g \in Heads(h) : g \in Heads(p)
      <4>1. p \in Seq(Tags)  BY <1>2 DEF Path
      <4>2. QED  BY <3>1, <4>1, HeadsOfHeads
    <3>3. QED  BY <2>1, <2>4, <3>1, <3>2
  <2>7. \A h \in missing : h \notin DOMAIN t  OBVIOUS
  <2>8. maps = [h \in missing |-> Map] /\ MapsRemain(t, t)  BY DEF MapsRemain
  <2> HIDE DEF missing, maps
  <2>9. /\ IsTable(t ++ maps)
        /\ \A h : IsMap(t, h) \/ (h \in missing /\ h \notin DOMAIN t) => IsMap(t ++ maps, h)
    BY <2>6, <2>8, MapsMade
  <2> DEFINE w == t ++ maps
  <2>11. Fits(w, to, Str(<<x>>))
    <3>1. Last(to) # Plus  BY <1>2, <2>1, <2>3, AppendingNamed
    <3>2. Str(<<x>>) \in Value /\ Str(<<x>>).typ # "map"  BY ValueTypes
    <3>3. QED  BY <2>3, <3>1, <3>2 DEF Fits
  <2>12. IsTable(w) /\ (\A h \in Heads(to) : IsMap(w, h)) /\ MapsRemain(t, w)
    BY <2>3, <2>4, <2>7, <2>9 DEF MapsRemain
  <2> HIDE DEF w
  <2>13. IsTable(w ++ Single(to, Str(<<x>>))) /\ MapsRemain(w, w ++ Single(to, Str(<<x>>)))
    BY <2>11, <2>12, SingleAdded
  <2>14. AppendToMap(t, dev, key, x) = w ++ Single(to, Str(<<x>>))  BY <1>1, <1>4 DEF w
  <2>15. QED  BY <2>12, <2>13, <2>14 DEF MapsRemain
<1>5. QED  BY <1>3, <1>4

LEMMA MergeMapsTable ==
  ASSUME NEW t, NEW dev, NEW s, NEW early, IsTable(t), IsTable(s), Opened(t, dev)
  PROVE  IsTable(MergeMaps(t, dev, s, early)) /\ MapsRemain(t, MergeMaps(t, dev, s, early))
<1> DEFINE abs(q) == dev \o q
           fresh(q) == \E h \in Heads(q) : abs(h) \notin DOMAIN t
           blocked(q) == \E h \in Heads(q) : IsLeaf(t, abs(h))
           appends == {q \in DOMAIN s : IsAppend(s, q) /\ ~fresh(q) /\ ~blocked(q)}
           plain(q) == abs(Plain(q)) \in DOMAIN t \/ (Plain(q) \in DOMAIN s /\ q \notin early)
           to(q) == abs(IF plain(q) THEN Plain(q) ELSE q)
           taken == {q \in DOMAIN s \ appends : ~blocked(q)}
           new == [p \in {abs(q) : q \in taken} |-> s[Relative(dev, p)]]
           merged == t ++ new
           result == [p \in DOMAIN merged \cup {to(q) : q \in appends} |->
                        IF \E q \in appends : to(q) = p
                          THEN LET v == s[CHOOSE q \in appends : to(q) = p]
                               IN  IF p \in DOMAIN merged THEN Concat(merged[p], v) ELSE v
                          ELSE merged[p]]
<1>1. MergeMaps(t, dev, s, early) = result  BY DEF MergeMaps
<1>2. \A q \in DOMAIN s : Fits(s, q, s[q]) /\ \A h \in Heads(q) : IsMap(s, h)  BY TableIs
<1>3. \A q \in DOMAIN t : Fits(t, q, t[q]) /\ \A h \in Heads(q) : IsMap(t, h)  BY TableIs
<1>4. \A q \in Path : q # <<>> =>
        /\ abs(q) \in Path /\ abs(q) # <<>> /\ Last(abs(q)) = Last(q) /\ Relative(dev, abs(q)) = q
  <2> SUFFICES ASSUME NEW q \in Path, q # <<>>
               PROVE  /\ abs(q) \in Path /\ abs(q) # <<>> /\ Last(abs(q)) = Last(q)
                      /\ Relative(dev, abs(q)) = q
    OBVIOUS
  <2>1. dev \in Seq(Tags) /\ q \in Seq(Tags)  BY DEF Opened, Path
  <2>2. dev \o q \in Seq(Tags) /\ dev \o q # <<>>  BY <2>1, JoinEmpty
  <2>3. Last(dev \o q) = Last(q)  BY <2>1, LastJoin
  <2>4. Relative(dev, dev \o q) = q  BY <2>1, RelativeOf
  <2>5. QED  BY <2>2, <2>3, <2>4 DEF Path
<1>5. \A q \in Path : q # <<>> =>
        \A h \in Heads(abs(q)) : IsMap(t, h) \/ \E g \in Heads(q) : h = abs(g)
  BY HeadsBelow
<1>6. \A q \in DOMAIN s : q \in Path /\ q # <<>> /\ s[q] \in Value  BY <1>2 DEF Fits
<1> HIDE DEF abs
<1>7. /\ DOMAIN new = {abs(q) : q \in taken} /\ new = [p \in DOMAIN new |-> new[p]]
      /\ \A q \in taken : new[abs(q)] = s[q]
  <2>1. \A q \in taken : Relative(dev, abs(q)) = q  BY <1>4, <1>6
  <2> HIDE DEF taken
  <2>2. QED  BY <2>1
<1>8. \A q \in DOMAIN s : ~blocked(q) => \A g \in Heads(q) : g \in taken /\ IsMap(s, g) /\ ~IsLeaf(t, abs(g))
  <2> SUFFICES ASSUME NEW q \in DOMAIN s, ~blocked(q), NEW g \in Heads(q)
               PROVE  g \in taken /\ IsMap(s, g) /\ ~IsLeaf(t, abs(g))
    OBVIOUS
  <2>1. IsMap(s, g)  BY <1>2
  <2>2. \A h \in Heads(g) : h \in Heads(q)
    <3>1. q \in Seq(Tags)  BY <1>6 DEF Path
    <3>2. QED  BY <3>1, HeadsOfHeads
  <2>3. g \in DOMAIN s /\ g \notin appends  BY <2>1 DEF IsMap, IsAppend, IsLeaf
  <2>4. ~blocked(g)  BY <2>2
  <2>5. QED  BY <2>1, <2>3, <2>4
<1>9. \A q \in DOMAIN s : ~blocked(q) =>
        \A h \in Heads(abs(q)) : IsMap(t, h) \/ (h \notin DOMAIN t /\ IsMap(new, h))
  <2> SUFFICES ASSUME NEW q \in DOMAIN s, ~blocked(q), NEW h \in Heads(abs(q)), ~IsMap(t, h)
               PROVE  h \notin DOMAIN t /\ IsMap(new, h)
    OBVIOUS
  <2>1. PICK g \in Heads(q) : h = abs(g)  BY <1>5, <1>6
  <2>2. g \in taken /\ IsMap(s, g) /\ ~IsLeaf(t, abs(g))  BY <1>8
  <2> HIDE DEF taken, new
  <2>3. IsMap(new, abs(g))  BY <2>2, <1>7 DEF IsMap
  <2>4. QED  BY <2>1, <2>2, <2>3 DEF IsMap, IsLeaf
<1>10. IsTable(merged)
  <2>1. \A q \in taken : q \in DOMAIN s /\ ~blocked(q)  OBVIOUS
  <2> HIDE DEF taken, new, blocked
  <2>2. ASSUME NEW p \in DOMAIN new
        PROVE  Fits(t, p, new[p]) /\ \A h \in Heads(p) : IsMap(t, h) \/ (h \notin DOMAIN t /\ IsMap(new, h))
    <3>1. PICK q \in taken : p = abs(q)  BY <1>7
    <3>2. q \in DOMAIN s /\ ~blocked(q) /\ Fits(s, q, s[q])  BY <2>1, <1>2
    <3>3. new[p] = s[q]  BY <3>1, <1>7
    <3>4. q \in Path /\ q # <<>>  BY <3>2 DEF Fits
    <3>5. abs(q) \in Path /\ abs(q) # <<>> /\ Last(abs(q)) = Last(q)  BY <3>4, <1>4
    <3>6. Fits(t, p, new[p])  BY <3>1, <3>2, <3>3, <3>5 DEF Fits
    <3>7. QED  BY <3>1, <3>2, <3>6, <1>9
  <2>3. \A p \in DOMAIN new : Fits(t, p, new[p])  BY <2>2
  <2>4. \A p \in DOMAIN new : \A h \in Heads(p) : IsMap(t, h) \/ (h \notin DOMAIN t /\ IsMap(new, h))
    BY <2>2
  <2>5. QED  BY <1>7, <2>3, <2>4, TableExtended
<1>11. /\ MapsRemain(t, merged) /\ \A p \in DOMAIN t : p \in DOMAIN merged
       /\ \A q \in taken : abs(q) \in DOMAIN merged
  <2>1. MapsRemain(t, merged)  BY ExtendedKeeps
  <2>2. DOMAIN merged = DOMAIN t \cup DOMAIN new
    <3> DEFINE m == t ++ new
    <3>1. m = [p \in DOMAIN t \cup DOMAIN new |-> IF p \in DOMAIN t THEN t[p] ELSE new[p]]  BY DEF ++
    <3> HIDE DEF m, new
    <3>2. QED  BY <3>1 DEF m
  <2> HIDE DEF merged, new, taken
  <2>3. QED  BY <2>1, <2>2, <1>7
<1> HIDE DEF merged, new
<1>12. ASSUME NEW q \in appends
       PROVE  /\ q \in DOMAIN s /\ Fits(s, q, s[q]) /\ s[q] \in Value
              /\ to(q) \in Path /\ to(q) # <<>> /\ \A h \in Heads(to(q)) : IsMap(t, h)
              /\ to(q) \notin DOMAIN merged => to(q) = abs(q) /\ Last(to(q)) = Last(q)
  <2>1. q \in DOMAIN s /\ IsAppend(s, q) /\ ~fresh(q) /\ ~blocked(q)  OBVIOUS
  <2>2. q \in Path /\ q # <<>> /\ Fits(s, q, s[q]) /\ s[q] \in Value  BY <2>1, <1>2, <1>6
  <2>3. /\ Plain(q) \in Path /\ Plain(q) # <<>> /\ Heads(Plain(q)) = Heads(q)
        /\ Last(Plain(q)) = <<"", Last(q)[2]>>
    BY <2>2, PlainIs
  <2>4. \A g \in Heads(q) : IsMap(t, abs(g))  BY <2>1 DEF IsMap, IsLeaf
  <2>5. Plain(q) \in DOMAIN s => Plain(q) \in taken
    <3>1. Last(Plain(q))[1] # "+"
      <4>1. <<"", Last(q)[2]>>[1] = ""  OBVIOUS
      <4>2. QED  BY <4>1, <2>3
    <3>2. ~IsAppend(s, Plain(q))  BY <3>1 DEF IsAppend
    <3>3. ~blocked(Plain(q))  BY <2>1, <2>3
    <3>4. QED  BY <3>2, <3>3
  <2> DEFINE r == IF plain(q) THEN Plain(q) ELSE q
  <2>6. r \in Path /\ r # <<>> /\ Heads(r) = Heads(q)
    <3> HIDE DEF plain
    <3>1. QED  BY <2>2, <2>3
  <2>7. to(q) = abs(r)  OBVIOUS
  <2>8. abs(r) \notin DOMAIN merged => r = q
    <3>1. CASE plain(q)
      <4>1. abs(Plain(q)) \in DOMAIN merged  BY <3>1, <2>5, <1>11
      <4>2. QED  BY <4>1, <3>1
    <3>2. CASE ~plain(q)  BY <3>2
    <3>3. QED  BY <3>1, <3>2
  <2> HIDE DEF r, to
  <2>9. abs(r) \in Path /\ abs(r) # <<>> /\ Last(abs(r)) = Last(r)  BY <2>6, <1>4
  <2>10. \A h \in Heads(abs(r)) : IsMap(t, h)
    <3> SUFFICES ASSUME NEW h \in Heads(abs(r)), ~IsMap(t, h) PROVE FALSE  OBVIOUS
    <3>1. PICK g \in Heads(r) : h = abs(g)  BY <2>6, <1>5
    <3>2. QED  BY <3>1, <2>4, <2>6
  <2>11. QED  BY <2>1, <2>2, <2>7, <2>8, <2>9, <2>10
<1> HIDE DEF appends, to
<1>13. /\ DOMAIN result = DOMAIN merged \cup {to(q) : q \in appends}
       /\ result = [p \in DOMAIN result |-> result[p]]
       /\ \A p \in DOMAIN result :
            result[p] = IF \E q \in appends : to(q) = p
                          THEN IF p \in DOMAIN merged
                               THEN Concat(merged[p], s[CHOOSE q \in appends : to(q) = p])
                               ELSE s[CHOOSE q \in appends : to(q) = p]
                          ELSE merged[p]
  OBVIOUS
<1> HIDE DEF result
<1>14. \A p \in DOMAIN merged : /\ Fits(merged, p, merged[p]) /\ merged[p] \in Value
                                /\ \A h \in Heads(p) : IsMap(merged, h)
  BY <1>10, TableIs DEF Fits
<1>15. ASSUME NEW p \in DOMAIN merged
       PROVE  p \in DOMAIN result /\ result[p] \in Value /\ result[p].typ = merged[p].typ
  <2>1. p \in DOMAIN result /\ merged[p] \in Value  BY <1>13, <1>14
  <2>2. CASE \E q \in appends : to(q) = p
    <3> DEFINE c == CHOOSE q \in appends : to(q) = p
    <3>1. c \in appends  BY <2>2
    <3>2. result[p] = Concat(merged[p], s[c])  BY <1>13, <2>1, <2>2
    <3> HIDE DEF c
    <3>3. s[c] \in Value  BY <3>1, <1>12
    <3>4. QED  BY <2>1, <3>2, <3>3, ConcatType
  <2>3. CASE ~ \E q \in appends : to(q) = p  BY <1>13, <2>1, <2>3
  <2>4. QED  BY <2>2, <2>3
<1>16. MapsRemain(merged, result)  BY <1>15 DEF MapsRemain, IsMap
<1>17. ASSUME NEW p \in DOMAIN result
       PROVE  Fits(result, p, result[p]) /\ \A h \in Heads(p) : IsMap(result, h)
  <2>1. CASE p \in DOMAIN merged  BY <2>1, <1>14, <1>15, <1>16 DEF Fits, MapsRemain
  <2>2. CASE p \notin DOMAIN merged
    <3>1. \E q \in appends : to(q) = p  BY <2>2, <1>13
    <3> DEFINE c == CHOOSE q \in appends : to(q) = p
    <3>2. c \in appends /\ to(c) = p  BY <3>1
    <3>3. result[p] = s[c]  BY <1>13, <2>2, <3>1
    <3> HIDE DEF c
    <3>4. /\ Fits(s, c, s[c]) /\ p \in Path /\ p # <<>> /\ Last(p) = Last(c)
          /\ \A h \in Heads(p) : IsMap(t, h)
      BY <3>2, <2>2, <1>12
    <3>5. QED  BY <3>3, <3>4, <1>11, <1>16 DEF Fits, MapsRemain
  <2>3. QED  BY <2>1, <2>2
<1>18. IsTable(result)  BY <1>13, <1>17, TableIs
<1>19. MapsRemain(t, result)  BY <1>11, <1>16 DEF MapsRemain
<1>20. QED  BY <1>1, <1>18, <1>19

LEMMA MergeMapsDomain ==
  ASSUME NEW t, NEW dev, NEW s, NEW early
  PROVE  DOMAIN t \subseteq DOMAIN MergeMaps(t, dev, s, early)
<1> DEFINE abs(q) == dev \o q
           fresh(q) == \E h \in Heads(q) : abs(h) \notin DOMAIN t
           blocked(q) == \E h \in Heads(q) : IsLeaf(t, abs(h))
           appends == {q \in DOMAIN s : IsAppend(s, q) /\ ~fresh(q) /\ ~blocked(q)}
           plain(q) == abs(Plain(q)) \in DOMAIN t \/ (Plain(q) \in DOMAIN s /\ q \notin early)
           to(q) == abs(IF plain(q) THEN Plain(q) ELSE q)
           taken == {q \in DOMAIN s \ appends : ~blocked(q)}
           new == [p \in {abs(q) : q \in taken} |-> s[Relative(dev, p)]]
           merged == t ++ new
           result == [p \in DOMAIN merged \cup {to(q) : q \in appends} |->
                        IF \E q \in appends : to(q) = p
                          THEN LET v == s[CHOOSE q \in appends : to(q) = p]
                               IN  IF p \in DOMAIN merged THEN Concat(merged[p], v) ELSE v
                          ELSE merged[p]]
<1>1. MergeMaps(t, dev, s, early) = result  BY DEF MergeMaps
<1>2. DOMAIN result = DOMAIN merged \cup {to(q) : q \in appends}  OBVIOUS
<1>3. DOMAIN merged = DOMAIN t \cup DOMAIN new
  <2> HIDE DEF new
  <2> DEFINE m == t ++ new
  <2>1. m = [p \in DOMAIN t \cup DOMAIN new |-> IF p \in DOMAIN t THEN t[p] ELSE new[p]]  BY DEF ++
  <2> HIDE DEF m
  <2>2. QED  BY <2>1 DEF m
<1> HIDE DEF result, merged
<1>4. QED  BY <1>1, <1>2, <1>3

(* What a table inherits: the keys below sub that node does not have.      *)
Lacks(t, node, r) == node \o r \notin DOMAIN t /\ \A h \in Heads(r) : ~IsLeaf(t, node \o h)
Copied(t, node, sub) == {r \in Path : r # <<>> /\ sub \o r \in DOMAIN t /\ Lacks(t, node, r)}
Inherited(t, node, sub) == [p \in {node \o r : r \in Copied(t, node, sub)} |-> t[sub \o Relative(node, p)]]

LEMMA InheritIs ==
  ASSUME NEW t, NEW node \in Path, NEW sub \in Path, IsTable(t)
  PROVE  /\ Inherit(t, node, sub) = t ++ Inherited(t, node, sub)
         /\ DOMAIN Inherited(t, node, sub) = {node \o r : r \in Copied(t, node, sub)}
         /\ Inherited(t, node, sub)
              = [p \in DOMAIN Inherited(t, node, sub) |-> Inherited(t, node, sub)[p]]
         /\ \A r \in Copied(t, node, sub) : Inherited(t, node, sub)[node \o r] = t[sub \o r]
<1> DEFINE missing(r) == node \o r \notin DOMAIN t /\ \A h \in Heads(r) : ~IsLeaf(t, node \o h)
           copied == {r \in {Relative(sub, q) : q \in Below(t, sub)} : missing(r)}
<1>1. node \in Seq(Tags) /\ sub \in Seq(Tags)  BY DEF Path
<1>2. ASSUME NEW r \in copied PROVE r \in Path /\ r # <<>> /\ sub \o r \in DOMAIN t /\ missing(r)
  <2>1. PICK q \in Below(t, sub) : r = Relative(sub, q)  OBVIOUS
  <2>2. q \in DOMAIN t /\ IsStrictPrefix(sub, q)  BY DEF Below
  <2>3. q \in Seq(Tags)  BY <2>2, TableIs DEF Fits, Path
  <2>4. IsPrefix(sub, q) /\ sub # q  BY <2>2 DEF IsStrictPrefix
  <2>5. r \in Seq(Tags) /\ q = sub \o r  BY <2>1, <2>3, <2>4, <1>1, PrefixRest
  <2>6. r # <<>>
    <3>1. sub \o <<>> = sub  BY <1>1, EmptyJoin
    <3>2. QED  BY <3>1, <2>4, <2>5
  <2>7. missing(r)  OBVIOUS
  <2>8. QED  BY <2>2, <2>5, <2>6, <2>7 DEF Path
<1>3. ASSUME NEW r \in Path, missing(r), r # <<>>, sub \o r \in DOMAIN t PROVE r \in copied
  <2>1. r \in Seq(Tags)  BY DEF Path
  <2>2. IsStrictPrefix(sub, sub \o r)
    <3>1. sub \o r \in Seq(Tags)  BY <1>1, <2>1
    <3>2. QED  BY <1>1, <1>3, <2>1, <3>1, StrictSplit
  <2>3. Relative(sub, sub \o r) = r  BY <1>1, <2>1, RelativeOf
  <2>4. r \in {Relative(sub, q) : q \in Below(t, sub)}
    <3>1. sub \o r \in Below(t, sub)  BY <1>3, <2>2 DEF Below
    <3>2. QED  BY <2>3, <3>1
  <2>5. QED  BY <1>3, <2>4
<1>4. \A r : r \in Copied(t, node, sub) <=> r \in Path /\ r # <<>> /\ sub \o r \in DOMAIN t /\ missing(r)
  BY DEF Copied, Lacks
<1>5. copied = Copied(t, node, sub)
  <2> HIDE DEF copied, missing
  <2>1. QED  BY <1>2, <1>3, <1>4
<1>6. Inherit(t, node, sub) = t ++ [p \in {node \o r : r \in copied} |-> t[sub \o Relative(node, p)]]
  BY DEF Inherit
<1>7. \A r \in Copied(t, node, sub) : Relative(node, node \o r) = r
  <2>1. \A r \in Copied(t, node, sub) : r \in Seq(Tags)  BY DEF Copied, Path
  <2>2. QED  BY <1>1, <2>1, RelativeOf
<1> HIDE DEF copied
<1>8. QED  BY <1>5, <1>6, <1>7 DEF Inherited

LEMMA InheritTable ==
  ASSUME NEW t, NEW node, NEW sub, IsTable(t), Opened(t, node), sub \in Path, IsMap(t, sub)
  PROVE  IsTable(Inherit(t, node, sub)) /\ DOMAIN t \subseteq DOMAIN Inherit(t, node, sub)
<1> DEFINE missing(r) == node \o r \notin DOMAIN t /\ \A h \in Heads(r) : ~IsLeaf(t, node \o h)
           copied == Copied(t, node, sub)
           new == Inherited(t, node, sub)
<1>2. \A q \in DOMAIN t : Fits(t, q, t[q]) /\ \A h \in Heads(q) : IsMap(t, h)  BY TableIs
<1>3. node \in Seq(Tags) /\ sub \in Seq(Tags) /\ sub # <<>> /\ node \in Path
  <2>1. sub # <<>>  BY <1>2 DEF IsMap, Fits
  <2>2. QED  BY <2>1 DEF Opened, Path
<1>1. Inherit(t, node, sub) = t ++ new  BY <1>3, InheritIs
<1>5. /\ DOMAIN new = {node \o r : r \in copied} /\ new = [p \in DOMAIN new |-> new[p]]
      /\ \A r \in copied : new[node \o r] = t[sub \o r]
  BY <1>3, InheritIs
<1>4. \A r \in copied : r \in Path /\ r # <<>> /\ sub \o r \in DOMAIN t /\ missing(r)
  BY DEF Copied, Lacks
<1>6. ASSUME NEW r \in Path, missing(r), r # <<>>, sub \o r \in DOMAIN t PROVE r \in copied
  BY <1>6 DEF Copied, Lacks
<1>7. ASSUME NEW r \in copied
      PROVE  /\ Fits(t, node \o r, new[node \o r])
             /\ \A h \in Heads(node \o r) : IsMap(t, h) \/ (h \notin DOMAIN t /\ IsMap(new, h))
  <2>1. r \in Path /\ r # <<>> /\ sub \o r \in DOMAIN t /\ missing(r)  BY <1>4
  <2>2. r \in Seq(Tags)  BY <2>1 DEF Path
  <2>3. Fits(t, sub \o r, t[sub \o r]) /\ \A h \in Heads(sub \o r) : IsMap(t, h)  BY <2>1, <1>2
  <2>4. Last(sub \o r) = Last(r) /\ Last(node \o r) = Last(r)  BY <1>3, <2>1, <2>2, LastJoin
  <2>5. node \o r \in Path /\ node \o r # <<>>  BY <1>3, <2>1, <2>2, JoinEmpty DEF Path
  <2>6. Fits(t, node \o r, new[node \o r])  BY <1>5, <2>3, <2>4, <2>5 DEF Fits
  <2>7. ASSUME NEW h \in Heads(node \o r), ~IsMap(t, h) PROVE h \notin DOMAIN t /\ IsMap(new, h)
    <3>1. PICK f \in Heads(r) : h = node \o f
      <4>1. \E f \in Heads(r) : h = node \o f  BY <2>1, <2>7, HeadsBelow
      <4>2. QED  BY <4>1
    <3>2. f \in Path /\ f # <<>>  BY <2>1, HeadShorter
    <3>3. sub \o f \in Heads(sub \o r)  BY <1>3, <2>1, <2>2, HeadsJoin
    <3>4. IsMap(t, sub \o f)  BY <2>3, <3>3
    <3>5. ~IsLeaf(t, h)  BY <2>1, <3>1
    <3>6. h \notin DOMAIN t  BY <2>7, <3>5 DEF IsMap, IsLeaf
    <3>7. \A g \in Heads(f) : g \in Heads(r)  BY <2>2, HeadsOfHeads
    <3>8. missing(f)  BY <2>1, <3>1, <3>6, <3>7
    <3> HIDE DEF missing, copied
    <3>9. f \in copied  BY <1>6, <3>2, <3>4, <3>8 DEF IsMap
    <3> HIDE DEF new
    <3>10. IsMap(new, h)  BY <1>5, <3>1, <3>4, <3>9 DEF IsMap
    <3>11. QED  BY <3>6, <3>10
  <2>8. QED  BY <2>6, <2>7
<1> HIDE DEF new, copied
<1>8. \A p \in DOMAIN new : Fits(t, p, new[p])  BY <1>5, <1>7
<1>9. \A p \in DOMAIN new : \A h \in Heads(p) : IsMap(t, h) \/ (h \notin DOMAIN t /\ IsMap(new, h))
  BY <1>5, <1>7
<1>10. IsTable(t ++ new)  BY <1>5, <1>8, <1>9, TableExtended
<1>11. DOMAIN t \subseteq DOMAIN (t ++ new)
  <2> DEFINE m == t ++ new
  <2>1. m = [p \in DOMAIN t \cup DOMAIN new |-> IF p \in DOMAIN t THEN t[p] ELSE new[p]]  BY DEF ++
  <2> HIDE DEF m
  <2>2. QED  BY <2>1 DEF m
<1>12. QED  BY <1>1, <1>10, <1>11

(* What stands beside a "+", or at the top.                                *)
LEMMA FrontOpened ==
  ASSUME NEW t, IsTable(t), NEW p \in DOMAIN t
  PROVE  Opened(t, Front(p))
<1>1. p \in Path /\ p # <<>> /\ \A h \in Heads(p) : IsMap(t, h)  BY TableIs DEF Fits
<1>2. p \in Seq(Tags)  BY <1>1 DEF Path
<1> DEFINE f == Front(p)  k == Last(p)
<1>3. f \in Seq(Tags) /\ k \in Tags /\ p = f \o <<k>>  BY <1>1, <1>2, PathEnds
<1> HIDE DEF f, k
<1>4. f # <<>> => f \in Heads(f \o <<k>>)  BY <1>3, HeadsOne
<1>5. f # <<>> => IsMap(t, f)  BY <1>1, <1>3, <1>4
<1>6. QED  BY <1>3, <1>5 DEF Opened, Path, f

LEMMA TopKeyAdded ==
  ASSUME NEW t, IsTable(t), NEW k \in Tags, NEW v \in Value, k[1] # "+"
  PROVE  IsTable(t ++ Single(<<k>>, v)) /\ MapsRemain(t, t ++ Single(<<k>>, v))
<1> DEFINE p == <<k>>
<1>1. p \in Seq(Tags) /\ p # <<>> /\ Len(p) = 1 /\ p[1] = k  OBVIOUS
<1>2. Last(p) = k  BY <1>1 DEF Last
<1>3. Heads(p) = {}
  <2>1. 1..(1 - 1) = {}  OBVIOUS
  <2>2. QED  BY <1>1, <2>1 DEF Heads
<1>4. p \in Path  BY <1>1 DEF Path
<1> HIDE DEF p
<1>5. Fits(t, p, v)  BY <1>1, <1>2, <1>4, NamedFits
<1>6. IsTable(t ++ Single(p, v)) /\ MapsRemain(t, t ++ Single(p, v))  BY <1>3, <1>5, SingleAdded
<1>7. QED  BY <1>6 DEF p

LEMMA ConvertedTable ==
  ASSUME NEW t, NEW u, IsTable(t), DOMAIN u = DOMAIN t, u = [p \in DOMAIN u |-> u[p]],
         \A p \in DOMAIN t : u[p] = t[p] \/ (t[p].typ = "str" /\ u[p] = [t[p] EXCEPT !.typ = "int"])
  PROVE  IsTable(u)
<1>1. \A p \in DOMAIN t : t[p] \in Value  BY TableIs DEF Fits
<1>2. ASSUME NEW v \in Value, v.typ = "str"
      PROVE  [v EXCEPT !.typ = "int"] \in Value /\ [v EXCEPT !.typ = "int"].typ = "int"
  BY DEF Value
<1>3. ASSUME NEW p \in DOMAIN u PROVE u[p] \in Value /\ (u[p].typ = "map" <=> t[p].typ = "map")
  <2>1. t[p] \in Value  BY <1>1
  <2>2. CASE u[p] = t[p]  BY <2>1, <2>2
  <2>3. CASE t[p].typ = "str" /\ u[p] = [t[p] EXCEPT !.typ = "int"]
    <3>1. u[p] \in Value /\ u[p].typ = "int"  BY <2>1, <2>3, <1>2
    <3>2. QED  BY <3>1, <2>3
  <2>4. QED  BY <2>2, <2>3
<1>4. QED  BY <1>3, TablePruned

(* In a line "KEY += val" nothing stands below a key that has a text: the  *)
(* code would go on with what it has freed.                                *)
AppendsBelowMaps ==
  AtLine /\ Line.op = "+=" =>
    \A h \in Heads(Last(stack).dev \o Line.key) :
      Len(h) > Len(Last(stack).dev) =>
        /\ ~IsLeaf(Last(stack).map, h)
        /\ h \notin DOMAIN Last(stack).map => Twin(h) \notin DOMAIN Last(stack).map

(* A file that is read: a table, and the component that is open in it.     *)
IsFrame(f, d) ==
  /\ f = [file |-> f.file, line |-> f.line, dev |-> f.dev, map |-> f.map]
  /\ f.file \in DOMAIN d.text /\ f.line \in Nat \ {0}
  /\ IsTable(f.map) /\ Opened(f.map, f.dev)

DbInv ==
  /\ phase \in {"args", "parse", "flatten", "ints", "done", "abort"}
  /\ project \in Projects /\ arg \in Nat
  /\ IsTable(master) /\ IsTable(parsed)
  /\ stack \in Seq(Range(stack)) /\ \A f \in Range(stack) : IsFrame(f, project)
  /\ phase = "parse" => stack # <<>>
  /\ left \subseteq DOMAIN master

LEMMA EmptyTable == IsTable(Empty)
<1>1. DOMAIN Empty = {} /\ Empty = [p \in DOMAIN Empty |-> Empty[p]]  BY DEF Empty
<1>2. QED  BY <1>1, TableIs

LEMMA NewFrame ==
  ASSUME NEW f \in DOMAIN project.text
  PROVE  IsFrame(Frame(f), project)
<1>1. <<>> \in Path  BY DEF Path
<1>2. QED  BY <1>1, EmptyTable DEF IsFrame, Frame, Opened

(* The top of the stack, and what is below it.                             *)
LEMMA StackTop ==
  ASSUME DbInv, stack # <<>>
  PROVE  /\ Len(stack) \in Nat /\ Len(stack) > 0 /\ Last(stack) = stack[Len(stack)]
         /\ \A i \in 1..Len(stack) : stack[i] \in Range(stack) /\ IsFrame(stack[i], project)
<1>1. stack \in Seq(Range(stack))  BY DEF DbInv
<1>2. Len(stack) \in Nat /\ Len(stack) > 0  BY <1>1
<1>3. \A i \in 1..Len(stack) : stack[i] \in Range(stack)  BY <1>1
<1>4. QED  BY <1>2, <1>3 DEF DbInv, Last

LEMMA FramesAre ==
  ASSUME NEW s, NEW T, s \in Seq(T), \A i \in 1..Len(s) : IsFrame(s[i], project)
  PROVE  s \in Seq(Range(s)) /\ \A f \in Range(s) : IsFrame(f, project)
<1>1. DOMAIN s = 1..Len(s) /\ Len(s) \in Nat  OBVIOUS
<1>2. Range(s) = {s[i] : i \in 1..Len(s)}  BY <1>1 DEF Range
<1>3. s \in Seq(Range(s))
  <2>1. s = [i \in 1..Len(s) |-> s[i]]  OBVIOUS
  <2>2. \A i \in 1..Len(s) : s[i] \in Range(s)  BY <1>2
  <2>3. s \in [1..Len(s) -> Range(s)]  BY <2>1, <2>2
  <2>4. QED  BY <2>3, <1>1, IsList
<1>4. QED  BY <1>2, <1>3

LEMMA FrontIs ==
  ASSUME NEW S, NEW s \in Seq(S), s # <<>>
  PROVE  /\ Front(s) \in Seq(S) /\ Len(Front(s)) = Len(s) - 1
         /\ \A i \in 1..Len(Front(s)) : Front(s)[i] = s[i] /\ i \in 1..Len(s)
<1> DEFINE f == Front(s)
<1>1. Len(s) > 0 /\ f \in Seq(S) /\ Len(f) = Len(s) - 1  BY PathEnds
<1>2. f = SubSeq(s, 1, Len(s) - 1)  BY DEF Front
<1>3. \A i \in 1..Len(s) - 1 : SubSeq(s, 1, Len(s) - 1)[i] = s[i]
  <2>1. 1 \in Int /\ Len(s) - 1 \in Int /\ \A i \in 1..Len(s) - 1 : s[i] \in S  BY <1>1
  <2>2. \A i \in 1..Len(s) - 1 - 1 + 1 : SubSeq(s, 1, Len(s) - 1)[i] = s[1 + i - 1]
    BY <2>1, SubSeqProperties
  <2>3. QED  BY <2>2, <1>1
<1> HIDE DEF f
<1>4. \A i \in 1..Len(f) : f[i] = s[i] /\ i \in 1..Len(s)
  <2>1. Len(s) \in Nat  OBVIOUS
  <2>2. \A i \in 1..Len(f) : i \in 1..Len(s) - 1 /\ i \in 1..Len(s)  BY <1>1, <2>1
  <2>3. QED  BY <1>2, <1>3, <2>2
<1>5. QED  BY <1>1, <1>4 DEF f

LEMMA UpdateFrames ==
  ASSUME NEW s, NEW T, s \in Seq(T), s # <<>>, \A i \in 1..Len(s) : IsFrame(s[i], project),
         NEW t, NEW dev, IsTable(t), Opened(t, dev)
  PROVE  /\ Update(s, t, dev) \in Seq(Range(Update(s, t, dev)))
         /\ \A f \in Range(Update(s, t, dev)) : IsFrame(f, project)
         /\ Update(s, t, dev) # <<>>
<1> DEFINE top == [Last(s) EXCEPT !.line = @ + 1, !.map = t, !.dev = dev]
           rest == Front(s)
           u == Append(rest, top)
<1>1. Update(s, t, dev) = u  BY DEF Update
<1>2. Len(s) \in Nat /\ Len(s) > 0 /\ Last(s) = s[Len(s)] /\ Len(s) \in 1..Len(s)  BY DEF Last
<1>3. IsFrame(top, project)
  <2> DEFINE f == Last(s)
  <2>1. IsFrame(f, project)  BY <1>2
  <2> HIDE DEF f
  <2>2. f = [file |-> f.file, line |-> f.line, dev |-> f.dev, map |-> f.map]  BY <2>1 DEF IsFrame
  <2>3. [f EXCEPT !.line = @ + 1, !.map = t, !.dev = dev]
          = [file |-> f.file, line |-> f.line + 1, dev |-> dev, map |-> t]
    <3> DEFINE e == [f EXCEPT !.line = @ + 1, !.map = t, !.dev = dev]
    <3>1. /\ DOMAIN f = {"file", "line", "dev", "map"}
          /\ DOMAIN e = DOMAIN f /\ e = [x \in DOMAIN e |-> e[x]]
      <4>1. DOMAIN f = {"file", "line", "dev", "map"}  BY <2>2
      <4>2. QED  BY <4>1
    <3>2. e.file = f.file /\ e.line = f.line + 1 /\ e.dev = dev /\ e.map = t  BY <3>1
    <3> HIDE DEF e
    <3>3. e = [file |-> f.file, line |-> f.line + 1, dev |-> dev, map |-> t]
      <4>1. DOMAIN e = {"file", "line", "dev", "map"}  BY <3>1
      <4>2. e = [x \in {"file", "line", "dev", "map"} |-> e[x]]  BY <3>1
      <4>3. QED  BY <3>2, <4>2
    <3>4. QED  BY <3>3 DEF e
  <2> DEFINE g == [file |-> f.file, line |-> f.line + 1, dev |-> dev, map |-> t]
  <2>4. IsFrame(g, project)  BY <2>1 DEF IsFrame
  <2>5. QED  BY <2>3, <2>4 DEF f
<1> HIDE DEF top
<1>4. rest \in Seq(T) /\ \A i \in 1..Len(rest) : rest[i] = s[i] /\ i \in 1..Len(s)  BY FrontIs
<1> HIDE DEF rest
<1>5. u \in Seq(T \cup {top}) /\ \A i \in 1..Len(u) : IsFrame(u[i], project)
  <2>1. rest \in Seq(T \cup {top})  BY <1>4, SeqMonotonic
  <2>2. u \in Seq(T \cup {top}) /\ Len(u) = Len(rest) + 1 /\ u[Len(rest) + 1] = top
        /\ \A i \in 1..Len(rest) : u[i] = rest[i]
    BY <2>1
  <2>3. Len(rest) \in Nat  BY <1>4
  <2> HIDE DEF u
  <2>4. \A i \in 1..Len(u) : i \in 1..Len(rest) \/ i = Len(rest) + 1  BY <2>2, <2>3
  <2>5. QED  BY <2>2, <2>4, <1>3, <1>4
<1>6. u # <<>>
  <2>1. Len(u) = Len(rest) + 1 /\ Len(rest) \in Nat  BY <1>4
  <2> HIDE DEF u
  <2>2. Len(u) # 0  BY <2>1
  <2>3. QED  BY <2>2
<1> HIDE DEF u
<1>7. u \in Seq(Range(u)) /\ \A f \in Range(u) : IsFrame(f, project)  BY <1>5, FramesAre
<1>8. QED  BY <1>1, <1>6, <1>7

(* The line that is read, as the assumption on the files has it.           *)
LEMMA LineIs ==
  ASSUME DbInv, AtLine
  PROVE  /\ IsLine(Line, project) /\ stack # <<>> /\ Last(stack) \in Range(stack)
         /\ IsFrame(Last(stack), project)
         /\ Line.op # "include" => Line.val \in Contents
<1>1. phase = "parse" /\ stack # <<>>  BY DEF AtLine, DbInv
<1>2. Last(stack) \in Range(stack) /\ IsFrame(Last(stack), project)
  <2>1. /\ Len(stack) \in Nat /\ Len(stack) > 0 /\ Last(stack) = stack[Len(stack)]
        /\ \A i \in 1..Len(stack) : stack[i] \in Range(stack) /\ IsFrame(stack[i], project)
    BY <1>1, StackTop
  <2>2. Len(stack) \in 1..Len(stack)  BY <2>1
  <2>3. QED  BY <2>1, <2>2
<1> DEFINE f == Last(stack).file
<1>3. project \in Projects /\ f \in DOMAIN project.text  BY <1>2 DEF DbInv, IsFrame
<1>4. Line \in Range(project.text[f])
  <2>1. Last(stack).line \in DOMAIN project.text[f]  BY DEF AtLine
  <2>2. Line = project.text[f][Last(stack).line]  BY DEF Line
  <2>3. QED  BY <2>1, <2>2 DEF Range
<1>5. IsLine(Line, project)  BY <1>3, <1>4, LineAssumption
<1>6. Line.op # "include" => Line.val \in Contents
  <2> DEFINE G(d, g) == {l.val : l \in {x \in Range(d.text[g]) : x.op # "include"}}
  <2>1. ASSUME Line.op # "include" PROVE Line.val \in G(project, f)  BY <2>1, <1>4
  <2>2. G(project, f) \subseteq Contents
    <3>1. Contents = UNION {UNION {G(d, g) : g \in DOMAIN d.text} : d \in Projects}  BY DEF Contents
    <3> HIDE DEF G
    <3>2. G(project, f) \subseteq UNION {G(project, g) : g \in DOMAIN project.text}  BY <1>3
    <3>3. QED  BY <3>1, <3>2, <1>3
  <2> HIDE DEF G
  <2>3. QED  BY <2>1, <2>2
<1>7. QED  BY <1>1, <1>2, <1>5, <1>6

LEMMA TagsAre ==
  /\ Plus \in Tags /\ Plus[1] = "+"
  /\ Prefix \in Tags /\ Prefix[1] # "+"
  /\ \A n \in Names : Tag(n) \in Tags /\ Tag(n)[1] # "+" /\ Tag(n)[2] = n
<1>1. \A n \in Names : Tag(n) \in Tags /\ Tag(n)[1] # "+" /\ Tag(n)[2] = n
  <2> SUFFICES ASSUME NEW n \in Names PROVE Tag(n) \in Tags /\ Tag(n)[1] # "+" /\ Tag(n)[2] = n
    OBVIOUS
  <2>1. Tag(n) = <<"", n>> /\ <<"", n>>[1] = "" /\ <<"", n>>[2] = n  BY DEF Tag
  <2>2. <<"", n>> \in {"", "/", "+"} \X Names  OBVIOUS
  <2>3. QED  BY <2>1, <2>2 DEF Tags
<1>2. Plus \in Tags
  <2>1. <<"+", "">> \in {"", "/", "+"} \X Names  BY DEF Names
  <2>2. QED  BY <2>1 DEF Plus, Tags
<1>3. Plus[1] = "+"  BY DEF Plus
<1>4. Prefix \in Tags /\ Prefix[1] # "+"
  <2>1. "PREFIX" \in Names  BY DEF Names
  <2>2. QED  BY <2>1, <1>1 DEF Prefix
<1>5. QED  BY <1>1, <1>2, <1>3, <1>4

LEMMA DbInvInit == DbInit => DbInv
<1> SUFFICES ASSUME DbInit PROVE DbInv  OBVIOUS
<1>1. /\ project \in Projects /\ phase = "args" /\ arg = 1 /\ stack = <<>>
      /\ master = Empty /\ parsed = Empty /\ left = {}
  BY DEF DbInit
<1>2. stack \in Seq(Range(stack)) /\ Range(stack) = {}
  <2>1. Range(<<>>) = {}  BY DEF Range
  <2>2. QED  BY <2>1, <1>1
<1>3. QED  BY <1>1, <1>2, EmptyTable DEF DbInv

(* Below a key that is opened, one more can be put.                        *)
LEMMA OneBelow ==
  ASSUME NEW t, NEW dev, IsTable(t), Opened(t, dev), NEW k \in Tags, NEW v \in Value,
         k[1] = "+" => (v.typ = "map" <=> k = Plus)
  PROVE  /\ IsTable(t ++ Single(dev \o <<k>>, v)) /\ MapsRemain(t, t ++ Single(dev \o <<k>>, v))
         /\ k = Plus => Opened(t ++ Single(dev \o <<k>>, v), dev \o <<k>>)
<1> DEFINE p == dev \o <<k>>  u == t ++ Single(p, v)
<1>1. dev \in Seq(Tags) /\ <<k>> \in Seq(Tags) /\ <<k>> # <<>>  BY DEF Opened, Path
<1>2. p \in Seq(Tags) /\ p # <<>>  BY <1>1, JoinEmpty
<1>3. Last(p) = k  BY <1>1, EndsOf
<1>4. \A h : h \in Heads(p) <=> h \in Heads(dev) \/ (h = dev /\ dev # <<>>)  BY <1>1, HeadsOne
<1>5. \A h \in Heads(p) : IsMap(t, h)
  <2> SUFFICES ASSUME NEW h \in Heads(p) PROVE IsMap(t, h)  OBVIOUS
  <2>1. dev # <<>>
    <3> HIDE DEF p
    <3>1. QED  BY <1>4, HeadsNone
  <2>2. IsMap(t, dev)  BY <2>1 DEF Opened
  <2>3. \A g \in Heads(dev) : IsMap(t, g)  BY <2>2, TableIs DEF IsMap
  <2> HIDE DEF p
  <2>4. QED  BY <2>2, <2>3, <1>4
<1> HIDE DEF p
<1>6. Fits(t, p, v)  BY <1>2, <1>3 DEF Fits, Path
<1>7. IsTable(u) /\ MapsRemain(t, u)  BY <1>5, <1>6, SingleAdded
<1>8. ASSUME k = Plus PROVE Opened(u, p)
  <2>1. v.typ = "map"
    <3>1. Plus[1] = "+"  BY DEF Plus
    <3>2. QED  BY <3>1, <1>8
  <2>2. CASE p \in DOMAIN t
    <3>1. Fits(t, p, t[p])  BY <2>2, TableIs
    <3>2. Plus[1] = "+"  BY DEF Plus
    <3>3. IsMap(t, p)  BY <3>1, <3>2, <2>2, <1>3, <1>8 DEF Fits, IsMap
    <3>4. IsMap(u, p)  BY <3>3, <1>7 DEF MapsRemain
    <3>5. QED  BY <3>4, <1>2 DEF Opened, Path
  <2>3. CASE p \notin DOMAIN t
    <3>1. p \in DOMAIN u /\ u[p] = v
      <4> DEFINE s == Single(p, v)
      <4>1. DOMAIN s = {p} /\ s[p] = v  BY SingleIs
      <4> HIDE DEF s, u
      <4>2. u = [q \in DOMAIN t \cup DOMAIN s |-> IF q \in DOMAIN t THEN t[q] ELSE s[q]]
        BY DEF u, s, ++
      <4>3. QED  BY <4>1, <4>2, <2>3
    <3> HIDE DEF u
    <3>2. QED  BY <3>1, <2>1, <1>2 DEF Opened, Path, IsMap
  <2>4. QED  BY <2>2, <2>3
<1>9. QED  BY <1>7, <1>8 DEF p

LEMMA OpenedRemains ==
  ASSUME NEW t, NEW u, NEW dev, Opened(t, dev), MapsRemain(t, u)
  PROVE  Opened(u, dev)
BY DEF Opened, MapsRemain

LEMMA PrefixTable ==
  ASSUME NEW t, IsTable(t), NEW n \in Names \cap Contents, ~IsLeaf(t, <<Tag(n)>>)
  PROVE  LET c == <<Tag(n)>>
             u == t ++ Single(c, Map) ++ Single(c \o <<Prefix>>, Str(<<n>>))
         IN  IsTable(u) /\ Opened(u, c)
<1> DEFINE c == <<Tag(n)>>  w == t ++ Single(c, Map)
<1>1. Tag(n) \in Tags /\ Tag(n)[1] # "+" /\ Prefix \in Tags /\ Prefix[1] # "+"
  <2>1. n \in Names  OBVIOUS
  <2>2. QED  BY <2>1, TagsAre
<1>2. IsTable(w) /\ MapsRemain(t, w)  BY <1>1, ValueTypes, TopKeyAdded
<1>3. c \in Path
  <2>1. c \in Seq(Tags)  BY <1>1
  <2>2. QED  BY <2>1 DEF Path
<1> HIDE DEF c
<1>4. IsMap(w, c)
  <2>1. CASE c \in DOMAIN t
    <3>1. IsMap(t, c)  BY <2>1 DEF IsMap, IsLeaf, c
    <3>2. QED  BY <3>1, <1>2 DEF MapsRemain
  <2>2. CASE c \notin DOMAIN t
    <3> DEFINE s == Single(c, Map)
    <3>1. DOMAIN s = {c} /\ s[c] = Map  BY SingleIs
    <3> HIDE DEF s, w
    <3>2. w = [q \in DOMAIN t \cup DOMAIN s |-> IF q \in DOMAIN t THEN t[q] ELSE s[q]]
      BY DEF w, s, ++
    <3>3. c \in DOMAIN w /\ w[c] = Map  BY <3>1, <3>2, <2>2
    <3>4. QED  BY <3>3, ValueTypes DEF IsMap
  <2>3. QED  BY <2>1, <2>2
<1>5. Opened(w, c)  BY <1>3, <1>4 DEF Opened
<1> DEFINE v == Str(<<n>>)
<1>6. v \in Value  BY ValueTypes
<1> HIDE DEF w, v
<1>7. IsTable(w ++ Single(c \o <<Prefix>>, v)) /\ MapsRemain(w, w ++ Single(c \o <<Prefix>>, v))
  BY <1>1, <1>2, <1>5, <1>6, OneBelow
<1>8. QED  BY <1>5, <1>7, OpenedRemains DEF w, v, c

(* The steps of the parser.                                                *)
LEMMA DbInvParse ==
  ASSUME DbInv, AppendsBelowMaps,
         OpenArg \/ NameConflict \/ ReadPrefix \/ ReadKey \/ ReadInclude \/ EndInclude \/ EndArg
  PROVE  DbInv'
<1>0. /\ project \in Projects /\ arg \in Nat /\ IsTable(master) /\ IsTable(parsed)
      /\ stack \in Seq(Range(stack)) /\ \A f \in Range(stack) : IsFrame(f, project)
      /\ left \subseteq DOMAIN master
      /\ phase = "parse" => stack # <<>>
  BY DEF DbInv
<1>1. CASE OpenArg
  <2>1. /\ arg \in DOMAIN project.args /\ stack' = <<Frame(project.args[arg])>> /\ phase' = "parse"
        /\ project' = project /\ arg' = arg /\ master' = master /\ left' = left /\ parsed' = parsed
    BY <1>1 DEF OpenArg
  <2>2. project.args[arg] \in DOMAIN project.text
    <3>1. project.args \in Seq(DOMAIN project.text)  BY <1>0, ArgAssumption
    <3>2. QED  BY <3>1, <2>1
  <2> DEFINE fr == Frame(project.args[arg])
  <2>3. IsFrame(fr, project)  BY <2>2, NewFrame
  <2> HIDE DEF fr
  <2>4. <<fr>> \in Seq({fr}) /\ <<fr>> # <<>> /\ Range(<<fr>>) = {fr}  BY DEF Range
  <2>5. stack' \in Seq(Range(stack')) /\ (\A f \in Range(stack') : IsFrame(f, project)) /\ stack' # <<>>
    BY <2>1, <2>3, <2>4 DEF fr
  <2>6. QED  BY <1>0, <2>1, <2>5 DEF DbInv
<1>2. CASE NameConflict  BY <1>0, <1>2 DEF NameConflict, DbInv
<1>3. CASE ReadPrefix
  <2> DEFINE c == <<Tag(Line.val)>>
             t == Last(stack).map
             u == t ++ Single(c, Map) ++ Single(c \o <<Prefix>>, Str(<<Line.val>>))
  <2>1. /\ AtLine /\ Line.op = "prefix" /\ ~Conflict(Last(stack)) /\ stack' = Update(stack, u, c)
        /\ project' = project /\ arg' = arg /\ master' = master /\ left' = left /\ parsed' = parsed
        /\ phase' = phase
    BY <1>3 DEF ReadPrefix
  <2>2. IsLine(Line, project) /\ stack # <<>> /\ IsFrame(Last(stack), project) /\ Line.val \in Contents
    BY <2>1, LineIs
  <2>3. Line.val \in Names  BY <2>1, <2>2 DEF IsLine
  <2>4. ~IsLeaf(t, c)  BY <2>1 DEF Conflict, Line
  <2>5. IsTable(t)  BY <2>2 DEF IsFrame
  <2> DEFINE n == Line.val
  <2>6. IsTable(u) /\ Opened(u, c)
    <3> HIDE DEF n, t
    <3>1. n \in Names \cap Contents /\ ~IsLeaf(t, <<Tag(n)>>)  BY <2>2, <2>3, <2>4 DEF n
    <3>2. QED  BY <3>1, <2>5, PrefixTable DEF n
  <2> HIDE DEF u, c, t
  <2>7. stack' \in Seq(Range(stack')) /\ (\A f \in Range(stack') : IsFrame(f, project)) /\ stack' # <<>>
    BY <2>1, <2>2, <2>6, <1>0, StackTop, UpdateFrames
  <2>8. QED  BY <1>0, <2>1, <2>7 DEF DbInv
<1>4. CASE ReadKey
  <2> DEFINE top == Last(stack)
             u == IF Line.op = "=" THEN AddToMap(top.map, top.dev, Line.key, Line.val)
                  ELSE AppendToMap(top.map, top.dev, Line.key, Line.val)
  <2>1. /\ AtLine /\ Line.op \in {"=", "+="} /\ stack' = Update(stack, u, top.dev)
        /\ project' = project /\ arg' = arg /\ master' = master /\ left' = left /\ parsed' = parsed
        /\ phase' = phase
    BY <1>4 DEF ReadKey
  <2>2. IsLine(Line, project) /\ stack # <<>> /\ IsFrame(top, project) /\ Line.val \in Contents
    BY <2>1, LineIs
  <2>3. Line.key \in Seq(Named) /\ Line.key # <<>>  BY <2>1, <2>2 DEF IsLine, Named
  <2>4. IsTable(top.map) /\ Opened(top.map, top.dev)  BY <2>2 DEF IsFrame
  <2>5. IsTable(u) /\ MapsRemain(top.map, u)
    <3>1. CASE Line.op = "="
      <4>1. u = AddToMap(top.map, top.dev, Line.key, Line.val)  BY <3>1
      <4> HIDE DEF u, top
      <4>2. QED  BY <4>1, <2>2, <2>3, <2>4, AddToMapTable
    <3>2. CASE Line.op = "+="
      <4>1. u = AppendToMap(top.map, top.dev, Line.key, Line.val)  BY <3>2
      <4>2. \A h \in Heads(top.dev \o Line.key) : Len(h) > Len(top.dev) => ~IsLeaf(top.map, h)
        BY <2>1, <3>2 DEF AppendsBelowMaps
      <4> HIDE DEF u, top
      <4>3. QED  BY <4>1, <4>2, <2>2, <2>3, <2>4, AppendToMapTable
    <3>3. QED  BY <3>1, <3>2, <2>1
  <2> HIDE DEF u, top
  <2>6. Opened(u, top.dev)  BY <2>4, <2>5, OpenedRemains
  <2>7. stack' \in Seq(Range(stack')) /\ (\A f \in Range(stack') : IsFrame(f, project)) /\ stack' # <<>>
    BY <2>1, <2>2, <2>5, <2>6, <1>0, StackTop, UpdateFrames
  <2>8. QED  BY <1>0, <2>1, <2>7 DEF DbInv
<1>5. CASE ReadInclude
  <2> DEFINE fr == Frame(Line.val)
  <2>1. /\ AtLine /\ Line.op = "include" /\ stack' = Append(stack, fr)
        /\ project' = project /\ arg' = arg /\ master' = master /\ left' = left /\ parsed' = parsed
        /\ phase' = phase
    BY <1>5 DEF ReadInclude
  <2>2. IsLine(Line, project)  BY <2>1, LineIs
  <2>3. Line.val \in DOMAIN project.text  BY <2>1, <2>2 DEF IsLine
  <2>4. IsFrame(fr, project)  BY <2>3, NewFrame
  <2> HIDE DEF fr
  <2>5. stack' \in Seq(Range(stack) \cup {fr}) /\ \A i \in 1..Len(stack') : IsFrame(stack'[i], project)
    <3>1. stack \in Seq(Range(stack) \cup {fr})  BY <1>0, SeqMonotonic
    <3>2. /\ stack' \in Seq(Range(stack) \cup {fr}) /\ Len(stack') = Len(stack) + 1
          /\ stack'[Len(stack) + 1] = fr /\ \A i \in 1..Len(stack) : stack'[i] = stack[i]
      BY <2>1, <3>1
    <3>3. Len(stack) \in Nat /\ \A i \in 1..Len(stack) : stack[i] \in Range(stack)  BY <1>0
    <3>4. \A i \in 1..Len(stack') : i \in 1..Len(stack) \/ i = Len(stack) + 1  BY <3>2, <3>3
    <3>5. QED  BY <3>2, <3>3, <3>4, <2>4, <1>0
  <2>6. stack' \in Seq(Range(stack')) /\ (\A f \in Range(stack') : IsFrame(f, project))
    BY <2>5, FramesAre
  <2>7. stack' # <<>>  BY <2>1, <1>0
  <2>8. QED  BY <1>0, <2>1, <2>6, <2>7 DEF DbInv
<1>6. CASE EndInclude
  <2> DEFINE rest == Front(stack)
             below == Last(rest)
             dev == below.dev \o <<Plus>>
             s == Last(stack).map
             t == below.map ++ Single(dev, Map)
  <2>1. PICK early : /\ EndOfFile /\ Len(stack) > 1
                     /\ stack' = Update(rest, MergeMaps(t, dev, s, early), below.dev)
                     /\ project' = project /\ arg' = arg /\ master' = master /\ left' = left
                     /\ parsed' = parsed /\ phase' = phase
    BY <1>6 DEF EndInclude
  <2>2. stack # <<>>  BY <2>1, <1>0 DEF EndOfFile
  <2>3. /\ Len(stack) \in Nat /\ Last(stack) = stack[Len(stack)]
        /\ \A i \in 1..Len(stack) : stack[i] \in Range(stack) /\ IsFrame(stack[i], project)
    BY <2>2, StackTop
  <2>4. IsFrame(Last(stack), project)
    <3>1. Len(stack) \in 1..Len(stack)  BY <2>1, <2>3
    <3>2. QED  BY <3>1, <2>3
  <2>5. /\ rest \in Seq(Range(stack)) /\ Len(rest) = Len(stack) - 1
        /\ \A i \in 1..Len(rest) : rest[i] = stack[i] /\ i \in 1..Len(stack)
    BY <2>2, <1>0, FrontIs
  <2> HIDE DEF rest
  <2>6. /\ rest # <<>> /\ Len(rest) \in 1..Len(rest) /\ below = rest[Len(rest)]
        /\ \A i \in 1..Len(rest) : IsFrame(rest[i], project)
    <3>1. Len(rest) \in Nat /\ Len(rest) > 0  BY <2>1, <2>3, <2>5
    <3>2. rest # <<>> /\ Len(rest) \in 1..Len(rest)  BY <3>1
    <3>3. QED  BY <3>2, <2>3, <2>5 DEF Last
  <2>7. IsFrame(below, project)
    <3> HIDE DEF below
    <3>1. QED  BY <2>6
  <2>8. IsTable(below.map) /\ Opened(below.map, below.dev) /\ IsTable(s)  BY <2>4, <2>7 DEF IsFrame
  <2> HIDE DEF below, s
  <2>9. IsTable(t) /\ MapsRemain(below.map, t) /\ Opened(t, dev)
    <3>1. Plus \in Tags /\ Map \in Value /\ Map.typ = "map"  BY ValueTypes, TagsAre
    <3>2. QED  BY <2>8, <3>1, OneBelow
  <2> HIDE DEF t, dev
  <2> DEFINE m == MergeMaps(t, dev, s, early)
  <2>10. IsTable(m) /\ MapsRemain(t, m)  BY <2>8, <2>9, MergeMapsTable
  <2> HIDE DEF m
  <2>11. Opened(m, below.dev)  BY <2>8, <2>9, <2>10, OpenedRemains DEF MapsRemain
  <2>12. stack' = Update(rest, m, below.dev)  BY <2>1 DEF m
  <2>13. stack' \in Seq(Range(stack')) /\ (\A f \in Range(stack') : IsFrame(f, project)) /\ stack' # <<>>
    BY <2>5, <2>6, <2>10, <2>11, <2>12, UpdateFrames
  <2>14. QED  BY <1>0, <2>1, <2>13 DEF DbInv
<1>7. CASE EndArg
  <2> DEFINE s == stack[1].map
  <2>1. PICK early : /\ EndOfFile /\ Len(stack) = 1 /\ master' = MergeMaps(master, <<>>, s, early)
                     /\ stack' = <<>> /\ arg' = arg + 1 /\ phase' = "args"
                     /\ project' = project /\ left' = left /\ parsed' = parsed
    BY <1>7 DEF EndArg
  <2>2. IsFrame(stack[1], project)
    <3>1. stack # <<>>  BY <2>1, <1>0 DEF EndOfFile
    <3>2. QED  BY <3>1, <2>1, StackTop
  <2>3. IsTable(s)  BY <2>2 DEF IsFrame
  <2>4. Opened(master, <<>>)  BY DEF Opened, Path
  <2> HIDE DEF s
  <2>5. IsTable(master') /\ left \subseteq DOMAIN master'
    <3> DEFINE m == MergeMaps(master, <<>>, s, early)
    <3>1. IsTable(m) /\ DOMAIN master \subseteq DOMAIN m
      BY <1>0, <2>3, <2>4, MergeMapsTable, MergeMapsDomain
    <3> HIDE DEF m
    <3>2. QED  BY <3>1, <2>1, <1>0 DEF m
  <2>6. Range(<<>>) = {} /\ <<>> \in Seq({})  BY DEF Range
  <2>7. QED  BY <1>0, <2>1, <2>5, <2>6 DEF DbInv
<1>8. QED  BY <1>1, <1>2, <1>3, <1>4, <1>5, <1>6, <1>7

(* What is inherited by what a "+" stands in.                              *)
LEMMA TableOfPlus ==
  ASSUME NEW t, IsTable(t), NEW p \in DOMAIN t, Last(p) = Plus, NEW child
  PROVE  LET sub == IF IsMap(t, child) THEN child ELSE p
         IN  IsMap(t, sub) /\ sub \in Path
<1> DEFINE sub == IF IsMap(t, child) THEN child ELSE p
<1>1. IsMap(t, p)
  <2>1. Fits(t, p, t[p])  BY TableIs
  <2>2. QED  BY <2>1, TagsAre DEF Fits, IsMap
<1>2. IsMap(t, sub)  BY <1>1
<1> HIDE DEF sub
<1>3. sub \in Path  BY <1>2, TableIs DEF IsMap, Fits
<1>4. QED  BY <1>2, <1>3 DEF sub

(* What follows the parser.                                                *)
LEMMA DbInvLater ==
  ASSUME DbInv,
         StartFlatten \/ FlattenPlus \/ FlattenGlobal \/ EndFlatten \/ ConvertInts \/ Done
  PROVE  DbInv'
<1>0. /\ project \in Projects /\ arg \in Nat /\ IsTable(master) /\ IsTable(parsed)
      /\ stack \in Seq(Range(stack)) /\ \A f \in Range(stack) : IsFrame(f, project)
      /\ left \subseteq DOMAIN master
      /\ phase = "parse" => stack # <<>>
      /\ phase \in {"args", "parse", "flatten", "ints", "done", "abort"}
  BY DEF DbInv
<1>1. CASE StartFlatten
  BY <1>0, <1>1 DEF StartFlatten, DbInv
<1>2. CASE FlattenPlus
  <2>1. PICK p \in left :
          /\ phase = "flatten" /\ Last(p) = Plus
          /\ \/ phase' = "abort" /\ master' = master
             \/ /\ phase' = phase
                /\ \E child \in Children(master, p) :
                     master' = Inherit(master, Front(p), IF IsMap(master, child) THEN child ELSE p)
          /\ left' = Visited(p) /\ project' = project /\ arg' = arg /\ stack' = stack /\ parsed' = parsed
    BY <1>2 DEF FlattenPlus
  <2>2. p \in DOMAIN master  BY <1>0
  <2>3. CASE phase' = "abort" /\ master' = master
    BY <1>0, <2>1, <2>3 DEF DbInv, Visited
  <2>4. ASSUME phase' = phase, NEW child \in Children(master, p),
               master' = Inherit(master, Front(p), IF IsMap(master, child) THEN child ELSE p)
        PROVE  DbInv'
    <3> DEFINE sub == IF IsMap(master, child) THEN child ELSE p
    <3>1. IsMap(master, sub) /\ sub \in Path  BY <1>0, <2>1, <2>2, TableOfPlus
    <3>2. Opened(master, Front(p))  BY <1>0, <2>2, FrontOpened
    <3> DEFINE m == Inherit(master, Front(p), sub)
    <3>3. master' = m  BY <2>4
    <3> HIDE DEF sub
    <3>4. IsTable(m) /\ DOMAIN master \subseteq DOMAIN m  BY <1>0, <3>1, <3>2, InheritTable
    <3> HIDE DEF m
    <3>5. IsTable(master') /\ left' \subseteq DOMAIN master'
      BY <1>0, <2>1, <3>3, <3>4 DEF Visited
    <3>6. QED  BY <1>0, <2>1, <2>4, <3>5 DEF DbInv
  <2>5. QED  BY <2>1, <2>3, <2>4
<1>3. CASE FlattenGlobal
  <2>1. PICK p \in left :
          /\ phase = "flatten" /\ Last(p)[1] = "/"
          /\ master' = master ++ Single(<<Tag(Last(p)[2])>>, master[p])
          /\ left' = Visited(p) /\ phase' = phase /\ project' = project /\ arg' = arg /\ stack' = stack
          /\ parsed' = parsed
    BY <1>3 DEF FlattenGlobal
  <2>2. p \in DOMAIN master /\ p \in Path /\ p # <<>> /\ master[p] \in Value
    BY <1>0, TableIs DEF Fits
  <2>3. Last(p) \in Tags
    <3>1. p \in Seq(Tags)  BY <2>2 DEF Path
    <3>2. QED  BY <3>1, <2>2, PathEnds
  <2>4. Last(p)[2] \in Names  BY <2>3 DEF Tags
  <2> DEFINE k == Tag(Last(p)[2])
  <2>5. k \in Tags /\ k[1] # "+"  BY <2>4, TagsAre
  <2> HIDE DEF k
  <2> DEFINE m == master ++ Single(<<k>>, master[p])
  <2>6. IsTable(m) /\ MapsRemain(master, m)  BY <1>0, <2>2, <2>5, TopKeyAdded
  <2>7. DOMAIN master \subseteq DOMAIN m
    <3> DEFINE s == Single(<<k>>, master[p])
    <3>1. m = [q \in DOMAIN master \cup DOMAIN s |-> IF q \in DOMAIN master THEN master[q] ELSE s[q]]
      BY DEF ++
    <3> HIDE DEF m, s
    <3>2. QED  BY <3>1
  <2>8. master' = m  BY <2>1 DEF k
  <2> HIDE DEF m
  <2>9. IsTable(master') /\ left' \subseteq DOMAIN master'
    BY <1>0, <2>1, <2>6, <2>7, <2>8 DEF Visited
  <2>10. QED  BY <1>0, <2>1, <2>9 DEF DbInv
<1>4. CASE EndFlatten  BY <1>0, <1>4 DEF EndFlatten, DbInv
<1>5. CASE ConvertInts
  <2> DEFINE u == [p \in DOMAIN master |->
                     IF master[p].typ = "str" /\ IsInt(p, project.ints[arg])
                       THEN [master[p] EXCEPT !.typ = "int"] ELSE master[p]]
  <2>1. /\ master' = u /\ arg' = arg + 1
        /\ left' = left /\ phase' = phase /\ project' = project /\ stack' = stack /\ parsed' = parsed
    BY <1>5 DEF ConvertInts
  <2>2. /\ DOMAIN u = DOMAIN master /\ u = [p \in DOMAIN u |-> u[p]]
        /\ \A p \in DOMAIN master :
             u[p] = master[p] \/ (master[p].typ = "str" /\ u[p] = [master[p] EXCEPT !.typ = "int"])
    OBVIOUS
  <2> HIDE DEF u
  <2>3. IsTable(u)  BY <1>0, <2>2, ConvertedTable
  <2>4. QED  BY <1>0, <2>1, <2>2, <2>3 DEF DbInv
<1>6. CASE Done  BY <1>0, <1>6 DEF Done, DbInv
<1>7. QED  BY <1>1, <1>2, <1>3, <1>4, <1>5, <1>6

LEMMA DbInvNext == DbInv /\ AppendsBelowMaps /\ [DbNext]_dbvars => DbInv'
<1> SUFFICES ASSUME DbInv, AppendsBelowMaps, [DbNext]_dbvars PROVE DbInv'  OBVIOUS
<1>1. CASE DbNext
  <2>1. CASE OpenArg \/ NameConflict \/ ReadPrefix \/ ReadKey \/ ReadInclude \/ EndInclude \/ EndArg
    BY <2>1, DbInvParse
  <2>2. CASE StartFlatten \/ FlattenPlus \/ FlattenGlobal \/ EndFlatten \/ ConvertInts \/ Done
    BY <2>2, DbInvLater
  <2>3. QED  BY <1>1, <2>1, <2>2 DEF DbNext
<1>2. CASE UNCHANGED dbvars  BY <1>2 DEF dbvars, DbInv
<1>3. QED  BY <1>1, <1>2

LEMMA DbInvAlways == DbSpec /\ []AppendsBelowMaps => []DbInv
<1>1. QED  BY DbInvInit, DbInvNext, PTL DEF DbSpec

(* Every table is a tree at each moment, also while files are merged.      *)
THEOREM DbTypeCorrect == DbSpec /\ []AppendsBelowMaps => []DbTypeOK
<1>1. DbInv => DbTypeOK
  <2> SUFFICES ASSUME DbInv PROVE DbTypeOK  OBVIOUS
  <2>1. \A f \in Range(stack) : IsTable(f.map)  BY DEF DbInv, IsFrame
  <2>2. QED  BY <2>1 DEF DbInv, DbTypeOK
<1>2. QED  BY <1>1, DbInvAlways, PTL

(* A frame of the stack that goes on to the next line.                     *)
LEMMA UpdateIs ==
  ASSUME NEW s, NEW T, s \in Seq(T), s # <<>>, NEW d, IsFrame(Last(s), d), NEW t, NEW dev
  PROVE  /\ Len(Update(s, t, dev)) = Len(s)
         /\ \A i \in 1..Len(s) - 1 : Update(s, t, dev)[i] = s[i]
         /\ Update(s, t, dev)[Len(s)].file = Last(s).file
         /\ Update(s, t, dev)[Len(s)].line = Last(s).line + 1
         /\ Update(s, t, dev)[Len(s)].map = t
         /\ Update(s, t, dev)[Len(s)].dev = dev
<1> DEFINE top == [Last(s) EXCEPT !.line = @ + 1, !.map = t, !.dev = dev]
           rest == Front(s)
           u == Append(rest, top)
<1>1. Update(s, t, dev) = u  BY DEF Update
<1>2. top.file = Last(s).file /\ top.line = Last(s).line + 1 /\ top.map = t /\ top.dev = dev
  <2> DEFINE f == Last(s)
  <2>1. f = [file |-> f.file, line |-> f.line, dev |-> f.dev, map |-> f.map]  BY DEF IsFrame
  <2> HIDE DEF f
  <2>2. DOMAIN f = {"file", "line", "dev", "map"}  BY <2>1
  <2>3. QED  BY <2>2 DEF f
<1> HIDE DEF top
<1>3. /\ rest \in Seq(T) /\ Len(rest) = Len(s) - 1 /\ Len(s) \in Nat
      /\ \A i \in 1..Len(rest) : rest[i] = s[i]
  BY FrontIs
<1> HIDE DEF rest
<1>4. /\ Len(u) = Len(rest) + 1 /\ u[Len(rest) + 1] = top
      /\ \A i \in 1..Len(rest) : u[i] = rest[i]
  <2>1. rest \in Seq(T \cup {top})  BY <1>3, SeqMonotonic
  <2>2. QED  BY <2>1
<1> HIDE DEF u
<1>5. Len(rest) + 1 = Len(s)  BY <1>3
<1>6. QED  BY <1>1, <1>2, <1>3, <1>4, <1>5

(* Where "+" stands on the way to the key "+" of a component.              *)
InComponent(p) == Len(p) % 2 = 0 /\ \A i \in 1..Len(p) : i % 2 = 0 => p[i] = Plus
PlusesIn(t) == \A p \in DOMAIN t : Last(p) = Plus => InComponent(p)

LEMMA Parity ==
  /\ \A m, n \in Nat : m % 2 = 0 /\ n % 2 = 0 => (m + n) % 2 = 0
  /\ \A m, n \in Nat : m % 2 = 0 /\ n % 2 = 0 /\ n <= m => (m - n) % 2 = 0
OBVIOUS

LEMMA InComponentJoin ==
  ASSUME NEW p \in Seq(Tags), NEW q \in Seq(Tags), InComponent(p), InComponent(q)
  PROVE  InComponent(p \o q)
<1> DEFINE w == p \o q
<1>1. /\ Len(w) = Len(p) + Len(q) /\ Len(p) \in Nat /\ Len(q) \in Nat
      /\ \A i \in 1..Len(p) : w[i] = p[i]
      /\ \A i \in 1..Len(w) : i > Len(p) => w[i] = q[i - Len(p)]
  OBVIOUS
<1> HIDE DEF w
<1>2. Len(w) % 2 = 0  BY <1>1, Parity DEF InComponent
<1>3. ASSUME NEW i \in 1..Len(w), i % 2 = 0 PROVE w[i] = Plus
  <2>1. CASE i <= Len(p)
    <3>1. i \in 1..Len(p)  BY <1>1, <2>1
    <3>2. QED  BY <1>1, <1>3, <3>1 DEF InComponent
  <2>2. CASE i > Len(p)
    <3>1. i - Len(p) \in 1..Len(q) /\ i \in Nat /\ Len(p) <= i  BY <1>1, <2>2
    <3>2. (i - Len(p)) % 2 = 0  BY <1>1, <1>3, <3>1, Parity DEF InComponent
    <3>3. q[i - Len(p)] = Plus  BY <3>1, <3>2 DEF InComponent
    <3>4. QED  BY <1>1, <2>2, <3>3
  <2>3. QED  BY <1>1, <2>1, <2>2
<1>4. QED  BY <1>2, <1>3 DEF InComponent, w

LEMMA InComponentOne ==
  ASSUME NEW k \in Tags
  PROVE  InComponent(<<>>) /\ InComponent(<<k>> \o <<Plus>>)
<1>1. Len(<<>>) = 0 /\ 0 % 2 = 0 /\ 1..0 = {}  OBVIOUS
<1>2. InComponent(<<>>)  BY <1>1 DEF InComponent
<1> DEFINE a == <<k>>  b == <<Plus>>  w == a \o b
<1>3. /\ a \in Path /\ b \in Path /\ Len(a) = 1 /\ Len(b) = 1 /\ b[1] = Plus
  BY TagsAre DEF Path
<1> HIDE DEF a, b
<1>4. Len(w) = 2 /\ w[2] = Plus
  <2>1. Len(w) = Len(a) + Len(b) /\ \A i \in 1..Len(a) + Len(b) : w[i] =
                                        IF i <= Len(a) THEN a[i] ELSE b[i - Len(a)]
    BY <1>3, ConcatProperties DEF Path
  <2>2. 2 \in 1..1 + 1 /\ ~(2 <= 1) /\ 2 - 1 = 1  OBVIOUS
  <2> HIDE DEF w
  <2>3. QED  BY <1>3, <2>1, <2>2
<1>5. 2 % 2 = 0 /\ 1 % 2 = 1 /\ \A i \in 1..2 : i = 1 \/ i = 2  OBVIOUS
<1> HIDE DEF w
<1>6. InComponent(w)  BY <1>4, <1>5 DEF InComponent
<1>7. QED  BY <1>2, <1>6 DEF w, a, b

LEMMA PlusesExtended ==
  ASSUME NEW t, NEW u, PlusesIn(t), \A p \in DOMAIN u : Last(p) = Plus => InComponent(p)
  PROVE  PlusesIn(t ++ u)
<1> DEFINE m == t ++ u
<1>1. DOMAIN m = DOMAIN t \cup DOMAIN u  BY ExtendedIs
<1> HIDE DEF m
<1>2. PlusesIn(m)  BY <1>1 DEF PlusesIn
<1>3. QED  BY <1>2 DEF m

LEMMA NamedNoPlus ==
  /\ Plus \notin Named
  /\ \A k \in Named : <<"+", k[2]>> # Plus /\ k[1] # "+" /\ k[2] # ""
  /\ \A k \in Tags : <<"", k[2]>> # Plus
<1>1. Plus[1] = "+" /\ \A k \in Named : k[1] # "+" /\ k[2] # ""  BY DEF Plus, Named
<1>2. \A n : <<"", n>>[1] = ""  OBVIOUS
<1>3. QED  BY <1>1, <1>2, AppendingNamed

LEMMA AddToMapPluses ==
  ASSUME NEW t, NEW dev, IsTable(t), Opened(t, dev), NEW key \in Seq(Named), key # <<>>, NEW x,
         PlusesIn(t)
  PROVE  PlusesIn(AddToMap(t, dev, key, x))
<1> DEFINE p == dev \o key
           heads == {h \in Heads(p) : Len(h) > Len(dev)}
           missing == heads \ DOMAIN t
           maps == [h \in missing |-> Map]
           kept == [q \in DOMAIN t \ {Twin(h) : h \in missing} |-> t[q]]
           one == Single(p, Str(<<x>>))
<1>1. AddToMap(t, dev, key, x) = IF \E h \in heads : IsLeaf(t, h) THEN t ELSE kept ++ maps ++ one
  BY DEF AddToMap
<1>2. Last(p) \in Named /\ \A h \in missing : Last(h) \in Named
  <2> HIDE DEF p
  <2>1. Last(p) \in Named /\ \A h \in Heads(p) : Len(h) > Len(dev) => Last(h) \in Named
    BY LongerSplit DEF p
  <2>2. QED  BY <2>1
<1>3. PlusesIn(kept)
  <2>1. DOMAIN kept \subseteq DOMAIN t  OBVIOUS
  <2> HIDE DEF kept
  <2>2. QED  BY <2>1 DEF PlusesIn
<1>4. DOMAIN maps = missing /\ DOMAIN one = {p}  BY SingleIs
<1> HIDE DEF kept, maps, missing, heads, one, p
<1>5. PlusesIn(kept ++ maps)  BY <1>2, <1>3, <1>4, NamedNoPlus, PlusesExtended
<1> DEFINE w == kept ++ maps
<1> HIDE DEF w
<1>6. PlusesIn(w ++ one)
  <2>1. PlusesIn(w)  BY <1>5 DEF w
  <2>2. \A q \in DOMAIN one : Last(q) = Plus => InComponent(q)  BY <1>2, <1>4, NamedNoPlus
  <2>3. QED  BY <2>1, <2>2, PlusesExtended
<1>7. QED  BY <1>1, <1>6 DEF w

LEMMA AppendToMapPluses ==
  ASSUME NEW t, NEW dev, IsTable(t), Opened(t, dev), NEW key \in Seq(Named), key # <<>>, NEW x,
         PlusesIn(t)
  PROVE  PlusesIn(AppendToMap(t, dev, key, x))
<1> DEFINE p == dev \o key
           missing == {h \in Heads(p) \ DOMAIN t : Len(h) > Len(dev)}
           maps == [h \in missing |-> Map]
           to == IF p \in DOMAIN t THEN p ELSE Twin(p)
           longer == [t EXCEPT ![to] = Concat(@, Str(<<x>>))]
           one == Single(to, Str(<<x>>))
<1>1. AppendToMap(t, dev, key, x) = IF to \in DOMAIN t THEN longer ELSE t ++ maps ++ one
  BY DEF AppendToMap
<1>2. p \in Path /\ p # <<>> /\ Last(p) \in Named /\ \A h \in missing : Last(h) \in Named
  <2> HIDE DEF p
  <2>1. /\ p \in Path /\ p # <<>> /\ Last(p) \in Named
        /\ \A h \in Heads(p) : Len(h) > Len(dev) => Last(h) \in Named
    BY LongerSplit DEF p
  <2>2. QED  BY <2>1
<1>3. DOMAIN maps = missing /\ DOMAIN one = {to} /\ DOMAIN longer = DOMAIN t  BY SingleIs
<1>4. Last(to) # Plus
  <2>1. Last(Twin(p)) = <<"+", Last(p)[2]>>  BY <1>2, TwinIs
  <2> HIDE DEF p
  <2>2. QED  BY <2>1, <1>2, NamedNoPlus
<1> HIDE DEF maps, missing, one, to, p, longer
<1>5. PlusesIn(t ++ maps)  BY <1>2, <1>3, NamedNoPlus, PlusesExtended
<1> DEFINE w == t ++ maps
<1> HIDE DEF w
<1>6. PlusesIn(w ++ one)
  <2>1. PlusesIn(w)  BY <1>5 DEF w
  <2>2. \A q \in DOMAIN one : Last(q) = Plus => InComponent(q)  BY <1>3, <1>4
  <2>3. QED  BY <2>1, <2>2, PlusesExtended
<1>7. PlusesIn(longer)  BY <1>3 DEF PlusesIn
<1>8. QED  BY <1>1, <1>6, <1>7 DEF w

(* The keys of a table into which another is merged.                       *)
LEMMA MergeMapsKeys ==
  ASSUME NEW t, NEW dev, NEW s, NEW early, NEW p, p \in DOMAIN MergeMaps(t, dev, s, early)
  PROVE  p \in DOMAIN t \/ \E q \in DOMAIN s : p = dev \o q \/ p = dev \o Plain(q)
<1> DEFINE abs(q) == dev \o q
           fresh(q) == \E h \in Heads(q) : abs(h) \notin DOMAIN t
           blocked(q) == \E h \in Heads(q) : IsLeaf(t, abs(h))
           appends == {q \in DOMAIN s : IsAppend(s, q) /\ ~fresh(q) /\ ~blocked(q)}
           plain(q) == abs(Plain(q)) \in DOMAIN t \/ (Plain(q) \in DOMAIN s /\ q \notin early)
           to(q) == abs(IF plain(q) THEN Plain(q) ELSE q)
           taken == {q \in DOMAIN s \ appends : ~blocked(q)}
           new == [r \in {abs(q) : q \in taken} |-> s[Relative(dev, r)]]
           merged == t ++ new
           result == [r \in DOMAIN merged \cup {to(q) : q \in appends} |->
                        IF \E q \in appends : to(q) = r
                          THEN LET v == s[CHOOSE q \in appends : to(q) = r]
                               IN  IF r \in DOMAIN merged THEN Concat(merged[r], v) ELSE v
                          ELSE merged[r]]
<1>1. MergeMaps(t, dev, s, early) = result  BY DEF MergeMaps
<1>2. DOMAIN result = DOMAIN merged \cup {to(q) : q \in appends}  OBVIOUS
<1>3. DOMAIN merged = DOMAIN t \cup DOMAIN new  BY ExtendedIs
<1>4. DOMAIN new = {abs(q) : q \in taken}  OBVIOUS
<1>5. appends \subseteq DOMAIN s /\ taken \subseteq DOMAIN s  OBVIOUS
<1>6. \A q : to(q) = abs(q) \/ to(q) = abs(Plain(q))
  <2> HIDE DEF plain, abs
  <2>1. QED  OBVIOUS
<1> HIDE DEF result, merged, new, taken, appends, to
<1>7. QED  BY <1>1, <1>2, <1>3, <1>4, <1>5, <1>6

LEMMA MergeMapsPluses ==
  ASSUME NEW t, NEW dev, NEW s, NEW early, IsTable(s), dev \in Path, InComponent(dev),
         PlusesIn(t), PlusesIn(s)
  PROVE  PlusesIn(MergeMaps(t, dev, s, early))
<1> SUFFICES ASSUME NEW p \in DOMAIN MergeMaps(t, dev, s, early), Last(p) = Plus
             PROVE  InComponent(p)
  BY DEF PlusesIn
<1>1. CASE p \in DOMAIN t  BY <1>1 DEF PlusesIn
<1>2. ASSUME NEW q \in DOMAIN s, p = dev \o q \/ p = dev \o Plain(q) PROVE InComponent(p)
  <2>1. dev \in Seq(Tags) /\ q \in Path /\ q \in Seq(Tags) /\ q # <<>>  BY TableIs DEF Fits, Path
  <2>2. /\ Plain(q) \in Seq(Tags) /\ Plain(q) # <<>> /\ Last(Plain(q)) = <<"", Last(q)[2]>>
        /\ Last(q) \in Tags
    BY <2>1, PlainIs, PathEnds DEF Path
  <2>3. Last(dev \o q) = Last(q) /\ Last(dev \o Plain(q)) = Last(Plain(q))  BY <2>1, <2>2, LastJoin
  <2>4. Last(Plain(q)) # Plus  BY <2>2, NamedNoPlus
  <2>5. p = dev \o q /\ InComponent(q)  BY <1>2, <2>3, <2>4 DEF PlusesIn
  <2>6. QED  BY <2>1, <2>5, InComponentJoin
<1>3. QED  BY <1>1, <1>2, MergeMapsKeys

(* A file is included in a component, after a line PREFIX.  (What is       *)
(* included outside of one is inherited by the whole database.)            *)
IncludesInComponents == AtLine /\ Line.op = "include" => Last(stack).dev # <<>>

AtMostOne(dev) == dev = <<>> \/ \E k \in Tags : dev = <<k>>
Shape(s) ==
  \A i \in 1..Len(s) : /\ PlusesIn(s[i].map) /\ AtMostOne(s[i].dev)
                       /\ i < Len(s) => s[i].dev # <<>>
ShapeInv == (phase \in {"args", "parse"} => PlusesIn(master)) /\ Shape(stack)

LEMMA EmptyPluses == PlusesIn(Empty)
<1>1. DOMAIN Empty = {}  BY DEF Empty
<1>2. QED  BY <1>1 DEF PlusesIn

LEMMA UpdateShape ==
  ASSUME NEW s, NEW T, s \in Seq(T), s # <<>>, NEW d, IsFrame(Last(s), d), Shape(s),
         NEW t, NEW dev, PlusesIn(t), AtMostOne(dev)
  PROVE  Shape(Update(s, t, dev))
<1> DEFINE u == Update(s, t, dev)
<1>1. /\ Len(u) = Len(s) /\ \A i \in 1..Len(s) - 1 : u[i] = s[i]
      /\ u[Len(s)].map = t /\ u[Len(s)].dev = dev
  BY UpdateIs
<1>2. Len(s) \in Nat  OBVIOUS
<1> HIDE DEF u
<1>3. ASSUME NEW i \in 1..Len(u)
      PROVE  PlusesIn(u[i].map) /\ AtMostOne(u[i].dev) /\ (i < Len(u) => u[i].dev # <<>>)
  <2>1. i = Len(s) \/ (i \in 1..Len(s) - 1 /\ i \in 1..Len(s) /\ i < Len(s))  BY <1>1, <1>2
  <2>2. i = Len(s) => ~(i < Len(u))  BY <1>1, <1>2
  <2>3. QED  BY <2>1, <2>2, <1>1 DEF Shape
<1>4. QED  BY <1>3 DEF Shape, u

LEMMA FrontShape ==
  ASSUME NEW s, NEW T, s \in Seq(T), Shape(s), Len(s) > 1
  PROVE  /\ Shape(Front(s)) /\ Front(s) # <<>> /\ Front(s) \in Seq(T)
         /\ Last(Front(s)) = s[Len(s) - 1] /\ Len(s) - 1 \in 1..Len(s)
         /\ s[Len(s) - 1].dev # <<>> /\ AtMostOne(s[Len(s) - 1].dev) /\ PlusesIn(s[Len(s) - 1].map)
<1> DEFINE f == Front(s)
<1>1. Len(s) \in Nat /\ s # <<>>  OBVIOUS
<1>2. f \in Seq(T) /\ Len(f) = Len(s) - 1 /\ \A i \in 1..Len(f) : f[i] = s[i] /\ i \in 1..Len(s)
  BY <1>1, FrontIs
<1> HIDE DEF f
<1>3. /\ f # <<>> /\ Len(f) \in 1..Len(f) /\ Last(f) = f[Len(f)] /\ Len(s) - 1 \in 1..Len(s)
      /\ Len(s) - 1 < Len(s)
  <2>1. Len(f) > 0  BY <1>1, <1>2
  <2>2. QED  BY <2>1, <1>1, <1>2 DEF Last
<1>4. Shape(f)
  <2>1. \A i \in 1..Len(f) : i \in 1..Len(s) /\ i < Len(s)  BY <1>1, <1>2
  <2>2. QED  BY <2>1, <1>2 DEF Shape
<1>5. QED  BY <1>2, <1>3, <1>4 DEF Shape, f

LEMMA ShapeNext ==
  ASSUME DbInv, ShapeInv, IncludesInComponents, [DbNext]_dbvars
  PROVE  ShapeInv'
<1>0. /\ stack \in Seq(Range(stack)) /\ \A f \in Range(stack) : IsFrame(f, project)
      /\ phase = "parse" => stack # <<>>
      /\ project \in Projects
      /\ phase \in {"args", "parse"} => PlusesIn(master)
      /\ Shape(stack)
  BY DEF DbInv, ShapeInv
<1>a. ASSUME AtLine
      PROVE  /\ stack # <<>> /\ phase = "parse" /\ IsFrame(Last(stack), project)
             /\ IsTable(Last(stack).map) /\ Opened(Last(stack).map, Last(stack).dev)
             /\ PlusesIn(Last(stack).map) /\ AtMostOne(Last(stack).dev)
  <2>1. phase = "parse" /\ stack # <<>>  BY <1>a, <1>0 DEF AtLine
  <2>2. /\ Len(stack) \in Nat /\ Len(stack) > 0 /\ Last(stack) = stack[Len(stack)]
        /\ \A i \in 1..Len(stack) : IsFrame(stack[i], project)
    BY <2>1, StackTop
  <2>3. Len(stack) \in 1..Len(stack)  BY <2>2
  <2>4. QED  BY <2>1, <2>2, <2>3, <1>0 DEF IsFrame, Shape
<1>1. CASE OpenArg
  <2> DEFINE fr == Frame(project.args[arg])
  <2>1. stack' = <<fr>> /\ phase = "args" /\ master' = master  BY <1>1 DEF OpenArg
  <2>2. fr.map = Empty /\ fr.dev = <<>>  BY DEF Frame
  <2> HIDE DEF fr
  <2>3. Len(<<fr>>) = 1 /\ \A i \in 1..1 : i = 1 /\ <<fr>>[i] = fr /\ ~(i < 1)  OBVIOUS
  <2>4. Shape(stack')  BY <2>1, <2>2, <2>3, EmptyPluses DEF Shape, AtMostOne
  <2>5. QED  BY <1>0, <2>1, <2>4 DEF ShapeInv
<1>2. CASE ReadPrefix
  <2> DEFINE c == <<Tag(Line.val)>>
             a == Single(c, Map)
             b == Single(c \o <<Prefix>>, Str(<<Line.val>>))
             t == Last(stack).map
  <2>1. AtLine /\ Line.op = "prefix" /\ stack' = Update(stack, t ++ a ++ b, c) /\ master' = master
    BY <1>2 DEF ReadPrefix
  <2>2. Line.val \in Names  BY <2>1, LineIs DEF IsLine
  <2>3. DOMAIN a = {c} /\ DOMAIN b = {c \o <<Prefix>>}  BY SingleIs
  <2>4. AtMostOne(c) /\ Last(c) # Plus /\ Last(c \o <<Prefix>>) # Plus
    <3> DEFINE k == Tag(Line.val)
    <3>1. k \in Tags /\ k[1] # "+" /\ Prefix \in Tags /\ Prefix[1] # "+" /\ Plus[1] = "+"
      BY <2>2, TagsAre
    <3> HIDE DEF k
    <3>2. <<k>> \in Seq(Tags) /\ Len(<<k>>) = 1 /\ <<k>>[1] = k  BY <3>1
    <3>3. Last(<<k>>) = k  BY <3>2 DEF Last
    <3>4. Last(<<k>> \o <<Prefix>>) = Prefix  BY <3>1, <3>2, EndsOf
    <3>5. AtMostOne(<<k>>)  BY <3>1 DEF AtMostOne
    <3>6. QED  BY <3>1, <3>3, <3>4, <3>5 DEF k
  <2>5. PlusesIn(t) /\ IsFrame(Last(stack), project) /\ stack # <<>>  BY <2>1, <1>a
  <2> HIDE DEF a, b, c, t
  <2> DEFINE w == t ++ a
  <2>6. PlusesIn(w)
    <3>1. \A p \in DOMAIN a : Last(p) = Plus => InComponent(p)  BY <2>3, <2>4
    <3>2. QED  BY <3>1, <2>5, PlusesExtended
  <2> HIDE DEF w
  <2> DEFINE m == w ++ b
  <2>7. PlusesIn(m)
    <3>1. \A p \in DOMAIN b : Last(p) = Plus => InComponent(p)  BY <2>3, <2>4
    <3>2. QED  BY <3>1, <2>6, PlusesExtended
  <2>8. stack' = Update(stack, m, c)  BY <2>1 DEF w
  <2> HIDE DEF m
  <2>9. Shape(stack')  BY <1>0, <2>4, <2>5, <2>7, <2>8, UpdateShape
  <2>10. QED  BY <1>0, <2>1, <2>9, <1>2 DEF ShapeInv, ReadPrefix
<1>3. CASE ReadKey
  <2> DEFINE top == Last(stack)
             u == IF Line.op = "=" THEN AddToMap(top.map, top.dev, Line.key, Line.val)
                  ELSE AppendToMap(top.map, top.dev, Line.key, Line.val)
  <2>1. /\ AtLine /\ Line.op \in {"=", "+="} /\ stack' = Update(stack, u, top.dev)
        /\ master' = master /\ phase' = phase
    BY <1>3 DEF ReadKey
  <2>2. Line.key \in Seq(Named) /\ Line.key # <<>>  BY <2>1, LineIs DEF IsLine, Named
  <2>3. /\ IsTable(top.map) /\ Opened(top.map, top.dev) /\ PlusesIn(top.map) /\ AtMostOne(top.dev)
        /\ IsFrame(top, project) /\ stack # <<>>
    BY <2>1, <1>a
  <2>4. PlusesIn(u)
    <3> DEFINE v == AddToMap(top.map, top.dev, Line.key, Line.val)
               w == AppendToMap(top.map, top.dev, Line.key, Line.val)
    <3> HIDE DEF top
    <3>1. PlusesIn(v)  BY <2>2, <2>3, AddToMapPluses
    <3>2. PlusesIn(w)  BY <2>2, <2>3, AppendToMapPluses
    <3>3. u = v \/ u = w  BY DEF top
    <3> HIDE DEF u, v, w
    <3>4. QED  BY <3>1, <3>2, <3>3
  <2> HIDE DEF u
  <2>5. Shape(stack')  BY <1>0, <2>1, <2>3, <2>4, UpdateShape
  <2>6. QED  BY <1>0, <2>1, <2>5 DEF ShapeInv
<1>4. CASE ReadInclude
  <2> DEFINE fr == Frame(Line.val)
  <2>1. AtLine /\ Line.op = "include" /\ stack' = Append(stack, fr) /\ master' = master /\ phase' = phase
    BY <1>4 DEF ReadInclude
  <2>2. fr.map = Empty /\ fr.dev = <<>>  BY DEF Frame
  <2> HIDE DEF fr
  <2>3. Last(stack).dev # <<>> /\ stack # <<>>  BY <2>1, <1>a DEF IncludesInComponents
  <2>4. Len(stack) \in Nat /\ Last(stack) = stack[Len(stack)]  BY <2>3, StackTop
  <2>5. /\ Len(stack') = Len(stack) + 1 /\ stack'[Len(stack) + 1] = fr
        /\ \A i \in 1..Len(stack) : stack'[i] = stack[i]
    <3>1. stack \in Seq(Range(stack) \cup {fr})  BY <1>0, SeqMonotonic
    <3>2. QED  BY <2>1, <3>1
  <2>6. ASSUME NEW i \in 1..Len(stack')
        PROVE  /\ PlusesIn(stack'[i].map) /\ AtMostOne(stack'[i].dev)
               /\ i < Len(stack') => stack'[i].dev # <<>>
    <3>1. i = Len(stack) + 1 \/ (i \in 1..Len(stack) /\ (i < Len(stack) \/ i = Len(stack)))
      BY <2>4, <2>5
    <3>2. i = Len(stack) + 1 => ~(i < Len(stack'))  BY <2>4, <2>5
    <3>3. CASE i = Len(stack) + 1  BY <3>2, <3>3, <2>2, <2>5, EmptyPluses DEF AtMostOne
    <3>4. CASE i \in 1..Len(stack)  BY <3>1, <3>4, <2>3, <2>4, <2>5, <1>0 DEF Shape
    <3>5. QED  BY <3>1, <3>3, <3>4
  <2>7. Shape(stack')  BY <2>6 DEF Shape
  <2>8. QED  BY <1>0, <2>1, <2>7 DEF ShapeInv
<1>5. CASE EndInclude
  <2> DEFINE rest == Front(stack)
             below == Last(rest)
             dev == below.dev \o <<Plus>>
             s == Last(stack).map
             t == below.map ++ Single(dev, Map)
  <2>1. PICK early : /\ EndOfFile /\ Len(stack) > 1
                     /\ stack' = Update(rest, MergeMaps(t, dev, s, early), below.dev)
                     /\ master' = master /\ phase' = phase
    BY <1>5 DEF EndInclude
  <2>2. stack # <<>>  BY <2>1, <1>0 DEF EndOfFile
  <2>3. /\ Len(stack) \in Nat /\ Last(stack) = stack[Len(stack)] /\ Len(stack) \in 1..Len(stack)
        /\ \A i \in 1..Len(stack) : IsFrame(stack[i], project)
    <3>1. /\ Len(stack) \in Nat /\ Last(stack) = stack[Len(stack)]
          /\ \A i \in 1..Len(stack) : IsFrame(stack[i], project)
      BY <2>2, StackTop
    <3>2. QED  BY <3>1, <2>1
  <2>4. /\ Shape(rest) /\ rest # <<>> /\ rest \in Seq(Range(stack)) /\ IsFrame(below, project)
        /\ below.dev # <<>> /\ AtMostOne(below.dev) /\ PlusesIn(below.map)
    <3>1. /\ Shape(rest) /\ rest # <<>> /\ rest \in Seq(Range(stack))
          /\ Last(rest) = stack[Len(stack) - 1] /\ Len(stack) - 1 \in 1..Len(stack)
          /\ stack[Len(stack) - 1].dev # <<>> /\ AtMostOne(stack[Len(stack) - 1].dev)
          /\ PlusesIn(stack[Len(stack) - 1].map)
      BY <1>0, <2>1, FrontShape
    <3>2. QED  BY <3>1, <2>3
  <2>5. IsTable(s) /\ PlusesIn(s)  BY <2>3, <1>0 DEF IsFrame, Shape
  <2> HIDE DEF rest, below, s
  <2>6. InComponent(dev) /\ dev \in Path
    <3>1. PICK k \in Tags : below.dev = <<k>>  BY <2>4 DEF AtMostOne
    <3>2. InComponent(<<k>> \o <<Plus>>)  BY InComponentOne
    <3>3. Plus \in Tags  BY TagsAre
    <3>4. <<k>> \in Seq(Tags) /\ <<Plus>> \in Seq(Tags)  BY <3>3
    <3>5. <<k>> \o <<Plus>> \in Seq(Tags)  BY <3>4, JoinEmpty
    <3>6. QED  BY <3>1, <3>2, <3>5 DEF Path
  <2> HIDE DEF dev
  <2>7. PlusesIn(t)
    <3> DEFINE one == Single(dev, Map)
    <3>1. DOMAIN one = {dev}  BY SingleIs
    <3> HIDE DEF one
    <3>2. QED  BY <3>1, <2>4, <2>6, PlusesExtended DEF one
  <2> HIDE DEF t
  <2> DEFINE m == MergeMaps(t, dev, s, early)
  <2>8. PlusesIn(m)  BY <2>5, <2>6, <2>7, MergeMapsPluses
  <2>9. stack' = Update(rest, m, below.dev)  BY <2>1
  <2> HIDE DEF m
  <2>10. IsFrame(Last(rest), project)  BY <2>4 DEF below
  <2>11. Shape(stack')  BY <2>4, <2>8, <2>9, <2>10, UpdateShape
  <2>12. QED  BY <1>0, <2>1, <2>11 DEF ShapeInv
<1>6. CASE EndArg
  <2> DEFINE s == stack[1].map
  <2>1. PICK early : /\ EndOfFile /\ Len(stack) = 1 /\ master' = MergeMaps(master, <<>>, s, early)
                     /\ stack' = <<>>
    BY <1>6 DEF EndArg
  <2>2. phase = "parse" /\ stack # <<>>  BY <2>1, <1>0 DEF EndOfFile
  <2>3. IsFrame(stack[1], project) /\ 1 \in 1..Len(stack)  BY <2>1, <2>2, StackTop
  <2>4. IsTable(s) /\ PlusesIn(s)  BY <2>3, <1>0 DEF IsFrame, Shape
  <2> HIDE DEF s
  <2>5. <<>> \in Path /\ InComponent(<<>>)
    <3>1. Plus \in Tags  BY TagsAre
    <3>2. QED  BY <3>1, InComponentOne DEF Path
  <2>6. PlusesIn(MergeMaps(master, <<>>, s, early))  BY <1>0, <2>2, <2>4, <2>5, MergeMapsPluses
  <2>7. PlusesIn(master')  BY <2>1, <2>6
  <2>8. Shape(stack')
    <3>1. 1..Len(<<>>) = {}  OBVIOUS
    <3>2. QED  BY <2>1, <3>1 DEF Shape
  <2>9. QED  BY <2>7, <2>8 DEF ShapeInv
<1>7. CASE StartFlatten \/ FlattenPlus \/ FlattenGlobal \/ EndFlatten \/ ConvertInts \/ Done \/ NameConflict
  <2>1. stack' = stack /\ phase' \notin {"args", "parse"}
    BY <1>7 DEF StartFlatten, FlattenPlus, FlattenGlobal, EndFlatten, ConvertInts, Done, NameConflict
  <2>2. QED  BY <1>0, <2>1 DEF ShapeInv
<1>8. CASE UNCHANGED dbvars  BY <1>0, <1>8 DEF dbvars, ShapeInv
<1>9. QED  BY <1>1, <1>2, <1>3, <1>4, <1>5, <1>6, <1>7, <1>8 DEF DbNext

(* A path begins with another: key by key.                                 *)
LEMMA PrefixAt ==
  ASSUME NEW S, NEW p \in Seq(S), NEW q \in Seq(S)
  PROVE  IsPrefix(p, q) <=> Len(p) <= Len(q) /\ \A i \in 1..Len(p) : p[i] = q[i]
<1>1. ASSUME IsPrefix(p, q) PROVE Len(p) <= Len(q) /\ \A i \in 1..Len(p) : p[i] = q[i]
  <2>1. PICK u \in Seq(S) : q = p \o u  BY <1>1, PrefixSplit
  <2>2. QED  BY <2>1
<1>2. ASSUME Len(p) <= Len(q), \A i \in 1..Len(p) : p[i] = q[i] PROVE IsPrefix(p, q)
  <2> DEFINE a == SubSeq(p, 1, Len(p))  b == SubSeq(q, 1, Len(p))
  <2>1. Len(p) \in Nat /\ Len(q) \in Nat  OBVIOUS
  <2>2. a \in Seq(S) /\ b \in Seq(S) /\ Len(a) = Len(p) /\ Len(b) = Len(p)  BY <1>2, <2>1
  <2>3. \A i \in 1..Len(p) : a[i] = p[i] /\ b[i] = q[i]  BY <1>2, <2>1
  <2> HIDE DEF a, b
  <2>4. a = b  BY <1>2, <2>2, <2>3, SeqEqual
  <2>5. QED  BY <1>2, <2>4 DEF IsPrefix, a, b
<1>3. QED  BY <1>1, <1>2

LEMMA PrefixesChain ==
  ASSUME NEW S, NEW p \in Seq(S), NEW q \in Seq(S), NEW r \in Seq(S), IsPrefix(p, q), IsPrefix(q, r)
  PROVE  IsPrefix(p, r)
<1>1. /\ Len(p) \in Nat /\ Len(q) \in Nat /\ Len(r) \in Nat
      /\ Len(p) <= Len(q) /\ \A i \in 1..Len(p) : p[i] = q[i]
      /\ Len(q) <= Len(r) /\ \A i \in 1..Len(q) : q[i] = r[i]
  BY PrefixAt
<1>2. \A i \in 1..Len(p) : i \in 1..Len(q)  BY <1>1
<1>3. Len(p) <= Len(r) /\ \A i \in 1..Len(p) : p[i] = r[i]  BY <1>1, <1>2
<1>4. QED  BY <1>3, PrefixAt

(* What stands below a path, as the path and what follows it.              *)
LEMMA BelowIs ==
  ASSUME NEW t, IsTable(t), NEW b \in Path
  PROVE  /\ \A q \in Below(t, b) : /\ q \in DOMAIN t /\ Relative(b, q) \in Path /\ Relative(b, q) # <<>>
                                   /\ q = b \o Relative(b, q)
         /\ \A r \in Path : r # <<>> /\ b \o r \in DOMAIN t =>
              b \o r \in Below(t, b) /\ Relative(b, b \o r) = r
<1>1. b \in Seq(Tags) /\ \A q \in DOMAIN t : q \in Seq(Tags)  BY TableIs DEF Fits, Path
<1>2. ASSUME NEW q \in Below(t, b)
      PROVE  /\ q \in DOMAIN t /\ Relative(b, q) \in Path /\ Relative(b, q) # <<>>
             /\ q = b \o Relative(b, q)
  <2>1. q \in DOMAIN t /\ q \in Seq(Tags) /\ IsPrefix(b, q) /\ b # q  BY <1>1 DEF Below, IsStrictPrefix
  <2>2. Relative(b, q) \in Seq(Tags) /\ q = b \o Relative(b, q)  BY <1>1, <2>1, PrefixRest
  <2>3. b \o <<>> = b  BY <1>1, EmptyJoin
  <2>4. QED  BY <2>1, <2>2, <2>3 DEF Path
<1>3. ASSUME NEW r \in Path, r # <<>>, b \o r \in DOMAIN t
      PROVE  b \o r \in Below(t, b) /\ Relative(b, b \o r) = r
  <2>1. r \in Seq(Tags) /\ b \o r \in Seq(Tags)  BY <1>1, <1>3 DEF Path
  <2>2. IsStrictPrefix(b, b \o r)  BY <1>1, <1>3, <2>1, StrictSplit
  <2>3. QED  BY <1>1, <1>3, <2>1, <2>2, RelativeOf DEF Below
<1>4. QED  BY <1>2, <1>3

Odd(n) == n % 2 = 1
LEMMA OddEven ==
  /\ \A n \in Nat : Odd(n) => (n + 1) % 2 = 0 /\ Odd(n + 2) /\ n >= 1
  /\ \A n \in Nat : (n + 1) % 2 = 0 => Odd(n)
  /\ \A m, n \in Nat : Odd(m) /\ Odd(n) /\ m < n => m + 2 <= n
  /\ \A n \in Nat : Odd(n) <=> n % 2 # 0
BY DEF Odd

(* A path, and the key "+" below it.                                       *)
LEMMA PlusBelow ==
  ASSUME NEW n \in Path
  PROVE  LET w == n \o <<Plus>>
         IN  /\ w \in Path /\ w # <<>> /\ Len(w) = Len(n) + 1 /\ w[Len(n) + 1] = Plus
             /\ \A i \in 1..Len(n) : w[i] = n[i]
             /\ Last(w) = Plus /\ Front(w) = n /\ Len(n) \in Nat
<1> DEFINE b == <<Plus>>  w == n \o b
<1>1. Plus \in Tags  BY TagsAre
<1>2. b \in Seq(Tags) /\ Len(b) = 1 /\ b[1] = Plus /\ n \in Seq(Tags) /\ Len(n) \in Nat
  BY <1>1 DEF Path
<1>3. Last(n \o <<Plus>>) = Plus /\ Front(n \o <<Plus>>) = n  BY <1>1, <1>2, EndsOf
<1> HIDE DEF b
<1>4. /\ w \in Seq(Tags) /\ Len(w) = Len(n) + Len(b)
      /\ \A i \in 1..Len(n) + Len(b) : w[i] = IF i <= Len(n) THEN n[i] ELSE b[i - Len(n)]
  BY <1>2, ConcatProperties
<1> HIDE DEF w
<1>5. Len(w) = Len(n) + 1 /\ w # <<>>
  <2>1. Len(w) > 0  BY <1>2, <1>4
  <2>2. QED  BY <2>1, <1>2, <1>4
<1>6. w[Len(n) + 1] = Plus
  <2>1. Len(n) + 1 \in 1..Len(n) + Len(b) /\ ~(Len(n) + 1 <= Len(n)) /\ (Len(n) + 1) - Len(n) = 1
    BY <1>2
  <2>2. QED  BY <2>1, <1>2, <1>4
<1>7. \A i \in 1..Len(n) : w[i] = n[i]
  <2>1. \A i \in 1..Len(n) : i \in 1..Len(n) + Len(b) /\ i <= Len(n)  BY <1>2
  <2>2. QED  BY <2>1, <1>4
<1>8. QED  BY <1>2, <1>3, <1>4, <1>5, <1>6, <1>7 DEF Path, w, b

(* A table of a component.                                                 *)
LEMMA BaseIs ==
  ASSUME NEW t, IsTable(t), NEW n, NEW b \in Bases(t, n)
  PROVE  /\ b \in DOMAIN t /\ b \in Path /\ b # <<>> /\ IsMap(t, b) /\ IsPrefix(n, b)
         /\ Odd(Len(b)) /\ Len(b) \in Nat /\ (\A i \in 2..Len(b) : i % 2 = 0 <=> b[i] = Plus)
         /\ InComponent(b \o <<Plus>>)
<1>1. /\ b \in DOMAIN t /\ IsMap(t, b) /\ IsPrefix(n, b)
      /\ Odd(Len(b)) /\ \A i \in 2..Len(b) : i % 2 = 0 <=> b[i] = Plus
  BY DEF Bases, Odd
<1>2. b \in Path /\ b # <<>>  BY <1>1, TableIs DEF Fits
<1> DEFINE w == b \o <<Plus>>
<1>3. /\ Len(w) = Len(b) + 1 /\ w[Len(b) + 1] = Plus /\ \A i \in 1..Len(b) : w[i] = b[i]
      /\ Len(b) \in Nat
  BY <1>2, PlusBelow
<1> HIDE DEF w
<1>4. Len(w) % 2 = 0  BY <1>1, <1>3, OddEven
<1>5. ASSUME NEW i \in 1..Len(w), i % 2 = 0 PROVE w[i] = Plus
  <2>1. i = Len(b) + 1 \/ (i \in 1..Len(b) /\ i \in 2..Len(b))
    <3>1. i # 1  BY <1>5
    <3>2. QED  BY <3>1, <1>3
  <2>2. QED  BY <2>1, <1>1, <1>3, <1>5
<1>6. InComponent(w)  BY <1>4, <1>5 DEF InComponent
<1>7. QED  BY <1>1, <1>2, <1>3, <1>6 DEF w

(* The component itself is one of its tables; each of the others stands in *)
(* one that the "+" of the component has directly below it.                *)
LEMMA BasesBelow ==
  ASSUME NEW t, IsTable(t), NEW n, n \in Bases(t, n), NEW b \in Bases(t, n), b # n
  PROVE  \E x \in Children(t, n \o <<Plus>>) : x \in Bases(t, x) /\ b \in Bases(t, x) /\ IsPrefix(n, x)
<1> DEFINE w == n \o <<Plus>>  x == SubSeq(b, 1, Len(n) + 2)
<1>1. /\ n \in Path /\ Odd(Len(n)) /\ Len(n) \in Nat
      /\ b \in DOMAIN t /\ b \in Path /\ IsMap(t, b) /\ IsPrefix(n, b) /\ Odd(Len(b)) /\ Len(b) \in Nat
      /\ \A i \in 2..Len(b) : i % 2 = 0 <=> b[i] = Plus
  BY BaseIs
<1>2. n \in Seq(Tags) /\ b \in Seq(Tags)  BY <1>1 DEF Path
<1>3. Len(n) <= Len(b) /\ \A i \in 1..Len(n) : n[i] = b[i]  BY <1>1, <1>2, PrefixAt
<1>4. Len(n) # Len(b)
  <2> SUFFICES ASSUME Len(n) = Len(b) PROVE b = n  OBVIOUS
  <2>1. QED  BY <1>2, <1>3, SeqEqual
<1>5. Len(n) + 2 <= Len(b) /\ Len(n) >= 1 /\ (Len(n) + 1) % 2 = 0 /\ Odd(Len(n) + 2)
  <2>1. Len(n) < Len(b)  BY <1>1, <1>3, <1>4
  <2>2. QED  BY <2>1, <1>1, OddEven
<1>6. x \in Seq(Tags) /\ Len(x) = Len(n) + 2 /\ \A i \in 1..Len(n) + 2 : x[i] = b[i]
  BY <1>1, <1>2, <1>5
<1>7. x \in DOMAIN t /\ IsMap(t, x)
  <2>1. CASE Len(n) + 2 = Len(b)
    <3>1. x = b  BY <1>2, <2>1, SubSeqFull
    <3>2. QED  BY <3>1, <1>1
  <2>2. CASE Len(n) + 2 # Len(b)
    <3>1. Len(n) + 2 \in 1..Len(b) - 1  BY <1>1, <1>5, <2>2
    <3>2. x \in Heads(b)  BY <3>1 DEF Heads
    <3>3. IsMap(t, x)  BY <3>2, <1>1, TableIs
    <3>4. QED  BY <3>3 DEF IsMap
  <2>3. QED  BY <2>1, <2>2
<1> HIDE DEF x
<1>8. IsPrefix(x, b) /\ IsPrefix(x, x) /\ IsPrefix(n, x)
  <2>1. Len(x) <= Len(b) /\ Len(x) <= Len(x) /\ Len(n) <= Len(x)  BY <1>1, <1>5, <1>6
  <2>2. \A i \in 1..Len(n) : i \in 1..Len(n) + 2  BY <1>1
  <2>3. /\ \A i \in 1..Len(x) : x[i] = b[i] /\ x[i] = x[i]
        /\ \A i \in 1..Len(n) : n[i] = x[i]
    BY <2>2, <1>3, <1>6
  <2>4. QED  BY <2>1, <2>3, <1>2, <1>6, PrefixAt
<1>9. x \in Bases(t, x) /\ b \in Bases(t, x)
  <2>1. \A i \in 2..Len(x) : i \in 2..Len(b) /\ i \in 1..Len(n) + 2  BY <1>1, <1>5, <1>6
  <2>2. \A i \in 2..Len(x) : i % 2 = 0 <=> x[i] = Plus  BY <2>1, <1>1, <1>6
  <2>3. Len(x) % 2 = 1 /\ Len(b) % 2 = 1  BY <1>1, <1>5, <1>6 DEF Odd
  <2>4. QED  BY <2>2, <2>3, <1>1, <1>7, <1>8 DEF Bases
<1>10. /\ w \in Seq(Tags) /\ Len(w) = Len(n) + 1 /\ w[Len(n) + 1] = Plus /\ \A i \in 1..Len(n) : w[i] = n[i]
  <2>1. /\ w \in Path /\ Len(w) = Len(n) + 1 /\ w[Len(n) + 1] = Plus /\ \A i \in 1..Len(n) : w[i] = n[i]
    BY <1>1, PlusBelow
  <2>2. QED  BY <2>1 DEF Path
<1> HIDE DEF w
<1>11. IsStrictPrefix(w, x)
  <2>1. Len(n) + 1 \in 2..Len(b) /\ Len(n) + 1 \in 1..Len(n) + 2  BY <1>1, <1>5
  <2>2. x[Len(n) + 1] = Plus  BY <2>1, <1>1, <1>5, <1>6
  <2>3. ASSUME NEW i \in 1..Len(w) PROVE w[i] = x[i]
    <3>1. i = Len(n) + 1 \/ (i \in 1..Len(n) /\ i \in 1..Len(n) + 2)  BY <1>1, <1>10
    <3>2. QED  BY <3>1, <2>2, <1>3, <1>6, <1>10
  <2>4. Len(w) <= Len(x) /\ Len(w) # Len(x)  BY <1>1, <1>6, <1>10
  <2>5. IsPrefix(w, x)  BY <2>3, <2>4, <1>6, <1>10, PrefixAt
  <2>6. QED  BY <2>4, <2>5 DEF IsStrictPrefix
<1>12. x \in Children(t, w)
  <2>1. Len(x) = Len(w) + 1  BY <1>1, <1>6, <1>10
  <2>2. QED  BY <2>1, <1>7, <1>11 DEF Children, Below
<1>13. QED  BY <1>8, <1>9, <1>12 DEF w

(* Below a table of a component, its tables are those of the component.    *)
LEMMA BasesNested ==
  ASSUME NEW t, IsTable(t), NEW n \in Path, NEW x \in Path, IsPrefix(n, x)
  PROVE  Bases(t, x) \subseteq Bases(t, n)
<1> SUFFICES ASSUME NEW b \in Bases(t, x) PROVE b \in Bases(t, n)  OBVIOUS
<1>1. b \in Path /\ IsPrefix(x, b)  BY BaseIs
<1>2. n \in Seq(Tags) /\ x \in Seq(Tags) /\ b \in Seq(Tags)  BY <1>1 DEF Path
<1>3. IsPrefix(n, b)  BY <1>1, <1>2, PrefixesChain
<1>4. QED  BY <1>3 DEF Bases

(* What two keys "+" stand in have no key in common, except below a "+".   *)
LEMMA NodesApart ==
  ASSUME NEW m \in Path, NEW n \in Path, m # n, InComponent(m \o <<Plus>>), InComponent(n \o <<Plus>>),
         NEW r \in Path, NEW s \in Path, m \o r = n \o s, Plus \notin Range(r)
  PROVE  IsStrictPrefix(n \o <<Plus>>, m \o <<Plus>>)
<1> DEFINE v == m \o <<Plus>>  w == n \o <<Plus>>  c == m \o r
<1>1. m \in Seq(Tags) /\ n \in Seq(Tags) /\ r \in Seq(Tags) /\ s \in Seq(Tags)  BY DEF Path
<1>2. /\ v \in Seq(Tags) /\ Len(v) = Len(m) + 1 /\ v[Len(m) + 1] = Plus /\ \A i \in 1..Len(m) : v[i] = m[i]
      /\ w \in Seq(Tags) /\ Len(w) = Len(n) + 1 /\ w[Len(n) + 1] = Plus /\ \A i \in 1..Len(n) : w[i] = n[i]
      /\ Len(m) \in Nat /\ Len(n) \in Nat
  <2>1. v \in Path /\ w \in Path  BY PlusBelow
  <2>2. QED  BY <2>1, PlusBelow DEF Path
<1> HIDE DEF v, w
<1>3. /\ Len(v) % 2 = 0 /\ \A i \in 1..Len(v) : i % 2 = 0 => v[i] = Plus
      /\ Len(w) % 2 = 0 /\ \A i \in 1..Len(w) : i % 2 = 0 => w[i] = Plus
  BY DEF InComponent, v, w
<1>4. Odd(Len(m)) /\ Odd(Len(n)) /\ (Len(m) + 1) % 2 = 0 /\ (Len(n) + 1) % 2 = 0
  BY <1>2, <1>3, OddEven
<1>5. /\ Len(c) = Len(m) + Len(r) /\ (\A i \in 1..Len(m) + Len(r) : c[i] =
                                          IF i <= Len(m) THEN m[i] ELSE r[i - Len(m)])
      /\ Len(c) = Len(n) + Len(s) /\ (\A i \in 1..Len(n) + Len(s) : c[i] =
                                          IF i <= Len(n) THEN n[i] ELSE s[i - Len(n)])
      /\ Len(r) \in Nat /\ Len(s) \in Nat
  <2>1. Len(n \o s) = Len(n) + Len(s) /\ \A i \in 1..Len(n) + Len(s) : (n \o s)[i] =
                                             IF i <= Len(n) THEN n[i] ELSE s[i - Len(n)]
    BY <1>1, ConcatProperties
  <2>2. Len(m \o r) = Len(m) + Len(r) /\ \A i \in 1..Len(m) + Len(r) : (m \o r)[i] =
                                             IF i <= Len(m) THEN m[i] ELSE r[i - Len(m)]
    BY <1>1, ConcatProperties
  <2>3. m \o r = n \o s  OBVIOUS
  <2>4. Len(r) \in Nat /\ Len(s) \in Nat  BY <1>1
  <2>5. QED  BY <2>1, <2>2, <2>3, <2>4
<1> HIDE DEF c
<1>6. \A i \in 1..Len(m) : i \in 1..Len(n) => m[i] = n[i]
  <2> SUFFICES ASSUME NEW i \in 1..Len(m), i \in 1..Len(n) PROVE m[i] = n[i]  OBVIOUS
  <2>1. i \in 1..Len(m) + Len(r) /\ i \in 1..Len(n) + Len(s) /\ i <= Len(m) /\ i <= Len(n)
    BY <1>2, <1>5
  <2>2. QED  BY <2>1, <1>5
<1>7. CASE Len(n) = Len(m)
  <2>1. \A i \in 1..Len(m) : m[i] = n[i]  BY <1>6, <1>7
  <2>2. m = n  BY <2>1, <1>1, <1>7, SeqEqual
  <2>3. QED  BY <2>2
<1>8. CASE Len(m) < Len(n)
  <2>1. Len(m) + 1 \in 1..Len(n) /\ Len(m) + 1 \in 1..Len(w) /\ Len(m) + 1 \in 1..Len(m) + Len(r)
        /\ Len(m) + 1 \in 1..Len(n) + Len(s) /\ ~(Len(m) + 1 <= Len(m)) /\ Len(m) + 1 - Len(m) = 1
        /\ Len(m) + 1 <= Len(n) /\ 1 \in 1..Len(r)
    BY <1>2, <1>5, <1>8
  <2>2. w[Len(m) + 1] = Plus /\ w[Len(m) + 1] = n[Len(m) + 1]  BY <2>1, <1>2, <1>3, <1>4
  <2>3. c[Len(m) + 1] = n[Len(m) + 1] /\ c[Len(m) + 1] = r[1]  BY <2>1, <1>5
  <2>4. Plus = r[1] /\ 1 \in DOMAIN r  BY <2>1, <2>2, <2>3, <1>1
  <2>5. QED  BY <2>4 DEF Range
<1>9. CASE Len(n) < Len(m)
  <2>1. Len(n) + 1 \in 1..Len(m) /\ Len(n) + 1 \in 1..Len(v) /\ Len(w) <= Len(v) /\ Len(w) # Len(v)
    BY <1>2, <1>9
  <2>2. v[Len(n) + 1] = Plus  BY <2>1, <1>3, <1>4
  <2>3. ASSUME NEW i \in 1..Len(w) PROVE w[i] = v[i]
    <3>1. i = Len(n) + 1 \/ (i \in 1..Len(n) /\ i \in 1..Len(m))  BY <1>2, <1>9
    <3>2. QED  BY <3>1, <2>2, <1>2, <1>6
  <2>4. IsPrefix(w, v)  BY <2>1, <2>3, <1>2, PrefixAt
  <2>5. QED  BY <2>1, <2>4 DEF IsStrictPrefix, v, w
<1>10. QED  BY <1>2, <1>7, <1>8, <1>9

(* A table that has got more keys, and of what it had has the values.      *)
Grows(t, u) ==
  \A p \in DOMAIN t : /\ p \in DOMAIN u /\ u[p].val = t[p].val
                      /\ u[p].typ = "map" <=> t[p].typ = "map"

(* What c is to have of the key r of its table b.                          *)
Wanted(t, c, b, r) ==
  /\ r \in Path /\ r # <<>> /\ IsLeaf(t, b \o r) /\ Plus \notin Range(r)
  /\ \A d \in Bases(t, c) : Len(d) < Len(b) => Lacks(t, d, r)

LEMMA HasAllIs ==
  ASSUME NEW t, IsTable(t), NEW u, NEW c
  PROVE  HasAll(t, u, c) <=>
           \A b \in Bases(t, c) : \A r \in Path :
             Wanted(t, c, b, r) => c \o r \in DOMAIN u /\ u[c \o r].val = t[b \o r].val
<1> DEFINE Given(b, q) ==
             LET r == Relative(b, q)
                 has(d) == d \o r \in DOMAIN t \/ \E h \in Heads(r) : IsLeaf(t, d \o h)
             IN  /\ IsLeaf(t, q) /\ Plus \notin Range(r)
                 /\ \A d \in Bases(t, c) : Len(d) < Len(b) => ~has(d)
                 => c \o r \in DOMAIN u /\ u[c \o r].val = t[q].val
           Got(b, r) == Wanted(t, c, b, r) => c \o r \in DOMAIN u /\ u[c \o r].val = t[b \o r].val
<1>1. HasAll(t, u, c) <=> \A b \in Bases(t, c) : \A q \in Below(t, b) : Given(b, q)  BY DEF HasAll
<1>2. ASSUME NEW b \in Bases(t, c), NEW q \in Below(t, b), NEW r \in Path, r # <<>>, q = b \o r,
             Relative(b, q) = r
      PROVE  Given(b, q) <=> Got(b, r)
  <2> DEFINE has(d) == d \o r \in DOMAIN t \/ \E h \in Heads(r) : IsLeaf(t, d \o h)
  <2>1. \A d : ~has(d) <=> Lacks(t, d, r)  BY DEF Lacks
  <2>2. Given(b, q) <=> (/\ IsLeaf(t, b \o r) /\ Plus \notin Range(r)
                         /\ \A d \in Bases(t, c) : Len(d) < Len(b) => ~has(d)
                         => c \o r \in DOMAIN u /\ u[c \o r].val = t[b \o r].val)
    BY <1>2
  <2> HIDE DEF has, Given
  <2>3. QED  BY <2>1, <2>2, <1>2 DEF Wanted
<1>3. ASSUME NEW b \in Bases(t, c), NEW q \in Below(t, b)
      PROVE  \E r \in Path : r # <<>> /\ q = b \o r /\ Relative(b, q) = r
  <2>1. b \in Path  BY BaseIs
  <2>2. QED  BY <2>1, BelowIs
<1>4. ASSUME NEW b \in Bases(t, c), NEW r \in Path, Wanted(t, c, b, r)
      PROVE  r # <<>> /\ b \o r \in Below(t, b) /\ Relative(b, b \o r) = r
  <2>1. b \in Path  BY BaseIs
  <2>2. r # <<>> /\ b \o r \in DOMAIN t  BY <1>4 DEF Wanted, IsLeaf
  <2>3. QED  BY <2>1, <2>2, BelowIs
<1>5. ASSUME HasAll(t, u, c), NEW b \in Bases(t, c), NEW r \in Path PROVE Got(b, r)
  <2> HIDE DEF Given
  <2>1. CASE Wanted(t, c, b, r)
    <3>1. r # <<>> /\ b \o r \in Below(t, b) /\ Relative(b, b \o r) = r  BY <1>4, <2>1
    <3>2. Given(b, b \o r)  BY <3>1, <1>1, <1>5
    <3> HIDE DEF Got
    <3>3. QED  BY <3>1, <3>2, <1>2
  <2>2. QED  BY <2>1
<1>6. ASSUME \A b \in Bases(t, c) : \A r \in Path : Got(b, r),
             NEW b \in Bases(t, c), NEW q \in Below(t, b)
      PROVE  Given(b, q)
  <2> HIDE DEF Given, Got
  <2>1. PICK r \in Path : r # <<>> /\ q = b \o r /\ Relative(b, q) = r  BY <1>3
  <2>2. Got(b, r)  BY <1>6
  <2>3. QED  BY <2>1, <2>2, <1>2
<1> HIDE DEF Given
<1>7. QED  BY <1>1, <1>5, <1>6

LEMMA HasAllKept ==
  ASSUME NEW t, NEW u, NEW w, NEW c, HasAll(t, u, c), Grows(u, w)
  PROVE  HasAll(t, w, c)
BY DEF HasAll, Grows

(* A component that includes nothing has what is its own.                  *)
LEMMA HasAllAlone ==
  ASSUME NEW t, IsTable(t), NEW n, n \in Bases(t, n), n \o <<Plus>> \notin DOMAIN t
  PROVE  HasAll(t, t, n)
<1>1. ASSUME NEW b \in Bases(t, n) PROVE b = n
  <2> SUFFICES ASSUME b # n PROVE FALSE  OBVIOUS
  <2> DEFINE w == n \o <<Plus>>
  <2>1. PICK x \in Children(t, w) : x \in Bases(t, x)  BY BasesBelow
  <2>2. w \in Path /\ w # <<>>
    <3>1. n \in Path  BY BaseIs
    <3>2. QED  BY <3>1, PlusBelow
  <2>3. x \in DOMAIN t /\ IsStrictPrefix(w, x) /\ x \in Path  BY <2>1, BaseIs DEF Children, Below
  <2>4. w \notin DOMAIN t  OBVIOUS
  <2> HIDE DEF w
  <2>5. w \in Seq(Tags) /\ x \in Seq(Tags)  BY <2>2, <2>3 DEF Path
  <2>6. PICK u \in Seq(Tags) : u # <<>> /\ x = w \o u  BY <2>3, <2>5, StrictSplit
  <2>7. w \in Heads(x)  BY <2>2, <2>5, <2>6, HeadOf
  <2>8. IsMap(t, w)  BY <2>3, <2>7, TableIs
  <2>9. QED  BY <2>4, <2>8 DEF IsMap
<1>2. \A b \in Bases(t, n) : \A r \in Path :
        Wanted(t, n, b, r) => n \o r \in DOMAIN t /\ t[n \o r].val = t[b \o r].val
  BY <1>1 DEF Wanted, IsLeaf
<1>3. QED  BY <1>2, HasAllIs

LEMMA InheritGrows ==
  ASSUME NEW t, NEW node \in Path, NEW sub \in Path, IsTable(t)
  PROVE  /\ Grows(t, Inherit(t, node, sub))
         /\ \A r \in Copied(t, node, sub) :
              node \o r \in DOMAIN Inherit(t, node, sub) /\ Inherit(t, node, sub)[node \o r] = t[sub \o r]
         /\ \A p \in DOMAIN Inherit(t, node, sub) :
              p \in DOMAIN t \/ \E r \in Copied(t, node, sub) : p = node \o r
<1> DEFINE new == Inherited(t, node, sub)  w == t ++ new
<1>1. /\ Inherit(t, node, sub) = w
      /\ DOMAIN new = {node \o r : r \in Copied(t, node, sub)}
      /\ \A r \in Copied(t, node, sub) : new[node \o r] = t[sub \o r]
  BY InheritIs
<1> HIDE DEF new
<1>0. w = [p \in DOMAIN t \cup DOMAIN new |-> IF p \in DOMAIN t THEN t[p] ELSE new[p]]  BY DEF ++
<1> HIDE DEF w
<1>2. /\ DOMAIN w = DOMAIN t \cup DOMAIN new /\ \A p \in DOMAIN t : w[p] = t[p]
      /\ \A p \in DOMAIN new : p \notin DOMAIN t => w[p] = new[p]
  BY <1>0
<1>3. Grows(t, w)  BY <1>2 DEF Grows
<1>4. \A r \in Copied(t, node, sub) : node \o r \notin DOMAIN t  BY DEF Copied, Lacks
<1>5. \A r \in Copied(t, node, sub) : node \o r \in DOMAIN w /\ w[node \o r] = t[sub \o r]
  BY <1>1, <1>2, <1>4
<1>6. \A p \in DOMAIN w : p \in DOMAIN t \/ \E r \in Copied(t, node, sub) : p = node \o r
  BY <1>1, <1>2
<1>7. QED  BY <1>1, <1>3, <1>5, <1>6

LEMMA HeadsOfKey ==
  ASSUME NEW r \in Path, NEW h \in Heads(r)
  PROVE  h \in Path /\ h # <<>> /\ Range(h) \subseteq Range(r)
<1>1. PICK k \in 1..Len(r) - 1 : h = SubSeq(r, 1, k)  BY DEF Heads
<1>2. r \in Seq(Tags) /\ Len(r) \in Nat  BY DEF Path
<1>3. k \in Nat /\ k <= Len(r) /\ k >= 1  BY <1>2
<1>4. h \in Seq(Tags) /\ Len(h) = k /\ \A i \in 1..k : h[i] = r[i]  BY <1>1, <1>2, <1>3
<1>5. \A i \in DOMAIN h : i \in DOMAIN r /\ h[i] = r[i]
  <2>1. DOMAIN h = 1..k /\ DOMAIN r = 1..Len(r)  BY <1>2, <1>4
  <2>2. \A i \in 1..k : i \in 1..Len(r)  BY <1>2, <1>3
  <2>3. QED  BY <2>1, <2>2, <1>4
<1>6. Range(h) \subseteq Range(r)  BY <1>5 DEF Range
<1>7. h \in Path /\ h # <<>>  BY HeadShorter
<1>8. QED  BY <1>6, <1>7

(* What stands below the "+" of a component is inherited by it: if what    *)
(* stands there has all, it has all.                                       *)
LEMMA HasAllInherits ==
  ASSUME NEW t, NEW u, IsTable(t), IsTable(u), Grows(t, u), NEW n, n \in Bases(t, n),
         \A r \in Path : r # <<>> /\ Plus \notin Range(r) /\ n \o r \in DOMAIN u => n \o r \in DOMAIN t,
         NEW child, Children(u, n \o <<Plus>>) = {child},
         \A x \in Children(t, n \o <<Plus>>) : x \in Bases(t, x) => HasAll(t, u, x),
         NEW sub \in Path, sub = IF IsMap(u, child) THEN child ELSE n \o <<Plus>>
  PROVE  HasAll(t, Inherit(u, n, sub), n)
<1> DEFINE w == Inherit(u, n, sub)  p == n \o <<Plus>>
<1>1. n \in Path  BY BaseIs
<1>2. /\ Grows(u, w)
      /\ \A r \in Copied(u, n, sub) : n \o r \in DOMAIN w /\ w[n \o r] = u[sub \o r]
  BY <1>1, InheritGrows
<1> HIDE DEF w
<1>3. ASSUME NEW b \in Bases(t, n), NEW r \in Path, Wanted(t, n, b, r)
      PROVE  n \o r \in DOMAIN w /\ w[n \o r].val = t[b \o r].val
  <2>1. CASE b = n
    <3>1. n \o r \in DOMAIN t  BY <1>3, <2>1 DEF Wanted, IsLeaf
    <3>2. n \o r \in DOMAIN u /\ u[n \o r].val = t[n \o r].val  BY <3>1 DEF Grows
    <3>3. n \o r \in DOMAIN w /\ w[n \o r].val = u[n \o r].val  BY <3>2, <1>2 DEF Grows
    <3>4. QED  BY <2>1, <3>2, <3>3
  <2>2. CASE b # n
    <3>1. PICK x \in Children(t, p) : x \in Bases(t, x) /\ b \in Bases(t, x) /\ IsPrefix(n, x)
      BY <2>2, BasesBelow
    <3>2. x \in Path /\ IsMap(t, x) /\ IsStrictPrefix(p, x) /\ Len(x) = Len(p) + 1
      BY <3>1, BaseIs DEF Children, Below
    <3> HIDE DEF p
    <3>3. x = child
      <4>1. x \in DOMAIN t  BY <3>2 DEF IsMap
      <4>2. x \in Children(u, p)  BY <3>2, <4>1 DEF Children, Below, Grows
      <4>3. QED  BY <4>2 DEF p
    <3>4. sub = x
      <4>1. IsMap(u, x)  BY <3>2 DEF Grows, IsMap
      <4>2. QED  BY <4>1, <3>3
    <3>5. HasAll(t, u, x)  BY <3>1 DEF p
    <3>6. Bases(t, x) \subseteq Bases(t, n)  BY <3>1, <3>2, <1>1, BasesNested
    <3>7. Wanted(t, x, b, r)  BY <3>6, <1>3 DEF Wanted
    <3>8. x \o r \in DOMAIN u /\ u[x \o r].val = t[b \o r].val  BY <3>1, <3>5, <3>7, HasAllIs
    <3>9. r # <<>> /\ Plus \notin Range(r)  BY <1>3 DEF Wanted
    <3>10. Lacks(t, n, r)
      <4>1. IsPrefix(n, b) /\ Len(n) \in Nat /\ Len(b) \in Nat /\ b \in Seq(Tags) /\ n \in Seq(Tags)
        BY <1>1, BaseIs DEF Path
      <4>2. Len(n) <= Len(b) /\ \A i \in 1..Len(n) : n[i] = b[i]  BY <4>1, PrefixAt
      <4>3. Len(n) # Len(b)
        <5> SUFFICES ASSUME Len(n) = Len(b) PROVE FALSE  OBVIOUS
        <5>1. n = b  BY <4>1, <4>2, SeqEqual
        <5>2. QED  BY <5>1, <2>2
      <4>4. Len(n) < Len(b)  BY <4>1, <4>2, <4>3
      <4>5. QED  BY <4>4, <1>3 DEF Wanted
    <3>11. Lacks(u, n, r)
      <4>1. n \o r \notin DOMAIN u  BY <3>9, <3>10 DEF Lacks
      <4>2. ASSUME NEW h \in Heads(r), IsLeaf(u, n \o h) PROVE FALSE
        <5>1. h \in Path /\ h # <<>> /\ Plus \notin Range(h)  BY <3>9, HeadsOfKey
        <5>2. n \o h \in DOMAIN t  BY <4>2, <5>1 DEF IsLeaf
        <5>3. IsLeaf(t, n \o h)  BY <4>2, <5>2 DEF IsLeaf, Grows
        <5>4. QED  BY <5>3, <3>10 DEF Lacks
      <4>3. QED  BY <4>1, <4>2 DEF Lacks
    <3>12. r \in Copied(u, n, sub)  BY <3>4, <3>8, <3>9, <3>11 DEF Copied
    <3>13. n \o r \in DOMAIN w /\ w[n \o r] = u[x \o r]  BY <3>4, <3>12, <1>2
    <3>14. QED  BY <3>8, <3>13
  <2>3. QED  BY <2>1, <2>2
<1>4. HasAll(t, w, n)  BY <1>3, HasAllIs
<1>5. QED  BY <1>4 DEF w

(* While the tables are flattened, every component of which the "+" has    *)
(* been visited has all; no other has yet got anything.                    *)
FlatInv ==
  phase \in {"flatten", "ints", "done"} =>
    /\ PlusesIn(parsed) /\ Grows(parsed, master) /\ left \subseteq DOMAIN parsed
    /\ \A n : n \in Bases(parsed, n) /\ n \o <<Plus>> \notin left => HasAll(parsed, master, n)
    /\ \A n : n \in Bases(parsed, n) /\ n \o <<Plus>> \in left =>
         \A r \in Path : r # <<>> /\ Plus \notin Range(r) /\ n \o r \in DOMAIN master
             => n \o r \in DOMAIN parsed
    /\ phase # "flatten" => left = {}

LEMMA GrowsChain ==
  ASSUME NEW t, NEW u, NEW w, Grows(t, u), Grows(u, w)
  PROVE  Grows(t, w)
BY DEF Grows

LEMMA FlatInvPlus ==
  ASSUME DbInv, FlatInv, FlattenPlus
  PROVE  FlatInv'
<1>0. IsTable(master) /\ IsTable(parsed)  BY DEF DbInv
<1>1. PICK p \in left :
        /\ phase = "flatten" /\ Last(p) = Plus /\ Deepest(p)
        /\ \/ /\ phase' = phase
              /\ \E child \in Children(master, p) :
                   /\ Children(master, p) = {child}
                   /\ master' = Inherit(master, Front(p), IF IsMap(master, child) THEN child ELSE p)
           \/ phase' = "abort"
        /\ left' = left \ {p} /\ parsed' = parsed
  BY DEF FlattenPlus, Visited
<1>2. /\ PlusesIn(parsed) /\ Grows(parsed, master) /\ left \subseteq DOMAIN parsed
      /\ \A n : n \in Bases(parsed, n) /\ n \o <<Plus>> \notin left => HasAll(parsed, master, n)
      /\ \A n : n \in Bases(parsed, n) /\ n \o <<Plus>> \in left =>
           \A r \in Path : r # <<>> /\ Plus \notin Range(r) /\ n \o r \in DOMAIN master
               => n \o r \in DOMAIN parsed
  BY <1>1 DEF FlatInv
<1>3. CASE phase' = "abort"  BY <1>3 DEF FlatInv
<1>4. ASSUME phase' = phase, NEW child \in Children(master, p), Children(master, p) = {child},
             master' = Inherit(master, Front(p), IF IsMap(master, child) THEN child ELSE p)
      PROVE  FlatInv'
  <2> DEFINE node == Front(p)
             sub == IF IsMap(master, child) THEN child ELSE p
             w == Inherit(master, node, sub)
  <2>1. p \in DOMAIN parsed /\ p \in DOMAIN master /\ p \in Path /\ p # <<>>
    BY <1>0, <1>1, <1>2, TableIs DEF Grows, Fits
  <2>2. node \in Path /\ p = node \o <<Plus>>
    <3>1. p \in Seq(Tags)  BY <2>1 DEF Path
    <3>2. Front(p) \in Seq(Tags) /\ p = Front(p) \o <<Last(p)>>  BY <2>1, <3>1, PathEnds
    <3>3. QED  BY <3>2, <1>1 DEF Path
  <2>3. sub \in Path  BY <1>0, <1>1, <2>1, TableOfPlus
  <2>4. InComponent(p)  BY <1>1, <1>2, <2>1 DEF PlusesIn
  <2> HIDE DEF node, sub
  <2>5. /\ Grows(master, w)
        /\ \A q \in DOMAIN w : q \in DOMAIN master \/ \E s \in Copied(master, node, sub) : q = node \o s
    BY <1>0, <2>2, <2>3, InheritGrows
  <2>6. master' = w  BY <1>4 DEF node, sub
  <2> HIDE DEF w
  <2>7. Grows(parsed, w)  BY <1>2, <2>5, GrowsChain
  <2>8. ASSUME NEW n, n \in Bases(parsed, n), n \o <<Plus>> \notin left \ {p}
        PROVE  HasAll(parsed, w, n)
    <3>1. CASE n \o <<Plus>> \notin left
      <4>1. HasAll(parsed, master, n)  BY <1>2, <2>8, <3>1
      <4>2. QED  BY <4>1, <2>5, HasAllKept
    <3>2. CASE n \o <<Plus>> = p
      <4>1. n \in Path  BY <1>0, <2>8, BaseIs
      <4>2. n = node
        <5>1. Front(n \o <<Plus>>) = n  BY <4>1, PlusBelow
        <5>2. QED  BY <5>1, <3>2 DEF node
      <4>3. p \in left  OBVIOUS
      <4>4. \A r \in Path : r # <<>> /\ Plus \notin Range(r) /\ n \o r \in DOMAIN master
                => n \o r \in DOMAIN parsed
        BY <1>2, <2>8, <3>2, <4>3
      <4>5. ASSUME NEW x \in Children(parsed, p), x \in Bases(parsed, x) PROVE HasAll(parsed, master, x)
        <5> DEFINE v == x \o <<Plus>>
        <5>1. x \in Path /\ IsStrictPrefix(p, x)  BY <1>0, <4>5, BaseIs DEF Children, Below
        <5>2. /\ v \in Path /\ Len(v) = Len(x) + 1 /\ (\A i \in 1..Len(x) : v[i] = x[i]) /\ Len(x) \in Nat
          BY <5>1, PlusBelow
        <5> HIDE DEF v
        <5>3. p \in Seq(Tags) /\ x \in Seq(Tags) /\ v \in Seq(Tags) /\ IsPrefix(p, x)
          BY <2>1, <5>1, <5>2 DEF Path, IsStrictPrefix
        <5>4. IsPrefix(x, v)
          <6>1. Len(x) <= Len(v) /\ \A i \in 1..Len(x) : x[i] = v[i]  BY <5>2
          <6>2. QED  BY <6>1, <5>3, PrefixAt
        <5>5. IsPrefix(p, v)  BY <5>3, <5>4, PrefixesChain
        <5>6. p # v
          <6>1. Len(p) <= Len(x) /\ Len(p) \in Nat  BY <5>3, PrefixAt
          <6>2. QED  BY <6>1, <5>2
        <5>7. IsStrictPrefix(p, v)  BY <5>5, <5>6 DEF IsStrictPrefix
        <5>8. v \notin left  BY <5>7, <1>1 DEF Deepest
        <5>9. QED  BY <5>8, <1>2, <4>5 DEF v
      <4>6. sub = IF IsMap(master, child) THEN child ELSE n \o <<Plus>>  BY <3>2 DEF sub
      <4>7. Children(master, n \o <<Plus>>) = {child}  BY <1>4, <3>2
      <4>8. \A x \in Children(parsed, n \o <<Plus>>) : x \in Bases(parsed, x) => HasAll(parsed, master, x)
        BY <4>5, <3>2
      <4>9. HasAll(parsed, Inherit(master, n, sub), n)
        BY <1>0, <1>2, <2>3, <2>8, <4>4, <4>6, <4>7, <4>8, HasAllInherits
      <4>10. QED  BY <4>2, <4>9 DEF w
    <3>3. QED  BY <3>1, <3>2, <2>8
  <2>9. ASSUME NEW n, n \in Bases(parsed, n), n \o <<Plus>> \in left \ {p},
               NEW r \in Path, r # <<>>, Plus \notin Range(r), n \o r \in DOMAIN w
        PROVE  n \o r \in DOMAIN parsed
    <3>1. CASE n \o r \in DOMAIN master  BY <3>1, <1>2, <2>9
    <3>2. ASSUME NEW s \in Copied(master, node, sub), n \o r = node \o s PROVE FALSE
      <4>1. s \in Path  BY DEF Copied
      <4>2. n \in Path /\ InComponent(n \o <<Plus>>)  BY <1>0, <2>9, BaseIs
      <4>3. n # node  BY <2>2, <2>9
      <4>4. InComponent(node \o <<Plus>>)  BY <2>2, <2>4
      <4>5. IsStrictPrefix(node \o <<Plus>>, n \o <<Plus>>)
        BY <2>2, <2>9, <3>2, <4>1, <4>2, <4>3, <4>4, NodesApart
      <4>6. QED  BY <4>5, <2>2, <2>9, <1>1 DEF Deepest
    <3>3. QED  BY <3>1, <3>2, <2>5, <2>9
  <2>10. left' \subseteq DOMAIN parsed /\ phase' = "flatten"  BY <1>1, <1>2, <1>4
  <2>11. QED  BY <1>1, <1>2, <2>6, <2>7, <2>8, <2>9, <2>10 DEF FlatInv
<1>5. QED  BY <1>1, <1>3, <1>4

LEMMA FlatInvGlobal ==
  ASSUME DbInv, FlatInv, FlattenGlobal
  PROVE  FlatInv'
<1>0. IsTable(master) /\ IsTable(parsed)  BY DEF DbInv
<1>1. PICK p \in left :
        /\ phase = "flatten" /\ Last(p)[1] = "/"
        /\ master' = master ++ Single(<<Tag(Last(p)[2])>>, master[p])
        /\ left' = left \ {p} /\ phase' = phase /\ parsed' = parsed
  BY DEF FlattenGlobal, Visited
<1>2. /\ PlusesIn(parsed) /\ Grows(parsed, master) /\ left \subseteq DOMAIN parsed
      /\ \A n : n \in Bases(parsed, n) /\ n \o <<Plus>> \notin left => HasAll(parsed, master, n)
      /\ \A n : n \in Bases(parsed, n) /\ n \o <<Plus>> \in left =>
           \A r \in Path : r # <<>> /\ Plus \notin Range(r) /\ n \o r \in DOMAIN master
               => n \o r \in DOMAIN parsed
  BY <1>1 DEF FlatInv
<1> DEFINE k == Tag(Last(p)[2])  one == Single(<<k>>, master[p])  w == master ++ one
<1>3. master' = w  BY <1>1
<1>4. DOMAIN one = {<<k>>}  BY SingleIs
<1> HIDE DEF k, one
<1>5. DOMAIN w = DOMAIN master \cup {<<k>>} /\ Grows(master, w)
  <2>1. w = [q \in DOMAIN master \cup DOMAIN one |-> IF q \in DOMAIN master THEN master[q] ELSE one[q]]
    BY DEF ++
  <2> HIDE DEF w
  <2>2. QED  BY <2>1, <1>4 DEF Grows
<1> HIDE DEF w
<1>6. Grows(parsed, w)  BY <1>2, <1>5, GrowsChain
<1>7. ASSUME NEW n, n \in Bases(parsed, n)
      PROVE  /\ n \in Path /\ n # <<>>
             /\ n \o <<Plus>> \in left \ {p} <=> n \o <<Plus>> \in left
  <2>1. n \in Path /\ n # <<>>  BY <1>0, <1>7, BaseIs
  <2>2. Last(n \o <<Plus>>) = Plus  BY <2>1, PlusBelow
  <2>3. Plus[1] = "+"  BY TagsAre
  <2>4. n \o <<Plus>> # p  BY <1>1, <2>2, <2>3
  <2>5. QED  BY <2>1, <2>4
<1>8. ASSUME NEW n, n \in Bases(parsed, n), n \o <<Plus>> \notin left \ {p} PROVE HasAll(parsed, w, n)
  <2>1. HasAll(parsed, master, n)  BY <1>2, <1>7, <1>8
  <2>2. QED  BY <2>1, <1>5, HasAllKept
<1>9. ASSUME NEW n, n \in Bases(parsed, n), n \o <<Plus>> \in left \ {p},
             NEW r \in Path, r # <<>>, Plus \notin Range(r), n \o r \in DOMAIN w
      PROVE  n \o r \in DOMAIN parsed
  <2>1. n \o r # <<k>>
    <3>1. n \in Seq(Tags) /\ r \in Seq(Tags) /\ n # <<>>  BY <1>7, <1>9 DEF Path
    <3>2. Len(n \o r) = Len(n) + Len(r) /\ Len(n) > 0 /\ Len(r) > 0 /\ Len(n) \in Nat /\ Len(r) \in Nat
      BY <3>1, <1>9
    <3>3. Len(n \o r) # 1  BY <3>2
    <3>4. Len(<<k>>) = 1  OBVIOUS
    <3>5. QED  BY <3>3, <3>4
  <2>2. n \o r \in DOMAIN master  BY <2>1, <1>5, <1>9
  <2>3. QED  BY <2>2, <1>2, <1>9
<1>10. left' \subseteq DOMAIN parsed /\ phase' = "flatten"  BY <1>1, <1>2
<1>11. QED  BY <1>1, <1>2, <1>3, <1>6, <1>8, <1>9, <1>10 DEF FlatInv

LEMMA FlatInvNext ==
  ASSUME DbInv, ShapeInv, FlatInv, [DbNext]_dbvars
  PROVE  FlatInv'
<1>0. IsTable(master) /\ IsTable(parsed)  BY DEF DbInv
<1>1. CASE StartFlatten
  <2>1. /\ phase = "args" /\ parsed' = master /\ master' = master /\ phase' = "flatten"
        /\ left' = {p \in DOMAIN master : Last(p) = Plus \/ Last(p)[1] = "/"}
    BY <1>1 DEF StartFlatten
  <2>2. PlusesIn(master)  BY <2>1 DEF ShapeInv
  <2>3. Grows(master, master)  BY DEF Grows
  <2>4. ASSUME NEW n, n \in Bases(master, n), n \o <<Plus>> \notin left' PROVE HasAll(master, master, n)
    <3>1. n \in Path  BY <1>0, <2>4, BaseIs
    <3>2. Last(n \o <<Plus>>) = Plus  BY <3>1, PlusBelow
    <3>3. n \o <<Plus>> \notin DOMAIN master  BY <2>1, <2>4, <3>2
    <3>4. QED  BY <1>0, <2>4, <3>3, HasAllAlone
  <2>5. QED  BY <2>1, <2>2, <2>3, <2>4 DEF FlatInv
<1>2. CASE FlattenPlus  BY <1>2, FlatInvPlus
<1>3. CASE FlattenGlobal  BY <1>3, FlatInvGlobal
<1>4. CASE EndFlatten
  <2>1. /\ phase = "flatten" /\ left = {} /\ phase' = "ints" /\ left' = left /\ master' = master
        /\ parsed' = parsed
    BY <1>4 DEF EndFlatten
  <2>2. QED  BY <2>1 DEF FlatInv
<1>5. CASE ConvertInts
  <2> DEFINE u == [p \in DOMAIN master |->
                     IF master[p].typ = "str" /\ IsInt(p, project.ints[arg])
                       THEN [master[p] EXCEPT !.typ = "int"] ELSE master[p]]
  <2>1. phase = "ints" /\ master' = u /\ left' = left /\ phase' = phase /\ parsed' = parsed
    BY <1>5 DEF ConvertInts
  <2>2. DOMAIN u = DOMAIN master
        /\ \A p \in DOMAIN master :
             u[p] = master[p] \/ (master[p].typ = "str" /\ u[p] = [master[p] EXCEPT !.typ = "int"])
    OBVIOUS
  <2>3. \A v \in Value : [v EXCEPT !.typ = "int"].val = v.val /\ [v EXCEPT !.typ = "int"].typ = "int"
    BY DEF Value
  <2>4. \A p \in DOMAIN master : master[p] \in Value  BY <1>0, TableIs DEF Fits
  <2> HIDE DEF u
  <2>5. Grows(master, u)
    <3>1. ASSUME NEW p \in DOMAIN master
          PROVE  u[p].val = master[p].val /\ (u[p].typ = "map" <=> master[p].typ = "map")
      <4>1. CASE u[p] = master[p]  BY <4>1
      <4>2. CASE master[p].typ = "str" /\ u[p] = [master[p] EXCEPT !.typ = "int"]
        BY <4>2, <2>3, <2>4
      <4>3. QED  BY <4>1, <4>2, <2>2
    <3>2. QED  BY <3>1, <2>2 DEF Grows
  <2>6. /\ PlusesIn(parsed) /\ Grows(parsed, master) /\ left \subseteq DOMAIN parsed
        /\ \A n : n \in Bases(parsed, n) /\ n \o <<Plus>> \notin left => HasAll(parsed, master, n)
        /\ left = {}
    BY <2>1 DEF FlatInv
  <2>7. Grows(parsed, u)  BY <2>5, <2>6, GrowsChain
  <2>8. \A n : n \in Bases(parsed, n) /\ n \o <<Plus>> \notin left => HasAll(parsed, u, n)
    BY <2>5, <2>6, HasAllKept
  <2>9. QED  BY <2>1, <2>6, <2>7, <2>8 DEF FlatInv
<1>6. CASE Done
  <2>1. /\ phase = "ints" /\ phase' = "done" /\ left' = left /\ master' = master /\ parsed' = parsed
    BY <1>6 DEF Done
  <2>2. QED  BY <2>1 DEF FlatInv
<1>7. CASE OpenArg \/ NameConflict \/ ReadPrefix \/ ReadKey \/ ReadInclude \/ EndInclude \/ EndArg
  <2>1. phase' \notin {"flatten", "ints", "done"}
    BY <1>7 DEF OpenArg, NameConflict, ReadPrefix, ReadKey, ReadInclude, EndInclude, EndArg, AtLine, EndOfFile
  <2>2. QED  BY <2>1 DEF FlatInv
<1>8. CASE UNCHANGED dbvars  BY <1>8 DEF dbvars, FlatInv
<1>9. QED  BY <1>1, <1>2, <1>3, <1>4, <1>5, <1>6, <1>7, <1>8 DEF DbNext

(* A component has every key of what it includes, with the value of the    *)
(* nearest that has it, if every file is included in a component.          *)
THEOREM InheritedRight ==
  DbSpec /\ []AppendsBelowMaps /\ []IncludesInComponents => []InheritsWhatItLacks
<1>1. DbInit => DbInv /\ ShapeInv /\ FlatInv
  <2> SUFFICES ASSUME DbInit PROVE DbInv /\ ShapeInv /\ FlatInv  OBVIOUS
  <2>1. phase = "args" /\ stack = <<>> /\ master = Empty  BY DEF DbInit
  <2>2. Len(<<>>) = 0 /\ 1..0 = {}  OBVIOUS
  <2>3. ShapeInv  BY <2>1, <2>2, EmptyPluses DEF ShapeInv, Shape
  <2>4. FlatInv  BY <2>1 DEF FlatInv
  <2>5. QED  BY <2>3, <2>4, DbInvInit
<1>2. /\ DbInv /\ ShapeInv /\ FlatInv /\ AppendsBelowMaps /\ IncludesInComponents /\ [DbNext]_dbvars
      => DbInv' /\ ShapeInv' /\ FlatInv'
  BY DbInvNext, ShapeNext, FlatInvNext
<1>3. DbInv /\ FlatInv => InheritsWhatItLacks
  <2> SUFFICES ASSUME DbInv, FlatInv, phase = "done",
                      NEW c \in DOMAIN parsed, Len(c) = 1, IsMap(parsed, c)
               PROVE  HasAll(parsed, master, c)
    BY DEF InheritsWhatItLacks
  <2>1. IsTable(parsed) /\ left = {}  BY DEF DbInv, FlatInv
  <2>2. c \in Seq(Tags)  BY <2>1, TableIs DEF Fits, Path
  <2>3. IsPrefix(c, c)
    <3>1. Len(c) <= Len(c) /\ \A i \in 1..Len(c) : c[i] = c[i]  BY <2>2
    <3>2. QED  BY <3>1, <2>2, PrefixAt
  <2>4. 1 % 2 = 1 /\ 2..1 = {}  OBVIOUS
  <2>5. c \in Bases(parsed, c)  BY <2>3, <2>4 DEF Bases
  <2>6. QED  BY <2>1, <2>5 DEF FlatInv
<1>4. QED  BY <1>1, <1>2, <1>3, PTL DEF DbSpec

-----------------------------------------------------------------------------
(* What is appended to a key is there in the order of the lines.           *)
Pairs == Nat \X Nat
Rank(S, x) == Cardinality({y \in S : Before(y, x)})

LEMMA BeforeOrder ==
  \A x, y, z \in Pairs :
    /\ ~Before(x, x) /\ (x = y \/ Before(x, y) \/ Before(y, x)) /\ ~(Before(x, y) /\ Before(y, x))
    /\ Before(x, y) /\ Before(y, z) => Before(x, z)
<1> SUFFICES ASSUME NEW x \in Pairs, NEW y \in Pairs, NEW z \in Pairs
             PROVE  /\ ~Before(x, x) /\ (x = y \/ Before(x, y) \/ Before(y, x))
                    /\ ~(Before(x, y) /\ Before(y, x))
                    /\ Before(x, y) /\ Before(y, z) => Before(x, z)
  OBVIOUS
<1>1. /\ x[1] \in Nat /\ x[2] \in Nat /\ y[1] \in Nat /\ y[2] \in Nat /\ z[1] \in Nat /\ z[2] \in Nat
      /\ x[1] = y[1] /\ x[2] = y[2] => x = y
  BY DEF Pairs
<1>2. QED  BY <1>1 DEF Before

(* Each place of a finite set has a rank, and each rank one place.         *)
LEMMA RankIs ==
  ASSUME NEW S, IsFiniteSet(S), S \subseteq Pairs
  PROVE  /\ Cardinality(S) \in Nat
         /\ \A x \in S : Rank(S, x) \in Nat /\ Rank(S, x) + 1 \in 1..Cardinality(S)
         /\ \A x, y \in S : Rank(S, x) = Rank(S, y) => x = y
         /\ \A i \in 1..Cardinality(S) : \E x \in S : Rank(S, x) = i - 1
<1> DEFINE Lower(x) == {y \in S : Before(y, x)}
           n == Cardinality(S)
           f == [x \in S |-> Rank(S, x) + 1]
<1>1. n \in Nat  BY FS_CardinalityType
<1>2. \A x \in S : Lower(x) \in SUBSET S /\ x \notin Lower(x)  BY BeforeOrder
<1>3. ASSUME NEW x \in S PROVE Rank(S, x) \in Nat /\ Rank(S, x) + 1 \in 1..n
  <2>1. IsFiniteSet(Lower(x)) /\ Cardinality(Lower(x)) <= n /\ Cardinality(Lower(x)) # n
    <3> HIDE DEF Lower
    <3>1. QED  BY <1>2, <1>3, FS_Subset
  <2>2. Cardinality(Lower(x)) \in Nat  BY <2>1, FS_CardinalityType
  <2> HIDE DEF n
  <2>3. Rank(S, x) = Cardinality(Lower(x))  BY DEF Rank
  <2>4. QED  BY <1>1, <2>1, <2>2, <2>3
<1>4. ASSUME NEW x \in S, NEW y \in S, Before(x, y) PROVE Rank(S, x) < Rank(S, y)
  <2>1. Lower(x) \in SUBSET Lower(y) /\ x \in Lower(y) /\ x \notin Lower(x)
    BY <1>2, <1>4, BeforeOrder
  <2>2. IsFiniteSet(Lower(y))
    <3> HIDE DEF Lower
    <3>1. QED  BY <1>2, FS_Subset
  <2>3. Cardinality(Lower(x)) <= Cardinality(Lower(y)) /\ Cardinality(Lower(x)) # Cardinality(Lower(y))
    <3> HIDE DEF Lower
    <3>1. QED  BY <2>1, <2>2, FS_Subset
  <2>4. Rank(S, x) = Cardinality(Lower(x)) /\ Rank(S, y) = Cardinality(Lower(y))  BY DEF Rank
  <2>5. Rank(S, x) \in Nat /\ Rank(S, y) \in Nat  BY <1>3
  <2> HIDE DEF Lower
  <2>6. QED  BY <2>3, <2>4, <2>5
<1>5. ASSUME NEW x \in S, NEW y \in S, Rank(S, x) = Rank(S, y) PROVE x = y
  <2>1. Rank(S, x) \in Nat /\ Rank(S, y) \in Nat  BY <1>3
  <2>2. ~Before(x, y) /\ ~Before(y, x)  BY <1>4, <1>5, <2>1
  <2>3. QED  BY <2>2, BeforeOrder
<1> HIDE DEF n
<1>6. f \in Injection(S, 1..n)
  <2>1. f \in [S -> 1..n]  BY <1>3
  <2>2. ASSUME NEW x \in S, NEW y \in S, f[x] = f[y] PROVE x = y
    <3>1. Rank(S, x) \in Nat /\ Rank(S, y) \in Nat /\ Rank(S, x) + 1 = Rank(S, y) + 1  BY <1>3, <2>2
    <3>2. Rank(S, x) = Rank(S, y)  BY <3>1
    <3>3. QED  BY <3>2, <1>5
  <2> HIDE DEF f
  <2>3. QED  BY <2>1, <2>2, Fun_IsInj
<1>7. f \in Surjection(S, 1..n)
  <2>1. IsFiniteSet(1..n) /\ Cardinality(1..n) = n  BY <1>1, FS_Interval
  <2> HIDE DEF f
  <2>2. QED  BY <1>6, <2>1, FS_Injection DEF n
<1>8. ASSUME NEW i \in 1..n PROVE \E x \in S : Rank(S, x) = i - 1
  <2>1. PICK x \in S : f[x] = i
    <3> HIDE DEF f
    <3>1. QED  BY <1>7, Zenon DEF Surjection
  <2>2. Rank(S, x) \in Nat /\ Rank(S, x) + 1 = i  BY <1>3, <2>1
  <2>3. Rank(S, x) = i - 1  BY <2>2
  <2>4. QED  BY <2>3
<1>9. QED  BY <1>1, <1>3, <1>5, <1>8 DEF n

(* The values of the lines of a set, in the order of these.                *)
LEMMA ValueIs ==
  ASSUME NEW d, NEW S, IsFiniteSet(S), S \subseteq Pairs, NEW V, \A x \in S : LineAt(d, x).val \in V
  PROVE  /\ ValueOf(d, S) \in Seq(V) /\ Len(ValueOf(d, S)) = Cardinality(S)
         /\ \A x \in S : ValueOf(d, S)[Rank(S, x) + 1] = LineAt(d, x).val
<1> DEFINE n == Cardinality(S)
           At(i) == CHOOSE x \in S : Rank(S, x) = i - 1
           s == [i \in 1..n |-> LineAt(d, At(i)).val]
<1>1. ValueOf(d, S) = s  BY DEF ValueOf, Rank
<1>2. n \in Nat  BY RankIs
<1>3. ASSUME NEW i \in 1..n PROVE At(i) \in S /\ Rank(S, At(i)) = i - 1
  <2>1. \E x \in S : Rank(S, x) = i - 1  BY RankIs
  <2>2. QED  BY <2>1
<1>4. ASSUME NEW x \in S PROVE Rank(S, x) + 1 \in 1..n /\ At(Rank(S, x) + 1) = x
  <2>1. Rank(S, x) \in Nat /\ Rank(S, x) + 1 \in 1..n  BY RankIs
  <2>2. At(Rank(S, x) + 1) \in S /\ Rank(S, At(Rank(S, x) + 1)) = Rank(S, x) + 1 - 1  BY <1>3, <2>1
  <2>3. Rank(S, x) + 1 - 1 = Rank(S, x)  BY <2>1
  <2> HIDE DEF At
  <2>4. Rank(S, At(Rank(S, x) + 1)) = Rank(S, x)  BY <2>2, <2>3
  <2>5. QED  BY <2>1, <2>2, <2>4, RankIs
<1> HIDE DEF At, n
<1>5. s \in Seq(V) /\ Len(s) = n  BY <1>2, <1>3
<1>6. \A x \in S : s[Rank(S, x) + 1] = LineAt(d, x).val  BY <1>4
<1>7. QED  BY <1>1, <1>5, <1>6 DEF n

LEMMA ValueNone ==
  ASSUME NEW d
  PROVE  ValueOf(d, {}) = <<>>
<1>1. Cardinality({}) = 0 /\ 1..0 = {}  BY FS_EmptySet
<1>2. QED  BY <1>1 DEF ValueOf

LEMMA ValueOne ==
  ASSUME NEW d, NEW x \in Pairs
  PROVE  ValueOf(d, {x}) = <<LineAt(d, x).val>>
<1> DEFINE V == {LineAt(d, x).val}
           s == ValueOf(d, {x})
<1>1. IsFiniteSet({x}) /\ Cardinality({x}) = 1 /\ {x} \subseteq Pairs  BY FS_Singleton
<1>2. \A y \in {x} : LineAt(d, y).val \in V  OBVIOUS
<1>3. s \in Seq(V) /\ Len(s) = 1
  <2> HIDE DEF V
  <2>1. QED  BY <1>1, <1>2, ValueIs
<1> HIDE DEF s
<1>4. s[1] \in V /\ s = <<s[1]>>  BY <1>3
<1>5. QED  BY <1>4 DEF s

LEMMA ValueJoin ==
  ASSUME NEW d, NEW S, NEW T, IsFiniteSet(S), IsFiniteSet(T), S \subseteq Pairs, T \subseteq Pairs,
         \A x \in S, y \in T : Before(x, y)
  PROVE  ValueOf(d, S \cup T) = ValueOf(d, S) \o ValueOf(d, T)
<1> DEFINE U == S \cup T
           V == {LineAt(d, x).val : x \in U}
           s == ValueOf(d, S)
           t == ValueOf(d, T)
           u == ValueOf(d, U)
           m == Cardinality(S)
           n == Cardinality(T)
<1>1. S \cap T = {}  BY BeforeOrder
<1>2. IsFiniteSet(U) /\ U \subseteq Pairs /\ Cardinality(U) = m + n /\ m \in Nat /\ n \in Nat
  <2>1. Cardinality(S \cap T) = 0  BY <1>1, FS_EmptySet
  <2>2. m \in Nat /\ n \in Nat  BY FS_CardinalityType
  <2>3. IsFiniteSet(U) /\ Cardinality(U) = m + n - 0  BY <2>1, FS_Union
  <2>4. QED  BY <2>2, <2>3
<1>3. \A x \in U : LineAt(d, x).val \in V  OBVIOUS
<1> HIDE DEF V
<1>4. /\ s \in Seq(V) /\ Len(s) = m /\ \A x \in S : s[Rank(S, x) + 1] = LineAt(d, x).val
      /\ t \in Seq(V) /\ Len(t) = n /\ \A x \in T : t[Rank(T, x) + 1] = LineAt(d, x).val
      /\ u \in Seq(V) /\ Len(u) = m + n /\ \A x \in U : u[Rank(U, x) + 1] = LineAt(d, x).val
  BY <1>2, <1>3, ValueIs
<1>5. ASSUME NEW x \in S PROVE Rank(U, x) = Rank(S, x)
  <2>1. {y \in U : Before(y, x)} = {y \in S : Before(y, x)}  BY BeforeOrder
  <2>2. QED  BY <2>1 DEF Rank
<1>6. ASSUME NEW x \in T PROVE Rank(U, x) = m + Rank(T, x) /\ Rank(T, x) \in Nat
  <2> DEFINE L == {y \in T : Before(y, x)}
  <2>1. {y \in U : Before(y, x)} = S \cup L /\ S \cap L = {} /\ L \subseteq T  BY <1>1, BeforeOrder
  <2> HIDE DEF L
  <2>2. IsFiniteSet(L) /\ Cardinality(S \cap L) = 0  BY <2>1, FS_Subset, FS_EmptySet
  <2>3. Cardinality(L) \in Nat  BY <2>2, FS_CardinalityType
  <2>4. Cardinality(S \cup L) = m + Cardinality(L) - 0  BY <2>2, FS_Union
  <2>5. Rank(U, x) = Cardinality(S \cup L) /\ Rank(T, x) = Cardinality(L)  BY <2>1 DEF Rank, L
  <2>6. QED  BY <2>3, <2>4, <2>5, <1>2
<1> HIDE DEF U, s, t, u, m, n
<1>7. ASSUME NEW i \in 1..m + n PROVE u[i] = IF i <= m THEN s[i] ELSE t[i - m]
  <2>1. CASE i <= m
    <3>1. i \in 1..m  BY <2>1, <1>2
    <3>2. PICK x \in S : Rank(S, x) = i - 1  BY <3>1, RankIs DEF m
    <3>3. Rank(S, x) + 1 = i /\ Rank(U, x) + 1 = i  BY <3>2, <1>5
    <3>4. x \in U  BY DEF U
    <3>5. QED  BY <3>3, <3>4, <2>1, <1>4
  <2>2. CASE ~(i <= m)
    <3>1. i - m \in 1..n  BY <2>2, <1>2
    <3>2. PICK x \in T : Rank(T, x) = i - m - 1  BY <3>1, RankIs DEF n
    <3>3. Rank(T, x) + 1 = i - m /\ Rank(U, x) + 1 = i  BY <3>2, <1>6, <1>2
    <3>4. x \in U  BY DEF U
    <3>5. QED  BY <3>3, <3>4, <2>2, <1>4
  <2>3. QED  BY <2>1, <2>2
<1>8. u = s \o t
  <2> DEFINE w == s \o t
  <2>1. w \in Seq(V) /\ Len(w) = m + n /\ \A i \in 1..m + n : w[i] = IF i <= m THEN s[i] ELSE t[i - m]
    BY <1>4, <1>2
  <2> HIDE DEF w
  <2>2. \A i \in 1..m + n : u[i] = w[i]  BY <2>1, <1>7
  <2>3. u = w  BY <2>1, <2>2, <1>4, SeqEqual
  <2>4. QED  BY <2>3 DEF w
<1>9. QED  BY <1>8 DEF U, s, t, u

LEMMA PlaceIs ==
  ASSUME NEW d \in Projects, NEW x
  PROVE  x \in Places(d) <=>
           /\ x \in Pairs /\ x[1] \in 1..Len(d.args) /\ Len(d.args) \in Nat
           /\ x[2] \in 1..Len(LinesOf(d, x[1])) /\ Len(LinesOf(d, x[1])) \in Nat
<1>1. d.args \in Seq(DOMAIN d.text)  BY ArgAssumption
<1>2. DOMAIN d.args = 1..Len(d.args) /\ Len(d.args) \in Nat  BY <1>1
<1>3. ASSUME NEW a \in DOMAIN d.args
      PROVE  DOMAIN LinesOf(d, a) = 1..Len(LinesOf(d, a)) /\ Len(LinesOf(d, a)) \in Nat
  <2>1. d.args[a] \in DOMAIN d.text  BY <1>1
  <2>2. LinesOf(d, a) \in Seq(Range(LinesOf(d, a)))  BY <2>1, LineAssumption DEF LinesOf
  <2>3. QED  BY <2>2
<1>4. x \in Places(d) <=> \E a \in DOMAIN d.args : \E n \in DOMAIN LinesOf(d, a) : x = <<a, n>>
  BY DEF Places
<1>5. ASSUME x \in Places(d)
      PROVE  /\ x \in Pairs /\ x[1] \in 1..Len(d.args) /\ Len(d.args) \in Nat
             /\ x[2] \in 1..Len(LinesOf(d, x[1])) /\ Len(LinesOf(d, x[1])) \in Nat
  <2>0. PICK a \in DOMAIN d.args : \E n \in DOMAIN LinesOf(d, a) : x = <<a, n>>  BY <1>4, <1>5
  <2>1. PICK n \in DOMAIN LinesOf(d, a) : x = <<a, n>>  BY <2>0
  <2>2. x[1] = a /\ x[2] = n  BY <2>1
  <2>3. a \in 1..Len(d.args) /\ n \in 1..Len(LinesOf(d, a)) /\ Len(LinesOf(d, a)) \in Nat
    BY <2>1, <1>2, <1>3
  <2>4. x \in Pairs  BY <2>1, <2>3, <1>2 DEF Pairs
  <2>5. QED  BY <2>2, <2>3, <2>4, <1>2
<1>6. ASSUME x \in Pairs, x[1] \in 1..Len(d.args), x[2] \in 1..Len(LinesOf(d, x[1]))
      PROVE  x \in Places(d)
  <2>1. x = <<x[1], x[2]>>  BY <1>6 DEF Pairs
  <2>2. x[1] \in DOMAIN d.args  BY <1>2, <1>6
  <2>3. x[2] \in DOMAIN LinesOf(d, x[1])  BY <1>3, <1>6, <2>2
  <2>4. QED  BY <2>1, <2>2, <2>3, <1>4
<1>7. QED  BY <1>5, <1>6

LEMMA PlacesFinite ==
  ASSUME NEW d \in Projects
  PROVE  IsFiniteSet(Places(d)) /\ Places(d) \subseteq Pairs
<1> DEFINE Upto(k) == {x \in Places(d) : x[1] <= k}
           n == Len(d.args)
           K == {k \in Nat : k <= n => IsFiniteSet(Upto(k))}
<1>1. Places(d) \subseteq Pairs  BY PlaceIs
<1>2. 0 \in K
  <2>1. Upto(0) = {}  BY PlaceIs
  <2> HIDE DEF Upto
  <2>2. QED  BY <2>1, FS_EmptySet
<1>3. ASSUME NEW k \in Nat, k \in K PROVE k + 1 \in K
  <2>1. CASE k + 1 <= n
    <3> DEFINE m == Len(LinesOf(d, k + 1))
               new == {k + 1} \X (1..m)
               fresh == {x \in Places(d) : x[1] = k + 1}
    <3>1. \A x \in Places(d) : x[1] \in Nat /\ (x[1] <= k + 1 <=> x[1] <= k \/ x[1] = k + 1)  BY PlaceIs
    <3>2. Upto(k + 1) = Upto(k) \cup fresh  BY <3>1
    <3>3. \A x \in fresh : x \in new
      <4> SUFFICES ASSUME NEW x \in fresh PROVE x \in new  OBVIOUS
      <4>1. x \in Pairs /\ x[1] = k + 1 /\ x[2] \in 1..m  BY PlaceIs
      <4> HIDE DEF m
      <4>2. x = <<x[1], x[2]>>  BY <4>1 DEF Pairs
      <4>3. QED  BY <4>1, <4>2
    <3>4. IsFiniteSet(fresh)
      <4>1. CASE fresh = {}
        <5> HIDE DEF fresh
        <5>1. QED  BY <4>1, FS_EmptySet
      <4>2. CASE fresh # {}
        <5>1. m \in Nat  BY <4>2, PlaceIs
        <5> HIDE DEF m
        <5>2. IsFiniteSet(1..m)  BY <5>1, FS_Interval
        <5>3. IsFiniteSet({k + 1})  BY FS_Singleton
        <5>4. IsFiniteSet(new)  BY <5>2, <5>3, FS_Product
        <5> HIDE DEF new, fresh
        <5>5. fresh \in SUBSET new  BY <3>3
        <5>6. QED  BY <5>4, <5>5, FS_Subset
      <4>3. QED  BY <4>1, <4>2
    <3>5. k <= n
      <4>1. d.args \in Seq(DOMAIN d.text)  BY ArgAssumption
      <4>2. n \in Nat  BY <4>1
      <4> HIDE DEF n
      <4>3. QED  BY <2>1, <4>2
    <3>6. IsFiniteSet(Upto(k))  BY <1>3, <3>5
    <3> HIDE DEF Upto, fresh
    <3>7. IsFiniteSet(Upto(k) \cup fresh)  BY <3>4, <3>6, FS_Union
    <3>8. IsFiniteSet(Upto(k + 1))  BY <3>2, <3>7
    <3>9. QED  BY <3>8
  <2>2. CASE ~(k + 1 <= n)  BY <2>2
  <2>3. QED  BY <2>1, <2>2
<1> HIDE DEF K
<1>4. n \in Nat
  <2>1. d.args \in Seq(DOMAIN d.text)  BY ArgAssumption
  <2>2. QED  BY <2>1
<1>5. n \in K  BY <1>2, <1>3, <1>4, NatSetInduction
<1>6. Upto(n) = Places(d)  BY PlaceIs
<1> HIDE DEF Upto, n
<1>7. IsFiniteSet(Places(d))
  <2>1. n <= n  BY <1>4
  <2>2. QED  BY <2>1, <1>5, <1>6 DEF K
<1>8. QED  BY <1>1, <1>7

(* The path of a key of a line: "+" is on the way to none of them.         *)
IsKeyPath(p) ==
  p \in Path /\ p # <<>> /\ Last(p)[2] # "" /\ \A i \in 1..Len(p) : p[i][1] # "+"

LEMMA KeyPathIs ==
  ASSUME NEW p, IsKeyPath(p)
  PROVE  /\ p \in Path /\ p # <<>> /\ Last(p) \in Named
         /\ \A h \in Heads(p) : h \in Path /\ h # <<>> /\ Last(h)[1] # "+" /\ Plus \notin Range(h)
         /\ Plus \notin Range(p)
         /\ Twin(p) \in Path /\ Twin(p) # p /\ Twin(p) # <<>> /\ Heads(Twin(p)) = Heads(p)
         /\ Last(Twin(p)) = <<"+", Last(p)[2]>> /\ Last(Twin(p)) # Plus /\ Last(Twin(p))[1] = "+"
         /\ Plus \notin Range(Twin(p))
<1>0. p \in Path /\ p # <<>> /\ p \in Seq(Tags)  BY DEF IsKeyPath, Path
<1>1. Last(p) \in Tags /\ Len(p) > 0 /\ Len(p) \in Nat /\ Last(p) = p[Len(p)]
  BY <1>0, PathEnds DEF Last
<1>2. Last(p) \in Named
  <2>0. Len(p) \in 1..Len(p)  BY <1>1
  <2>1. Last(p)[1] # "+" /\ Last(p)[2] # ""  BY <1>1, <2>0 DEF IsKeyPath
  <2>2. QED  BY <2>1, <1>1 DEF Tags, Named
<1>3. Plus[1] = "+"  BY DEF Plus
<1>4. \A i \in 1..Len(p) : p[i][1] # "+" /\ p[i] # Plus  BY <1>3 DEF IsKeyPath
<1>5. Plus \notin Range(p)  BY <1>0, <1>4 DEF Range
<1>6. ASSUME NEW h \in Heads(p)
      PROVE  h \in Path /\ h # <<>> /\ Last(h)[1] # "+" /\ Plus \notin Range(h)
  <2>1. h \in Seq(Tags) /\ h # <<>> /\ Relative(h, p) \in Seq(Tags) /\ p = h \o Relative(h, p)
    BY <1>0, HeadRest
  <2>2. Len(h) \in 1..Len(h) /\ Last(h) = h[Len(h)] /\ Len(h) \in Nat  BY <2>1 DEF Last
  <2>3. \A i \in 1..Len(h) : i \in 1..Len(p) /\ h[i] = p[i]
    <3> DEFINE r == Relative(h, p)
    <3> HIDE DEF r
    <3>1. h \in Seq(Tags) /\ r \in Seq(Tags) /\ p = h \o r  BY <2>1 DEF r
    <3>2. Len(h \o r) = Len(h) + Len(r) /\ \A i \in 1..Len(h) : (h \o r)[i] = h[i]  BY <3>1
    <3>3. Len(h) \in Nat /\ Len(r) \in Nat  BY <3>1
    <3>4. QED  BY <3>1, <3>2, <3>3
  <2>4. Last(h)[1] # "+"  BY <2>2, <2>3, <1>4
  <2>5. Plus \notin Range(h)  BY <2>1, <2>3, <1>4 DEF Range
  <2>6. QED  BY <2>1, <2>4, <2>5 DEF Path
<1>7. /\ Twin(p) \in Path /\ Twin(p) # <<>> /\ Heads(Twin(p)) = Heads(p)
      /\ Last(Twin(p)) = <<"+", Last(p)[2]>> /\ Front(Twin(p)) = Front(p)
  BY <1>0, TwinIs
<1>8. Last(Twin(p)) # Plus /\ Last(Twin(p))[1] = "+"  BY <1>7, <1>2, NamedNoPlus, AppendingNamed
<1>9. Twin(p) # p  BY <1>8, <1>2, NamedNoPlus
<1>10. Plus \notin Range(Twin(p))
  <2> DEFINE k == <<"+", Last(p)[2]>>
  <2>1. Twin(p) = [p EXCEPT ![Len(p)] = k]  BY DEF Twin, Appending, Last
  <2>2. k # Plus  BY <1>7, <1>8
  <2> HIDE DEF k
  <2>3. \A i \in DOMAIN p : Twin(p)[i] = p[i] \/ Twin(p)[i] = k  BY <2>1
  <2>4. DOMAIN Twin(p) = DOMAIN p /\ DOMAIN p = 1..Len(p)  BY <2>1, <1>0
  <2>5. QED  BY <2>2, <2>3, <2>4, <1>4 DEF Range
<1>11. QED  BY <1>0, <1>2, <1>5, <1>6, <1>7, <1>8, <1>9, <1>10

(* Keys that have the same twin and the same sigil are the same.           *)
LEMMA TwinsApart ==
  ASSUME NEW p \in Path, NEW q \in Path, p # <<>>, q # <<>>, Twin(p) = Twin(q), Last(p)[1] = Last(q)[1]
  PROVE  p = q
<1>1. p \in Seq(Tags) /\ q \in Seq(Tags)  BY DEF Path
<1>2. /\ Front(Twin(p)) = Front(p) /\ Last(Twin(p)) = <<"+", Last(p)[2]>>
      /\ Front(Twin(q)) = Front(q) /\ Last(Twin(q)) = <<"+", Last(q)[2]>>
  BY TwinIs
<1>3. Front(p) = Front(q)  BY <1>2
<1>4. Last(p)[2] = Last(q)[2]
  <2>1. <<"+", Last(p)[2]>> = <<"+", Last(q)[2]>>  BY <1>2
  <2>2. QED  BY <2>1
<1>5. Last(p) \in Tags /\ Last(q) \in Tags /\ p = Front(p) \o <<Last(p)>> /\ q = Front(q) \o <<Last(q)>>
  BY <1>1, PathEnds
<1>6. Last(p) = Last(q)
  <2> DEFINE a == Last(p)  b == Last(q)
  <2> HIDE DEF a, b
  <2>1. a \in Tags /\ b \in Tags /\ a[1] = b[1] /\ a[2] = b[2]  BY <1>4, <1>5 DEF a, b
  <2> DEFINE A == {"", "/", "+"}
  <2>2. a \in A \X Names /\ b \in A \X Names  BY <2>1 DEF Tags
  <2> HIDE DEF A
  <2>5. a = <<a[1], a[2]>> /\ b = <<b[1], b[2]>>  BY <2>2
  <2>4. a = b  BY <2>1, <2>5
  <2>3. QED  BY <2>4 DEF a, b
<1>7. QED  BY <1>3, <1>5, <1>6

(* What a table has of the key p: in the key itself, and in "+p".          *)
Clear(t, p) == \A h \in Heads(p) : ~IsLeaf(t, h)
Held(t, q, w) == IF w = <<>> THEN q \notin DOMAIN t ELSE q \in DOMAIN t /\ t[q].val = w
Waits(t, p, w) == Last(p)[1] = "" => Held(t, Twin(p), w)
Unset(t, p, w) == Clear(t, p) /\ p \notin DOMAIN t /\ Waits(t, p, w)
SetTo(t, p, v, w) == Clear(t, p) /\ IsLeaf(t, p) /\ t[p].val = v /\ Waits(t, p, w)

SameAt(t, u, q) == (q \in DOMAIN u <=> q \in DOMAIN t) /\ (q \in DOMAIN t => u[q] = t[q])
SameFor(t, u, p) ==
  /\ SameAt(t, u, p) /\ (Last(p)[1] = "" => SameAt(t, u, Twin(p)))
  /\ \A h \in Heads(p) : IsLeaf(u, h) => IsLeaf(t, h)

LEMMA SameKeeps ==
  ASSUME NEW t, NEW u, NEW p, SameFor(t, u, p), NEW v, NEW w
  PROVE  (Unset(t, p, w) => Unset(u, p, w)) /\ (SetTo(t, p, v, w) => SetTo(u, p, v, w))
<1>1. Clear(t, p) => Clear(u, p)  BY DEF Clear, SameFor
<1>2. Waits(t, p, w) => Waits(u, p, w)  BY DEF Waits, Held, SameFor, SameAt
<1>3. QED  BY <1>1, <1>2 DEF Unset, SetTo, SameFor, SameAt, IsLeaf

JoinOf(t, s) == t ++ s

LEMMA JoinIs ==
  ASSUME NEW t, NEW s
  PROVE  /\ DOMAIN JoinOf(t, s) = DOMAIN t \cup DOMAIN s
         /\ \A r \in DOMAIN t : JoinOf(t, s)[r] = t[r]
         /\ \A r \in DOMAIN s : r \notin DOMAIN t => JoinOf(t, s)[r] = s[r]
<1>1. JoinOf(t, s) = [p \in DOMAIN t \cup DOMAIN s |-> IF p \in DOMAIN t THEN t[p] ELSE s[p]]
  BY DEF JoinOf, ++
<1>2. QED  BY <1>1

OneMore(t, u, q, v) ==
  DOMAIN u = DOMAIN t \cup {q} /\ (\A r \in DOMAIN t : u[r] = t[r]) /\ (q \notin DOMAIN t => u[q] = v)

LEMMA JoinOne ==
  ASSUME NEW t, NEW q, NEW v
  PROVE  OneMore(t, JoinOf(t, Single(q, v)), q, v)
<1> DEFINE s == Single(q, v)
<1>1. DOMAIN s = {q} /\ s[q] = v  BY SingleIs
<1> HIDE DEF s
<1>3. /\ DOMAIN JoinOf(t, s) = DOMAIN t \cup DOMAIN s
      /\ \A r \in DOMAIN t : JoinOf(t, s)[r] = t[r]
      /\ \A r \in DOMAIN s : r \notin DOMAIN t => JoinOf(t, s)[r] = s[r]
  BY JoinIs
<1>4. OneMore(t, JoinOf(t, s), q, v)  BY <1>1, <1>3 DEF OneMore
<1>5. QED  BY <1>4 DEF s

(* A line PREFIX touches no other key.                                     *)
LEMMA SingleSame ==
  ASSUME NEW t, NEW p, IsKeyPath(p), NEW q, NEW v, q # p, q # Twin(p), v.typ = "map" \/ q \notin Heads(p)
  PROVE  SameFor(t, JoinOf(t, Single(q, v)), p)
<1> DEFINE u == JoinOf(t, Single(q, v))
<1>2. DOMAIN u = DOMAIN t \cup {q} /\ (\A r \in DOMAIN t : u[r] = t[r]) /\ (q \notin DOMAIN t => u[q] = v)
  BY JoinOne DEF OneMore
<1> HIDE DEF u
<1>3. SameAt(t, u, p) /\ SameAt(t, u, Twin(p))  BY <1>2 DEF SameAt
<1>4. ASSUME NEW h \in Heads(p), IsLeaf(u, h) PROVE IsLeaf(t, h)  BY <1>2, <1>4 DEF IsLeaf
<1>5. SameFor(t, u, p)  BY <1>3, <1>4 DEF SameFor
<1>6. QED  BY <1>5 DEF u

LEMMA SameChain ==
  ASSUME NEW t, NEW u, NEW w, NEW p, SameFor(t, u, p), SameFor(u, w, p)
  PROVE  SameFor(t, w, p)
BY DEF SameFor, SameAt

(* The tables that a line makes on the way to its key.                     *)
NewHeads(t, spot, k) == {h \in Heads(k) \ DOMAIN t : Len(h) > Len(spot)}

(* The table u is t with the key k that a line has added.                  *)
Added(t, u, k, new, x) ==
  \/ u = t /\ \E h \in Heads(k) : IsLeaf(t, h)
  \/ /\ \A r : r \in DOMAIN u
                 <=> (r \in DOMAIN t /\ \A h \in new : r # Twin(h)) \/ r \in new \/ r = k
     /\ \A r \in DOMAIN t : (\A h \in new : r # Twin(h)) => u[r] = t[r]
     /\ \A r \in new : u[r] = Map
     /\ k \notin DOMAIN t /\ k \notin new => u[k] = Str(<<x>>)

LEMMA AddIs ==
  ASSUME NEW t, NEW spot, NEW key, NEW x
  PROVE  Added(t, AddToMap(t, spot, key, x), spot \o key, NewHeads(t, spot, spot \o key), x)
<1> DEFINE k == spot \o key
           new == NewHeads(t, spot, k)
           u == AddToMap(t, spot, key, x)
           heads == {h \in Heads(k) : Len(h) > Len(spot)}
           missing == heads \ DOMAIN t
           maps == [h \in missing |-> Map]
           kept == [q \in DOMAIN t \ {Twin(h) : h \in missing} |-> t[q]]
<1>1. u = IF \E h \in heads : IsLeaf(t, h) THEN t ELSE JoinOf(JoinOf(kept, maps), Single(k, Str(<<x>>)))
  <2>1. AddToMap(t, spot, key, x)
          = IF \E h \in heads : IsLeaf(t, h) THEN t ELSE kept ++ maps ++ Single(k, Str(<<x>>))
    BY DEF AddToMap
  <2>2. QED  BY <2>1 DEF JoinOf
<1>2. missing = new  BY DEF NewHeads
<1> HIDE DEF k, new, u
<1>3. ASSUME \E h \in heads : IsLeaf(t, h) PROVE Added(t, u, k, new, x)
  BY <1>1, <1>3 DEF Added
<1>4. ASSUME ~ \E h \in heads : IsLeaf(t, h) PROVE Added(t, u, k, new, x)
  <2>1. u = JoinOf(JoinOf(kept, maps), Single(k, Str(<<x>>)))  BY <1>1, <1>4
  <2>2. /\ \A r : r \in DOMAIN kept <=> r \in DOMAIN t /\ \A h \in new : r # Twin(h)
        /\ \A r \in DOMAIN kept : kept[r] = t[r]
        /\ DOMAIN maps = new /\ \A r \in new : maps[r] = Map
    <3> HIDE DEF missing
    <3>1. QED  BY <1>2
  <2> DEFINE j == JoinOf(kept, maps)
  <2> HIDE DEF kept, maps
  <2>3. /\ DOMAIN j = DOMAIN kept \cup DOMAIN maps
        /\ \A r \in DOMAIN kept : j[r] = kept[r]
        /\ \A r \in DOMAIN maps : r \notin DOMAIN kept => j[r] = maps[r]
    BY JoinIs
  <2> DEFINE v == Str(<<x>>)
  <2>4. u = JoinOf(j, Single(k, v))  BY <2>1
  <2> HIDE DEF j, v
  <2>8. OneMore(j, JoinOf(j, Single(k, v)), k, v)  BY JoinOne
  <2>5. OneMore(j, u, k, v)  BY <2>4, <2>8
  <2>6. \A r \in new : r \notin DOMAIN t  BY DEF new, NewHeads
  <2>7. QED  BY <2>2, <2>3, <2>5, <2>6 DEF v, OneMore, Added
<1>5. QED  BY <1>3, <1>4 DEF k, new, u

(* The table u is t in which a line has appended to the key to.            *)
AppendedBy(t, u, to, new, x) ==
  \/ /\ to \in DOMAIN t /\ DOMAIN u = DOMAIN t
     /\ \A r \in DOMAIN t : r # to => u[r] = t[r]
     /\ u[to] = Concat(t[to], Str(<<x>>))
  \/ /\ to \notin DOMAIN t /\ DOMAIN u = (DOMAIN t \cup new) \cup {to}
     /\ \A r \in DOMAIN t : u[r] = t[r]
     /\ \A r \in new : u[r] = Map
     /\ to \notin new => u[to] = Str(<<x>>)
AppendedTo(t, k) == IF k \in DOMAIN t THEN k ELSE Twin(k)

LEMMA AppendIs ==
  ASSUME NEW t, NEW spot, NEW key, NEW x
  PROVE  AppendedBy(t, AppendToMap(t, spot, key, x), AppendedTo(t, spot \o key), NewHeads(t, spot, spot \o key), x)
<1> DEFINE k == spot \o key
           new == NewHeads(t, spot, k)
           u == AppendToMap(t, spot, key, x)
           to == AppendedTo(t, k)
           maps == [h \in {h \in Heads(k) \ DOMAIN t : Len(h) > Len(spot)} |-> Map]
           longer == [t EXCEPT ![to] = Concat(@, Str(<<x>>))]
<1>1. u = IF to \in DOMAIN t THEN longer ELSE JoinOf(JoinOf(t, maps), Single(to, Str(<<x>>)))
  <2>1. AppendToMap(t, spot, key, x)
          = IF to \in DOMAIN t THEN longer ELSE t ++ maps ++ Single(to, Str(<<x>>))
    BY DEF AppendToMap, AppendedTo
  <2>2. QED  BY <2>1 DEF JoinOf
<1>2. DOMAIN maps = new /\ \A r \in new : maps[r] = Map  BY DEF NewHeads
<1> HIDE DEF k, new, u, to
<1>3. ASSUME to \in DOMAIN t PROVE AppendedBy(t, u, to, new, x)  BY <1>1, <1>3 DEF AppendedBy
<1>4. ASSUME to \notin DOMAIN t PROVE AppendedBy(t, u, to, new, x)
  <2>1. u = JoinOf(JoinOf(t, maps), Single(to, Str(<<x>>)))  BY <1>1, <1>4
  <2> DEFINE j == JoinOf(t, maps)
  <2> HIDE DEF maps
  <2>3. /\ DOMAIN j = DOMAIN t \cup DOMAIN maps
        /\ \A r \in DOMAIN t : j[r] = t[r]
        /\ \A r \in DOMAIN maps : r \notin DOMAIN t => j[r] = maps[r]
    BY JoinIs
  <2> DEFINE v == Str(<<x>>)
  <2>4. u = JoinOf(j, Single(to, v))  BY <2>1
  <2> HIDE DEF j, v
  <2>8. OneMore(j, JoinOf(j, Single(to, v)), to, v)  BY JoinOne
  <2>5. OneMore(j, u, to, v)  BY <2>4, <2>8
  <2>6. \A r \in new : r \notin DOMAIN t  BY DEF new, NewHeads
  <2>7. QED  BY <1>2, <1>4, <2>3, <2>5, <2>6 DEF v, OneMore, AppendedBy
<1>5. QED  BY <1>3, <1>4 DEF k, new, u, to

(* The key k of another line: neither is on the way to the other.          *)
Apart(k, p) ==
  /\ k \in Path /\ k # <<>> /\ Last(k)[1] # "+"
  /\ p \notin Heads(k) /\ k \notin Heads(p)

(* Of the tables on the way to the key of a line no other key is meant:    *)
(* if "/K" is a key, it stands alone.                                      *)
PlainHeads(spot, k) == \A h \in Heads(k) : Len(h) > Len(spot) => Last(h)[1] = ""

LEMMA HeadTwins ==
  ASSUME NEW p, IsKeyPath(p), NEW k, Apart(k, p), NEW spot, PlainHeads(spot, k), NEW h \in Heads(k), Len(h) > Len(spot)
  PROVE  /\ Twin(h) # p /\ (Last(p)[1] = "" => Twin(h) # Twin(p))
         /\ h # p /\ h # Twin(p) /\ Last(h)[1] = ""
<1>1. h \in Path /\ h # <<>> /\ Last(h)[1] = ""  BY HeadShorter DEF Apart, PlainHeads
<1>2. Last(Twin(h)) = <<"+", Last(h)[2]>>  BY <1>1, TwinIs
<1>3. Last(Twin(h))[1] = "+"  BY <1>2
<1>4. p \in Path /\ p # <<>> /\ Last(p)[1] # "+" /\ Last(Twin(p))[1] = "+"
  <2>1. Last(p) \in Named  BY KeyPathIs
  <2>2. Last(p)[1] # "+"  BY <2>1, NamedNoPlus
  <2>3. QED  BY <2>2, KeyPathIs
<1>5. h # p  BY DEF Apart
<1>6. Last(p)[1] = "" /\ Twin(h) = Twin(p) => h = p  BY <1>1, <1>4, TwinsApart
<1>7. QED  BY <1>1, <1>3, <1>4, <1>5, <1>6

(* A line that defines another key touches this one not.                   *)
LEMMA AddSame ==
  ASSUME NEW t, NEW spot, NEW key, NEW x, NEW k, k = spot \o key, NEW p, IsKeyPath(p),
         Apart(k, p), k # p, PlainHeads(spot, k)
  PROVE  SameFor(t, AddToMap(t, spot, key, x), p)
<1> DEFINE new == NewHeads(t, spot, k)
           u == AddToMap(t, spot, key, x)
<1>0. u = AddToMap(t, spot, key, x) /\ new = NewHeads(t, spot, k)  OBVIOUS
<1> HIDE DEF new, u
<1>a. Added(t, u, k, new, x)  BY <1>0, AddIs
<1>1. \/ u = t
      \/ /\ \A r : r \in DOMAIN u
                     <=> (r \in DOMAIN t /\ \A h \in new : r # Twin(h)) \/ r \in new \/ r = k
         /\ \A r \in DOMAIN t : (\A h \in new : r # Twin(h)) => u[r] = t[r]
         /\ \A r \in new : u[r] = Map
  BY <1>a DEF Added
<1>2. \A h \in new : /\ Twin(h) # p /\ (Last(p)[1] = "" => Twin(h) # Twin(p))
                     /\ h # p /\ h # Twin(p) /\ h \notin DOMAIN t /\ Twin(h) \notin Heads(p)
  <2> SUFFICES ASSUME NEW h \in new
               PROVE  /\ Twin(h) # p /\ (Last(p)[1] = "" => Twin(h) # Twin(p))
                      /\ h # p /\ h # Twin(p) /\ h \notin DOMAIN t /\ Twin(h) \notin Heads(p)
    OBVIOUS
  <2>1. h \in Heads(k) /\ h \notin DOMAIN t /\ Len(h) > Len(spot)  BY <1>0 DEF NewHeads
  <2>2. h \in Path /\ h # <<>>  BY <2>1, HeadShorter DEF Apart
  <2>3. Last(Twin(h)) = <<"+", Last(h)[2]>>  BY <2>2, TwinIs
  <2>4. Last(Twin(h))[1] = "+"  BY <2>3
  <2>5. \A g \in Heads(p) : Last(g)[1] # "+"  BY KeyPathIs
  <2>6. QED  BY <2>1, <2>4, <2>5, HeadTwins
<1>3. k # Twin(p) /\ k \notin Heads(p)
  <2>1. Last(Twin(p))[1] = "+"  BY KeyPathIs
  <2>2. QED  BY <2>1 DEF Apart
<1>4. ASSUME u = t PROVE SameFor(t, u, p)  BY <1>4 DEF SameFor, SameAt
<1>5. ASSUME u # t PROVE SameFor(t, u, p)
  <2>1. SameAt(t, u, p)  BY <1>1, <1>2, <1>5 DEF SameAt
  <2>2. Last(p)[1] = "" => SameAt(t, u, Twin(p))  BY <1>1, <1>2, <1>3, <1>5 DEF SameAt
  <2>3. ASSUME NEW h \in Heads(p), IsLeaf(u, h) PROVE IsLeaf(t, h)
    <3>1. Map.typ = "map"  BY ValueTypes
    <3>2. h \notin new  BY <2>3, <3>1, <1>1, <1>5 DEF IsLeaf
    <3>3. h # k  BY <1>3
    <3>4. QED  BY <2>3, <3>2, <3>3, <1>1, <1>5 DEF IsLeaf
  <2>4. QED  BY <2>1, <2>2, <2>3 DEF SameFor
<1>6. QED  BY <1>0, <1>4, <1>5

LEMMA ApartSelf ==
  ASSUME NEW p, IsKeyPath(p)
  PROVE  /\ Apart(p, p) /\ Last(p)[1] # "+"
         /\ p # Twin(p) /\ Last(Twin(p))[1] = "+" /\ p \notin Heads(p) /\ Twin(p) \notin Heads(p)
<1>1. Last(p) \in Named /\ p \in Path /\ p # <<>>  BY KeyPathIs
<1>2. Last(p)[1] # "+"  BY <1>1, NamedNoPlus
<1>3. p \notin Heads(p)
  <2>1. p \in Seq(Tags)  BY <1>1 DEF Path
  <2>2. QED  BY <2>1, HeadsOfHeads
<1>4. Last(Twin(p))[1] = "+" /\ \A h \in Heads(p) : Last(h)[1] # "+"  BY KeyPathIs
<1>5. QED  BY <1>1, <1>2, <1>3, <1>4 DEF Apart

(* A line that defines this key sets it.                                   *)
LEMMA AddSets ==
  ASSUME NEW t, NEW spot, NEW key, NEW x, NEW p, p = spot \o key, IsKeyPath(p), PlainHeads(spot, p),
         NEW w, Unset(t, p, w)
  PROVE  SetTo(AddToMap(t, spot, key, x), p, <<x>>, w)
<1> DEFINE new == NewHeads(t, spot, p)
           u == AddToMap(t, spot, key, x)
<1>0. Added(t, u, p, new, x)  BY AddIs
<1>1. \A h \in new : /\ h \in Heads(p) /\ (Last(p)[1] = "" => Twin(h) # Twin(p))
                     /\ h # p /\ h # Twin(p) /\ h \notin DOMAIN t
  <2> SUFFICES ASSUME NEW h \in new
               PROVE  /\ h \in Heads(p) /\ (Last(p)[1] = "" => Twin(h) # Twin(p))
                      /\ h # p /\ h # Twin(p) /\ h \notin DOMAIN t
    OBVIOUS
  <2>1. h \in Heads(p) /\ h \notin DOMAIN t /\ Len(h) > Len(spot)  BY DEF NewHeads
  <2>2. QED  BY <2>1, ApartSelf, HeadTwins
<1> HIDE DEF new, u
<1>2. Clear(t, p) /\ p \notin DOMAIN t /\ Waits(t, p, w)  BY DEF Unset
<1>3. /\ \A r : r \in DOMAIN u
                  <=> (r \in DOMAIN t /\ \A h \in new : r # Twin(h)) \/ r \in new \/ r = p
      /\ \A r \in DOMAIN t : (\A h \in new : r # Twin(h)) => u[r] = t[r]
      /\ \A r \in new : u[r] = Map
      /\ u[p] = Str(<<x>>)
  BY <1>0, <1>1, <1>2 DEF Added, Clear
<1>4. Str(<<x>>).typ = "str" /\ Str(<<x>>).val = <<x>> /\ Map.typ = "map"  BY DEF Str, Map
<1>5. IsLeaf(u, p) /\ u[p].val = <<x>>  BY <1>3, <1>4 DEF IsLeaf
<1>6. Clear(u, p)
  <2> SUFFICES ASSUME NEW h \in Heads(p), IsLeaf(u, h) PROVE FALSE  BY DEF Clear
  <2>1. h # p /\ ~IsLeaf(t, h)  BY <1>2, ApartSelf DEF Clear
  <2>2. h \notin new  BY <1>3, <1>4 DEF IsLeaf
  <2>3. QED  BY <2>1, <2>2, <1>3 DEF IsLeaf
<1>7. Waits(u, p, w)
  <2>1. Last(p)[1] = "" => SameAt(t, u, Twin(p))  BY <1>1, <1>3, ApartSelf DEF SameAt
  <2>2. QED  BY <2>1, <1>2 DEF Waits, Held, SameAt
<1>8. SetTo(u, p, <<x>>, w)  BY <1>5, <1>6, <1>7 DEF SetTo
<1>9. QED  BY <1>8 DEF u

(* A line that appends to another key touches this one not.                *)
LEMMA AppendSame ==
  ASSUME NEW t, NEW spot, NEW key, NEW x, NEW k, k = spot \o key, NEW p, IsKeyPath(p),
         Apart(k, p), k # p, PlainHeads(spot, k), Last(k)[1] = ""
  PROVE  SameFor(t, AppendToMap(t, spot, key, x), p)
<1> DEFINE new == NewHeads(t, spot, k)
           to == AppendedTo(t, k)
           u == AppendToMap(t, spot, key, x)
<1>0. AppendedBy(t, u, to, new, x)  BY AppendIs
<1>1. \A h \in new : h # p /\ h # Twin(p) /\ h \notin DOMAIN t
  <2> SUFFICES ASSUME NEW h \in new PROVE h # p /\ h # Twin(p) /\ h \notin DOMAIN t
    OBVIOUS
  <2>1. h \in Heads(k) /\ h \notin DOMAIN t /\ Len(h) > Len(spot)  BY DEF NewHeads
  <2>2. QED  BY <2>1, HeadTwins
<1>2. to # p /\ (Last(p)[1] = "" => to # Twin(p)) /\ to \notin Heads(p)
  <2>1. to = k \/ to = Twin(k)  BY DEF AppendedTo
  <2>2. k \in Path /\ k # <<>> /\ k \notin Heads(p)  BY DEF Apart
  <2>3. p \in Path /\ p # <<>> /\ \A h \in Heads(p) : Last(h)[1] # "+"  BY KeyPathIs
  <2>4. Last(Twin(k)) = <<"+", Last(k)[2]>>  BY <2>2, TwinIs
  <2>8. Last(Twin(k))[1] = "+"  BY <2>4, AppendingNamed
  <2>5. Last(Twin(k))[1] = "+" /\ Last(Twin(p))[1] = "+" /\ Last(p)[1] # "+"  BY <2>8, ApartSelf
  <2>6. Last(p)[1] = "" => Twin(k) # Twin(p)  BY <2>2, <2>3, TwinsApart
  <2> HIDE DEF to
  <2>7. QED  BY <2>1, <2>2, <2>3, <2>5, <2>6
<1> HIDE DEF new, u, to
<1>3. SameAt(t, u, p)  BY <1>0, <1>1, <1>2 DEF SameAt, AppendedBy
<1>4. Last(p)[1] = "" => SameAt(t, u, Twin(p))  BY <1>0, <1>1, <1>2 DEF SameAt, AppendedBy
<1>5. ASSUME NEW h \in Heads(p), IsLeaf(u, h) PROVE IsLeaf(t, h)
  <2>1. Map.typ = "map" /\ h # to  BY <1>2, ValueTypes
  <2>2. QED  BY <2>1, <1>0, <1>5 DEF AppendedBy, IsLeaf
<1>6. SameFor(t, u, p)  BY <1>3, <1>4, <1>5 DEF SameFor
<1>7. QED  BY <1>6 DEF u

LEMMA ConcatIs ==
  ASSUME NEW v \in Value, v.typ # "map", NEW x
  PROVE  Concat(v, Str(<<x>>)).val = v.val \o <<x>> /\ Concat(v, Str(<<x>>)).typ = v.typ
<1>1. Str(<<x>>).val = <<x>>  BY DEF Str
<1>2. Concat(v, Str(<<x>>)) = [v EXCEPT !.val = @ \o <<x>>]  BY <1>1 DEF Concat
<1>3. DOMAIN v = {"typ", "val"}  BY DEF Value
<1>4. QED  BY <1>2, <1>3

LEMMA LongerText ==
  ASSUME NEW S, NEW w \in Seq(S), NEW x
  PROVE  <<>> \o <<x>> = <<x>> /\ w \o <<x>> # <<>>
<1> DEFINE T == S \cup {x}
<1>1. w \in Seq(T) /\ x \in T  BY SeqMonotonic
<1> HIDE DEF T
<1>2. <<x>> \in Seq(T) /\ <<x>> # <<>>  BY <1>1
<1>3. <<>> \o <<x>> = <<x>>  BY <1>2, ConcatEmptySeq
<1>4. w \o <<x>> # <<>>  BY <1>1, <1>2, JoinEmpty
<1>5. QED  BY <1>3, <1>4

(* A line that appends to this key appends to what there is of it.         *)
LEMMA AppendSets ==
  ASSUME NEW t, IsTable(t), NEW spot, NEW key, NEW x, NEW p, p = spot \o key, IsKeyPath(p),
         PlainHeads(spot, p), Last(p)[1] = "", NEW S, NEW v, NEW w \in Seq(S)
  PROVE  LET u == AppendToMap(t, spot, key, x)
         IN  /\ Unset(t, p, w) => Unset(u, p, w \o <<x>>)
             /\ SetTo(t, p, v, w) => SetTo(u, p, v \o <<x>>, w)
<1> DEFINE new == NewHeads(t, spot, p)
           to == AppendedTo(t, p)
           u == AppendToMap(t, spot, key, x)
<1>0. AppendedBy(t, u, to, new, x)  BY AppendIs
<1>1. \A h \in new : h \in Heads(p) /\ h # p /\ h # Twin(p) /\ h \notin DOMAIN t
  <2> SUFFICES ASSUME NEW h \in new PROVE h \in Heads(p) /\ h # p /\ h # Twin(p) /\ h \notin DOMAIN t
    OBVIOUS
  <2>1. h \in Heads(p) /\ h \notin DOMAIN t /\ Len(h) > Len(spot)  BY DEF NewHeads
  <2>2. QED  BY <2>1, ApartSelf, HeadTwins
<1>2. to = IF p \in DOMAIN t THEN p ELSE Twin(p)  BY DEF AppendedTo
<1> HIDE DEF new, u, to
<1>3. p # Twin(p) /\ p \notin Heads(p) /\ Twin(p) \notin Heads(p)  BY ApartSelf
<1>4. Str(<<x>>).typ = "str" /\ Str(<<x>>).val = <<x>> /\ Map.typ = "map"  BY DEF Str, Map
<1>5. Clear(t, p) => Clear(u, p)
  <2> SUFFICES ASSUME Clear(t, p), NEW h \in Heads(p), IsLeaf(u, h) PROVE FALSE  BY DEF Clear
  <2>1. h # to /\ ~IsLeaf(t, h)  BY <1>2, <1>3 DEF Clear
  <2>2. QED  BY <2>1, <1>0, <1>4 DEF AppendedBy, IsLeaf
<1>6. <<>> \o <<x>> = <<x>> /\ w \o <<x>> # <<>>  BY LongerText
<1>7. ASSUME Unset(t, p, w) PROVE Unset(u, p, w \o <<x>>)
  <2>1. p \notin DOMAIN t /\ Held(t, Twin(p), w)  BY <1>7 DEF Unset, Waits
  <2>2. to = Twin(p) /\ p \notin DOMAIN u  BY <2>1, <1>0, <1>1, <1>2, <1>3 DEF AppendedBy
  <2>3. Twin(p) \in DOMAIN u /\ u[Twin(p)].val = w \o <<x>>
    <3>1. CASE w = <<>>
      <4>1. Twin(p) \notin DOMAIN t  BY <2>1, <3>1 DEF Held
      <4>2. QED  BY <4>1, <3>1, <2>2, <1>0, <1>1, <1>4, <1>6 DEF AppendedBy
    <3>2. CASE w # <<>>
      <4>1. Twin(p) \in DOMAIN t /\ t[Twin(p)].val = w  BY <2>1, <3>2 DEF Held
      <4>2. t[Twin(p)] \in Value /\ t[Twin(p)].typ # "map"
        <5>1. Last(Twin(p))[1] = "+" /\ Last(Twin(p)) # Plus  BY KeyPathIs
        <5>2. Fits(t, Twin(p), t[Twin(p)])  BY <4>1, TableIs
        <5>3. QED  BY <5>1, <5>2 DEF Fits
      <4>3. u[Twin(p)] = Concat(t[Twin(p)], Str(<<x>>)) /\ Twin(p) \in DOMAIN u
        BY <4>1, <2>2, <1>0 DEF AppendedBy
      <4>4. QED  BY <4>1, <4>2, <4>3, ConcatIs
    <3>3. QED  BY <3>1, <3>2
  <2>4. Clear(u, p)  BY <1>5, <1>7 DEF Unset
  <2>5. QED  BY <2>2, <2>3, <2>4, <1>6 DEF Unset, Waits, Held
<1>8. ASSUME SetTo(t, p, v, w) PROVE SetTo(u, p, v \o <<x>>, w)
  <2>1. p \in DOMAIN t /\ t[p].typ # "map" /\ t[p].val = v /\ Waits(t, p, w)
    BY <1>8 DEF SetTo, IsLeaf
  <2>2. /\ DOMAIN u = DOMAIN t /\ u[p] = Concat(t[p], Str(<<x>>))
        /\ Twin(p) \in DOMAIN t => u[Twin(p)] = t[Twin(p)]
    BY <2>1, <1>0, <1>2, <1>3 DEF AppendedBy
  <2>3. t[p] \in Value
    <3>1. Fits(t, p, t[p])  BY <2>1, TableIs
    <3>2. QED  BY <3>1 DEF Fits
  <2>4. u[p].val = v \o <<x>> /\ u[p].typ # "map"
    <3>1. Concat(t[p], Str(<<x>>)).val = t[p].val \o <<x>> /\ Concat(t[p], Str(<<x>>)).typ = t[p].typ
      BY <2>1, <2>3, ConcatIs
    <3>2. QED  BY <2>1, <2>2, <3>1
  <2>5. Waits(u, p, w)  BY <2>1, <2>2 DEF Waits, Held
  <2>6. Clear(u, p)  BY <1>5, <1>8 DEF SetTo
  <2>7. QED  BY <2>1, <2>2, <2>4, <2>5, <2>6 DEF SetTo, IsLeaf
<1>9. QED  BY <1>7, <1>8 DEF u

(* What is merged below "+" is in no key that has no "+" on its way.       *)
LEMMA MergeElsewhere ==
  ASSUME NEW t, NEW dev, NEW s, NEW early, NEW r, \A q \in DOMAIN s : r # dev \o q /\ r # dev \o Plain(q)
  PROVE  SameAt(t, MergeMaps(t, dev, s, early), r)
<1> DEFINE abs(q) == dev \o q
           fresh(q) == \E h \in Heads(q) : abs(h) \notin DOMAIN t
           blocked(q) == \E h \in Heads(q) : IsLeaf(t, abs(h))
           appends == {q \in DOMAIN s : IsAppend(s, q) /\ ~fresh(q) /\ ~blocked(q)}
           plain(q) == abs(Plain(q)) \in DOMAIN t \/ (Plain(q) \in DOMAIN s /\ q \notin early)
           to(q) == abs(IF plain(q) THEN Plain(q) ELSE q)
           taken == {q \in DOMAIN s \ appends : ~blocked(q)}
           new == [p \in {abs(q) : q \in taken} |-> s[Relative(dev, p)]]
           merged == t ++ new
           result == [p \in DOMAIN merged \cup {to(q) : q \in appends} |->
                        IF \E q \in appends : to(q) = p
                          THEN LET v == s[CHOOSE q \in appends : to(q) = p]
                               IN  IF p \in DOMAIN merged THEN Concat(merged[p], v) ELSE v
                          ELSE merged[p]]
<1>1. MergeMaps(t, dev, s, early) = result  BY DEF MergeMaps
<1>2. DOMAIN result = DOMAIN merged \cup {to(q) : q \in appends}  OBVIOUS
<1>3. DOMAIN new = {abs(q) : q \in taken}  OBVIOUS
<1>4. appends \subseteq DOMAIN s /\ taken \subseteq DOMAIN s  OBVIOUS
<1>5. \A q : to(q) = abs(q) \/ to(q) = abs(Plain(q))
  <2> HIDE DEF plain, abs
  <2>1. QED  OBVIOUS
<1>6. \A p \in DOMAIN result : ~(\E q \in appends : to(q) = p) => result[p] = merged[p]
  <2> HIDE DEF merged, appends, to
  <2>1. QED  OBVIOUS
<1>7. merged = JoinOf(t, new)  BY DEF JoinOf
<1> HIDE DEF merged, new
<1>8. /\ DOMAIN merged = DOMAIN t \cup DOMAIN new
      /\ \A p \in DOMAIN t : merged[p] = t[p]
  <2>1. /\ DOMAIN JoinOf(t, new) = DOMAIN t \cup DOMAIN new
        /\ \A p \in DOMAIN t : JoinOf(t, new)[p] = t[p]
    BY JoinIs
  <2>2. QED  BY <1>7, <2>1
<1> HIDE DEF result, taken, appends, to
<1>9. ~(\E q \in appends : to(q) = r) /\ r \notin DOMAIN new  BY <1>3, <1>4, <1>5
<1>10. SameAt(t, result, r)  BY <1>2, <1>6, <1>8, <1>9 DEF SameAt
<1>11. QED  BY <1>1, <1>10

LEMMA IncludeSame ==
  ASSUME NEW t, NEW dev \in Path, NEW s, IsTable(s), NEW early, NEW p, IsKeyPath(p)
  PROVE  SameFor(t, MergeMaps(JoinOf(t, Single(dev \o <<Plus>>, Map)), dev \o <<Plus>>, s, early), p)
<1> DEFINE spot == dev \o <<Plus>>
           j == JoinOf(t, Single(spot, Map))
           w == MergeMaps(j, spot, s, early)
<1>1. spot \in Seq(Tags) /\ Plus \in Range(spot)
  <2>1. spot \in Path /\ spot[Len(dev) + 1] = Plus /\ Len(spot) = Len(dev) + 1 /\ Len(dev) \in Nat
    BY PlusBelow
  <2> HIDE DEF spot
  <2>2. Len(dev) + 1 \in DOMAIN spot  BY <2>1 DEF Path
  <2>3. QED  BY <2>1, <2>2 DEF Path, Range
<1> HIDE DEF spot
<1>2. ASSUME NEW q \in Path PROVE Plus \in Range(spot \o q)
  <2>1. PICK i \in DOMAIN spot : spot[i] = Plus  BY <1>1 DEF Range
  <2>2. q \in Seq(Tags) /\ DOMAIN spot = 1..Len(spot)  BY <1>1 DEF Path
  <2>3. i \in DOMAIN (spot \o q) /\ (spot \o q)[i] = spot[i]  BY <1>1, <2>1, <2>2
  <2>4. QED  BY <2>1, <2>3 DEF Range
<1>3. Plus \notin Range(p) /\ Plus \notin Range(Twin(p)) /\ \A h \in Heads(p) : Plus \notin Range(h)
  BY KeyPathIs
<1>4. SameFor(t, j, p)
  <2>1. spot # p /\ spot # Twin(p)  BY <1>1, <1>3
  <2>2. Map.typ = "map"  BY DEF Map
  <2>3. QED  BY <2>1, <2>2, SingleSame
<1>5. \A q \in DOMAIN s : q \in Path /\ Plain(q) \in Path
  <2> SUFFICES ASSUME NEW q \in DOMAIN s PROVE q \in Path /\ Plain(q) \in Path  OBVIOUS
  <2>1. Fits(s, q, s[q])  BY TableIs
  <2>2. q \in Path /\ q # <<>>  BY <2>1 DEF Fits
  <2>3. QED  BY <2>2, PlainIs
<1> HIDE DEF j
<1>6. \A r : Plus \notin Range(r) => SameAt(j, w, r)
  <2> SUFFICES ASSUME NEW r, Plus \notin Range(r) PROVE SameAt(j, w, r)  OBVIOUS
  <2>1. \A q \in DOMAIN s : r # spot \o q /\ r # spot \o Plain(q)  BY <1>2, <1>5
  <2>2. QED  BY <2>1, MergeElsewhere
<1> HIDE DEF w
<1>7. SameFor(j, w, p)
  <2>1. SameAt(j, w, p) /\ SameAt(j, w, Twin(p)) /\ \A h \in Heads(p) : SameAt(j, w, h)  BY <1>3, <1>6
  <2>2. QED  BY <2>1 DEF SameFor, SameAt, IsLeaf
<1>8. SameFor(t, w, p)  BY <1>4, <1>7, SameChain
<1>9. QED  BY <1>8 DEF spot, j, w

(* The key "K" is that of which "+K" is the twin.                          *)
LEMMA TwinPlain ==
  ASSUME NEW p \in Path, p # <<>>
  PROVE  /\ Last(p)[1] = "" => Plain(Twin(p)) = p
         /\ \A q \in Path : q # <<>> /\ Last(q)[1] = "+" /\ Plain(q) = p => q = Twin(p) /\ Last(p)[1] = ""
<1>1. p \in Seq(Tags) /\ Last(p) \in Tags /\ p = Front(p) \o <<Last(p)>>
  <2>1. p \in Seq(Tags)  BY DEF Path
  <2>2. QED  BY <2>1, PathEnds
<1>2. /\ Twin(p) \in Path /\ Twin(p) # <<>> /\ Front(Twin(p)) = Front(p)
      /\ Last(Twin(p)) = <<"+", Last(p)[2]>>
  BY TwinIs
<1>3. \A k \in Tags : k = <<k[1], k[2]>>
  <2> DEFINE A == {"", "/", "+"}
  <2> SUFFICES ASSUME NEW k \in Tags PROVE k = <<k[1], k[2]>>  OBVIOUS
  <2>1. k \in A \X Names  BY DEF Tags
  <2> HIDE DEF A
  <2>2. QED  BY <2>1
<1>4. ASSUME Last(p)[1] = "" PROVE Plain(Twin(p)) = p
  <2>1. /\ Plain(Twin(p)) \in Path /\ Plain(Twin(p)) # <<>> /\ Front(Plain(Twin(p))) = Front(Twin(p))
        /\ Last(Plain(Twin(p))) = <<"", Last(Twin(p))[2]>>
    BY <1>2, PlainIs
  <2>2. Last(Twin(p))[2] = Last(p)[2]  BY <1>2
  <2>3. Last(p) = <<"", Last(p)[2]>>  BY <1>1, <1>3, <1>4
  <2>4. Plain(Twin(p)) = Front(Plain(Twin(p))) \o <<Last(Plain(Twin(p)))>>
    <3>1. Plain(Twin(p)) \in Seq(Tags)  BY <2>1 DEF Path
    <3>2. QED  BY <2>1, <3>1, PathEnds
  <2>5. Last(Plain(Twin(p))) = Last(p) /\ Front(Plain(Twin(p))) = Front(p)
    BY <1>2, <2>1, <2>2, <2>3
  <2>6. QED  BY <1>1, <2>4, <2>5
<1>5. ASSUME NEW q \in Path, q # <<>>, Last(q)[1] = "+", Plain(q) = p
      PROVE  q = Twin(p) /\ Last(p)[1] = ""
  <2>1. Front(p) = Front(q) /\ Last(p) = <<"", Last(q)[2]>>  BY <1>5, PlainIs
  <2>2. q \in Seq(Tags)  BY DEF Path
  <2>3. Last(q) \in Tags /\ q = Front(q) \o <<Last(q)>>  BY <1>5, <2>2, PathEnds
  <2>4. Last(q) = <<"+", Last(q)[2]>>  BY <2>3, <1>3, <1>5
  <2>5. Last(p)[1] = "" /\ Last(p)[2] = Last(q)[2]
    <3> DEFINE n == Last(q)[2]  k == Last(p)
    <3> HIDE DEF n, k
    <3>1. k = <<"", n>>  BY <2>1 DEF n, k
    <3>2. k[1] = "" /\ k[2] = n  BY <3>1
    <3>3. QED  BY <3>2 DEF n, k
  <2>6. Twin(p) = Front(Twin(p)) \o <<Last(Twin(p))>>
    <3>1. Twin(p) \in Seq(Tags)  BY <1>2 DEF Path
    <3>2. QED  BY <1>2, <3>1, PathEnds
  <2>7. Last(Twin(p)) = Last(q) /\ Front(Twin(p)) = Front(q)  BY <1>2, <2>1, <2>4, <2>5
  <2>8. QED  BY <2>3, <2>5, <2>6, <2>7
<1>6. QED  BY <1>4, <1>5

(* What a table that is merged at the top has of the key r.                *)
JoinedAs(t, s, early, r) ==
  /\ Last(r)[1] = "" /\ IsAppend(s, Twin(r)) /\ \A h \in Heads(r) : h \in DOMAIN t
  /\ r \in DOMAIN t \/ (r \in DOMAIN s /\ Twin(r) \notin early)
Merged(t, s, early, w, r) ==
  /\ r \in DOMAIN w <=> r \in DOMAIN t \/ r \in DOMAIN s
  /\ r \in DOMAIN w =>
       LET v == IF r \in DOMAIN t THEN t[r] ELSE s[r]
       IN  w[r] = IF JoinedAs(t, s, early, r) THEN Concat(v, s[Twin(r)]) ELSE v

LEMMA MergeKey ==
  ASSUME NEW t, NEW s, NEW early, IsTable(s), NEW r \in Path, r # <<>>,
         Last(r)[1] # "+", Clear(t, r)
  PROVE  Merged(t, s, early, MergeMaps(t, <<>>, s, early), r)
<1> DEFINE abs(q) == <<>> \o q
           fresh(q) == \E h \in Heads(q) : abs(h) \notin DOMAIN t
           blocked(q) == \E h \in Heads(q) : IsLeaf(t, abs(h))
           appends == {q \in DOMAIN s : IsAppend(s, q) /\ ~fresh(q) /\ ~blocked(q)}
           plain(q) == abs(Plain(q)) \in DOMAIN t \/ (Plain(q) \in DOMAIN s /\ q \notin early)
           to(q) == abs(IF plain(q) THEN Plain(q) ELSE q)
           taken == {q \in DOMAIN s \ appends : ~blocked(q)}
           new == [p \in {abs(q) : q \in taken} |-> s[Relative(<<>>, p)]]
           merged == t ++ new
           result == [p \in DOMAIN merged \cup {to(q) : q \in appends} |->
                        IF \E q \in appends : to(q) = p
                          THEN LET v == s[CHOOSE q \in appends : to(q) = p]
                               IN  IF p \in DOMAIN merged THEN Concat(merged[p], v) ELSE v
                          ELSE merged[p]]
           val == IF r \in DOMAIN t THEN t[r] ELSE s[r]
<1>1. MergeMaps(t, <<>>, s, early) = result  BY DEF MergeMaps
<1>2. \A q \in Path : abs(q) = q /\ Relative(<<>>, q) = q
  <2> SUFFICES ASSUME NEW q \in Path PROVE abs(q) = q /\ Relative(<<>>, q) = q  OBVIOUS
  <2>1. q \in Seq(Tags) /\ <<>> \in Seq(Tags)  BY DEF Path
  <2>2. <<>> \o q = q  BY <2>1, EmptyJoin
  <2>3. Relative(<<>>, <<>> \o q) = q  BY <2>1, RelativeOf
  <2>4. QED  BY <2>2, <2>3
<1>3. \A q \in DOMAIN s : q \in Path /\ q # <<>>
  <2> SUFFICES ASSUME NEW q \in DOMAIN s PROVE q \in Path /\ q # <<>>  OBVIOUS
  <2>1. Fits(s, q, s[q])  BY TableIs
  <2>2. QED  BY <2>1 DEF Fits
<1>4. \A q \in Path : \A h \in Heads(q) : abs(h) = h  BY <1>2, HeadShorter
<1>5. /\ result = [p \in DOMAIN result |-> result[p]]
      /\ DOMAIN result = DOMAIN merged \cup {to(q) : q \in appends}
      /\ \A p \in DOMAIN result :
           /\ ~(\E q \in appends : to(q) = p) => result[p] = merged[p]
           /\ (\E q \in appends : to(q) = p) /\ p \in DOMAIN merged =>
                result[p] = Concat(merged[p], s[CHOOSE q \in appends : to(q) = p])
  <2> HIDE DEF merged, appends, to
  <2>1. QED  OBVIOUS
<1>6. DOMAIN new = taken /\ \A q \in taken : new[q] = s[q]
  <2>1. \A q \in taken : q \in DOMAIN s  OBVIOUS
  <2> HIDE DEF taken, abs
  <2>2. {abs(q) : q \in taken} = taken  BY <1>2, <1>3, <2>1
  <2>3. QED  BY <1>2, <1>3, <2>1, <2>2
<1>7. merged = JoinOf(t, new)  BY DEF JoinOf
<1> HIDE DEF result, merged, new
<1>8. /\ DOMAIN merged = DOMAIN t \cup taken
      /\ \A p \in DOMAIN t : merged[p] = t[p]
      /\ \A p \in taken : p \notin DOMAIN t => merged[p] = s[p]
  <2>1. /\ DOMAIN JoinOf(t, new) = DOMAIN t \cup DOMAIN new
        /\ \A p \in DOMAIN t : JoinOf(t, new)[p] = t[p]
        /\ \A p \in DOMAIN new : p \notin DOMAIN t => JoinOf(t, new)[p] = new[p]
    BY JoinIs
  <2>2. QED  BY <1>6, <1>7, <2>1
<1>9. \A q \in Path : Heads(q) = Heads(r) => ~blocked(q)  BY <1>4 DEF Clear
<1>10. r \in DOMAIN s => r \in taken
  <2>1. ~IsAppend(s, r)  BY DEF IsAppend
  <2>2. ~blocked(r)  BY <1>9
  <2> HIDE DEF blocked
  <2>3. QED  BY <2>1, <2>2
<1>11. /\ taken \subseteq DOMAIN s
       /\ \A q \in appends : q \in DOMAIN s /\ q \in Path /\ q # <<>> /\ Last(q)[1] = "+" /\ IsAppend(s, q)
  <2>1. \A q \in appends : q \in DOMAIN s /\ Last(q)[1] = "+" /\ IsAppend(s, q)  BY DEF IsAppend
  <2> HIDE DEF appends
  <2>2. \A q \in appends : q \in DOMAIN s /\ q \in Path /\ q # <<>> /\ Last(q)[1] = "+" /\ IsAppend(s, q)
    BY <1>3, <2>1
  <2> HIDE DEF blocked
  <2>3. QED  BY <2>2
<1>12. /\ r \in DOMAIN merged <=> r \in DOMAIN t \/ r \in DOMAIN s
       /\ r \in DOMAIN merged => merged[r] = val
  <2> HIDE DEF taken
  <2>1. QED  BY <1>8, <1>10, <1>11
<1>13. ASSUME NEW q \in appends, to(q) = r
       PROVE  q = Twin(r) /\ JoinedAs(t, s, early, r) /\ r \in DOMAIN merged
  <2>1. q \in DOMAIN s /\ q \in Path /\ q # <<>> /\ Last(q)[1] = "+" /\ IsAppend(s, q)  BY <1>11
  <2>2. ~fresh(q)  BY DEF appends
  <2>3. Plain(q) \in Path /\ Heads(Plain(q)) = Heads(q)  BY <2>1, PlainIs
  <2>4. plain(q) /\ Plain(q) = r
    <3>1. abs(q) = q /\ abs(Plain(q)) = Plain(q) /\ q # r  BY <1>2, <2>1, <2>3
    <3>2. abs(IF plain(q) THEN Plain(q) ELSE q) = r  BY <1>13
    <3> HIDE DEF abs, plain
    <3>3. QED  BY <3>1, <3>2
  <2>5. q = Twin(r) /\ Last(r)[1] = ""  BY <2>1, <2>4, TwinPlain
  <2>6. \A h \in Heads(r) : h \in DOMAIN t  BY <2>1, <2>2, <2>3, <2>4, <1>4
  <2>7. r \in DOMAIN t \/ (r \in DOMAIN s /\ q \notin early)  BY <2>4, <1>2
  <2>8. QED  BY <2>1, <2>5, <2>6, <2>7, <1>12 DEF JoinedAs
<1>14. ASSUME JoinedAs(t, s, early, r) PROVE Twin(r) \in appends /\ to(Twin(r)) = r
  <2>1. Twin(r) \in Path /\ Heads(Twin(r)) = Heads(r) /\ Plain(Twin(r)) = r
    BY <1>14, TwinIs, TwinPlain DEF JoinedAs
  <2>2. ~blocked(Twin(r))  BY <2>1, <1>9
  <2>3. ~fresh(Twin(r))  BY <2>1, <1>4, <1>14 DEF JoinedAs
  <2>4. Twin(r) \in DOMAIN s /\ IsAppend(s, Twin(r))  BY <1>14 DEF JoinedAs, IsAppend, IsLeaf
  <2>5. plain(Twin(r))  BY <2>1, <1>2, <1>14 DEF JoinedAs
  <2>6. to(Twin(r)) = r
    <3>1. abs(Plain(Twin(r))) = r  BY <2>1, <1>2
    <3> HIDE DEF plain, abs
    <3>2. QED  BY <3>1, <2>5
  <2> HIDE DEF to, blocked, fresh
  <2>7. QED  BY <2>2, <2>3, <2>4, <2>6
<1> HIDE DEF appends, to, taken
<1>15. r \in DOMAIN result <=> r \in DOMAIN t \/ r \in DOMAIN s  BY <1>5, <1>12, <1>13
<1>16. ASSUME r \in DOMAIN result
       PROVE  result[r] = IF JoinedAs(t, s, early, r) THEN Concat(val, s[Twin(r)]) ELSE val
  <2>1. r \in DOMAIN merged /\ merged[r] = val  BY <1>12, <1>15, <1>16
  <2>2. CASE JoinedAs(t, s, early, r)
    <3>1. \E q \in appends : to(q) = r  BY <2>2, <1>14
    <3> DEFINE c == CHOOSE q \in appends : to(q) = r
    <3>2. c \in appends /\ to(c) = r  BY <3>1
    <3>3. result[r] = Concat(merged[r], s[c])  BY <3>1, <2>1, <1>5, <1>16
    <3> HIDE DEF c, val
    <3>4. c = Twin(r)  BY <3>2, <1>13
    <3>5. QED  BY <3>3, <3>4, <2>1, <2>2
  <2>3. CASE ~JoinedAs(t, s, early, r)
    <3>1. ~(\E q \in appends : to(q) = r)  BY <2>3, <1>13
    <3> HIDE DEF val
    <3>2. QED  BY <3>1, <2>1, <2>3, <1>5, <1>16
  <2>4. QED  BY <2>2, <2>3
<1>17. Merged(t, s, early, result, r)  BY <1>15, <1>16 DEF Merged
<1>18. QED  BY <1>1, <1>17

(* No text gets on the way to a key by merging two tables that have none.  *)
LEMMA MergeClear ==
  ASSUME NEW t, NEW s, NEW early, IsTable(s), NEW p, IsKeyPath(p), Clear(t, p), Clear(s, p)
  PROVE  Clear(MergeMaps(t, <<>>, s, early), p)
<1> DEFINE w == MergeMaps(t, <<>>, s, early)
<1> SUFFICES ASSUME NEW h \in Heads(p), IsLeaf(w, h) PROVE FALSE  BY DEF Clear
<1>1. h \in Path /\ h # <<>> /\ Last(h)[1] # "+"  BY KeyPathIs
<1>2. Clear(t, h)
  <2>1. p \in Seq(Tags)  BY KeyPathIs DEF Path
  <2>2. \A g \in Heads(h) : g \in Heads(p)  BY <2>1, HeadsOfHeads
  <2>3. QED  BY <2>2 DEF Clear
<1>3. Merged(t, s, early, w, h)  BY <1>1, <1>2, MergeKey
<1> HIDE DEF w
<1> DEFINE v == IF h \in DOMAIN t THEN t[h] ELSE s[h]
<1>4. h \in DOMAIN w /\ w[h].typ # "map"  BY DEF IsLeaf
<1>5. h \in DOMAIN t \/ h \in DOMAIN s  BY <1>3, <1>4 DEF Merged
<1>6. v.typ = "map"  BY <1>5 DEF Clear, IsLeaf
<1>7. w[h] = v \/ w[h] = Concat(v, s[Twin(h)])  BY <1>3, <1>4 DEF Merged
<1> HIDE DEF v
<1>8. Concat(v, s[Twin(h)]) = v  BY <1>6 DEF Concat
<1>9. QED  BY <1>4, <1>6, <1>7, <1>8

LEMMA ConcatVal ==
  ASSUME NEW v \in Value, v.typ # "map", NEW x
  PROVE  Concat(v, x).val = v.val \o x.val /\ Concat(v, x).typ = v.typ
<1>1. Concat(v, x) = [v EXCEPT !.val = @ \o x.val]  BY DEF Concat
<1>2. DOMAIN v = {"typ", "val"}  BY DEF Value
<1>3. QED  BY <1>1, <1>2

LEMMA LeafIs ==
  ASSUME NEW t, IsTable(t), NEW p, IsLeaf(t, p)
  PROVE  p \in DOMAIN t /\ t[p] \in Value /\ t[p].typ # "map"
<1>1. p \in DOMAIN t /\ t[p].typ # "map"  BY DEF IsLeaf
<1>2. Fits(t, p, t[p])  BY <1>1, TableIs
<1>3. QED  BY <1>1, <1>2 DEF Fits

LEMMA TwinAppends ==
  ASSUME NEW s, IsTable(s), NEW p, IsKeyPath(p), Twin(p) \in DOMAIN s
  PROVE  IsAppend(s, Twin(p))
<1>1. Last(Twin(p)) # Plus /\ Last(Twin(p))[1] = "+"  BY KeyPathIs
<1>2. Fits(s, Twin(p), s[Twin(p)])  BY TableIs
<1>3. QED  BY <1>1, <1>2 DEF Fits, IsAppend, IsLeaf

(* The files that are read before the key is defined, that in which it is, *)
(* and those that are read later.                                          *)
LEMMA MergeBefore ==
  ASSUME NEW t, NEW s, NEW early, IsTable(s), NEW p, IsKeyPath(p), Clear(t, p), p \notin DOMAIN t,
         NEW w, Unset(s, p, w)
  PROVE  LET m == MergeMaps(t, <<>>, s, early)
         IN  Clear(m, p) /\ p \notin DOMAIN m
<1> DEFINE m == MergeMaps(t, <<>>, s, early)
<1>1. Clear(s, p) /\ p \notin DOMAIN s  BY DEF Unset
<1>2. p \in Path /\ p # <<>> /\ Last(p)[1] # "+"  BY KeyPathIs, ApartSelf
<1>3. Merged(t, s, early, m, p)  BY <1>2, MergeKey
<1>4. Clear(m, p)  BY <1>1, MergeClear
<1> HIDE DEF m
<1>5. p \notin DOMAIN m  BY <1>1, <1>3 DEF Merged
<1>6. QED  BY <1>4, <1>5 DEF m

HasValue(m, p, v) == Clear(m, p) /\ IsLeaf(m, p) /\ m[p].val = v

LEMMA MergeDefines ==
  ASSUME NEW t, NEW s, NEW early, IsTable(s), NEW p, IsKeyPath(p), Clear(t, p), p \notin DOMAIN t,
         NEW v, NEW w, SetTo(s, p, v, w)
  PROVE  \/ HasValue(MergeMaps(t, <<>>, s, early), p, v)
         \/ HasValue(MergeMaps(t, <<>>, s, early), p, v \o w)
<1> DEFINE m == MergeMaps(t, <<>>, s, early)
<1>1. Clear(s, p) /\ IsLeaf(s, p) /\ s[p].val = v /\ Waits(s, p, w)  BY DEF SetTo
<1>2. p \in Path /\ p # <<>> /\ Last(p)[1] # "+"  BY KeyPathIs, ApartSelf
<1>3. Merged(t, s, early, m, p)  BY <1>2, MergeKey
<1>4. Clear(m, p)  BY <1>1, MergeClear
<1> HIDE DEF m
<1>5. p \in DOMAIN s /\ s[p] \in Value /\ s[p].typ # "map"  BY <1>1, LeafIs
<1>6. p \in DOMAIN m /\ m[p] = IF JoinedAs(t, s, early, p) THEN Concat(s[p], s[Twin(p)]) ELSE s[p]
  BY <1>3, <1>5 DEF Merged
<1>7. CASE JoinedAs(t, s, early, p)
  <2>1. Last(p)[1] = "" /\ Twin(p) \in DOMAIN s  BY <1>7 DEF JoinedAs, IsAppend, IsLeaf
  <2>2. s[Twin(p)].val = w  BY <2>1, <1>1 DEF Waits, Held
  <2>3. /\ Concat(s[p], s[Twin(p)]).val = s[p].val \o s[Twin(p)].val
        /\ Concat(s[p], s[Twin(p)]).typ = s[p].typ
    BY <1>5, ConcatVal
  <2>4. m[p].val = v \o w /\ m[p].typ # "map"  BY <2>2, <2>3, <1>1, <1>5, <1>6, <1>7
  <2>5. QED  BY <2>1, <2>4, <1>4, <1>6 DEF IsLeaf, HasValue, m
<1>8. CASE ~JoinedAs(t, s, early, p)  BY <1>1, <1>4, <1>5, <1>6, <1>8 DEF IsLeaf, HasValue, m
<1>9. QED  BY <1>7, <1>8

LEMMA MergeAfter ==
  ASSUME NEW t, NEW s, NEW early, IsTable(t), IsTable(s), NEW p, IsKeyPath(p), Clear(t, p), IsLeaf(t, p),
         NEW w, Unset(s, p, w), Last(p)[1] # "" => w = <<>>, NEW S, t[p].val \in Seq(S)
  PROVE  HasValue(MergeMaps(t, <<>>, s, early), p, t[p].val \o w)
<1> DEFINE m == MergeMaps(t, <<>>, s, early)
<1>1. Clear(s, p) /\ p \notin DOMAIN s /\ Waits(s, p, w)  BY DEF Unset
<1>2. p \in Path /\ p # <<>> /\ Last(p)[1] # "+"  BY KeyPathIs, ApartSelf
<1>3. Merged(t, s, early, m, p)  BY <1>2, MergeKey
<1>4. Clear(m, p)  BY <1>1, MergeClear
<1> HIDE DEF m
<1>5. p \in DOMAIN t /\ t[p] \in Value /\ t[p].typ # "map"  BY LeafIs
<1>6. p \in DOMAIN m /\ m[p] = IF JoinedAs(t, s, early, p) THEN Concat(t[p], s[Twin(p)]) ELSE t[p]
  BY <1>3, <1>5 DEF Merged
<1>7. JoinedAs(t, s, early, p) <=> Last(p)[1] = "" /\ Twin(p) \in DOMAIN s
  <2>1. \A h \in Heads(p) : h \in DOMAIN t  BY <1>5, TableIs DEF IsMap
  <2>2. Twin(p) \in DOMAIN s <=> IsAppend(s, Twin(p))  BY TwinAppends DEF IsAppend, IsLeaf
  <2>3. QED  BY <2>1, <2>2, <1>5 DEF JoinedAs
<1>8. CASE JoinedAs(t, s, early, p)
  <2>1. s[Twin(p)].val = w  BY <1>1, <1>7, <1>8 DEF Waits, Held
  <2>2. /\ Concat(t[p], s[Twin(p)]).val = t[p].val \o s[Twin(p)].val
        /\ Concat(t[p], s[Twin(p)]).typ = t[p].typ
    BY <1>5, ConcatVal
  <2>3. m[p].val = t[p].val \o w /\ m[p].typ # "map"  BY <2>1, <2>2, <1>5, <1>6, <1>8
  <2>4. QED  BY <2>3, <1>4, <1>6 DEF IsLeaf, HasValue, m
<1>9. CASE ~JoinedAs(t, s, early, p)
  <2>1. w = <<>>  BY <1>1, <1>7, <1>9 DEF Waits, Held
  <2>2. t[p].val \o <<>> = t[p].val  BY EmptyJoin
  <2>3. QED  BY <2>1, <2>2, <1>4, <1>5, <1>6, <1>9 DEF IsLeaf, HasValue, m
<1>10. QED  BY <1>8, <1>9

(* The component that is open after some lines of a file.                  *)
LEMMA CompNext ==
  ASSUME NEW lines, NEW n \in Nat \ {0}
  PROVE  CompOf(lines, n) = IF lines[n].op = "prefix" THEN <<Tag(lines[n].val)>> ELSE CompOf(lines, n - 1)
<1> DEFINE before == {j \in 1..n - 1 : lines[j].op = "prefix"}
           prefixes == {j \in 1..n : lines[j].op = "prefix"}
<1>1. CASE lines[n].op = "prefix"
  <2>1. n \in prefixes /\ \A j \in prefixes : j \in Int /\ n >= j  BY <1>1
  <2>2. \A m \in prefixes : (\A j \in prefixes : m >= j) => m = n
    <3> SUFFICES ASSUME NEW m \in prefixes, \A j \in prefixes : m >= j PROVE m = n  OBVIOUS
    <3>1. m \in Int /\ n >= m /\ m >= n  BY <2>1
    <3>2. QED  BY <3>1
  <2> HIDE DEF prefixes
  <2>3. Max(prefixes) = n  BY <2>1, <2>2 DEF Max
  <2>4. prefixes # {}  BY <2>1
  <2>5. CompOf(lines, n) = IF prefixes = {} THEN <<>> ELSE <<Tag(lines[Max(prefixes)].val)>>
    BY DEF CompOf, prefixes
  <2>6. QED  BY <1>1, <2>3, <2>4, <2>5
<1>2. CASE lines[n].op # "prefix"
  <2>1. before = prefixes  BY <1>2
  <2>2. CompOf(lines, n) = IF prefixes = {} THEN <<>> ELSE <<Tag(lines[Max(prefixes)].val)>>
    BY DEF CompOf
  <2>3. CompOf(lines, n - 1) = IF before = {} THEN <<>> ELSE <<Tag(lines[Max(before)].val)>>
    BY DEF CompOf
  <2> HIDE DEF before, prefixes
  <2>4. QED  BY <1>2, <2>1, <2>2, <2>3
<1>3. QED  BY <1>1, <1>2

(* The lines of a file.                                                    *)
LEMMA LinesAre ==
  ASSUME NEW d \in Projects, NEW x \in Places(d)
  PROVE  \A j \in 1..Len(LinesOf(d, x[1])) : IsLine(LinesOf(d, x[1])[j], d)
<1> DEFINE f == d.args[x[1]]
           lines == LinesOf(d, x[1])
<1>1. d.args \in Seq(DOMAIN d.text) /\ x[1] \in DOMAIN d.args
  <2>1. d.args \in Seq(DOMAIN d.text)  BY ArgAssumption
  <2>2. x[1] \in 1..Len(d.args)  BY PlaceIs
  <2>3. QED  BY <2>1, <2>2
<1>2. f \in DOMAIN d.text  BY <1>1
<1> HIDE DEF f
<1>3. lines = d.text[f]  BY DEF LinesOf, f
<1>4. lines \in Seq(Range(lines)) /\ \A l \in Range(lines) : IsLine(l, d)
  BY <1>2, <1>3, LineAssumption
<1> HIDE DEF lines
<1>5. \A j \in 1..Len(lines) : lines[j] \in Range(lines)  BY <1>4
<1>6. \A j \in 1..Len(lines) : IsLine(lines[j], d)  BY <1>4, <1>5
<1>7. QED  BY <1>6 DEF lines

LEMMA CompIs ==
  ASSUME NEW d \in Projects, NEW x \in Places(d), NEW n \in Nat, n <= Len(LinesOf(d, x[1]))
  PROVE  CompOf(LinesOf(d, x[1]), n) = <<>> \/ \E v \in Names : CompOf(LinesOf(d, x[1]), n) = <<Tag(v)>>
<1> DEFINE lines == LinesOf(d, x[1])
           K == {k \in Nat : k <= Len(lines) =>
                   CompOf(lines, k) = <<>> \/ \E v \in Names : CompOf(lines, k) = <<Tag(v)>>}
<1>1. Len(lines) \in Nat /\ \A j \in 1..Len(lines) : IsLine(lines[j], d)  BY LinesAre, PlaceIs
<1> HIDE DEF lines
<1>2. 0 \in K
  <2>1. {j \in 1..0 : lines[j].op = "prefix"} = {}  OBVIOUS
  <2>2. CompOf(lines, 0) = <<>>  BY <2>1 DEF CompOf
  <2>3. QED  BY <2>2
<1>3. ASSUME NEW k \in Nat, k \in K PROVE k + 1 \in K
  <2>1. CASE k + 1 <= Len(lines)
    <3>1. k <= Len(lines) /\ k + 1 \in 1..Len(lines) /\ k + 1 \in Nat \ {0} /\ k + 1 - 1 = k  BY <2>1, <1>1
    <3>2. CompOf(lines, k + 1)
            = IF lines[k + 1].op = "prefix" THEN <<Tag(lines[k + 1].val)>> ELSE CompOf(lines, k)
      BY <3>1, CompNext
    <3>3. lines[k + 1].op = "prefix" => lines[k + 1].val \in Names  BY <3>1, <1>1 DEF IsLine
    <3>4. CompOf(lines, k) = <<>> \/ \E v \in Names : CompOf(lines, k) = <<Tag(v)>>  BY <1>3, <3>1
    <3>5. CompOf(lines, k + 1) = <<>> \/ \E v \in Names : CompOf(lines, k + 1) = <<Tag(v)>>
      BY <3>2, <3>3, <3>4
    <3>6. QED  BY <3>5
  <2>2. CASE ~(k + 1 <= Len(lines))  BY <2>2
  <2>3. QED  BY <2>1, <2>2
<1>4. n \in K
  <2> HIDE DEF K
  <2>1. QED  BY <1>2, <1>3, NatSetInduction
<1>5. QED  BY <1>4 DEF lines

LEMMA HeadStrict ==
  ASSUME NEW p \in Path, NEW h \in Heads(p)
  PROVE  IsStrictPrefix(h, p)
<1>1. p \in Seq(Tags)  BY DEF Path
<1>2. /\ h \in Seq(Tags) /\ Relative(h, p) \in Seq(Tags) /\ Relative(h, p) # <<>>
      /\ p = h \o Relative(h, p)
  BY <1>1, HeadRest
<1>3. QED  BY <1>1, <1>2, StrictSplit

LEMMA HeadsPath ==
  ASSUME NEW p \in Seq(Tags), NEW u \in Seq(Tags), u # <<>>, NEW h \in Heads(p \o u)
  PROVE  h \in Heads(p) \/ h = p \/ \E g \in Heads(u) : h = p \o g
<1>1. h \in Heads(p) \/ (h = p /\ p # <<>>) \/ \E g \in Heads(u) : h = p \o g  BY HeadsJoin
<1>2. QED  BY <1>1

(* The key of a line that has one.                                         *)
LEMMA PlaceKey ==
  ASSUME NEW d \in Projects, NEW x \in Places(d), LineAt(d, x).op \in {"=", "+="}
  PROVE  LET spot == CompOf(LinesOf(d, x[1]), x[2] - 1)
             key == LineAt(d, x).key
             p == PathAt(d, x)
         IN  /\ p = spot \o key /\ key \in Seq(Named) /\ key # <<>> /\ spot \in Path
             /\ IsKeyPath(p) /\ PlainHeads(spot, p)
             /\ LineAt(d, x).op = "+=" => Last(p)[1] = ""
<1> DEFINE lines == LinesOf(d, x[1])
           n == x[2]
           spot == CompOf(lines, n - 1)
           key == LineAt(d, x).key
           p == PathAt(d, x)
           plus == LineAt(d, x).op = "+="
<1>1. n \in 1..Len(lines) /\ Len(lines) \in Nat  BY PlaceIs
<1>2. IsLine(LineAt(d, x), d)
  <2>1. LineAt(d, x) = lines[n]  BY DEF LineAt
  <2> HIDE DEF lines, n
  <2>2. QED  BY <1>1, <2>1, LinesAre DEF lines
<1>3. CompOf(lines, n) = spot /\ n \in Nat \ {0} /\ n - 1 \in Nat /\ n - 1 <= Len(lines)
  <2>1. n \in Nat \ {0} /\ n - 1 \in Nat /\ n - 1 <= Len(lines)  BY <1>1
  <2>2. lines[n].op # "prefix"  BY DEF LineAt
  <2>3. QED  BY <2>1, <2>2, CompNext
<1>4. p = spot \o key
  <2>1. LineAt(d, x).op # "prefix"  OBVIOUS
  <2>2. PathAt(d, x) = CompOf(lines, n) \o key  BY <2>1 DEF PathAt
  <2>3. QED  BY <2>2, <1>3
<1>5. /\ key \in Seq({"", "/"} \X (Names \ {""})) /\ key # <<>>
      /\ \A i \in DOMAIN key : key[i][1] = "/" => ~plus /\ Len(key) = 1
  BY <1>2 DEF IsLine
<1>6. key \in Seq(Named)  BY <1>5 DEF Named
<1>7. spot \in Path /\ \A i \in 1..Len(spot) : spot[i][1] # "+"
  <2>1. spot = <<>> \/ \E v \in Names : spot = <<Tag(v)>>
    <3>1. CompOf(LinesOf(d, x[1]), n - 1) = <<>> \/ \E v \in Names : CompOf(LinesOf(d, x[1]), n - 1) = <<Tag(v)>>
      <4> DEFINE m == n - 1
      <4>1. m \in Nat /\ m <= Len(LinesOf(d, x[1]))  BY <1>3
      <4> HIDE DEF m
      <4>2. CompOf(LinesOf(d, x[1]), m) = <<>> \/ \E v \in Names : CompOf(LinesOf(d, x[1]), m) = <<Tag(v)>>
        BY <4>1, CompIs
      <4>3. QED  BY <4>2 DEF m
    <3>2. QED  BY <3>1
  <2> HIDE DEF spot
  <2>2. CASE spot = <<>>  BY <2>2 DEF Path
  <2>3. ASSUME NEW v \in Names, spot = <<Tag(v)>> PROVE spot \in Path /\ \A i \in 1..Len(spot) : spot[i][1] # "+"
    <3> DEFINE k == Tag(v)
    <3>1. k \in Tags /\ k[1] # "+"  BY TagsAre
    <3> HIDE DEF k
    <3>2. spot = <<k>>  BY <2>3 DEF k
    <3>3. QED  BY <3>1, <3>2 DEF Path
  <2>4. QED  BY <2>1, <2>2, <2>3
<1> HIDE DEF spot, key, p, plus, lines, n
<1>8. /\ key \in Path /\ Last(key) \in Named
      /\ \A f \in Heads(key) : f \in Path /\ f # <<>> /\ Last(f) \in Named
  BY <1>5, <1>6, KeysNamed
<1>9. /\ spot \in Seq(Tags) /\ key \in Seq(Tags) /\ p \in Path /\ p # <<>> /\ Last(p) = Last(key)
      /\ Len(key) > 0 /\ Last(key) = key[Len(key)]
  <2>1. spot \in Seq(Tags) /\ key \in Seq(Tags)  BY <1>7, <1>8 DEF Path
  <2>2. spot \o key \in Seq(Tags) /\ spot \o key # <<>>  BY <2>1, <1>5, JoinEmpty
  <2>3. Last(spot \o key) = Last(key)  BY <2>1, <1>5, LastJoin
  <2>6. key # <<>>  BY <1>5
  <2>7. Len(key) > 0  BY <2>1, <2>6
  <2>4. Len(key) > 0 /\ Last(key) = key[Len(key)]  BY <2>7 DEF Last
  <2>5. QED  BY <2>1, <2>2, <2>3, <2>4, <1>4 DEF Path
<1>10. \A i \in 1..Len(key) : key[i] \in Named /\ key[i][1] # "+"
  <2>1. \A i \in 1..Len(key) : key[i] \in Named  BY <1>6
  <2>2. QED  BY <2>1, NamedNoPlus
<1>11. IsKeyPath(p)
  <2>1. Last(p)[2] # ""  BY <1>8, <1>9, NamedNoPlus
  <2>2. ASSUME NEW i \in 1..Len(p) PROVE p[i][1] # "+"
    <3>1. Len(p) = Len(spot) + Len(key) /\ Len(spot) \in Nat /\ Len(key) \in Nat  BY <1>4, <1>9
    <3>2. CASE i <= Len(spot)
      <4>1. i \in 1..Len(spot)  BY <3>1, <3>2
      <4>2. p[i] = spot[i]  BY <4>1, <1>4, <1>9
      <4>3. QED  BY <4>1, <4>2, <1>7
    <3>3. CASE ~(i <= Len(spot))
      <4>1. i - Len(spot) \in 1..Len(key)  BY <3>1, <3>3
      <4>2. p[i] = key[i - Len(spot)]  BY <3>1, <3>3, <1>4, <1>9
      <4>3. QED  BY <4>1, <4>2, <1>10
    <3>4. QED  BY <3>2, <3>3
  <2>3. QED  BY <2>1, <2>2, <1>9 DEF IsKeyPath
<1>12. PlainHeads(spot, p)
  <2> SUFFICES ASSUME NEW h \in Heads(p), Len(h) > Len(spot) PROVE Last(h)[1] = ""  BY DEF PlainHeads
  <2>1. h \in Heads(spot) \/ h = spot \/ \E g \in Heads(key) : h = spot \o g
    <3>1. key # <<>> /\ spot \in Seq(Tags) /\ key \in Seq(Tags)  BY <1>5, <1>9
    <3>2. h \in Heads(spot \o key)  BY <1>4
    <3>3. QED  BY <3>1, <3>2, HeadsPath
  <2>2. h \notin Heads(spot)
    <3>1. h \in Heads(spot) => Len(h) < Len(spot)  BY <1>7, HeadShorter
    <3>2. h \in Path  BY <1>9, HeadShorter
    <3>3. Len(h) \in Nat /\ Len(spot) \in Nat  BY <3>2, <1>9 DEF Path
    <3>4. QED  BY <3>1, <3>3
  <2>3. h # spot
    <3>1. Len(spot) \in Nat  BY <1>9
    <3>2. QED  BY <3>1
  <2>4. PICK g \in Heads(key) : h = spot \o g  BY <2>1, <2>2, <2>3
  <2>5. g \in Path /\ g # <<>> /\ Last(g) \in Named /\ Len(g) < Len(key)  BY <1>8, HeadShorter
  <2>6. g \in Seq(Tags)  BY <2>5 DEF Path
  <2>7. Last(h) = Last(g)  BY <2>4, <2>5, <2>6, <1>9, LastJoin
  <2>8. Last(g) = key[Len(g)] /\ Len(g) \in 1..Len(key) /\ Len(key) # 1
    <3> DEFINE r == Relative(g, key)
    <3>1. r \in Seq(Tags) /\ key = g \o r  BY <1>9, HeadRest
    <3> HIDE DEF r
    <3>2. Len(g) \in 1..Len(g) /\ Len(key) \in Nat /\ Len(g) \in Nat  BY <2>5, <2>6, <1>9
    <3>3. (g \o r)[Len(g)] = g[Len(g)]  BY <3>1, <3>2, <2>6
    <3>4. Last(g) = key[Len(g)]  BY <3>1, <3>3 DEF Last
    <3>7. \A i, j \in Nat : i \in 1..i /\ i < j => i \in 1..j /\ j # 1  OBVIOUS
    <3>8. Len(g) < Len(key)  BY <2>5
    <3>5. Len(g) \in 1..Len(key) /\ Len(key) # 1  BY <3>2, <3>7, <3>8
    <3>6. QED  BY <3>4, <3>5
  <2>9. key[Len(g)][1] # "/"
    <3>1. DOMAIN key = 1..Len(key)  BY <1>9
    <3>2. QED  BY <3>1, <2>8, <1>5
  <2>10. Last(g)[1] \in {"", "/"}  BY <2>5 DEF Named
  <2>11. QED  BY <2>7, <2>8, <2>9, <2>10
<1>13. plus => Last(p)[1] = ""
  <2>1. DOMAIN key = 1..Len(key) /\ Len(key) \in 1..Len(key)  BY <1>9
  <2>2. plus => key[Len(key)][1] # "/"  BY <2>1, <1>5
  <2>3. Last(p)[1] \in {"", "/"}  BY <1>8, <1>9 DEF Named
  <2>4. QED  BY <2>2, <2>3, <1>9
<1>14. QED  BY <1>4, <1>5, <1>6, <1>7, <1>11, <1>12, <1>13 DEF spot, key, p, plus, lines, n

(* The lines of the file of the argument a that append to p, after its     *)
(* line m and before its line n, and those of the files after x, before a. *)
Stretch(d, p, a, m, n) == {y \in On(d, p, "+=") : y[1] = a /\ m < y[2] /\ y[2] < n}
Later(d, p, x, a) == {y \in On(d, p, "+=") : x[1] < y[1] /\ y[1] < a}
LineVals(d) == {LineAt(d, y).val : y \in Places(d)}

LEMMA PlacesValue ==
  ASSUME NEW d \in Projects, NEW S, S \subseteq Places(d)
  PROVE  IsFiniteSet(S) /\ S \subseteq Pairs /\ ValueOf(d, S) \in Seq(LineVals(d))
<1>1. IsFiniteSet(S) /\ S \subseteq Pairs  BY PlacesFinite, FS_Subset
<1>2. \A x \in S : LineAt(d, x).val \in LineVals(d)  BY DEF LineVals
<1>3. QED  BY <1>1, <1>2, ValueIs

LEMMA PartPlaces ==
  ASSUME NEW d, NEW p, NEW a, NEW m, NEW n
  PROVE  Stretch(d, p, a, m, n) \subseteq Places(d)
BY DEF Stretch, On

LEMMA LaterPlaces ==
  ASSUME NEW d, NEW p, NEW x, NEW a
  PROVE  Later(d, p, x, a) \subseteq Places(d)
BY DEF Later, On

(* One line more.                                                          *)
LEMMA PartNext ==
  ASSUME NEW d \in Projects, NEW p, NEW a \in Nat, NEW m \in Nat, NEW n \in Nat
  PROVE  LET new == m < n /\ <<a, n>> \in On(d, p, "+=")
             w == ValueOf(d, Stretch(d, p, a, m, n))
         IN  ValueOf(d, Stretch(d, p, a, m, n + 1)) = IF new THEN w \o <<LineAt(d, <<a, n>>).val>> ELSE w
<1> DEFINE y == <<a, n>>
           new == m < n /\ y \in On(d, p, "+=")
           S == Stretch(d, p, a, m, n)
           T == Stretch(d, p, a, m, n + 1)
<1>1. \A z \in On(d, p, "+=") : z \in Pairs /\ z[1] \in Nat /\ z[2] \in Nat /\ z = <<z[1], z[2]>>
  <2>1. On(d, p, "+=") \subseteq Pairs  BY PlacesFinite DEF On
  <2>2. QED  BY <2>1 DEF Pairs
<1>2. y[1] = a /\ y[2] = n  OBVIOUS
<1>3. \A z \in On(d, p, "+=") : z[2] < n + 1 <=> z[2] < n \/ z[2] = n  BY <1>1
<1>4. CASE new
  <2>1. T = S \cup {y}
    <3>1. \A z \in On(d, p, "+=") : z[1] = a /\ z[2] = n <=> z = y  BY <1>1, <1>2
    <3> HIDE DEF y
    <3>2. QED  BY <3>1, <1>2, <1>3, <1>4 DEF Stretch
  <2>2. \A z \in S : Before(z, y)  BY <1>2 DEF Stretch, Before
  <2> HIDE DEF y
  <2>3. y \in Places(d)  BY <1>4 DEF On
  <2>4. y \in Pairs /\ IsFiniteSet({y}) /\ {y} \subseteq Pairs  BY <2>3, PlacesFinite, FS_Singleton
  <2>5. IsFiniteSet(S) /\ S \subseteq Pairs  BY PartPlaces, PlacesValue
  <2> HIDE DEF S, T
  <2>6. ValueOf(d, S \cup {y}) = ValueOf(d, S) \o ValueOf(d, {y})
    <3> DEFINE R == {y}
    <3>1. \A z \in S, b \in R : Before(z, b)  BY <2>2
    <3>2. IsFiniteSet(R) /\ R \subseteq Pairs  BY <2>4
    <3> HIDE DEF R
    <3>3. ValueOf(d, S \cup R) = ValueOf(d, S) \o ValueOf(d, R)  BY <2>5, <3>1, <3>2, ValueJoin
    <3>4. QED  BY <3>3 DEF R
  <2>7. ValueOf(d, {y}) = <<LineAt(d, y).val>>  BY <2>4, ValueOne
  <2>8. QED  BY <1>4, <2>1, <2>6, <2>7 DEF S, T, y
<1>5. CASE ~new
  <2>1. T = S
    <3>1. \A z \in On(d, p, "+=") : z[1] = a /\ z[2] = n => z = y  BY <1>1
    <3>2. \A z \in On(d, p, "+=") : z[1] = a /\ m < z[2] /\ z[2] = n => new  BY <3>1
    <3> HIDE DEF y, new
    <3>3. QED  BY <3>2, <1>3, <1>5 DEF Stretch
  <2>2. QED  BY <1>5, <2>1
<1>6. QED  BY <1>4, <1>5

LEMMA PartNone ==
  ASSUME NEW d \in Projects, NEW p, NEW a, NEW m \in Nat
  PROVE  ValueOf(d, Stretch(d, p, a, m, 1)) = <<>> /\ ValueOf(d, Stretch(d, p, a, m, m + 1)) = <<>>
<1>1. \A z \in On(d, p, "+=") : z[2] \in Nat
  <2>1. On(d, p, "+=") \subseteq Pairs  BY PlacesFinite DEF On
  <2>2. QED  BY <2>1 DEF Pairs
<1>2. Stretch(d, p, a, m, 1) = {} /\ Stretch(d, p, a, m, m + 1) = {}  BY <1>1 DEF Stretch
<1>3. QED  BY <1>2, ValueNone

(* All of the lines of a file, and of one file more.                       *)
LEMMA PartAll ==
  ASSUME NEW d \in Projects, NEW x \in Places(d), NEW p, NEW a \in Nat, x[1] < a
  PROVE  ValueOf(d, Later(d, p, x, a + 1))
           = ValueOf(d, Later(d, p, x, a)) \o ValueOf(d, Stretch(d, p, a, 0, Len(LinesOf(d, a)) + 1))
<1> DEFINE S == Later(d, p, x, a)
           T == Stretch(d, p, a, 0, Len(LinesOf(d, a)) + 1)
           U == Later(d, p, x, a + 1)
<1>1. IsFiniteSet(S) /\ S \subseteq Pairs  BY LaterPlaces, PlacesValue
<1>2. IsFiniteSet(T) /\ T \subseteq Pairs  BY PartPlaces, PlacesValue
<1>3. x[1] \in Nat  BY PlaceIs
<1>4. ASSUME NEW z \in On(d, p, "+=")
      PROVE  z[1] \in Nat /\ 0 < z[2] /\ (z[1] = a => z[2] < Len(LinesOf(d, a)) + 1)
  <2>1. z \in Places(d)  BY DEF On
  <2>2. z[1] \in 1..Len(d.args) /\ z[2] \in 1..Len(LinesOf(d, z[1])) /\ Len(LinesOf(d, z[1])) \in Nat
    BY <2>1, PlaceIs
  <2>3. z[1] \in Nat  BY <2>2
  <2>4. 0 < z[2] /\ z[2] < Len(LinesOf(d, z[1])) + 1  BY <2>2
  <2>5. QED  BY <2>3, <2>4
<1>5. \A z \in On(d, p, "+=") : z[1] < a + 1 <=> z[1] < a \/ z[1] = a  BY <1>4
<1>6. U = S \cup T  BY <1>3, <1>4, <1>5 DEF Later, Stretch
<1>7. \A y \in S, z \in T : Before(y, z)  BY DEF Later, Stretch, Before
<1> HIDE DEF S, T, U
<1>8. ValueOf(d, S \cup T) = ValueOf(d, S) \o ValueOf(d, T)  BY <1>1, <1>2, <1>7, ValueJoin
<1>9. QED  BY <1>6, <1>8 DEF S, T, U

LEMMA LaterNone ==
  ASSUME NEW d \in Projects, NEW x \in Places(d), NEW p
  PROVE  ValueOf(d, Later(d, p, x, x[1] + 1)) = <<>>
<1>1. x[1] \in Nat  BY PlaceIs
<1>2. \A z \in On(d, p, "+=") : z[1] \in Nat
  <2>1. On(d, p, "+=") \subseteq Pairs  BY PlacesFinite DEF On
  <2>2. QED  BY <2>1 DEF Pairs
<1>3. Later(d, p, x, x[1] + 1) = {}  BY <1>1, <1>2 DEF Later
<1>4. QED  BY <1>3, ValueNone

(* What the table that is read has of the key that x defines, before the   *)
(* line n of the argument a.                                               *)
ReadInv(d, x, a, n, t) ==
  LET p == PathAt(d, x)
  IN  IF a = x[1] /\ x[2] < n
        THEN SetTo(t, p, <<LineAt(d, x).val>> \o ValueOf(d, Stretch(d, p, a, x[2], n)),
                   ValueOf(d, Stretch(d, p, a, 0, x[2])))
        ELSE Unset(t, p, ValueOf(d, Stretch(d, p, a, 0, n)))

LEMMA ReadStart ==
  ASSUME NEW d \in Projects, NEW x \in Places(d), NEW a
  PROVE  ReadInv(d, x, a, 1, Empty)
<1> DEFINE p == PathAt(d, x)
<1>1. x[2] \in 1..Len(LinesOf(d, x[1])) /\ Len(LinesOf(d, x[1])) \in Nat  BY PlaceIs
<1>2. ~(x[2] < 1)  BY <1>1
<1>3. DOMAIN Empty = {}  BY DEF Empty
<1>4. ValueOf(d, Stretch(d, p, a, 0, 1)) = <<>>  BY PartNone
<1> HIDE DEF p
<1>5. Unset(Empty, p, <<>>)  BY <1>3 DEF Unset, Clear, Waits, Held, IsLeaf
<1>6. QED  BY <1>2, <1>4, <1>5 DEF ReadInv, p

LEMMA ReadSame ==
  ASSUME NEW d \in Projects, NEW x \in Places(d), NEW a \in Nat, NEW n \in Nat, <<a, n>> # x,
         <<a, n>> \notin On(d, PathAt(d, x), "+="), NEW t, NEW u, SameFor(t, u, PathAt(d, x)),
         ReadInv(d, x, a, n, t)
  PROVE  ReadInv(d, x, a, n + 1, u)
<1> DEFINE p == PathAt(d, x)
<1>1. x[1] \in Nat /\ x[2] \in Nat /\ x = <<x[1], x[2]>>  BY PlacesFinite DEF Pairs
<1>2. a = x[1] /\ x[2] < n + 1 <=> a = x[1] /\ x[2] < n  BY <1>1
<1>3. ValueOf(d, Stretch(d, p, a, x[2], n + 1)) = ValueOf(d, Stretch(d, p, a, x[2], n))  BY <1>1, PartNext
<1>4. ValueOf(d, Stretch(d, p, a, 0, n + 1)) = ValueOf(d, Stretch(d, p, a, 0, n))
  <2> DEFINE m == 0
  <2>1. m \in Nat  OBVIOUS
  <2> HIDE DEF m
  <2>2. ValueOf(d, Stretch(d, p, a, m, n + 1)) = ValueOf(d, Stretch(d, p, a, m, n))  BY <2>1, PartNext
  <2>3. QED  BY <2>2 DEF m
<1> HIDE DEF p
<1>5. SameFor(t, u, p)  BY DEF p
<1>6. \A v, w : (Unset(t, p, w) => Unset(u, p, w)) /\ (SetTo(t, p, v, w) => SetTo(u, p, v, w))
  BY <1>5, SameKeeps
<1>7. QED  BY <1>2, <1>3, <1>4, <1>6 DEF ReadInv, p

LEMMA ReadDefines ==
  ASSUME NEW d \in Projects, NEW x \in Places(d), LineAt(d, x).op = "=",
         NEW a, NEW n, <<a, n>> = x, NEW t, ReadInv(d, x, a, n, t)
  PROVE  ReadInv(d, x, a, n + 1,
                 AddToMap(t, CompOf(LinesOf(d, a), n - 1), LineAt(d, x).key, LineAt(d, x).val))
<1> DEFINE p == PathAt(d, x)
           spot == CompOf(LinesOf(d, a), n - 1)
           key == LineAt(d, x).key
           v == LineAt(d, x).val
           w == ValueOf(d, Stretch(d, p, a, 0, n))
           u == AddToMap(t, spot, key, v)
<1>1. x[1] = a /\ x[2] = n /\ n \in Nat
  <2>1. x[1] = a /\ x[2] = n  OBVIOUS
  <2>2. x[2] \in Nat  BY PlacesFinite DEF Pairs
  <2>3. QED  BY <2>1, <2>2
<1>2. ~(x[2] < n) /\ x[2] < n + 1  BY <1>1
<1>3. p = spot \o key /\ IsKeyPath(p) /\ PlainHeads(spot, p)  BY <1>1, PlaceKey
<1>4. ValueOf(d, Stretch(d, p, a, n, n + 1)) = <<>>  BY <1>1, PartNone
<1>5. Unset(t, p, w)  BY <1>1, <1>2 DEF ReadInv
<1>6. <<v>> \o <<>> = <<v>>  OBVIOUS
<1>7. SetTo(u, p, <<v>>, w)
  <2> HIDE DEF p, spot, key, v, w, u
  <2>1. QED  BY <1>3, <1>5, AddSets DEF u
<1>8. SetTo(u, p, <<v>> \o ValueOf(d, Stretch(d, p, a, x[2], n + 1)), ValueOf(d, Stretch(d, p, a, 0, x[2])))
  BY <1>1, <1>4, <1>6, <1>7
<1> HIDE DEF u
<1>9. ReadInv(d, x, a, n + 1, u)  BY <1>1, <1>2, <1>8 DEF ReadInv
<1>10. QED  BY <1>9 DEF u

LEMMA JoinChain ==
  ASSUME NEW S, NEW u \in Seq(S), NEW v \in Seq(S), NEW w \in Seq(S)
  PROVE  (u \o v) \o w = u \o (v \o w)
OBVIOUS

LEMMA ReadAppends ==
  ASSUME NEW d \in Projects, NEW x \in Places(d), LineAt(d, x).op = "=",
         NEW a \in Nat, NEW n \in Nat, NEW y, y = <<a, n>>, y \in On(d, PathAt(d, x), "+="),
         NEW t, IsTable(t), ReadInv(d, x, a, n, t)
  PROVE  ReadInv(d, x, a, n + 1,
                 AppendToMap(t, CompOf(LinesOf(d, a), n - 1), LineAt(d, y).key, LineAt(d, y).val))
<1> DEFINE p == PathAt(d, x)
           spot == CompOf(LinesOf(d, a), n - 1)
           key == LineAt(d, y).key
           v == LineAt(d, x).val
           z == LineAt(d, y).val
           w == ValueOf(d, Stretch(d, p, a, 0, n))
           W == ValueOf(d, Stretch(d, p, a, 0, x[2]))
           V == ValueOf(d, Stretch(d, p, a, x[2], n))
           u == AppendToMap(t, spot, key, z)
<1>1. y[1] = a /\ y[2] = n /\ y \in Places(d) /\ LineAt(d, y).op = "+=" /\ PathAt(d, y) = p /\ n > 0
  <2>1. y[1] = a /\ y[2] = n /\ y \in Places(d) /\ LineAt(d, y).op = "+=" /\ PathAt(d, y) = p  BY DEF On
  <2>2. y[2] \in 1..Len(LinesOf(d, y[1])) /\ Len(LinesOf(d, y[1])) \in Nat  BY <2>1, PlaceIs
  <2>3. QED  BY <2>1, <2>2
<1>2. p = spot \o key /\ IsKeyPath(p) /\ PlainHeads(spot, p) /\ Last(p)[1] = ""  BY <1>1, PlaceKey
<1>3. x # y /\ x[1] \in Nat /\ x[2] \in Nat /\ x = <<x[1], x[2]>>  BY <1>1, PlacesFinite DEF Pairs
<1>4. a = x[1] /\ x[2] < n + 1 <=> a = x[1] /\ x[2] < n  BY <1>3
<1>5. ValueOf(d, Stretch(d, p, a, 0, n + 1)) = w \o <<z>>  BY <1>1, PartNext
<1>6. x[2] < n => ValueOf(d, Stretch(d, p, a, x[2], n + 1)) = V \o <<z>>  BY <1>3, PartNext
<1>7. /\ w \in Seq(LineVals(d)) /\ V \in Seq(LineVals(d)) /\ W \in Seq(LineVals(d))
      /\ v \in LineVals(d) /\ z \in LineVals(d)
  <2>1. w \in Seq(LineVals(d)) /\ V \in Seq(LineVals(d)) /\ W \in Seq(LineVals(d))  BY PartPlaces, PlacesValue
  <2>2. v \in LineVals(d) /\ z \in LineVals(d)  BY <1>1 DEF LineVals
  <2>3. QED  BY <2>1, <2>2
<1>8. CASE a = x[1] /\ x[2] < n
  <2>1. SetTo(t, p, <<v>> \o V, W)  BY <1>8 DEF ReadInv
  <2> DEFINE r == <<v>> \o V
  <2>2. SetTo(u, p, r \o <<z>>, W)
    <3>1. SetTo(t, p, r, W)  BY <2>1
    <3> HIDE DEF p, spot, key, z, W, r, u, v
    <3>2. QED  BY <3>1, <1>2, <1>7, AppendSets DEF u
  <2>3. r \o <<z>> = <<v>> \o (V \o <<z>>)
    <3> HIDE DEF z, V, v
    <3>1. <<v>> \in Seq(LineVals(d)) /\ <<z>> \in Seq(LineVals(d))  BY <1>7
    <3>2. QED  BY <1>7, <3>1, JoinChain
  <2>4. SetTo(u, p, <<v>> \o ValueOf(d, Stretch(d, p, a, x[2], n + 1)), W)  BY <2>2, <2>3, <1>6, <1>8
  <2> HIDE DEF u
  <2>5. ReadInv(d, x, a, n + 1, u)  BY <2>4, <1>4, <1>8 DEF ReadInv
  <2>6. QED  BY <2>5 DEF u
<1>9. CASE ~(a = x[1] /\ x[2] < n)
  <2>1. Unset(t, p, w)  BY <1>9 DEF ReadInv
  <2>2. Unset(u, p, w \o <<z>>)
    <3> HIDE DEF p, spot, key, z, w, u
    <3>1. QED  BY <2>1, <1>2, <1>7, AppendSets DEF u
  <2>3. Unset(u, p, ValueOf(d, Stretch(d, p, a, 0, n + 1)))  BY <2>2, <1>5
  <2> HIDE DEF u
  <2>4. ReadInv(d, x, a, n + 1, u)  BY <2>3, <1>4, <1>9 DEF ReadInv
  <2>5. QED  BY <2>4 DEF u
<1>10. QED  BY <1>8, <1>9

(* The table after a line that is no "include".                            *)
ReadOf(d, y, t) ==
  LET l == LineAt(d, y)
      spot == CompOf(LinesOf(d, y[1]), y[2] - 1)
      c == <<Tag(l.val)>>
  IN  IF l.op = "prefix" THEN JoinOf(JoinOf(t, Single(c, Map)), Single(c \o <<Prefix>>, Str(<<l.val>>)))
      ELSE IF l.op = "=" THEN AddToMap(t, spot, l.key, l.val) ELSE AppendToMap(t, spot, l.key, l.val)

LEMMA OneKey ==
  ASSUME NEW k \in Tags
  PROVE  <<k>> \in Seq(Tags) /\ <<k>> # <<>> /\ Last(<<k>>) = k
BY DEF Last

(* The key of a line "PREFIX".                                             *)
LEMMA PlacePrefix ==
  ASSUME NEW d \in Projects, NEW y \in Places(d), LineAt(d, y).op = "prefix"
  PROVE  LET c == <<Tag(LineAt(d, y).val)>>
         IN  /\ PathAt(d, y) = c \o <<Prefix>> /\ PathAt(d, y) \in Path
             /\ c \in Heads(PathAt(d, y)) /\ Last(c)[1] = "" /\ Last(PathAt(d, y)) = Prefix
<1> DEFINE lines == LinesOf(d, y[1])
           n == y[2]
           k == Tag(LineAt(d, y).val)
           c == <<k>>
<1>1. n \in 1..Len(lines) /\ Len(lines) \in Nat  BY PlaceIs
<1>2. LineAt(d, y) = lines[n] /\ IsLine(lines[n], d)
  <2>1. LineAt(d, y) = lines[n]  BY DEF LineAt
  <2> HIDE DEF lines, n
  <2>2. QED  BY <1>1, <2>1, LinesAre DEF lines
<1>3. CompOf(lines, n) = c
  <2>1. n \in Nat \ {0}  BY <1>1
  <2> HIDE DEF lines, n
  <2>2. CompOf(lines, n) = IF lines[n].op = "prefix" THEN <<Tag(lines[n].val)>> ELSE CompOf(lines, n - 1)
    BY <2>1, CompNext
  <2>3. QED  BY <1>2, <2>2
<1>4. PathAt(d, y) = c \o <<Prefix>>  BY <1>3 DEF PathAt
<1>5. LineAt(d, y).val \in Names  BY <1>2 DEF IsLine
<1>6. k \in Tags /\ k[1] = "" /\ Prefix \in Tags  BY <1>5, TagsAre DEF Tag
<1> HIDE DEF k
<1>7. c \in Seq(Tags) /\ c # <<>> /\ Last(c) = k  BY <1>6, OneKey
<1> HIDE DEF c
<1>8. Last(c \o <<Prefix>>) = Prefix /\ c \in Heads(c \o <<Prefix>>)  BY <1>6, <1>7, EndsOf, HeadsOne
<1>9. c \o <<Prefix>> \in Path
  <2>1. <<Prefix>> \in Seq(Tags)  BY <1>6, OneKey
  <2>2. QED  BY <2>1, <1>7, JoinEmpty DEF Path
<1>10. QED  BY <1>4, <1>6, <1>7, <1>8, <1>9 DEF c, k

(* Lines of other keys.                                                    *)
LEMMA LineApart ==
  ASSUME NEW d \in Projects, NEW x \in Places(d), DefinesAlone(d, x),
         NEW y \in Places(d), LineAt(d, y).op # "include", PathAt(d, y) \in Path
  PROVE  /\ IsKeyPath(PathAt(d, x)) /\ PathAt(d, x) \in Path
         /\ PathAt(d, x) \notin Heads(PathAt(d, y)) /\ PathAt(d, y) \notin Heads(PathAt(d, x))
         /\ LineAt(d, x).op = "="
         /\ LineAt(d, y).op = "prefix" => PathAt(d, y) # PathAt(d, x)
         /\ LineAt(d, y).op = "=" => PathAt(d, y) # PathAt(d, x) \/ y = x
         /\ LineAt(d, y).op = "+=" => PathAt(d, y) # PathAt(d, x) \/ y \in On(d, PathAt(d, x), "+=")
<1> DEFINE p == PathAt(d, x)
           k == PathAt(d, y)
<1>1. LineAt(d, x).op = "=" /\ On(d, p, "=") = {x} /\ On(d, p, "prefix") = {}
  BY DEF DefinesAlone
<1>2. ~IsStrictPrefix(k, p) /\ ~IsStrictPrefix(p, k)  BY DEF DefinesAlone
<1>3. IsKeyPath(p) /\ p \in Path  BY <1>1, PlaceKey DEF IsKeyPath
<1> HIDE DEF p, k
<1>4. k \in Path  BY DEF k
<1>5. p \notin Heads(k) /\ k \notin Heads(p)  BY <1>2, <1>3, <1>4, HeadStrict
<1>6. \A op : LineAt(d, y).op = op /\ k = p => y \in On(d, p, op)  BY DEF On, k
<1>7. QED  BY <1>1, <1>3, <1>5, <1>6 DEF p, k

LEMMA ReadPrefixSame ==
  ASSUME NEW d \in Projects, NEW x \in Places(d), DefinesAlone(d, x),
         NEW y \in Places(d), LineAt(d, y).op = "prefix", NEW t
  PROVE  SameFor(t, ReadOf(d, y, t), PathAt(d, x))
<1> DEFINE p == PathAt(d, x)
           k == PathAt(d, y)
           c == <<Tag(LineAt(d, y).val)>>
           v == Str(<<LineAt(d, y).val>>)
           u == JoinOf(t, Single(c, Map))
<1>1. k = c \o <<Prefix>> /\ k \in Path /\ c \in Heads(k) /\ Last(c)[1] = "" /\ Last(k) = Prefix
  BY PlacePrefix
<1>2. IsKeyPath(p) /\ p \notin Heads(k) /\ k \notin Heads(p) /\ k # p  BY <1>1, LineApart
<1>3. Last(Twin(p))[1] = "+" /\ Prefix[1] # "+" /\ Map.typ = "map"  BY <1>2, KeyPathIs, TagsAre, ValueTypes
<1>4. c # p /\ c # Twin(p) /\ k # Twin(p)  BY <1>1, <1>2, <1>3
<1>5. ReadOf(d, y, t) = JoinOf(u, Single(k, v))  BY <1>1 DEF ReadOf
<1> HIDE DEF p, k, c, v
<1>6. SameFor(t, u, p)  BY <1>2, <1>3, <1>4, SingleSame
<1> HIDE DEF u
<1>7. SameFor(u, JoinOf(u, Single(k, v)), p)  BY <1>2, <1>4, SingleSame
<1> DEFINE w == JoinOf(u, Single(k, v))
<1> HIDE DEF w
<1>8. SameFor(t, w, p)  BY <1>6, <1>7, SameChain DEF w
<1>9. QED  BY <1>5, <1>8 DEF p, w

LEMMA ReadLine ==
  ASSUME NEW d \in Projects, NEW x \in Places(d), DefinesAlone(d, x),
         NEW a \in Nat, NEW n \in Nat, NEW y, y = <<a, n>>, y \in Places(d), LineAt(d, y).op # "include",
         NEW t, IsTable(t), ReadInv(d, x, a, n, t)
  PROVE  ReadInv(d, x, a, n + 1, ReadOf(d, y, t))
<1> DEFINE p == PathAt(d, x)
           k == PathAt(d, y)
           op == LineAt(d, y).op
           spot == CompOf(LinesOf(d, a), n - 1)
           key == LineAt(d, y).key
           z == LineAt(d, y).val
<1>1. y[1] = a /\ y[2] = n  OBVIOUS
<1>2. op \in {"=", "+=", "prefix"}
  <2>1. y[2] \in 1..Len(LinesOf(d, y[1]))  BY PlaceIs
  <2>2. IsLine(LinesOf(d, y[1])[y[2]], d)  BY <2>1, LinesAre
  <2>3. IsLine(LineAt(d, y), d)  BY <2>2 DEF LineAt
  <2>4. QED  BY <2>3 DEF IsLine
<1>3. LineAt(d, x).op = "="  BY DEF DefinesAlone
<1>4. ASSUME y # x, y \notin On(d, p, "+="), SameFor(t, ReadOf(d, y, t), p)
      PROVE  ReadInv(d, x, a, n + 1, ReadOf(d, y, t))
  <2> DEFINE u == ReadOf(d, y, t)
  <2>1. SameFor(t, u, p)  BY <1>4
  <2> HIDE DEF u
  <2>2. ReadInv(d, x, a, n + 1, u)  BY <1>4, <2>1, ReadSame
  <2>3. QED  BY <2>2 DEF u
<1>5. CASE op = "prefix"
  <2>1. SameFor(t, ReadOf(d, y, t), p)  BY <1>5, ReadPrefixSame
  <2>2. y # x /\ y \notin On(d, p, "+=")  BY <1>3, <1>5 DEF On
  <2>3. QED  BY <1>4, <2>1, <2>2
<1>6. CASE op # "prefix"
  <2>1. op \in {"=", "+="}  BY <1>2, <1>6
  <2>2. k = spot \o key /\ IsKeyPath(k) /\ PlainHeads(spot, k) /\ (op = "+=" => Last(k)[1] = "")
    BY <1>1, <2>1, PlaceKey
  <2>3. k \in Path /\ k # <<>> /\ Last(k)[1] # "+"  BY <2>2, ApartSelf DEF IsKeyPath
  <2>4. /\ IsKeyPath(p) /\ p \notin Heads(k) /\ k \notin Heads(p)
        /\ op = "=" => k # p \/ y = x
        /\ op = "+=" => k # p \/ y \in On(d, p, "+=")
    BY <2>3, LineApart
  <2>5. Apart(k, p)  BY <2>3, <2>4 DEF Apart
  <2>6. CASE op = "="
    <3>1. ReadOf(d, y, t) = AddToMap(t, spot, key, z)  BY <1>1, <2>6 DEF ReadOf
    <3>2. CASE y = x
      <4>1. ReadInv(d, x, a, n + 1, AddToMap(t, spot, key, z))  BY <1>3, <3>2, ReadDefines
      <4>2. QED  BY <3>1, <4>1
    <3>3. CASE y # x
      <4>1. k # p /\ y \notin On(d, p, "+=")  BY <2>4, <2>6, <3>3 DEF On
      <4>2. SameFor(t, AddToMap(t, spot, key, z), p)
        <5> HIDE DEF p, k, spot, key, z
        <5>1. QED  BY <2>2, <2>4, <2>5, <4>1, AddSame
      <4>3. QED  BY <1>4, <3>1, <3>3, <4>1, <4>2
    <3>4. QED  BY <3>2, <3>3
  <2>7. CASE op = "+="
    <3>1. ReadOf(d, y, t) = AppendToMap(t, spot, key, z)  BY <1>1, <2>7 DEF ReadOf
    <3>2. CASE y \in On(d, p, "+=")
      <4>1. ReadInv(d, x, a, n + 1, AppendToMap(t, spot, key, z))  BY <1>3, <3>2, ReadAppends
      <4>2. QED  BY <3>1, <4>1
    <3>3. CASE y \notin On(d, p, "+=")
      <4>1. k # p /\ y # x  BY <1>3, <2>4, <2>7, <3>3
      <4>2. SameFor(t, AppendToMap(t, spot, key, z), p)
        <5> HIDE DEF p, k, spot, key, z
        <5>1. QED  BY <2>2, <2>4, <2>5, <2>7, <4>1, AppendSame
      <4>3. QED  BY <1>4, <3>1, <3>3, <4>1, <4>2
    <3>4. QED  BY <3>2, <3>3
  <2>8. QED  BY <2>1, <2>6, <2>7
<1>7. QED  BY <1>5, <1>6

(* What the merged files have of the key that x defines, before the        *)
(* argument a is read.                                                     *)
Own(d, x) == Stretch(d, PathAt(d, x), x[1], 0, x[2])
OwnText(d, x) ==
  <<LineAt(d, x).val>> \o ValueOf(d, Stretch(d, PathAt(d, x), x[1], x[2], Len(LinesOf(d, x[1])) + 1))
FullText(d, x, own, a) == (OwnText(d, x) \o ValueOf(d, own)) \o ValueOf(d, Later(d, PathAt(d, x), x, a))
MasterInv(d, x, a, t) ==
  /\ Clear(t, PathAt(d, x))
  /\ IF a <= x[1] THEN PathAt(d, x) \notin DOMAIN t
     ELSE /\ IsLeaf(t, PathAt(d, x))
          /\ \E own \in {{}, Own(d, x)} : t[PathAt(d, x)].val = FullText(d, x, own, a)

LEMMA TextsAre ==
  ASSUME NEW d \in Projects, NEW x \in Places(d), NEW own \in {{}, Own(d, x)}, NEW a
  PROVE  /\ OwnText(d, x) \in Seq(LineVals(d)) /\ ValueOf(d, own) \in Seq(LineVals(d))
         /\ ValueOf(d, Later(d, PathAt(d, x), x, a)) \in Seq(LineVals(d))
         /\ FullText(d, x, own, a) \in Seq(LineVals(d))
<1> DEFINE v == LineAt(d, x).val
           P == ValueOf(d, Stretch(d, PathAt(d, x), x[1], x[2], Len(LinesOf(d, x[1])) + 1))
           W == ValueOf(d, own)
           L == ValueOf(d, Later(d, PathAt(d, x), x, a))
<1>1. v \in LineVals(d)  BY DEF LineVals
<1>2. P \in Seq(LineVals(d))  BY PartPlaces, PlacesValue
<1>3. own \subseteq Places(d)  BY PartPlaces DEF Own
<1>4. W \in Seq(LineVals(d))  BY <1>3, PlacesValue
<1>5. L \in Seq(LineVals(d))  BY LaterPlaces, PlacesValue
<1>6. OwnText(d, x) = <<v>> \o P  BY DEF OwnText
<1>7. FullText(d, x, own, a) = (OwnText(d, x) \o W) \o L  BY DEF FullText
<1> HIDE DEF v, P, W, L
<1>8. OwnText(d, x) \in Seq(LineVals(d))  BY <1>1, <1>2, <1>6
<1>9. FullText(d, x, own, a) \in Seq(LineVals(d))  BY <1>4, <1>5, <1>7, <1>8
<1>10. QED  BY <1>4, <1>5, <1>8, <1>9 DEF W, L

LEMMA JoinNone ==
  ASSUME NEW S, NEW u \in Seq(S)
  PROVE  u \o <<>> = u
OBVIOUS

LEMMA MasterArg ==
  ASSUME NEW d \in Projects, NEW x \in Places(d), DefinesAlone(d, x), NEW a \in Nat,
         NEW t, IsTable(t), NEW s, IsTable(s), NEW early,
         ReadInv(d, x, a, Len(LinesOf(d, a)) + 1, s), MasterInv(d, x, a, t)
  PROVE  MasterInv(d, x, a + 1, MergeMaps(t, <<>>, s, early))
<1> DEFINE p == PathAt(d, x)
           n == Len(LinesOf(d, a)) + 1
           m == MergeMaps(t, <<>>, s, early)
           w == ValueOf(d, Stretch(d, p, a, 0, n))
<1>1. /\ x[1] \in Nat /\ x[2] \in 1..Len(LinesOf(d, x[1])) /\ Len(LinesOf(d, x[1])) \in Nat
  <2>1. x[1] \in 1..Len(d.args)  BY PlaceIs
  <2>2. x[1] \in Nat  BY <2>1
  <2>3. QED  BY <2>2, PlaceIs
<1>2. x[2] < Len(LinesOf(d, x[1])) + 1  BY <1>1
<1>3. LineAt(d, x).op = "="  BY DEF DefinesAlone
<1>4. IsKeyPath(p) /\ p \in Path  BY <1>3, PlaceKey DEF IsKeyPath
<1>5. Clear(t, p)  BY DEF MasterInv
<1>6. CASE a < x[1]
  <2>1. Unset(s, p, w)  BY <1>6, <1>1 DEF ReadInv
  <2>2. p \notin DOMAIN t  BY <1>6, <1>1 DEF MasterInv
  <2>3. Clear(m, p) /\ p \notin DOMAIN m
    <3> HIDE DEF p, w
    <3>1. QED  BY <2>1, <2>2, <1>4, <1>5, MergeBefore
  <2>4. a + 1 <= x[1]  BY <1>6, <1>1
  <2> HIDE DEF m
  <2>5. MasterInv(d, x, a + 1, m)  BY <2>3, <2>4 DEF MasterInv
  <2>6. QED  BY <2>5 DEF m
<1>7. CASE a = x[1]
  <2> DEFINE T == OwnText(d, x)
             W == ValueOf(d, Own(d, x))
             L == ValueOf(d, Later(d, p, x, a + 1))
  <2>1. SetTo(s, p, T, W)  BY <1>2, <1>7 DEF ReadInv, OwnText, Own
  <2>2. p \notin DOMAIN t  BY <1>1, <1>7 DEF MasterInv
  <2>3. Clear(m, p) /\ IsLeaf(m, p) /\ (m[p].val = T \/ m[p].val = T \o W)
    <3> HIDE DEF p, T, W
    <3>1. HasValue(m, p, T) \/ HasValue(m, p, T \o W)  BY <2>1, <2>2, <1>4, <1>5, MergeDefines
    <3> HIDE DEF m
    <3>2. QED  BY <3>1 DEF HasValue
  <2>4. L = <<>>  BY <1>7, LaterNone
  <2>5. \A own \in {{}, Own(d, x)} : FullText(d, x, own, a + 1) = T \o ValueOf(d, own)
    <3> SUFFICES ASSUME NEW own \in {{}, Own(d, x)}
                 PROVE  FullText(d, x, own, a + 1) = T \o ValueOf(d, own)
      OBVIOUS
    <3> DEFINE V == ValueOf(d, own)
    <3>1. FullText(d, x, own, a + 1) = (T \o V) \o L  BY DEF FullText
    <3>2. T \in Seq(LineVals(d)) /\ V \in Seq(LineVals(d))  BY TextsAre
    <3> HIDE DEF T, V, L
    <3>3. T \o V \in Seq(LineVals(d))  BY <3>2
    <3>4. (T \o V) \o <<>> = T \o V  BY <3>3, JoinNone
    <3>5. QED  BY <3>1, <3>4, <2>4 DEF V
  <2>6. T \o ValueOf(d, {}) = T
    <3>1. T \in Seq(LineVals(d))  BY TextsAre
    <3> HIDE DEF T
    <3>2. QED  BY <3>1, ValueNone, JoinNone
  <2>7. \E own \in {{}, Own(d, x)} : m[p].val = FullText(d, x, own, a + 1)
    <3> HIDE DEF m, p, T
    <3>1. CASE m[p].val = T  BY <3>1, <2>5, <2>6
    <3>2. CASE m[p].val = T \o W  BY <3>2, <2>5
    <3>3. QED  BY <3>1, <3>2, <2>3
  <2>8. ~(a + 1 <= x[1])  BY <1>1, <1>7
  <2> HIDE DEF m
  <2>9. MasterInv(d, x, a + 1, m)  BY <2>3, <2>7, <2>8 DEF MasterInv
  <2>10. QED  BY <2>9 DEF m
<1>8. CASE x[1] < a
  <2>1. Unset(s, p, w)  BY <1>8, <1>1 DEF ReadInv
  <2>2. IsLeaf(t, p)  BY <1>8, <1>1 DEF MasterInv
  <2>3. PICK own \in {{}, Own(d, x)} : t[p].val = FullText(d, x, own, a)
    BY <1>8, <1>1 DEF MasterInv
  <2>4. t[p].val \in Seq(LineVals(d))  BY <2>3, TextsAre
  <2>5. Last(p)[1] # "" => w = <<>>
    <3>1. ASSUME Last(p)[1] # "" PROVE Stretch(d, p, a, 0, n) = {}
      <4>1. \A y \in On(d, p, "+=") : Last(p)[1] = ""  BY PlaceKey DEF On
      <4>2. QED  BY <3>1, <4>1 DEF Stretch
    <3>2. QED  BY <3>1, ValueNone
  <2>6. Clear(m, p) /\ IsLeaf(m, p) /\ m[p].val = t[p].val \o w
    <3> HIDE DEF p, w
    <3>1. HasValue(m, p, t[p].val \o w)  BY <2>1, <2>2, <2>4, <2>5, <1>4, <1>5, MergeAfter
    <3> HIDE DEF m
    <3>2. QED  BY <3>1 DEF HasValue
  <2>7. FullText(d, x, own, a) \o w = FullText(d, x, own, a + 1)
    <3> DEFINE T == OwnText(d, x) \o ValueOf(d, own)
               L == ValueOf(d, Later(d, p, x, a))
    <3>1. ValueOf(d, Later(d, p, x, a + 1)) = L \o w  BY <1>8, PartAll
    <3>2. w \in Seq(LineVals(d))  BY PartPlaces, PlacesValue
    <3>3. /\ OwnText(d, x) \in Seq(LineVals(d)) /\ ValueOf(d, own) \in Seq(LineVals(d))
          /\ L \in Seq(LineVals(d))
      BY TextsAre
    <3>4. T \in Seq(LineVals(d))
      <4>1. \A b, c \in Seq(LineVals(d)) : b \o c \in Seq(LineVals(d))  OBVIOUS
      <4>2. QED  BY <3>3, <4>1
    <3>5. FullText(d, x, own, a) = T \o L /\ FullText(d, x, own, a + 1) = T \o (L \o w)
      BY <3>1 DEF FullText
    <3> HIDE DEF T, L, w
    <3>6. \A b, c, e \in Seq(LineVals(d)) : (b \o c) \o e = b \o (c \o e)  BY JoinChain
    <3>7. (T \o L) \o w = T \o (L \o w)  BY <3>2, <3>3, <3>4, <3>6, Zenon
    <3>8. QED  BY <3>5, <3>7
  <2>8. ~(a + 1 <= x[1])  BY <1>1, <1>8
  <2> HIDE DEF m
  <2>9. MasterInv(d, x, a + 1, m)  BY <2>3, <2>6, <2>7, <2>8 DEF MasterInv
  <2>10. QED  BY <2>9 DEF m
<1>9. QED  BY <1>1, <1>6, <1>7, <1>8

(* The frame f of the argument a, and what of it is in the database.  An   *)
(* included file that is open stands at the line of f.                       *)
ReadRight(d, a, f, deep) ==
  /\ f.file = d.args[a] /\ f.line \in 1..Len(LinesOf(d, a)) + 1
  /\ f.dev = CompOf(LinesOf(d, a), f.line - 1)
  /\ deep => f.line \in 1..Len(LinesOf(d, a)) /\ LineAt(d, <<a, f.line>>).op = "include"
  /\ \A x \in Places(d) : DefinesAlone(d, x) => ReadInv(d, x, a, f.line, f.map)
Merges(d, a, t) == \A x \in Places(d) : DefinesAlone(d, x) => MasterInv(d, x, a, t)

LEMMA ArgLines ==
  ASSUME NEW d \in Projects, NEW a \in 1..Len(d.args)
  PROVE  /\ a \in Nat /\ Len(LinesOf(d, a)) \in Nat /\ DOMAIN LinesOf(d, a) = 1..Len(LinesOf(d, a))
         /\ d.args[a] \in DOMAIN d.text
         /\ \A n : n \in 1..Len(LinesOf(d, a)) <=> <<a, n>> \in Places(d)
         /\ \A n \in 1..Len(LinesOf(d, a)) : LineAt(d, <<a, n>>) = LinesOf(d, a)[n]
<1>1. d.args \in Seq(DOMAIN d.text)  BY ArgAssumption
<1>2. a \in Nat /\ d.args[a] \in DOMAIN d.text /\ DOMAIN d.args = 1..Len(d.args)  BY <1>1
<1> DEFINE lines == LinesOf(d, a)
<1>3. lines \in Seq(Range(lines))
  <2> DEFINE f == d.args[a]
  <2>1. f \in DOMAIN d.text  BY <1>2
  <2> HIDE DEF f
  <2>2. d.text[f] \in Seq(Range(d.text[f]))  BY <2>1, LineAssumption
  <2>3. QED  BY <2>2 DEF f, LinesOf
<1> HIDE DEF lines
<1>4. Len(lines) \in Nat /\ DOMAIN lines = 1..Len(lines)  BY <1>3
<1>5. \A n : n \in 1..Len(lines) <=> <<a, n>> \in Places(d)
  <2>1. ASSUME NEW n \in 1..Len(lines) PROVE <<a, n>> \in Places(d)  BY <1>2, <1>4 DEF Places, lines
  <2>2. ASSUME NEW n, <<a, n>> \in Places(d) PROVE n \in 1..Len(lines)
    <3> DEFINE x == <<a, n>>
    <3>1. x[1] = a /\ x[2] = n  OBVIOUS
    <3>2. x \in Places(d)  BY <2>2
    <3> HIDE DEF x
    <3>3. x[2] \in 1..Len(LinesOf(d, x[1]))  BY <3>2, PlaceIs
    <3>4. QED  BY <3>1, <3>3 DEF lines
  <2>3. QED  BY <2>1, <2>2
<1>6. \A n : LineAt(d, <<a, n>>) = lines[n]  BY DEF LineAt, lines
<1>7. QED  BY <1>2, <1>4, <1>5, <1>6 DEF lines

LEMMA ReadsStart ==
  ASSUME NEW d \in Projects, NEW a \in 1..Len(d.args)
  PROVE  ReadRight(d, a, Frame(d.args[a]), FALSE)
<1> DEFINE f == Frame(d.args[a])
<1>1. f.file = d.args[a] /\ f.line = 1 /\ f.dev = <<>> /\ f.map = Empty  BY DEF Frame
<1> HIDE DEF f
<1>2. a \in Nat /\ Len(LinesOf(d, a)) \in Nat  BY ArgLines
<1>3. 1 \in 1..Len(LinesOf(d, a)) + 1 /\ 1 - 1 = 0  BY <1>2
<1>4. CompOf(LinesOf(d, a), 0) = <<>>
  <2> DEFINE lines == LinesOf(d, a)
  <2>1. {j \in 1..0 : lines[j].op = "prefix"} = {}  OBVIOUS
  <2> HIDE DEF lines
  <2>2. CompOf(lines, 0) = <<>>  BY <2>1 DEF CompOf
  <2>3. QED  BY <2>2 DEF lines
<1>5. \A x \in Places(d) : ReadInv(d, x, a, 1, Empty)  BY ReadStart
<1>6. QED  BY <1>1, <1>3, <1>4, <1>5 DEF ReadRight, f

LEMMA ReadsLine ==
  ASSUME NEW d \in Projects, NEW a \in 1..Len(d.args), NEW f, NEW deep, ReadRight(d, a, f, deep), IsTable(f.map),
         NEW l, f.line \in 1..Len(LinesOf(d, a)), l = LinesOf(d, a)[f.line], l.op # "include",
         NEW g, g.file = f.file, g.line = f.line + 1, g.map = ReadOf(d, <<a, f.line>>, f.map),
         g.dev = IF l.op = "prefix" THEN <<Tag(l.val)>> ELSE f.dev
  PROVE  ReadRight(d, a, g, FALSE)
<1> DEFINE n == f.line
           y == <<a, n>>
<1>1. /\ f.file = d.args[a] /\ f.dev = CompOf(LinesOf(d, a), n - 1)
      /\ \A x \in Places(d) : DefinesAlone(d, x) => ReadInv(d, x, a, n, f.map)
  BY DEF ReadRight
<1>2. a \in Nat /\ Len(LinesOf(d, a)) \in Nat /\ y \in Places(d) /\ LineAt(d, y) = l  BY ArgLines
<1>3. n \in Nat \ {0} /\ n + 1 \in 1..Len(LinesOf(d, a)) + 1 /\ n + 1 - 1 = n  BY <1>2
<1>4. CompOf(LinesOf(d, a), n) = g.dev
  <2> DEFINE lines == LinesOf(d, a)
  <2> HIDE DEF lines, n
  <2>1. CompOf(lines, n) = IF lines[n].op = "prefix" THEN <<Tag(lines[n].val)>> ELSE CompOf(lines, n - 1)
    BY <1>3, CompNext
  <2>2. QED  BY <1>1, <2>1 DEF lines, n
<1>5. \A x \in Places(d) : DefinesAlone(d, x) => ReadInv(d, x, a, n + 1, ReadOf(d, y, f.map))
  <2> SUFFICES ASSUME NEW x \in Places(d), DefinesAlone(d, x)
               PROVE  ReadInv(d, x, a, n + 1, ReadOf(d, y, f.map))
    OBVIOUS
  <2> DEFINE t == f.map
  <2>1. IsTable(t) /\ ReadInv(d, x, a, n, t)  BY <1>1
  <2> HIDE DEF t, n
  <2>2. ReadInv(d, x, a, n + 1, ReadOf(d, y, t))  BY <1>2, <1>3, <2>1, ReadLine
  <2>3. QED  BY <2>2 DEF t
<1>6. QED  BY <1>1, <1>3, <1>4, <1>5 DEF ReadRight

LEMMA ReadsInclude ==
  ASSUME NEW d \in Projects, NEW a \in 1..Len(d.args), NEW f, ReadRight(d, a, f, TRUE), f.dev \in Path,
         NEW s, IsTable(s), NEW early,
         NEW g, g.file = f.file, g.line = f.line + 1, g.dev = f.dev,
         g.map = MergeMaps(JoinOf(f.map, Single(f.dev \o <<Plus>>, Map)), f.dev \o <<Plus>>, s, early)
  PROVE  ReadRight(d, a, g, FALSE)
<1> DEFINE n == f.line
           y == <<a, n>>
           t == f.map
           u == g.map
<1>1. /\ f.file = d.args[a] /\ f.dev = CompOf(LinesOf(d, a), n - 1)
      /\ n \in 1..Len(LinesOf(d, a)) /\ LineAt(d, y).op = "include"
      /\ \A x \in Places(d) : DefinesAlone(d, x) => ReadInv(d, x, a, n, t)
  BY DEF ReadRight
<1>2. a \in Nat /\ Len(LinesOf(d, a)) \in Nat /\ LineAt(d, y) = LinesOf(d, a)[n]  BY <1>1, ArgLines
<1>3. n \in Nat /\ n \in Nat \ {0} /\ n + 1 \in 1..Len(LinesOf(d, a)) + 1 /\ n + 1 - 1 = n  BY <1>1, <1>2
<1>4. CompOf(LinesOf(d, a), n) = g.dev
  <2> DEFINE lines == LinesOf(d, a)
  <2> HIDE DEF lines, n
  <2>1. CompOf(lines, n) = IF lines[n].op = "prefix" THEN <<Tag(lines[n].val)>> ELSE CompOf(lines, n - 1)
    BY <1>3, CompNext
  <2>2. lines[n].op = "include"  BY <1>1, <1>2 DEF lines
  <2>3. QED  BY <1>1, <2>1, <2>2 DEF lines
<1>5. ASSUME NEW x \in Places(d), DefinesAlone(d, x) PROVE ReadInv(d, x, a, n + 1, u)
  <2> DEFINE p == PathAt(d, x)
             dev == f.dev
  <2>1. LineAt(d, x).op = "="  BY <1>5 DEF DefinesAlone
  <2>2. IsKeyPath(p)  BY <2>1, PlaceKey
  <2>3. y # x /\ y \notin On(d, p, "+=")  BY <1>1, <2>1 DEF On
  <2>4. SameFor(t, u, p)
    <3>1. u = MergeMaps(JoinOf(t, Single(dev \o <<Plus>>, Map)), dev \o <<Plus>>, s, early)  OBVIOUS
    <3>2. dev \in Path  OBVIOUS
    <3> HIDE DEF p, t, u, dev
    <3>3. QED  BY <2>2, <3>1, <3>2, IncludeSame
  <2>5. ReadInv(d, x, a, n, t)  BY <1>1, <1>5
  <2> HIDE DEF n, t, u
  <2>6. QED  BY <1>2, <1>3, <2>3, <2>4, <2>5, ReadSame
<1>6. /\ g.file = d.args[a] /\ g.line \in 1..Len(LinesOf(d, a)) + 1
      /\ g.dev = CompOf(LinesOf(d, a), g.line - 1)
  BY <1>1, <1>3, <1>4
<1>7. \A x \in Places(d) : DefinesAlone(d, x) => ReadInv(d, x, a, g.line, g.map)  BY <1>5
<1>8. QED  BY <1>6, <1>7 DEF ReadRight

(* At each moment the database has, of each key that is defined once, what *)
(* the lines that are read say of it.                                      *)
TextInv ==
  /\ phase \in {"args", "parse"} => arg \in 1..Len(project.args) + 1 /\ Merges(project, arg, master)
  /\ phase = "parse" => arg \in 1..Len(project.args) /\ ReadRight(project, arg, stack[1], Len(stack) > 1)
  /\ phase \in {"flatten", "ints", "done"} =>
       Merges(project, Len(project.args) + 1, parsed) /\ Grows(parsed, master)

LEMMA TextInit == DbInit => TextInv
<1> SUFFICES ASSUME DbInit PROVE TextInv  OBVIOUS
<1>1. project \in Projects /\ phase = "args" /\ arg = 1 /\ master = Empty  BY DEF DbInit
<1>2. Len(project.args) \in Nat
  <2>1. project.args \in Seq(DOMAIN project.text)  BY <1>1, ArgAssumption
  <2>2. QED  BY <2>1
<1>3. arg \in 1..Len(project.args) + 1  BY <1>1, <1>2
<1>4. ASSUME NEW x \in Places(project) PROVE MasterInv(project, x, 1, Empty)
  <2>1. x[1] \in 1..Len(project.args)  BY <1>1, PlaceIs
  <2>2. 1 <= x[1]  BY <2>1, <1>2
  <2>3. DOMAIN Empty = {}  BY DEF Empty
  <2>4. QED  BY <2>2, <2>3 DEF MasterInv, Clear, IsLeaf
<1>5. QED  BY <1>1, <1>3, <1>4 DEF TextInv, Merges

(* The file of the argument is the first on the stack.                     *)
LEMMA FirstFrame ==
  ASSUME DbInv, TextInv, phase = "parse"
  PROVE  /\ project \in Projects /\ arg \in 1..Len(project.args)
         /\ stack \in Seq(Range(stack)) /\ stack # <<>> /\ Len(stack) \in Nat /\ Len(stack) > 0
         /\ ReadRight(project, arg, stack[1], Len(stack) > 1)
         /\ IsFrame(stack[1], project) /\ IsTable(stack[1].map) /\ stack[1].dev \in Path
         /\ Merges(project, arg, master)
         /\ Last(stack) = stack[Len(stack)] /\ IsFrame(Last(stack), project) /\ IsTable(Last(stack).map)
         /\ LinesOf(project, arg) = project.text[stack[1].file]
<1>1. /\ project \in Projects /\ stack \in Seq(Range(stack)) /\ stack # <<>>  BY DEF DbInv
<1>2. /\ Len(stack) \in Nat /\ Len(stack) > 0 /\ Last(stack) = stack[Len(stack)]
      /\ \A i \in 1..Len(stack) : IsFrame(stack[i], project)
  BY <1>1, StackTop
<1>3. 1 \in 1..Len(stack) /\ Len(stack) \in 1..Len(stack)  BY <1>2
<1>4. /\ arg \in 1..Len(project.args) /\ Merges(project, arg, master)
      /\ ReadRight(project, arg, stack[1], Len(stack) > 1)
  BY DEF TextInv
<1>5. IsFrame(stack[1], project) /\ IsFrame(Last(stack), project)  BY <1>2, <1>3
<1>6. stack[1].file = project.args[arg]  BY <1>4 DEF ReadRight
<1>7. LinesOf(project, arg) = project.text[stack[1].file]  BY <1>6 DEF LinesOf
<1>8. IsTable(stack[1].map) /\ stack[1].dev \in Path /\ IsTable(Last(stack).map)
  BY <1>5 DEF IsFrame, Opened
<1>9. QED  BY <1>1, <1>2, <1>4, <1>5, <1>7, <1>8

LEMMA TextLine ==
  ASSUME DbInv, TextInv, AtLine, Line.op # "include", NEW u, NEW dev, stack' = Update(stack, u, dev),
         dev = IF Line.op = "prefix" THEN <<Tag(Line.val)>> ELSE Last(stack).dev,
         Len(stack) = 1 => u = ReadOf(project, <<arg, stack[1].line>>, stack[1].map),
         UNCHANGED <<project, phase, arg, master, parsed>>
  PROVE  TextInv'
<1>1. phase = "parse"  BY DEF AtLine
<1>2. /\ project \in Projects /\ arg \in 1..Len(project.args)
      /\ stack \in Seq(Range(stack)) /\ stack # <<>> /\ Len(stack) \in Nat /\ Len(stack) > 0
      /\ ReadRight(project, arg, stack[1], Len(stack) > 1)
      /\ IsTable(stack[1].map) /\ Last(stack) = stack[Len(stack)] /\ IsFrame(Last(stack), project)
      /\ LinesOf(project, arg) = project.text[stack[1].file]
  BY <1>1, FirstFrame
<1>3. /\ Len(stack') = Len(stack)
      /\ \A i \in 1..Len(stack) - 1 : stack'[i] = stack[i]
      /\ stack'[Len(stack)].file = Last(stack).file
      /\ stack'[Len(stack)].line = Last(stack).line + 1
      /\ stack'[Len(stack)].map = u
      /\ stack'[Len(stack)].dev = dev
  BY <1>2, UpdateIs
<1>4. ReadRight(project, arg, stack'[1], Len(stack) > 1)
  <2>1. CASE Len(stack) = 1
    <3> DEFINE f == stack[1]  g == stack'[1]  l == Line
    <3>1. Last(stack) = f  BY <1>2, <2>1
    <3>2. /\ g.file = f.file /\ g.line = f.line + 1 /\ g.map = ReadOf(project, <<arg, f.line>>, f.map)
          /\ g.dev = IF l.op = "prefix" THEN <<Tag(l.val)>> ELSE f.dev
      BY <1>3, <2>1, <3>1
    <3>3. f.line \in DOMAIN LinesOf(project, arg) /\ l = LinesOf(project, arg)[f.line]
      BY <1>2, <3>1 DEF AtLine, Line
    <3>4. f.line \in 1..Len(LinesOf(project, arg))  BY <1>2, <3>3, ArgLines
    <3>5. ReadRight(project, arg, f, Len(stack) > 1) /\ IsTable(f.map) /\ l.op # "include"  BY <1>2
    <3> HIDE DEF f, g, l
    <3>6. ReadRight(project, arg, g, FALSE)  BY <1>2, <3>2, <3>3, <3>4, <3>5, ReadsLine
    <3>7. QED  BY <3>6, <2>1 DEF ReadRight, g
  <2>2. CASE Len(stack) # 1
    <3>1. 1 \in 1..Len(stack) - 1  BY <1>2, <2>2
    <3>2. QED  BY <1>2, <1>3, <3>1
  <2>3. QED  BY <2>1, <2>2
<1>5. QED  BY <1>1, <1>2, <1>3, <1>4 DEF TextInv

LEMMA TextEndInclude ==
  ASSUME DbInv, TextInv, EndInclude
  PROVE  TextInv'
<1> DEFINE rest == Front(stack)
           below == Last(rest)
           spot == below.dev \o <<Plus>>
           s == Last(stack).map
           t == below.map ++ Single(spot, Map)
<1>1. PICK early : /\ phase = "parse" /\ Len(stack) > 1
                   /\ stack' = Update(rest, MergeMaps(t, spot, s, early), below.dev)
                   /\ UNCHANGED <<project, phase, arg, master, parsed>>
  BY DEF EndInclude, EndOfFile
<1>2. /\ project \in Projects /\ arg \in 1..Len(project.args)
      /\ stack \in Seq(Range(stack)) /\ stack # <<>> /\ Len(stack) \in Nat
      /\ ReadRight(project, arg, stack[1], Len(stack) > 1)
      /\ stack[1].dev \in Path /\ IsTable(s) /\ Merges(project, arg, master)
  BY <1>1, FirstFrame
<1>3. /\ rest \in Seq(Range(stack)) /\ Len(rest) = Len(stack) - 1
      /\ \A i \in 1..Len(rest) : rest[i] = stack[i] /\ i \in 1..Len(stack)
  BY <1>2, FrontIs
<1>4. t = JoinOf(below.map, Single(spot, Map))  BY DEF JoinOf
<1> DEFINE m == MergeMaps(t, spot, s, early)
<1> HIDE DEF rest, t, s
<1>5. rest # <<>> /\ Len(rest) \in 1..Len(rest) /\ 1 \in 1..Len(rest) /\ below = rest[Len(rest)]
  <2>1. Len(rest) \in Nat /\ Len(rest) > 0  BY <1>1, <1>2, <1>3
  <2>2. QED  BY <2>1 DEF Last
<1>6. IsFrame(below, project)
  <2>1. \A i \in 1..Len(stack) : IsFrame(stack[i], project)  BY <1>2, StackTop
  <2>2. QED  BY <2>1, <1>3, <1>5
<1> HIDE DEF m, below, spot
<1>7. stack' = Update(rest, m, below.dev)  BY <1>1 DEF m
<1>8. /\ Len(stack') = Len(rest)
      /\ \A i \in 1..Len(rest) - 1 : stack'[i] = rest[i]
      /\ stack'[Len(rest)].file = below.file /\ stack'[Len(rest)].line = below.line + 1
      /\ stack'[Len(rest)].map = m /\ stack'[Len(rest)].dev = below.dev
  BY <1>3, <1>5, <1>6, <1>7, UpdateIs DEF below
<1>9. ReadRight(project, arg, stack'[1], Len(stack') > 1)
  <2>1. CASE Len(rest) = 1
    <3> DEFINE f == stack[1]  g == stack'[1]
    <3>1. below = f  BY <1>3, <1>5, <2>1
    <3>2. /\ g.file = f.file /\ g.line = f.line + 1 /\ g.dev = f.dev
          /\ g.map = MergeMaps(JoinOf(f.map, Single(f.dev \o <<Plus>>, Map)), f.dev \o <<Plus>>, s, early)
      BY <1>4, <1>8, <2>1, <3>1 DEF m, spot
    <3>3. ReadRight(project, arg, f, TRUE) /\ f.dev \in Path  BY <1>1, <1>2 DEF ReadRight
    <3> HIDE DEF f, g
    <3>4. ReadRight(project, arg, g, FALSE)  BY <1>2, <3>2, <3>3, ReadsInclude
    <3>5. ~(Len(stack') > 1)  BY <1>8, <2>1
    <3>6. QED  BY <3>4, <3>5 DEF ReadRight, g
  <2>2. CASE Len(rest) # 1
    <3>1. 1 \in 1..Len(rest) - 1 /\ 1 \in 1..Len(rest)  BY <1>2, <1>3, <1>5, <2>2
    <3>2. stack'[1] = stack[1]  BY <1>3, <1>8, <3>1
    <3>3. ReadRight(project, arg, stack[1], TRUE)  BY <1>1, <1>2 DEF ReadRight
    <3>4. QED  BY <3>2, <3>3 DEF ReadRight
  <2>3. QED  BY <2>1, <2>2
<1>10. QED  BY <1>1, <1>2, <1>9 DEF TextInv

LEMMA TextEndArg ==
  ASSUME DbInv, TextInv, EndArg
  PROVE  TextInv'
<1> DEFINE s == stack[1].map
<1>1. PICK early : /\ EndOfFile /\ Len(stack) = 1 /\ master' = MergeMaps(master, <<>>, s, early)
                   /\ arg' = arg + 1 /\ phase' = "args" /\ project' = project
  BY DEF EndArg
<1>2. phase = "parse"  BY <1>1 DEF EndOfFile
<1>3. /\ project \in Projects /\ arg \in 1..Len(project.args)
      /\ ReadRight(project, arg, stack[1], Len(stack) > 1)
      /\ IsTable(s) /\ Merges(project, arg, master) /\ Last(stack) = stack[Len(stack)]
      /\ LinesOf(project, arg) = project.text[stack[1].file]
  BY <1>2, FirstFrame
<1>4. IsTable(master)  BY DEF DbInv
<1> DEFINE n == Len(LinesOf(project, arg)) + 1
<1>5. /\ arg \in Nat /\ Len(LinesOf(project, arg)) \in Nat
      /\ DOMAIN LinesOf(project, arg) = 1..Len(LinesOf(project, arg))
  BY <1>3, ArgLines
<1>6. stack[1].line = n
  <2>1. stack[1].line \notin 1..Len(LinesOf(project, arg))  BY <1>1, <1>3, <1>5 DEF EndOfFile
  <2>2. stack[1].line \in 1..n  BY <1>3 DEF ReadRight
  <2>3. QED  BY <2>1, <2>2, <1>5
<1>7. \A x \in Places(project) : DefinesAlone(project, x) => ReadInv(project, x, arg, n, s)
  <2>1. \A x \in Places(project) : DefinesAlone(project, x) => ReadInv(project, x, arg, stack[1].line, s)
    BY <1>3 DEF ReadRight
  <2>2. QED  BY <2>1, <1>6
<1> HIDE DEF s
<1>8. \A x \in Places(project) : DefinesAlone(project, x) => MasterInv(project, x, arg + 1, master')
  <2> SUFFICES ASSUME NEW x \in Places(project), DefinesAlone(project, x)
               PROVE  MasterInv(project, x, arg + 1, master')
    OBVIOUS
  <2>1. ReadInv(project, x, arg, Len(LinesOf(project, arg)) + 1, s)  BY <1>7
  <2>2. MasterInv(project, x, arg, master)  BY <1>3 DEF Merges
  <2>3. MasterInv(project, x, arg + 1, MergeMaps(master, <<>>, s, early))
    BY <1>3, <1>4, <1>5, <2>1, <2>2, MasterArg
  <2>4. QED  BY <2>3, <1>1
<1>9. arg + 1 \in 1..Len(project.args) + 1
  <2>1. project.args \in Seq(DOMAIN project.text)  BY <1>3, ArgAssumption
  <2>2. Len(project.args) \in Nat  BY <2>1
  <2>3. QED  BY <2>2, <1>3
<1>10. QED  BY <1>1, <1>8, <1>9 DEF TextInv, Merges

(* What comes after the parser takes nothing away.                         *)
LEMMA LaterGrows ==
  ASSUME DbInv, FlattenPlus \/ FlattenGlobal \/ ConvertInts, phase' # "abort"
  PROVE  Grows(master, master') /\ project' = project /\ parsed' = parsed
         /\ phase' = phase /\ phase \in {"flatten", "ints"}
<1>0. IsTable(master) /\ left \subseteq DOMAIN master  BY DEF DbInv
<1>1. CASE FlattenPlus
  <2>1. PICK p \in left :
          /\ phase = "flatten" /\ phase' = phase /\ Last(p) = Plus /\ project' = project /\ parsed' = parsed
          /\ \E child \in Children(master, p) :
               master' = Inherit(master, Front(p), IF IsMap(master, child) THEN child ELSE p)
    BY <1>1 DEF FlattenPlus
  <2>2. PICK child \in Children(master, p) :
          master' = Inherit(master, Front(p), IF IsMap(master, child) THEN child ELSE p)
    BY <2>1
  <2>3. p \in DOMAIN master  BY <1>0
  <2> DEFINE node == Front(p)  sub == IF IsMap(master, child) THEN child ELSE p
  <2>4. sub \in Path  BY <1>0, <2>1, <2>3, TableOfPlus
  <2>5. node \in Path  BY <1>0, <2>3, FrontOpened DEF Opened
  <2>6. master' = Inherit(master, node, sub)  BY <2>2
  <2> HIDE DEF node, sub
  <2>7. Grows(master, Inherit(master, node, sub))  BY <1>0, <2>4, <2>5, InheritGrows
  <2>8. QED  BY <2>1, <2>6, <2>7
<1>2. CASE FlattenGlobal
  <2>1. PICK p \in left :
          /\ phase = "flatten" /\ phase' = phase /\ project' = project /\ parsed' = parsed
          /\ master' = master ++ Single(<<Tag(Last(p)[2])>>, master[p])
    BY <1>2 DEF FlattenGlobal
  <2> DEFINE one == Single(<<Tag(Last(p)[2])>>, master[p])
  <2>2. master' = JoinOf(master, one)  BY <2>1 DEF JoinOf
  <2> HIDE DEF one
  <2>3. /\ DOMAIN JoinOf(master, one) = DOMAIN master \cup DOMAIN one
        /\ \A r \in DOMAIN master : JoinOf(master, one)[r] = master[r]
    BY JoinIs
  <2>4. Grows(master, JoinOf(master, one))  BY <2>3 DEF Grows
  <2>5. QED  BY <2>1, <2>2, <2>4
<1>3. CASE ConvertInts
  <2> DEFINE u == [p \in DOMAIN master |->
                     IF master[p].typ = "str" /\ IsInt(p, project.ints[arg])
                       THEN [master[p] EXCEPT !.typ = "int"] ELSE master[p]]
  <2>1. /\ phase = "ints" /\ master' = u /\ phase' = phase /\ project' = project /\ parsed' = parsed
    BY <1>3 DEF ConvertInts
  <2>2. DOMAIN u = DOMAIN master
        /\ \A p \in DOMAIN master :
             u[p] = master[p] \/ (master[p].typ = "str" /\ u[p] = [master[p] EXCEPT !.typ = "int"])
    OBVIOUS
  <2>3. \A v \in Value : [v EXCEPT !.typ = "int"].val = v.val /\ [v EXCEPT !.typ = "int"].typ = "int"
    BY DEF Value
  <2>4. \A p \in DOMAIN master : master[p] \in Value  BY <1>0, TableIs DEF Fits
  <2> HIDE DEF u
  <2>5. ASSUME NEW p \in DOMAIN master
        PROVE  u[p].val = master[p].val /\ (u[p].typ = "map" <=> master[p].typ = "map")
    <3>1. CASE u[p] = master[p]  BY <3>1
    <3>2. CASE master[p].typ = "str" /\ u[p] = [master[p] EXCEPT !.typ = "int"]
      BY <3>2, <2>3, <2>4
    <3>3. QED  BY <3>1, <3>2, <2>2
  <2>6. Grows(master, u)  BY <2>2, <2>5 DEF Grows
  <2>7. QED  BY <2>1, <2>6
<1>4. QED  BY <1>1, <1>2, <1>3

LEMMA TextNext == DbInv /\ TextInv /\ [DbNext]_dbvars => TextInv'
<1> SUFFICES ASSUME DbInv, TextInv, [DbNext]_dbvars PROVE TextInv'  OBVIOUS
<1>0. project \in Projects  BY DEF DbInv
<1>1. CASE OpenArg
  <2> DEFINE fr == Frame(project.args[arg])
  <2>1. /\ phase = "args" /\ arg \in DOMAIN project.args /\ stack' = <<fr>> /\ phase' = "parse"
        /\ project' = project /\ arg' = arg /\ master' = master
    BY <1>1 DEF OpenArg
  <2>2. arg \in 1..Len(project.args)
    <3>1. project.args \in Seq(DOMAIN project.text)  BY <1>0, ArgAssumption
    <3>2. QED  BY <3>1, <2>1
  <2>3. ReadRight(project, arg, fr, FALSE)  BY <1>0, <2>2, ReadsStart
  <2> HIDE DEF fr
  <2>4. stack'[1] = fr /\ ~(Len(stack') > 1)  BY <2>1
  <2>5. ReadRight(project, arg, stack'[1], Len(stack') > 1)  BY <2>3, <2>4 DEF ReadRight
  <2>6. QED  BY <2>1, <2>2, <2>5 DEF TextInv
<1>2. CASE NameConflict
  <2>1. phase' = "abort"  BY <1>2 DEF NameConflict
  <2>2. QED  BY <2>1 DEF TextInv
<1>3. CASE ReadPrefix
  <2> DEFINE c == <<Tag(Line.val)>>
             t == Last(stack).map
             u == t ++ Single(c, Map) ++ Single(c \o <<Prefix>>, Str(<<Line.val>>))
             y == <<arg, stack[1].line>>
  <2>1. /\ AtLine /\ Line.op = "prefix" /\ stack' = Update(stack, u, c)
        /\ UNCHANGED <<project, phase, arg, master, parsed>>
    BY <1>3 DEF ReadPrefix
  <2>2. u = JoinOf(JoinOf(t, Single(c, Map)), Single(c \o <<Prefix>>, Str(<<Line.val>>)))  BY DEF JoinOf
  <2>3. phase = "parse"  BY <2>1 DEF AtLine
  <2>4. /\ Last(stack) = stack[Len(stack)]
        /\ LinesOf(project, arg) = project.text[stack[1].file]
    BY <2>3, FirstFrame
  <2>5. y[1] = arg /\ y[2] = stack[1].line  OBVIOUS
  <2> HIDE DEF u, y
  <2>6. Len(stack) = 1 => u = ReadOf(project, y, stack[1].map)
    <3> SUFFICES ASSUME Len(stack) = 1 PROVE u = ReadOf(project, y, stack[1].map)  OBVIOUS
    <3>1. Last(stack) = stack[1]  BY <2>4
    <3>2. LineAt(project, y) = Line  BY <2>4, <2>5, <3>1 DEF LineAt, Line
    <3>3. QED  BY <2>1, <2>2, <3>1, <3>2 DEF ReadOf
  <2> HIDE DEF c, t
  <2>7. c = IF Line.op = "prefix" THEN <<Tag(Line.val)>> ELSE Last(stack).dev  BY <2>1 DEF c
  <2>8. Line.op # "include"  BY <2>1
  <2>9. QED  BY <2>1, <2>6, <2>7, <2>8, TextLine DEF y
<1>4. CASE ReadKey
  <2> DEFINE top == Last(stack)
             u == IF Line.op = "=" THEN AddToMap(top.map, top.dev, Line.key, Line.val)
                  ELSE AppendToMap(top.map, top.dev, Line.key, Line.val)
             y == <<arg, stack[1].line>>
             dev == top.dev
  <2>1. /\ AtLine /\ Line.op \in {"=", "+="} /\ stack' = Update(stack, u, dev)
        /\ UNCHANGED <<project, phase, arg, master, parsed>>
    BY <1>4 DEF ReadKey
  <2>2. phase = "parse"  BY <2>1 DEF AtLine
  <2>3. /\ Last(stack) = stack[Len(stack)]
        /\ LinesOf(project, arg) = project.text[stack[1].file]
        /\ ReadRight(project, arg, stack[1], Len(stack) > 1)
    BY <2>2, FirstFrame
  <2>4. stack[1].dev = CompOf(LinesOf(project, arg), stack[1].line - 1)  BY <2>3 DEF ReadRight
  <2>5. y[1] = arg /\ y[2] = stack[1].line  OBVIOUS
  <2> HIDE DEF u, y, dev
  <2>6. Len(stack) = 1 => u = ReadOf(project, y, stack[1].map)
    <3> SUFFICES ASSUME Len(stack) = 1 PROVE u = ReadOf(project, y, stack[1].map)  OBVIOUS
    <3>1. Last(stack) = stack[1]  BY <2>3
    <3>2. LineAt(project, y) = Line  BY <2>3, <2>5, <3>1 DEF LineAt, Line
    <3>3. u = IF Line.op = "=" THEN AddToMap(stack[1].map, stack[1].dev, Line.key, Line.val)
              ELSE AppendToMap(stack[1].map, stack[1].dev, Line.key, Line.val)
      BY <3>1 DEF u
    <3>4. Line.op # "prefix"  BY <2>1
    <3>5. QED  BY <2>4, <2>5, <3>2, <3>3, <3>4 DEF ReadOf
  <2>7. dev = IF Line.op = "prefix" THEN <<Tag(Line.val)>> ELSE Last(stack).dev  BY <2>1 DEF dev
  <2>8. Line.op # "include"  BY <2>1
  <2>9. QED  BY <2>1, <2>6, <2>7, <2>8, TextLine DEF y
<1>5. CASE ReadInclude
  <2> DEFINE fr == Frame(Line.val)
  <2>1. /\ AtLine /\ Line.op = "include" /\ stack' = Append(stack, fr)
        /\ UNCHANGED <<project, phase, arg, master, parsed>>
    BY <1>5 DEF ReadInclude
  <2>2. phase = "parse"  BY <2>1 DEF AtLine
  <2>3. /\ arg \in 1..Len(project.args) /\ stack \in Seq(Range(stack)) /\ Len(stack) \in Nat /\ Len(stack) > 0
        /\ Last(stack) = stack[Len(stack)]
        /\ LinesOf(project, arg) = project.text[stack[1].file]
        /\ ReadRight(project, arg, stack[1], Len(stack) > 1) /\ Merges(project, arg, master)
    BY <2>2, FirstFrame
  <2> HIDE DEF fr
  <2>4. stack'[1] = stack[1] /\ Len(stack') > 1
    <3>1. stack \in Seq(Range(stack) \cup {fr})  BY <2>3, SeqMonotonic
    <3>2. Len(stack') = Len(stack) + 1 /\ \A i \in 1..Len(stack) : stack'[i] = stack[i]  BY <2>1, <3>1
    <3>3. QED  BY <2>3, <3>2
  <2>5. ReadRight(project, arg, stack[1], TRUE)
    <3>1. CASE Len(stack) = 1
      <4> DEFINE f == stack[1]
      <4>1. Last(stack) = f  BY <2>3, <3>1
      <4>2. f.line \in DOMAIN LinesOf(project, arg) /\ LinesOf(project, arg)[f.line].op = "include"
        BY <2>1, <2>3, <4>1 DEF AtLine, Line
      <4>3. f.line \in 1..Len(LinesOf(project, arg)) /\ LineAt(project, <<arg, f.line>>).op = "include"
        BY <1>0, <2>3, <4>2, ArgLines
      <4>4. QED  BY <2>3, <4>3 DEF ReadRight
    <3>2. CASE Len(stack) # 1
      <4>0. Len(stack) \in Nat /\ Len(stack) > 0  BY <2>3
      <4>1. \A i \in Nat : i > 0 /\ i # 1 => i > 1  OBVIOUS
      <4>2. Len(stack) > 1  BY <4>0, <4>1, <3>2
      <4>3. QED  BY <2>3, <4>2 DEF ReadRight
    <3>3. QED  BY <3>1, <3>2
  <2>6. ReadRight(project, arg, stack'[1], Len(stack') > 1)  BY <2>4, <2>5 DEF ReadRight
  <2>7. QED  BY <2>1, <2>2, <2>3, <2>6 DEF TextInv
<1>6. CASE EndInclude  BY <1>6, TextEndInclude
<1>7. CASE EndArg  BY <1>7, TextEndArg
<1>8. CASE StartFlatten
  <2>1. /\ phase = "args" /\ arg \notin DOMAIN project.args /\ parsed' = master /\ master' = master
        /\ phase' = "flatten" /\ project' = project
    BY <1>8 DEF StartFlatten
  <2>2. arg \in 1..Len(project.args) + 1 /\ Merges(project, arg, master)  BY <2>1 DEF TextInv
  <2>3. arg = Len(project.args) + 1
    <3>1. project.args \in Seq(DOMAIN project.text)  BY <1>0, ArgAssumption
    <3>2. Len(project.args) \in Nat /\ DOMAIN project.args = 1..Len(project.args)  BY <3>1
    <3>3. QED  BY <2>1, <2>2, <3>2
  <2>4. Grows(master, master)  BY DEF Grows
  <2>5. QED  BY <2>1, <2>2, <2>3, <2>4 DEF TextInv
<1>9. CASE FlattenPlus \/ FlattenGlobal \/ ConvertInts
  <2>1. CASE phase' = "abort"  BY <2>1 DEF TextInv
  <2>2. CASE phase' # "abort"
    <3>1. /\ Grows(master, master') /\ project' = project /\ parsed' = parsed
          /\ phase' = phase /\ phase \in {"flatten", "ints"}
      BY <1>9, <2>2, LaterGrows
    <3>2. Merges(project, Len(project.args) + 1, parsed) /\ Grows(parsed, master)  BY <3>1 DEF TextInv
    <3>3. Grows(parsed, master')  BY <3>1, <3>2, GrowsChain
    <3>4. QED  BY <3>1, <3>2, <3>3 DEF TextInv
  <2>3. QED  BY <2>1, <2>2
<1>10. CASE EndFlatten \/ Done
  <2>1. /\ phase \in {"flatten", "ints"} /\ phase' \in {"ints", "done"} /\ project' = project
        /\ master' = master /\ parsed' = parsed
    BY <1>10 DEF EndFlatten, Done
  <2>2. QED  BY <2>1 DEF TextInv
<1>11. CASE UNCHANGED dbvars  BY <1>11 DEF dbvars, TextInv
<1>12. QED
  BY <1>1, <1>2, <1>3, <1>4, <1>5, <1>6, <1>7, <1>8, <1>9, <1>10, <1>11 DEF DbNext

(* The lines that append to the key of x, in its own file and in the later *)
(* ones.                                                                   *)
LEMMA AppendsAre ==
  ASSUME NEW d \in Projects, NEW x \in Places(d), x \notin On(d, PathAt(d, x), "+=")
  PROVE  LET p == PathAt(d, x)
             appends == On(d, p, "+=")
             beside == {y \in appends : y[1] = x[1]}
             before == {y \in beside : Before(y, x)}
             later == {y \in appends : x[1] < y[1]}
         IN  /\ before = Own(d, x)
             /\ beside \ before = Stretch(d, p, x[1], x[2], Len(LinesOf(d, x[1])) + 1)
             /\ later = Later(d, p, x, Len(d.args) + 1)
<1> DEFINE p == PathAt(d, x)
           appends == On(d, p, "+=")
           beside == {y \in appends : y[1] = x[1]}
           before == {y \in beside : Before(y, x)}
           later == {y \in appends : x[1] < y[1]}
           n == Len(LinesOf(d, x[1])) + 1
<1>1. x \in Pairs /\ x[1] \in Nat /\ x[2] \in Nat  BY PlacesFinite DEF Pairs
<1>2. ASSUME NEW y \in appends
      PROVE  /\ y \in Pairs /\ y # x /\ y[1] \in Nat /\ y[2] \in Nat /\ 0 < y[2]
             /\ y[1] < Len(d.args) + 1 /\ (y[1] = x[1] => y[2] < n)
  <2>1. y \in Places(d) /\ y # x  BY DEF On
  <2>2. /\ y \in Pairs /\ y[1] \in 1..Len(d.args) /\ Len(d.args) \in Nat
        /\ y[2] \in 1..Len(LinesOf(d, y[1])) /\ Len(LinesOf(d, y[1])) \in Nat
    BY <2>1, PlaceIs
  <2>3. y[1] \in Nat /\ y[1] < Len(d.args) + 1  BY <2>2
  <2>4. y[2] \in Nat /\ 0 < y[2] /\ y[2] < Len(LinesOf(d, y[1])) + 1  BY <2>2
  <2>5. QED  BY <2>1, <2>2, <2>3, <2>4
<1>3. \A y \in appends : Before(y, x) /\ y[1] = x[1] <=> y[1] = x[1] /\ 0 < y[2] /\ y[2] < x[2]
  BY <1>1, <1>2 DEF Before
<1>4. \A y \in appends : ~Before(y, x) /\ y[1] = x[1] <=> y[1] = x[1] /\ x[2] < y[2] /\ y[2] < n
  <2> SUFFICES ASSUME NEW y \in appends
               PROVE  ~Before(y, x) /\ y[1] = x[1] <=> y[1] = x[1] /\ x[2] < y[2] /\ y[2] < n
    OBVIOUS
  <2>1. ~Before(y, x) <=> Before(x, y)  BY <1>1, <1>2, BeforeOrder
  <2>2. QED  BY <1>2, <2>1 DEF Before
<1> HIDE DEF p, n
<1>5. before = Own(d, x)
  <2>1. before = Stretch(d, p, x[1], 0, x[2])  BY <1>3 DEF Stretch
  <2>2. QED  BY <2>1 DEF Own, p
<1>6. beside \ before = Stretch(d, p, x[1], x[2], n)  BY <1>4 DEF Stretch
<1>7. later = Later(d, p, x, Len(d.args) + 1)  BY <1>2 DEF Later
<1>8. QED  BY <1>5, <1>6, <1>7 DEF p, n

LEMMA TextInvRight == DbInv /\ TextInv => AppendedInOrder
<1> SUFFICES ASSUME DbInv, TextInv, phase = "done",
                    NEW x \in Places(project), DefinesAlone(project, x)
             PROVE  LET p == PathAt(project, x)
                        appends == On(project, p, "+=")
                        beside == {y \in appends : y[1] = x[1]}
                        before == {y \in beside : Before(y, x)}
                        later == {y \in appends : x[1] < y[1]}
                    IN  /\ p \in DOMAIN master
                        /\ \E own \in {{}, before} :
                             master[p].val = <<LineAt(project, x).val>> \o ValueOf(project, beside \ before)
                                               \o ValueOf(project, own) \o ValueOf(project, later)
  BY DEF AppendedInOrder
<1> DEFINE d == project
           p == PathAt(d, x)
           appends == On(d, p, "+=")
           beside == {y \in appends : y[1] = x[1]}
           before == {y \in beside : Before(y, x)}
           later == {y \in appends : x[1] < y[1]}
           n == Len(d.args) + 1
<1>0. d \in Projects  BY DEF DbInv
<1>1. MasterInv(d, x, n, parsed) /\ Grows(parsed, master)  BY DEF TextInv, Merges
<1>2. ~(n <= x[1])
  <2>1. x[1] \in 1..Len(d.args) /\ Len(d.args) \in Nat  BY <1>0, PlaceIs
  <2>2. QED  BY <2>1
<1>3. PICK own \in {{}, Own(d, x)} : IsLeaf(parsed, p) /\ parsed[p].val = FullText(d, x, own, n)
  BY <1>1, <1>2 DEF MasterInv
<1>4. p \in DOMAIN master /\ master[p].val = FullText(d, x, own, n)  BY <1>1, <1>3 DEF IsLeaf, Grows
<1>5. x \notin appends  BY DEF DefinesAlone, On
<1>6. /\ before = Own(d, x) /\ later = Later(d, p, x, n)
      /\ beside \ before = Stretch(d, p, x[1], x[2], Len(LinesOf(d, x[1])) + 1)
  BY <1>0, <1>5, AppendsAre
<1>7. FullText(d, x, own, n)
        = <<LineAt(d, x).val>> \o ValueOf(d, beside \ before) \o ValueOf(d, own) \o ValueOf(d, later)
  <2> HIDE DEF beside, before, later, n
  <2>1. QED  BY <1>6 DEF FullText, OwnText
<1>8. own \in {{}, before}  BY <1>3, <1>6
<1> HIDE DEF beside, before, later, n
<1>9. \E o \in {{}, before} :
        master[p].val = <<LineAt(d, x).val>> \o ValueOf(d, beside \ before)
                          \o ValueOf(d, o) \o ValueOf(d, later)
  BY <1>4, <1>7, <1>8
<1>10. QED  BY <1>4, <1>9 DEF beside, before, later

(* A key that one line of the configuration defines, and that is no table, *)
(* has in the database the text of this line followed by that of all lines *)
(* that append to it after that, in the order in which these are read.     *)
THEOREM AppendedRight == DbSpec /\ []AppendsBelowMaps => []AppendedInOrder
<1>1. DbInit => DbInv /\ TextInv  BY DbInvInit, TextInit
<1>2. DbInv /\ TextInv /\ AppendsBelowMaps /\ [DbNext]_dbvars => DbInv' /\ TextInv'
  BY DbInvNext, TextNext
<1>3. DbInv /\ TextInv => AppendedInOrder  BY TextInvRight
<1>4. QED  BY <1>1, <1>2, <1>3, PTL DEF DbSpec
=============================================================================
