-------------------------- MODULE AccessDepsProofs --------------------------
(* Proofs about the `define lines of a design, for every design and        *)
(* whatever the user comments out: what the Verilog preprocessor makes of  *)
(* them is what the tags of the components call for.                       *)
EXTENDS AccessDeps, Lemmas

(* What Preprocess() knows after each block.                               *)
IsRun(on, blocks, off) ==
  /\ on \in [0..Len(blocks) -> SUBSET Macro]
  /\ on[0] = {}
  /\ \A n \in 1..Len(blocks) :
       on[n] = IF Holds(blocks[n].guards, on[n - 1])
                 THEN on[n - 1] \cup (ToSet(blocks[n].macros) \ off)
                 ELSE on[n - 1]

LEMMA BlockType ==
  ASSUME NEW blocks \in Seq(Block), NEW n \in 1..Len(blocks)
  PROVE  /\ blocks[n].guards \in Seq(Literal) /\ blocks[n].macros \in Seq(Macro)
         /\ ToSet(blocks[n].macros) \subseteq Macro
<1>1. blocks[n] \in Block  BY ElementOfSeq
<1>2. blocks[n].guards \in Seq(Literal) /\ blocks[n].macros \in Seq(Macro)
  BY <1>1 DEF Block
<1>3. ToSet(blocks[n].macros) \subseteq Macro
  <2>1. PICK q \in Seq(Macro) : q = blocks[n].macros  BY <1>2
  <2>2. \A i \in DOMAIN q : q[i] \in Macro  BY <2>1, LenProperties, ElementOfSeq
  <2>3. QED  BY <2>1, <2>2 DEF ToSet
<1>4. QED  BY <1>2, <1>3

LEMMA PreprocessRuns ==
  ASSUME NEW blocks \in Seq(Block), NEW off
  PROVE  \E on : IsRun(on, blocks, off) /\ Preprocess(blocks, off) = on[Len(blocks)]
<1> DEFINE N == Len(blocks)
           X == SUBSET Macro
           next(n, on) == IF Holds(blocks[n].guards, on)
                            THEN on \cup (ToSet(blocks[n].macros) \ off) ELSE on
           G == [p \in (1..N) \X X |-> next(p[1], p[2])]
           P(f) == f = [n \in 0..N |->
                          IF n = 0 THEN {}
                          ELSE IF Holds(blocks[n].guards, f[n - 1])
                            THEN f[n - 1] \cup (ToSet(blocks[n].macros) \ off)
                            ELSE f[n - 1]]
           h == CHOOSE f : P(f)
<1>1. N \in Nat  BY LenProperties
<1>2. \A n \in 1..N : ToSet(blocks[n].macros) \subseteq Macro  BY BlockType
<1>3. G \in Steps(N, X)  BY <1>2 DEF Steps
<1>4. \A n \in 1..N, on \in X : G[<<n, on>>] = next(n, on)  OBVIOUS
<1>5. {} \in X  OBVIOUS
<1>6. PICK f \in [0..N -> X] : f[0] = {} /\ \A n \in 1..N : f[n] = G[<<n, f[n - 1]>>]
  <2> HIDE DEF N, X, G
  <2>1. \E b \in X : b = {}  BY <1>5
  <2>2. PICK b \in X : b = {}  BY <2>1
  <2>3. PICK f : IsRecursion(f, N, X, b, G)  BY <1>1, <1>3, RecursionExists
  <2>4. QED  BY <2>2, <2>3 DEF IsRecursion
<1>7. \A n \in 1..N : n - 1 \in 0..N /\ f[n - 1] \in X  BY <1>1, <1>6
<1>8. \A n \in 1..N : f[n] = next(n, f[n - 1])  BY <1>4, <1>6, <1>7
<1>9. P(f)
  <2>1. \A n \in 0..N : n # 0 => n \in 1..N  BY <1>1
  <2>2. f = [n \in 0..N |-> f[n]]  BY <1>6
  <2>3. \A n \in 0..N : f[n] = IF n = 0 THEN {} ELSE next(n, f[n - 1])
    BY <2>1, <1>6, <1>8
  <2>4. QED  BY <2>2, <2>3
<1>10. Preprocess(blocks, off) = h[N]  BY DEF Preprocess
<1>11. P(h)
  <2> HIDE DEF P
  <2>1. QED  BY <1>9
<1>12. DOMAIN h = 0..N /\ h[0] = {} /\ \A n \in 1..N : h[n] = next(n, h[n - 1])
  <2> HIDE DEF h
  <2>1. h = [n \in 0..N |-> IF n = 0 THEN {} ELSE next(n, h[n - 1])]  BY <1>11
  <2> HIDE DEF next
  <2>2. DOMAIN h = 0..N /\ \A n \in 0..N : h[n] = IF n = 0 THEN {} ELSE next(n, h[n - 1])
    BY <2>1
  <2>3. 0 \in 0..N /\ \A n \in 1..N : n \in 0..N /\ n # 0  BY <1>1
  <2>4. QED  BY <2>2, <2>3
<1>13. h \in [0..N -> X]
  <2> DEFINE T == {k \in Nat : k <= N => h[k] \in X}
  <2>1. 0 \in T  BY <1>12
  <2>2. ASSUME NEW k \in Nat, k \in T PROVE k + 1 \in T
    <3> HIDE DEF h
    <3> SUFFICES ASSUME k + 1 <= N PROVE h[k + 1] \in X  OBVIOUS
    <3>1. k + 1 \in 1..N /\ (k + 1) - 1 = k /\ k <= N  BY <1>1
    <3>2. h[k] \in X  BY <2>2, <3>1
    <3>3. h[k + 1] = next(k + 1, h[k])  BY <3>1, <1>12
    <3>4. ToSet(blocks[k + 1].macros) \subseteq Macro  BY <3>1, <1>2
    <3>5. QED  BY <3>2, <3>3, <3>4
  <2> HIDE DEF T, h
  <2>3. Nat \subseteq T  BY <2>1, <2>2, NatSetInduction
  <2>4. \A k \in 0..N : h[k] \in X  BY <2>3, <1>1 DEF T
  <2>5. h = [k \in 0..N |-> h[k]]  BY <1>11, <1>12
  <2>6. QED  BY <2>4, <2>5
<1>14. IsRun(h, blocks, off)
  <2> HIDE DEF h
  <2>1. QED  BY <1>12, <1>13 DEF IsRun
<1> HIDE DEF h
<1>15. QED  BY <1>10, <1>14

(* A macro stays defined.                                                  *)
LEMMA RunGrows ==
  ASSUME NEW blocks \in Seq(Block), NEW off, NEW on, IsRun(on, blocks, off),
         NEW m \in 0..Len(blocks), NEW n \in 0..Len(blocks), m <= n
  PROVE  on[m] \subseteq on[n]
<1> DEFINE N == Len(blocks)
           S == {k \in Nat : m + k <= N => on[m] \subseteq on[m + k]}
<1>1. N \in Nat /\ m \in Nat /\ n \in Nat  BY LenProperties
<1>2. 0 \in S
  <2>1. m + 0 = m  BY <1>1
  <2>2. QED  BY <2>1
<1>3. ASSUME NEW k \in Nat, k \in S PROVE k + 1 \in S
  <2> SUFFICES ASSUME m + (k + 1) <= N PROVE on[m] \subseteq on[m + (k + 1)]
    OBVIOUS
  <2>1. PICK i \in 1..N : i = m + (k + 1)  BY <1>1
  <2>2. i - 1 = m + k /\ m + k <= N  BY <1>1, <2>1
  <2>3. on[i - 1] \subseteq on[i]  BY <2>1 DEF IsRun
  <2>4. on[m] \subseteq on[m + k]  BY <1>3, <2>2
  <2>5. QED  BY <2>1, <2>2, <2>3, <2>4
<1> HIDE DEF S
<1>4. Nat \subseteq S  BY <1>2, <1>3, NatSetInduction
<1>5. PICK d \in Nat : m + d = n
  <2>1. n - m \in Nat /\ m + (n - m) = n  BY <1>1
  <2>2. QED  BY <2>1
<1>6. on[m] \subseteq on[m + d]  BY <1>4, <1>5 DEF S
<1>7. QED  BY <1>5, <1>6

(* What is defined has a block that defines it, whose guards held.         *)
LEMMA RunExplains ==
  ASSUME NEW blocks \in Seq(Block), NEW off, NEW on, IsRun(on, blocks, off),
         NEW m \in on[Len(blocks)]
  PROVE  \E n \in 1..Len(blocks) :
           m \in ToSet(blocks[n].macros) \ off /\ Holds(blocks[n].guards, on[n - 1])
<1> DEFINE N == Len(blocks)
           T == {k \in 0..N : m \in on[k]}
<1>1. N \in Nat  BY LenProperties
<1>2. T \subseteq Nat /\ N \in T  BY <1>1
<1>3. PICK n \in T : \A k \in T : n <= k
  <2> HIDE DEF T
  <2>1. T # {}  BY <1>2
  <2>2. QED  BY <1>2, <2>1, LeastNatural
<1>4. n # 0  BY <1>3 DEF IsRun
<1>5. n \in 1..N /\ n - 1 \in 0..N /\ ~(n <= n - 1)  BY <1>1, <1>3, <1>4
<1>6. m \notin on[n - 1]  BY <1>3, <1>5
<1>7. on[n] = IF Holds(blocks[n].guards, on[n - 1])
                THEN on[n - 1] \cup (ToSet(blocks[n].macros) \ off) ELSE on[n - 1]
  BY <1>5 DEF IsRun
<1>8. QED  BY <1>3, <1>5, <1>6, <1>7

-----------------------------------------------------------------------------
LEMMA MoreIsDefined ==
  ASSUME NEW m, NEW D, NEW E, D \subseteq E, AlreadyDefined(m, D)
  PROVE  AlreadyDefined(m, E)
BY DEF AlreadyDefined

LEMMA DefinedItself ==
  ASSUME NEW m \in Macro, NEW D, m \in D
  PROVE  AlreadyDefined(m, D)
BY WithinAssumption DEF AlreadyDefined

LEMMA ComponentType ==
  ASSUME NEW c \in Component
  PROVE  /\ c.access \in Seq(Macro) /\ c.deps \in Seq(Literal)
         /\ c.access \in Seq(ToSet(c.access)) /\ ToSet(c.access) \subseteq Macro
         /\ \A i \in 1..Len(c.access) : c.access[i] \in ToSet(c.access)
         /\ DOMAIN c.deps = 1..Len(c.deps)
         /\ \A i \in DOMAIN c.deps : c.deps[i].macro \in Macro
<1>1. c.access \in Seq(Macro) /\ c.deps \in Seq(Literal)  BY DEF Component
<1>2. DOMAIN c.deps = 1..Len(c.deps)  BY <1>1, LenProperties
<1>3. \A i \in DOMAIN c.deps : c.deps[i] \in Literal  BY <1>1, <1>2, ElementOfSeq
<1>4. QED  BY <1>1, <1>2, <1>3, ToSetType DEF Literal

(* The macros that a component adds are its own, and with them all of its  *)
(* macros count as defined.                                                *)
LEMMA NewMacrosFacts ==
  ASSUME NEW c \in Component
  PROVE  /\ NewMacros(c) \in Seq(Macro)
         /\ ToSet(NewMacros(c)) \subseteq ToSet(c.access)
         /\ \A m \in ToSet(c.access) :
              AlreadyDefined(m, already_defined \cup ToSet(NewMacros(c)))
<1> DEFINE A == c.access
           N == Len(A)
           X == Seq(ToSet(A))
           next(n, q) == IF AlreadyDefined(A[n], already_defined \cup ToSet(q))
                           THEN q ELSE Append(q, A[n])
           G == [p \in (1..N) \X X |-> next(p[1], p[2])]
           P(f) == f = [n \in 0..N |->
                          IF n = 0 THEN <<>>
                          ELSE IF AlreadyDefined(A[n], already_defined \cup ToSet(f[n - 1]))
                            THEN f[n - 1]
                            ELSE Append(f[n - 1], A[n])]
           h == CHOOSE f : P(f)
<1>1. /\ N \in Nat /\ DOMAIN A = 1..N
      /\ A \in Seq(Macro) /\ ToSet(A) \subseteq Macro
      /\ \A n \in 1..N : A[n] \in ToSet(A)
  BY ComponentType, LenProperties
<1>2. \A n \in 1..N, q \in X : next(n, q) \in X
  <2> SUFFICES ASSUME NEW n \in 1..N, NEW q \in X PROVE next(n, q) \in X
    OBVIOUS
  <2>1. A[n] \in ToSet(A)  BY <1>1
  <2>2. Append(q, A[n]) \in X  BY <2>1
  <2>3. QED  BY <2>2
<1>3. G \in Steps(N, X)  BY <1>2 DEF Steps
<1>4. \A n \in 1..N, q \in X : G[<<n, q>>] = next(n, q)
  <2> HIDE DEF X, N, next
  <2>1. QED  OBVIOUS
<1>5. <<>> \in X  BY EmptySeq
<1>6. PICK f : f \in [0..N -> X] /\ f[0] = <<>> /\ \A n \in 1..N : f[n] = G[<<n, f[n - 1]>>]
  <2> HIDE DEF N, X, G
  <2>1. \E b \in X : b = <<>>  BY <1>5
  <2>2. PICK b \in X : b = <<>>  BY <2>1
  <2>3. PICK f : IsRecursion(f, N, X, b, G)  BY <1>1, <1>3, RecursionExists
  <2>4. QED  BY <2>2, <2>3 DEF IsRecursion
<1>7. \A n \in 1..N : n - 1 \in 0..N /\ f[n - 1] \in X
  <2> HIDE DEF N, X
  <2>1. QED  BY <1>1, <1>6
<1>8. \A n \in 1..N : f[n] = next(n, f[n - 1])  BY <1>4, <1>6, <1>7
<1>9. P(f)
  <2>1. \A n \in 0..N : n # 0 => n \in 1..N  BY <1>1
  <2>2. f = [n \in 0..N |-> f[n]]  BY <1>6
  <2>3. \A n \in 0..N : f[n] = IF n = 0 THEN <<>> ELSE next(n, f[n - 1])
    BY <2>1, <1>6, <1>8
  <2>4. QED  BY <2>2, <2>3
<1>10. NewMacros(c) = h[N]  BY DEF NewMacros
<1>11. P(h)
  <2> HIDE DEF P
  <2>1. QED  BY <1>9
<1>12. h[0] = <<>> /\ \A n \in 1..N : h[n] = next(n, h[n - 1])
  <2> HIDE DEF h
  <2>1. h = [n \in 0..N |-> IF n = 0 THEN <<>> ELSE next(n, h[n - 1])]  BY <1>11
  <2> HIDE DEF next
  <2>2. \A n \in 0..N : h[n] = IF n = 0 THEN <<>> ELSE next(n, h[n - 1])
    BY <2>1
  <2>3. 0 \in 0..N /\ \A n \in 1..N : n \in 0..N /\ n # 0  BY <1>1
  <2>4. QED  BY <2>2, <2>3
<1> HIDE DEF h
<1> DEFINE known(n) == already_defined \cup ToSet(h[n])
           Q(k) == h[k] \in X /\ \A j \in 1..k : AlreadyDefined(A[j], known(k))
           T == {k \in Nat : k <= N => Q(k)}
<1>13. 0 \in T
  <2>1. 1..0 = {}  OBVIOUS
  <2>2. QED  BY <2>1, <1>5, <1>12
<1>14. ASSUME NEW k \in Nat, k \in T PROVE k + 1 \in T
  <2> SUFFICES ASSUME k + 1 <= N
               PROVE  Q(k + 1)
    <3> HIDE DEF Q, N
    <3>1. QED  OBVIOUS
  <2>1. k + 1 \in 1..N /\ (k + 1) - 1 = k /\ k <= N  BY <1>1
  <2>2. h[k] \in X /\ \A j \in 1..k : AlreadyDefined(A[j], known(k))  BY <1>14, <2>1
  <2>3. h[k + 1] = next(k + 1, h[k])  BY <2>1, <1>12
  <2>4. A[k + 1] \in ToSet(A) /\ A[k + 1] \in Macro  BY <2>1, <1>1
  <2>5. h[k + 1] \in X
    <3> HIDE DEF X, N, next
    <3>1. QED  BY <2>1, <2>2, <2>3, <1>2
  <2>6. ToSet(h[k]) \subseteq ToSet(h[k + 1]) /\ AlreadyDefined(A[k + 1], known(k + 1))
    <3>1. CASE AlreadyDefined(A[k + 1], known(k))
      <4>1. h[k + 1] = h[k]  BY <3>1, <2>3
      <4>2. QED  BY <4>1, <3>1
    <3>2. CASE ~AlreadyDefined(A[k + 1], known(k))
      <4>1. h[k + 1] = Append(h[k], A[k + 1])  BY <3>2, <2>3
      <4>2. ToSet(h[k + 1]) = ToSet(h[k]) \cup {A[k + 1]}
        BY <4>1, <2>2, <2>4, AppendSet
      <4>3. A[k + 1] \in known(k + 1)  BY <4>2
      <4>4. QED  BY <4>2, <4>3, <2>4, DefinedItself
    <3>3. QED  BY <3>1, <3>2
  <2>7. known(k) \subseteq known(k + 1)  BY <2>6
  <2>8. ASSUME NEW j \in 1..(k + 1) PROVE AlreadyDefined(A[j], known(k + 1))
    <3>1. j \in 1..k \/ j = k + 1  OBVIOUS
    <3> HIDE DEF known
    <3>2. QED  BY <3>1, <2>2, <2>6, <2>7, MoreIsDefined
  <2>9. QED  BY <2>5, <2>8
<1> HIDE DEF T, X
<1>15. Nat \subseteq T  BY <1>13, <1>14, NatSetInduction
<1>16. h[N] \in X /\ \A j \in 1..N : AlreadyDefined(A[j], known(N))
  <2>1. N \in T /\ N <= N  BY <1>1, <1>15
  <2> HIDE DEF N, known
  <2>2. QED  BY <2>1 DEF T
<1>17. NewMacros(c) \in Seq(ToSet(A))  BY <1>10, <1>16 DEF X
<1>18. ToSet(NewMacros(c)) \subseteq ToSet(A)  BY <1>17, ToSetType
<1>19. NewMacros(c) \in Seq(Macro)  BY <1>1, <1>17, SeqMonotonic
<1>20. ASSUME NEW m \in ToSet(A)
       PROVE  AlreadyDefined(m, already_defined \cup ToSet(NewMacros(c)))
  <2>1. PICK j \in 1..N : m = A[j]  BY <1>1 DEF ToSet
  <2>2. QED  BY <2>1, <1>10, <1>16
<1>21. QED  BY <1>18, <1>19, <1>20

-----------------------------------------------------------------------------
(* The macros that the first k blocks define.                              *)
MacrosOf(blocks, k) == UNION {ToSet(blocks[e].macros) : e \in 1..k}

(* The table has each component once.                                      *)
Distinct == \A j, k \in 1..Len(dephash) : dephash[j] = dephash[k] => j = k

(* Every block is one of a component, with its dependencies and macros.    *)
FromComponents ==
  \A i \in 1..Len(text) : \E c \in design :
    text[i].guards = c.deps /\ ToSet(text[i].macros) \subseteq ToSet(c.access)

Phases ==
  /\ pc = "independent" => dephash = <<>> /\ kvpair = 1 /\ again = FALSE
  /\ pc # "independent" => todo = {} /\ \A c \in ToSet(dephash) : c.depends

(* The components that have not been defined: those that have not been     *)
(* looked at and, in the end, those whose dependencies are not met.        *)
Pending ==
  IF pc = "independent" THEN todo \cup {c \in design : c.depends} ELSE ToSet(dephash)

(* The dependencies of each of the first k blocks are named above it.      *)
Grounded(blocks, k) ==
  \A i \in 1..k : \A j \in DOMAIN blocks[i].guards :
    AlreadyDefined(blocks[i].guards[j].macro, MacrosOf(blocks, i - 1))

GroundedFirst ==
  \E k \in 0..Len(text) :
    /\ Grounded(text, k) /\ already_defined = MacrosOf(text, k)
    /\ pc \in {"independent", "passes"} => k = Len(text)

(* In plain designs the macros of a component are defined at once.         *)
AtOnce ==
  Plain => /\ \A c \in design \ Pending : ToSet(c.access) \subseteq already_defined
           /\ \A c \in Pending : ToSet(c.access) \cap already_defined = {}

(* A pass that has defined nothing has tested every component it left: the *)
(* one that the walk steps over after erasing is never the last chance.    *)
Tested ==
  Plain =>
    /\ pc = "passes" /\ ~again =>
         \A j \in 1..(kvpair - 1) : j <= Len(dephash) => ~Met(dephash[j])
    /\ pc \in {"unmet", "done"} => \A c \in ToSet(dephash) : ~Met(c)

DepsInv ==
  /\ TypeOK /\ Distinct /\ FromComponents /\ Phases /\ GroundedFirst
  /\ AtOnce /\ Tested

(* A block that is written changes nothing above it.                       *)
LEMMA OneMoreBlock ==
  ASSUME NEW t \in Seq(Block), NEW b \in Block, NEW u, u = Append(t, b)
  PROVE  /\ u \in Seq(Block) /\ Len(u) = Len(t) + 1 /\ Len(t) \in Nat
         /\ \A i \in 1..Len(t) : u[i] = t[i]
         /\ u[Len(t) + 1] = b
         /\ \A k \in 0..Len(t) : MacrosOf(u, k) = MacrosOf(t, k)
         /\ MacrosOf(u, Len(t) + 1) = MacrosOf(t, Len(t)) \cup ToSet(b.macros)
         /\ \A k \in 0..Len(t) : Grounded(t, k) => Grounded(u, k)
<1>1. Len(t) \in Nat  BY LenProperties
<1>2. /\ u \in Seq(Block) /\ Len(u) = Len(t) + 1
      /\ \A i \in 1..Len(t) : u[i] = t[i]
      /\ u[Len(t) + 1] = b
  BY Appended
<1>3. \A k \in 0..Len(t) : MacrosOf(u, k) = MacrosOf(t, k)
  <2> SUFFICES ASSUME NEW k \in 0..Len(t) PROVE MacrosOf(u, k) = MacrosOf(t, k)
    OBVIOUS
  <2>1. \A e \in 1..k : u[e] = t[e]  BY <1>1, <1>2
  <2>2. {ToSet(u[e].macros) : e \in 1..k} = {ToSet(t[e].macros) : e \in 1..k}
    BY <2>1
  <2>3. QED  BY <2>2 DEF MacrosOf
<1>4. MacrosOf(u, Len(t) + 1) = MacrosOf(t, Len(t)) \cup ToSet(b.macros)
  <2>1. 1..(Len(t) + 1) = (1..Len(t)) \cup {Len(t) + 1}  BY <1>1
  <2>2. \A e \in 1..Len(t) : u[e] = t[e]  BY <1>2
  <2>3. {ToSet(u[e].macros) : e \in 1..(Len(t) + 1)}
          = {ToSet(t[e].macros) : e \in 1..Len(t)} \cup {ToSet(b.macros)}
    BY <2>1, <2>2, <1>2
  <2>4. QED  BY <2>3 DEF MacrosOf
<1>5. ASSUME NEW k \in 0..Len(t), Grounded(t, k) PROVE Grounded(u, k)
  <2> SUFFICES ASSUME NEW i \in 1..k, NEW j \in DOMAIN u[i].guards
               PROVE  AlreadyDefined(u[i].guards[j].macro, MacrosOf(u, i - 1))
    BY DEF Grounded
  <2>1. i \in 1..Len(t) /\ i - 1 \in 0..Len(t)  BY <1>1
  <2>2. u[i] = t[i] /\ MacrosOf(u, i - 1) = MacrosOf(t, i - 1)  BY <2>1, <1>2, <1>3
  <2>3. QED  BY <2>2, <1>5 DEF Grounded
<1>6. QED  BY <1>1, <1>2, <1>3, <1>4, <1>5

LEMMA GroundedBlock ==
  ASSUME NEW t \in Seq(Block), NEW b \in Block, NEW u, u = Append(t, b),
         Grounded(t, Len(t)),
         \A j \in DOMAIN b.guards : AlreadyDefined(b.guards[j].macro, MacrosOf(t, Len(t)))
  PROVE  Grounded(u, Len(t) + 1)
<1>1. /\ Len(t) \in Nat /\ u[Len(t) + 1] = b
      /\ MacrosOf(u, Len(t)) = MacrosOf(t, Len(t)) /\ Grounded(u, Len(t))
  <2>1. Len(t) \in Nat /\ Len(t) \in 0..Len(t)  BY LenProperties
  <2>2. QED  BY <2>1, OneMoreBlock
<1> SUFFICES ASSUME NEW i \in 1..(Len(t) + 1), NEW j \in DOMAIN u[i].guards
             PROVE  AlreadyDefined(u[i].guards[j].macro, MacrosOf(u, i - 1))
  BY DEF Grounded
<1>2. CASE i \in 1..Len(t)  BY <1>1, <1>2 DEF Grounded
<1>3. CASE i = Len(t) + 1
  <2>1. i - 1 = Len(t)  BY <1>1, <1>3
  <2>2. QED  BY <2>1, <1>1, <1>3
<1>4. QED  BY <1>1, <1>2, <1>3

(* What is written of a component is one of its blocks.                    *)
LEMMA GuardedType ==
  ASSUME NEW c \in Component, NEW macros \in Seq(Macro)
  PROVE  /\ Guarded(c, macros) \in Block
         /\ Guarded(c, macros).guards = c.deps /\ Guarded(c, macros).macros = macros
BY ComponentType DEF Guarded, Block

LEMMA WrittenFrom ==
  ASSUME TypeOK, FromComponents, design' = design,
         NEW c \in design, NEW macros \in Seq(Macro),
         ToSet(macros) \subseteq ToSet(c.access),
         text' = Append(text, Guarded(c, macros))
  PROVE  FromComponents' /\ text' \in Seq(Block)
<1>1. text \in Seq(Block) /\ c \in Component
  BY DesignsAssumption DEF TypeOK
<1>2. /\ Guarded(c, macros) \in Block
      /\ Guarded(c, macros).guards = c.deps /\ Guarded(c, macros).macros = macros
  BY <1>1, GuardedType
<1>3. /\ text' \in Seq(Block) /\ Len(text') = Len(text) + 1 /\ Len(text) \in Nat
      /\ \A i \in 1..Len(text) : text'[i] = text[i]
      /\ text'[Len(text) + 1] = Guarded(c, macros)
  BY <1>1, <1>2, OneMoreBlock
<1>4. ASSUME NEW i \in 1..Len(text')
      PROVE  \E d \in design : text'[i].guards = d.deps
                               /\ ToSet(text'[i].macros) \subseteq ToSet(d.access)
  <2>1. i \in 1..Len(text) \/ i = Len(text) + 1  BY <1>3
  <2>2. CASE i \in 1..Len(text)  BY <2>2, <1>3 DEF FromComponents
  <2>3. CASE i = Len(text) + 1  BY <2>3, <1>2, <1>3
  <2>4. QED  BY <2>1, <2>2, <2>3
<1>5. QED  BY <1>3, <1>4 DEF FromComponents

LEMMA DesignTypes ==
  ASSUME TypeOK
  PROVE  /\ IsFiniteSet(design)
         /\ \A c \in design : c \in Component /\ (~c.depends => c.deps = <<>>)
         /\ ToSet(dephash) \subseteq design
         /\ Len(dephash) \in Nat /\ DOMAIN dephash = 1..Len(dephash)
         /\ \A j \in 1..Len(dephash) : dephash[j] \in ToSet(dephash)
BY DesignsAssumption, ToSetType, LenProperties DEF TypeOK

LEMMA StartDeps ==
  ASSUME Init
  PROVE  DepsInv
<1>1. /\ design \in Designs /\ pc = "independent" /\ todo = design
      /\ dephash = <<>> /\ kvpair = 1 /\ again = FALSE
      /\ already_defined = {} /\ text = <<>>
  BY DEF Init
<1>2. /\ <<>> \in Seq(design) /\ <<>> \in Seq(Block) /\ Len(<<>>) = 0
      /\ 1..0 = {} /\ ToSet(<<>>) = {}
  BY EmptySeq DEF ToSet
<1>3. TypeOK
  <2>1. Len(dephash) = 0 /\ 1 \in 1..(0 + 1)  BY <1>1, <1>2
  <2>2. kvpair \in 1..(Len(dephash) + 1)  BY <2>1, <1>1
  <2>3. dephash \in Seq(design) /\ text \in Seq(Block)  BY <1>1, <1>2
  <2>4. QED  BY <2>2, <2>3, <1>1 DEF TypeOK
<1>4. Distinct /\ FromComponents /\ Phases
  BY <1>1, <1>2 DEF Distinct, FromComponents, Phases
<1>5. GroundedFirst
  <2>1. Grounded(text, 0) /\ MacrosOf(text, 0) = {}
    BY <1>2 DEF Grounded, MacrosOf
  <2>2. 0 \in 0..0  OBVIOUS
  <2>3. QED  BY <2>1, <2>2, <1>1, <1>2 DEF GroundedFirst
<1>6. AtOnce  BY <1>1 DEF AtOnce, Pending
<1>7. Tested  BY <1>1 DEF Tested
<1>8. QED  BY <1>3, <1>4, <1>5, <1>6, <1>7 DEF DepsInv

(* "First, the independent access fields": no dependencies, no `ifdefs.    *)
LEMMA IndependentKeeps ==
  ASSUME DepsInv, Independent
  PROVE  DepsInv'
<1>1. PICK c \in todo :
        /\ todo' = todo \ {c}
        /\ IF c.depends
             THEN UNCHANGED <<already_defined, text>>
             ELSE /\ text' = Append(text, Guarded(c, c.access))
                  /\ already_defined' = already_defined \cup ToSet(c.access)
  BY DEF Independent
<1>2. pc = "independent" /\ UNCHANGED <<design, pc, dephash, kvpair, again>>
  BY DEF Independent
<1>3. TypeOK /\ FromComponents /\ Phases /\ GroundedFirst /\ AtOnce
  BY DEF DepsInv
<1>4. c \in design /\ c \in Component /\ (~c.depends => c.deps = <<>>)
  BY <1>1, <1>3, DesignTypes DEF TypeOK
<1>5. c.access \in Seq(Macro) /\ ToSet(c.access) \subseteq Macro
  BY <1>4, ComponentType
<1>6. PICK k \in 0..Len(text) :
        /\ Grounded(text, k) /\ already_defined = MacrosOf(text, k) /\ k = Len(text)
  BY <1>2, <1>3 DEF GroundedFirst
<1>7. Plain' = Plain  BY <1>2 DEF Plain
<1>8. dephash = <<>> /\ kvpair = 1 /\ again = FALSE  BY <1>2, <1>3 DEF Phases
<1>9. Distinct' /\ Phases'  BY <1>2, <1>3 DEF DepsInv, Distinct, Phases
<1>10. Tested'  BY <1>2, <1>8 DEF Tested
<1>11. Pending' = todo' \cup {d \in design : d.depends}
       /\ Pending = todo \cup {d \in design : d.depends}
  BY <1>2 DEF Pending
<1>12. CASE c.depends
  <2>1. already_defined' = already_defined /\ text' = text  BY <1>1, <1>12
  <2>2. TypeOK'  BY <2>1, <1>1, <1>2, <1>3 DEF TypeOK
  <2>3. FromComponents'  BY <2>1, <1>2, <1>3 DEF FromComponents
  <2>4. GroundedFirst'  BY <2>1, <1>2, <1>3 DEF GroundedFirst
  <2>5. Pending' = Pending  BY <1>1, <1>4, <1>11, <1>12
  <2>6. AtOnce'  BY <2>1, <2>5, <1>2, <1>3, <1>7 DEF AtOnce
  <2>7. QED  BY <2>2, <2>3, <2>4, <2>6, <1>9, <1>10 DEF DepsInv
<1>13. CASE ~c.depends
  <2>1. /\ text' = Append(text, Guarded(c, c.access))
        /\ already_defined' = already_defined \cup ToSet(c.access)
        /\ c.deps = <<>>
    BY <1>1, <1>4, <1>13
  <2>2. FromComponents' /\ text' \in Seq(Block)
    BY <2>1, <1>2, <1>3, <1>4, <1>5, WrittenFrom
  <2>3. TypeOK'  BY <2>1, <2>2, <1>1, <1>2, <1>3, <1>5 DEF TypeOK
  <2>4. GroundedFirst'
    <3>1. /\ Guarded(c, c.access) \in Block
          /\ Guarded(c, c.access).guards = <<>> /\ Guarded(c, c.access).macros = c.access
      BY <2>1, <1>4, <1>5, GuardedType
    <3>2. text \in Seq(Block) /\ Grounded(text, Len(text))
      BY <1>3, <1>6 DEF TypeOK
    <3> DEFINE b == Guarded(c, c.access)
    <3> HIDE DEF b
    <3>8. b \in Block /\ b.macros = c.access /\ b.guards = <<>> /\ text' = Append(text, b)
      BY <2>1, <3>1 DEF b
    <3>3. /\ Len(text') = Len(text) + 1 /\ Len(text) \in Nat
          /\ MacrosOf(text', Len(text) + 1) = MacrosOf(text, Len(text)) \cup ToSet(b.macros)
      BY <3>2, <3>8, OneMoreBlock
    <3>4. \A j \in DOMAIN b.guards : FALSE  BY <3>8
    <3>5. Grounded(text', Len(text) + 1)
      BY <3>2, <3>4, <3>8, GroundedBlock
    <3>6. Len(text) + 1 \in 0..Len(text')  BY <3>3
    <3>7. QED  BY <2>1, <3>3, <3>5, <3>6, <3>8, <1>6 DEF GroundedFirst
  <2>5. Pending' = Pending \ {c}  BY <1>1, <1>4, <1>11, <1>13
  <2>6. AtOnce'
    <3> SUFFICES ASSUME Plain
                 PROVE  /\ \A d \in design \ Pending' : ToSet(d.access) \subseteq already_defined'
                        /\ \A d \in Pending' : ToSet(d.access) \cap already_defined' = {}
      BY <1>2, <1>7 DEF AtOnce
    <3>1. /\ \A d \in design \ Pending : ToSet(d.access) \subseteq already_defined
          /\ \A d \in Pending : ToSet(d.access) \cap already_defined = {}
      BY <1>3 DEF AtOnce
    <3>2. Pending \subseteq design  BY <1>3, <1>11 DEF TypeOK
    <3>3. \A d \in design : d # c => ToSet(d.access) \cap ToSet(c.access) = {}
      BY <1>4 DEF Plain
    <3>4. QED  BY <2>1, <2>5, <3>1, <3>2, <3>3
  <2>7. QED  BY <2>2, <2>3, <2>4, <2>6, <1>9, <1>10 DEF DepsInv
<1>14. QED  BY <1>12, <1>13

(* The hash table holds each of the others once.                           *)
LEMMA EachOnce ==
  ASSUME NEW S, IsFiniteSet(S), NEW q \in SetToSeqs(S)
  PROVE  /\ q \in Seq(S) /\ ToSet(q) = S
         /\ \A j, k \in 1..Len(q) : q[j] = q[k] => j = k
<1> DEFINE D == 1..Cardinality(S)
<1>1. /\ q \in [D -> S] /\ \A i, j \in D : i # j => q[i] # q[j]
  BY DEF SetToSeqs
<1>2. Cardinality(S) \in Nat  BY FS_CardinalityType
<1>3. q \in Seq(S) /\ Len(q) = Cardinality(S)  BY <1>1, <1>2, SeqDef
<1>4. IsFiniteSet(D) /\ Cardinality(D) = Cardinality(S)  BY <1>2, FS_Interval
<1>5. q \in Surjection(D, S)
  <2> HIDE DEF D
  <2>1. q \in Injection(D, S)  BY <1>1, Fun_IsInj
  <2>2. QED  BY <2>1, <1>4, FS_Injection
<1>6. ToSet(q) = S
  <2>1. \A s \in S : \E i \in D : q[i] = s
    <3> HIDE DEF D
    <3>1. QED  BY <1>5, Fun_SurjectionProperties
  <2>2. QED  BY <2>1, <1>1 DEF ToSet
<1>7. QED  BY <1>1, <1>3, <1>6

LEMMA PassesKeep ==
  ASSUME DepsInv, StartPasses
  PROVE  DepsInv'
<1> DEFINE S == {c \in design : c.depends}
<1>1. /\ pc = "independent" /\ todo = {} /\ dephash' \in SetToSeqs(S)
      /\ pc' = IF dephash' = <<>> THEN "done" ELSE "passes"
      /\ UNCHANGED <<design, todo, kvpair, again, already_defined, text>>
  BY DEF StartPasses
<1>2. TypeOK /\ FromComponents /\ Phases /\ GroundedFirst /\ AtOnce
  BY DEF DepsInv
<1>3. IsFiniteSet(S)  BY <1>2, DesignTypes, FS_Subset
<1>4. /\ dephash' \in Seq(S) /\ ToSet(dephash') = S
      /\ \A j, k \in 1..Len(dephash') : dephash'[j] = dephash'[k] => j = k
  <2> HIDE DEF S
  <2>1. QED  BY <1>1, <1>3, EachOnce
<1>5. dephash' \in Seq(design) /\ Len(dephash') \in Nat
  BY <1>4, SeqMonotonic, LenProperties
<1>6. kvpair = 1  BY <1>1, <1>2 DEF Phases
<1>7. TypeOK'
  <2>1. kvpair' \in 1..(Len(dephash') + 1)  BY <1>1, <1>5, <1>6
  <2>2. QED  BY <2>1, <1>1, <1>2, <1>5 DEF TypeOK
<1>8. Distinct'  BY <1>4 DEF Distinct
<1>9. FromComponents'  BY <1>1, <1>2 DEF FromComponents
<1>10. Phases'  BY <1>1, <1>4 DEF Phases
<1>11. GroundedFirst'  BY <1>1, <1>2 DEF GroundedFirst
<1>12. Plain' = Plain  BY <1>1 DEF Plain
<1>13. Pending' = S /\ Pending = S  BY <1>1, <1>4 DEF Pending
<1>14. AtOnce'  BY <1>1, <1>2, <1>12, <1>13 DEF AtOnce
<1>15. Tested'
  <2>1. \A j \in 1..(kvpair' - 1) : FALSE  BY <1>1, <1>6
  <2>2. pc' = "done" => ToSet(dephash') = {}  BY <1>1 DEF ToSet
  <2>3. pc' \in {"passes", "done"}  BY <1>1
  <2>4. QED  BY <2>1, <2>2, <2>3 DEF Tested
<1>16. QED  BY <1>7, <1>8, <1>9, <1>10, <1>11, <1>14, <1>15 DEF DepsInv

LEMMA KnownMacros ==
  ASSUME DepsInv
  PROVE  already_defined \subseteq UNION {ToSet(c.access) : c \in design}
<1>1. PICK k \in 0..Len(text) : already_defined = MacrosOf(text, k)
  BY DEF DepsInv, GroundedFirst
<1> SUFFICES ASSUME NEW m \in already_defined
             PROVE  \E c \in design : m \in ToSet(c.access)
  OBVIOUS
<1>2. PICK e \in 1..k : m \in ToSet(text[e].macros)  BY <1>1 DEF MacrosOf
<1>3. Len(text) \in Nat  BY LenProperties DEF DepsInv, TypeOK
<1>4. e \in 1..Len(text)  BY <1>3
<1>5. QED  BY <1>2, <1>4 DEF DepsInv, FromComponents

(* In a plain design nothing but a macro itself counts as its definition.  *)
LEMMA PlainDefined ==
  ASSUME Plain, NEW m, NEW D,
         m \in UNION {ToSet(c.access) : c \in design},
         D \subseteq UNION {ToSet(c.access) : c \in design},
         AlreadyDefined(m, D)
  PROVE  m \in D
BY DEF AlreadyDefined, Plain

LEMMA MetKeeps ==
  ASSUME DepsInv, DefineMet
  PROVE  DepsInv'
<1> DEFINE c == dephash[kvpair]
           new == NewMacros(c)
           b == Guarded(c, new)
<1>1. /\ pc = "passes" /\ kvpair <= Len(dephash) /\ Met(c)
      /\ text' = Append(text, b)
      /\ already_defined' = already_defined \cup ToSet(new)
      /\ again' = (again \/ new # <<>>)
      /\ dephash' = RemoveAt(dephash, kvpair) /\ kvpair' = 2
      /\ UNCHANGED <<design, pc, todo>>
  BY DEF DefineMet, AfterErase
<1>2. TypeOK /\ FromComponents /\ Phases /\ GroundedFirst /\ AtOnce /\ Distinct
  BY DEF DepsInv
<1>3. Len(dephash) \in Nat  BY <1>2, DesignTypes
<1>4. kvpair \in 1..Len(dephash)
  <2>1. kvpair \in Nat /\ kvpair >= 1  BY <1>2, <1>3 DEF TypeOK
  <2>2. QED  BY <2>1, <1>1, <1>3
<1>5. c \in ToSet(dephash) /\ c \in design /\ c \in Component
  BY <1>2, <1>4, DesignTypes
<1>6. /\ new \in Seq(Macro) /\ ToSet(new) \subseteq ToSet(c.access)
      /\ \A m \in ToSet(c.access) : AlreadyDefined(m, already_defined \cup ToSet(new))
  <2> HIDE DEF c
  <2>1. QED  BY <1>5, NewMacrosFacts
<1>7. ToSet(c.access) \subseteq Macro  BY <1>5, ComponentType
<1>8. b \in Block /\ b.guards = c.deps /\ b.macros = new
  BY <1>5, <1>6, GuardedType
<1>9. /\ dephash' \in Seq(design) /\ ToSet(dephash') = ToSet(dephash) \ {c}
      /\ Distinct'
  <2>1. dephash \in Seq(design)  BY <1>2 DEF TypeOK
  <2>2. \A j, k \in 1..Len(dephash) : dephash[j] = dephash[k] => j = k
    BY <1>2 DEF Distinct
  <2>3. /\ ToSet(RemoveAt(dephash, kvpair)) = ToSet(dephash) \ {c}
        /\ \A j, k \in 1..Len(RemoveAt(dephash, kvpair)) :
             RemoveAt(dephash, kvpair)[j] = RemoveAt(dephash, kvpair)[k] => j = k
    BY <2>1, <2>2, <1>4, ErasedSet
  <2>4. RemoveAt(dephash, kvpair) \in Seq(design)  BY <2>1, <1>4, Erased
  <2>5. QED  BY <2>3, <2>4, <1>1 DEF Distinct
<1> HIDE DEF c, new
<1>10. FromComponents' /\ text' \in Seq(Block)
  BY <1>1, <1>2, <1>5, <1>6, WrittenFrom
<1> HIDE DEF b
<1>11. TypeOK'
  <2>1. again' \in BOOLEAN  BY <1>1, <1>2 DEF TypeOK
  <2>2. QED  BY <2>1, <1>1, <1>2, <1>6, <1>7, <1>9, <1>10 DEF TypeOK
<1>12. Phases'  BY <1>1, <1>2, <1>9 DEF Phases
<1>13. GroundedFirst'
  <2>1. PICK k \in 0..Len(text) :
          Grounded(text, k) /\ already_defined = MacrosOf(text, k) /\ k = Len(text)
    BY <1>1, <1>2 DEF GroundedFirst
  <2>2. text \in Seq(Block)  BY <1>2 DEF TypeOK
  <2>3. /\ Len(text') = Len(text) + 1 /\ Len(text) \in Nat
        /\ MacrosOf(text', Len(text) + 1) = MacrosOf(text, Len(text)) \cup ToSet(b.macros)
    BY <2>2, <1>1, <1>8, OneMoreBlock
  <2>4. \A j \in DOMAIN b.guards : AlreadyDefined(b.guards[j].macro, MacrosOf(text, Len(text)))
    BY <2>1, <1>1, <1>8 DEF Met
  <2>5. Grounded(text', Len(text) + 1)
    BY <2>1, <2>2, <2>4, <1>1, <1>8, GroundedBlock
  <2>6. Len(text) + 1 \in 0..Len(text')  BY <2>3
  <2>7. already_defined' = MacrosOf(text', Len(text) + 1)
    BY <2>1, <2>3, <1>1, <1>8
  <2>8. QED  BY <2>3, <2>5, <2>6, <2>7 DEF GroundedFirst
<1>14. Plain' = Plain  BY <1>1 DEF Plain
<1>15. Pending = ToSet(dephash) /\ Pending' = ToSet(dephash')  BY <1>1 DEF Pending
<1>16. ASSUME Plain PROVE ToSet(c.access) \subseteq already_defined'
  <2> SUFFICES ASSUME NEW m \in ToSet(c.access) PROVE m \in already_defined'
    OBVIOUS
  <2>1. already_defined' \subseteq UNION {ToSet(d.access) : d \in design}
    BY <1>1, <1>5, <1>6, KnownMacros
  <2>2. AlreadyDefined(m, already_defined')  BY <1>1, <1>6
  <2>3. m \in UNION {ToSet(d.access) : d \in design}  BY <1>5
  <2>4. QED  BY <2>1, <2>2, <2>3, <1>16, PlainDefined
<1>17. AtOnce'
  <2> SUFFICES ASSUME Plain
               PROVE  /\ \A d \in design \ Pending' : ToSet(d.access) \subseteq already_defined'
                      /\ \A d \in Pending' : ToSet(d.access) \cap already_defined' = {}
    BY <1>1, <1>14 DEF AtOnce
  <2>1. /\ \A d \in design \ Pending : ToSet(d.access) \subseteq already_defined
        /\ \A d \in Pending : ToSet(d.access) \cap already_defined = {}
    BY <1>2 DEF AtOnce
  <2>2. \A d \in design : d # c => ToSet(d.access) \cap ToSet(c.access) = {}
    BY <1>5 DEF Plain
  <2>3. Pending \subseteq design  BY <1>2, <1>15, DesignTypes
  <2>4. \A d \in design \ Pending' : ToSet(d.access) \subseteq already_defined'
    <3> SUFFICES ASSUME NEW d \in design \ Pending'
                 PROVE  ToSet(d.access) \subseteq already_defined'
      OBVIOUS
    <3>1. CASE d = c  BY <3>1, <1>16
    <3>2. CASE d # c  BY <3>2, <2>1, <1>1, <1>9, <1>15
    <3>3. QED  BY <3>1, <3>2
  <2>5. \A d \in Pending' : ToSet(d.access) \cap already_defined' = {}
    BY <2>1, <2>2, <2>3, <1>1, <1>6, <1>9, <1>15
  <2>6. QED  BY <2>4, <2>5
<1>18. Tested'
  <2>1. ASSUME Plain PROVE new # <<>>
    <3>1. c.access \in Seq(Macro) /\ c.access # <<>>
      BY <2>1, <1>5, ComponentType DEF Plain
    <3>2. 1 \in 1..Len(c.access)  BY <3>1, EmptySeq
    <3>3. c.access[1] \in ToSet(c.access)  BY <3>1, <3>2, ToSetType
    <3>4. c.access[1] \in already_defined'  BY <3>3, <2>1, <1>16
    <3>5. c.access[1] \notin already_defined
      BY <3>3, <2>1, <1>2, <1>5, <1>15 DEF AtOnce
    <3>6. c.access[1] \in ToSet(new)  BY <3>4, <3>5, <1>1
    <3>7. QED  BY <3>6 DEF ToSet
  <2>2. Plain => again'  BY <2>1, <1>1
  <2>3. pc' = "passes"  BY <1>1
  <2>4. QED  BY <2>2, <2>3, <1>14 DEF Tested
<1>19. QED  BY <1>9, <1>10, <1>11, <1>12, <1>13, <1>17, <1>18 DEF DepsInv

LEMMA SkipKeeps ==
  ASSUME DepsInv, SkipUnmet
  PROVE  DepsInv'
<1>1. /\ pc = "passes" /\ kvpair <= Len(dephash) /\ ~Met(dephash[kvpair])
      /\ kvpair' = kvpair + 1
      /\ UNCHANGED <<design, pc, todo, dephash, again, already_defined, text>>
  BY DEF SkipUnmet
<1>2. TypeOK  BY DEF DepsInv
<1>3. Len(dephash) \in Nat /\ kvpair \in Nat /\ kvpair >= 1
  BY <1>2, DesignTypes DEF TypeOK
<1>4. TypeOK'
  <2>1. kvpair' \in 1..(Len(dephash') + 1)  BY <1>1, <1>3
  <2>2. QED  BY <2>1, <1>1, <1>2 DEF TypeOK
<1>5. Distinct' /\ FromComponents' /\ Phases' /\ GroundedFirst'
  BY <1>1 DEF DepsInv, Distinct, FromComponents, Phases, GroundedFirst
<1>6. Plain' = Plain /\ Pending' = Pending  BY <1>1 DEF Plain, Pending
<1>7. AtOnce'  BY <1>1, <1>6 DEF DepsInv, AtOnce
<1>8. \A c : Met(c)' = Met(c)  BY <1>1 DEF Met
<1>9. Tested'
  <2>1. \A j \in 1..(kvpair' - 1) : j \in 1..(kvpair - 1) \/ j = kvpair
    BY <1>1, <1>3
  <2>2. QED  BY <2>1, <1>1, <1>6, <1>8 DEF DepsInv, Tested
<1>10. QED  BY <1>4, <1>5, <1>7, <1>9 DEF DepsInv

LEMMA EndPassKeeps ==
  ASSUME DepsInv, EndPass
  PROVE  DepsInv'
<1>1. /\ pc = "passes" /\ kvpair > Len(dephash)
      /\ pc' = CASE dephash = <<>> -> "done"
                 [] dephash # <<>> /\ again -> "passes"
                 [] dephash # <<>> /\ ~again -> "unmet"
      /\ kvpair' = 1 /\ again' = FALSE
      /\ UNCHANGED <<design, todo, dephash, already_defined, text>>
  BY DEF EndPass
<1>2. TypeOK  BY DEF DepsInv
<1>3. /\ Len(dephash) \in Nat /\ kvpair \in Nat /\ kvpair >= 1
      /\ DOMAIN dephash = 1..Len(dephash)
  BY <1>2, DesignTypes DEF TypeOK
<1>4. \/ pc' = "done" /\ dephash = <<>>
      \/ pc' = "passes"
      \/ pc' = "unmet" /\ ~again
  BY <1>1, <1>2 DEF TypeOK
<1>5. TypeOK'
  <2>1. kvpair' \in 1..(Len(dephash') + 1)  BY <1>1, <1>3
  <2>2. QED  BY <2>1, <1>1, <1>2, <1>4 DEF TypeOK
<1>6. Distinct' /\ FromComponents'  BY <1>1 DEF DepsInv, Distinct, FromComponents
<1>7. Phases'  BY <1>1, <1>4 DEF DepsInv, Phases
<1>8. GroundedFirst'  BY <1>1 DEF DepsInv, GroundedFirst
<1>9. Plain' = Plain /\ Pending' = Pending  BY <1>1, <1>4 DEF Plain, Pending
<1>10. AtOnce'  BY <1>1, <1>9 DEF DepsInv, AtOnce
<1>11. \A c : Met(c)' = Met(c)  BY <1>1 DEF Met
<1>12. Tested'
  <2>1. \A j \in 1..(kvpair' - 1) : FALSE  BY <1>1
  <2>2. \A j \in 1..Len(dephash) : j \in 1..(kvpair - 1)  BY <1>1, <1>3
  <2>3. ASSUME Plain, pc' \in {"unmet", "done"}, NEW c \in ToSet(dephash)
        PROVE  ~Met(c)
    <3>1. PICK j \in 1..Len(dephash) : c = dephash[j]  BY <2>3, <1>3 DEF ToSet
    <3>2. ~again  BY <2>3, <3>1, <1>3, <1>4
    <3>3. QED  BY <3>1, <3>2, <2>2, <2>3, <1>1 DEF DepsInv, Tested
  <2>4. QED  BY <2>1, <2>3, <1>1, <1>9, <1>11 DEF Tested
<1>13. QED  BY <1>5, <1>6, <1>7, <1>8, <1>10, <1>12 DEF DepsInv

LEMMA UnmetKeeps ==
  ASSUME DepsInv, ListUnmet
  PROVE  DepsInv'
<1> DEFINE c == dephash[kvpair]
<1>1. /\ pc = "unmet" /\ kvpair <= Len(dephash)
      /\ text' = Append(text, Guarded(c, c.access))
      /\ kvpair' = kvpair + 1
      /\ UNCHANGED <<design, pc, todo, dephash, again, already_defined>>
  BY DEF ListUnmet
<1>2. TypeOK /\ FromComponents /\ GroundedFirst  BY DEF DepsInv
<1>3. Len(dephash) \in Nat /\ kvpair \in Nat /\ kvpair >= 1
  BY <1>2, DesignTypes DEF TypeOK
<1>4. kvpair \in 1..Len(dephash)  BY <1>1, <1>3
<1>5. c \in design /\ c \in Component  BY <1>2, <1>4, DesignTypes
<1> HIDE DEF c
<1>6. c.access \in Seq(Macro)  BY <1>5, ComponentType
<1>7. FromComponents' /\ text' \in Seq(Block)
  BY <1>1, <1>2, <1>5, <1>6, WrittenFrom
<1>8. TypeOK'
  <2>1. kvpair' \in 1..(Len(dephash') + 1)  BY <1>1, <1>3
  <2>2. QED  BY <2>1, <1>1, <1>2, <1>7 DEF TypeOK
<1>9. Distinct' /\ Phases'  BY <1>1 DEF DepsInv, Distinct, Phases
<1>10. GroundedFirst'
  <2>1. PICK k \in 0..Len(text) : Grounded(text, k) /\ already_defined = MacrosOf(text, k)
    BY <1>2 DEF GroundedFirst
  <2> DEFINE b == Guarded(c, c.access)
  <2>2. b \in Block /\ text \in Seq(Block)
    BY <1>2, <1>5, <1>6, GuardedType DEF TypeOK
  <2>3. text' = Append(text, b)  BY <1>1
  <2> HIDE DEF b
  <2>4. /\ Len(text') = Len(text) + 1 /\ Len(text) \in Nat
        /\ MacrosOf(text', k) = MacrosOf(text, k) /\ Grounded(text', k)
    <3>1. /\ Len(text') = Len(text) + 1 /\ Len(text) \in Nat
          /\ \A j \in 0..Len(text) : MacrosOf(text', j) = MacrosOf(text, j)
          /\ \A j \in 0..Len(text) : Grounded(text, j) => Grounded(text', j)
      BY <2>2, <2>3, OneMoreBlock
    <3>2. QED  BY <3>1, <2>1
  <2>5. k \in 0..Len(text')  BY <2>4
  <2>6. QED  BY <2>1, <2>4, <2>5, <1>1 DEF GroundedFirst
<1>11. Plain' = Plain /\ Pending' = Pending  BY <1>1 DEF Plain, Pending
<1>12. AtOnce'  BY <1>1, <1>11 DEF DepsInv, AtOnce
<1>13. \A d : Met(d)' = Met(d)  BY <1>1 DEF Met
<1>14. Tested'  BY <1>1, <1>11, <1>13 DEF DepsInv, Tested
<1>15. QED  BY <1>7, <1>8, <1>9, <1>10, <1>12, <1>14 DEF DepsInv

LEMMA DoneKeeps ==
  ASSUME DepsInv, Finish \/ UNCHANGED vars
  PROVE  DepsInv'
<1>1. /\ UNCHANGED <<design, todo, dephash, kvpair, again, already_defined, text>>
      /\ pc' = pc \/ (pc = "unmet" /\ pc' = "done")
  BY DEF Finish, vars
<1>2. TypeOK'  BY <1>1 DEF DepsInv, TypeOK
<1>3. Distinct' /\ FromComponents' /\ Phases' /\ GroundedFirst'
  BY <1>1 DEF DepsInv, Distinct, FromComponents, Phases, GroundedFirst
<1>4. Plain' = Plain /\ Pending' = Pending  BY <1>1 DEF Plain, Pending
<1>5. AtOnce'  BY <1>1, <1>4 DEF DepsInv, AtOnce
<1>6. \A d : Met(d)' = Met(d)  BY <1>1 DEF Met
<1>7. Tested'  BY <1>1, <1>4, <1>6 DEF DepsInv, Tested
<1>8. QED  BY <1>2, <1>3, <1>5, <1>7 DEF DepsInv

LEMMA DepsInvHolds == Spec => []DepsInv
<1>1. Init => DepsInv  BY StartDeps
<1>2. DepsInv /\ [Next]_vars => DepsInv'
  <2> SUFFICES ASSUME DepsInv, [Next]_vars PROVE DepsInv'  OBVIOUS
  <2>1. CASE Independent  BY <2>1, IndependentKeeps
  <2>2. CASE StartPasses  BY <2>2, PassesKeep
  <2>3. CASE DefineMet  BY <2>3, MetKeeps
  <2>4. CASE SkipUnmet  BY <2>4, SkipKeeps
  <2>5. CASE EndPass  BY <2>5, EndPassKeeps
  <2>6. CASE ListUnmet  BY <2>6, UnmetKeeps
  <2>7. CASE Finish \/ UNCHANGED vars  BY <2>7, DoneKeeps
  <2>8. QED  BY <2>1, <2>2, <2>3, <2>4, <2>5, <2>6, <2>7 DEF Next
<1>3. QED  BY <1>1, <1>2, PTL DEF Spec

(* Every variable keeps its type: the walk never passes the end of the     *)
(* table by more than the step over the component after an erased one.     *)
THEOREM AccessTypes == Spec => []TypeOK
<1>1. DepsInv => TypeOK  BY DEF DepsInv
<1>2. QED  BY <1>1, DepsInvHolds, PTL


-----------------------------------------------------------------------------
(* In any design and whatever lines are commented out, no macro is defined *)
(* but for a component whose positive dependencies are defined: the guards *)
(* that stand around a component's lines are all of them its own.          *)
THEOREM GuardsHonoured == Spec => []OnlyIfDependenciesHold
<1>1. ASSUME DepsInv PROVE OnlyIfDependenciesHold
  <2> SUFFICES ASSUME NEW off \in SUBSET Macro, NEW m \in Preprocess(text, off)
               PROVE  \E c \in design :
                        /\ m \in ToSet(c.access)
                        /\ \A i \in DOMAIN c.deps :
                             ~c.deps[i].neg => c.deps[i].macro \in Preprocess(text, off)
    BY DEF OnlyIfDependenciesHold
  <2> DEFINE N == Len(text)
  <2>1. text \in Seq(Block) /\ N \in Nat  BY <1>1, LenProperties DEF DepsInv, TypeOK
  <2>2. PICK on : IsRun(on, text, off) /\ Preprocess(text, off) = on[N]
    BY <2>1, PreprocessRuns
  <2>3. PICK n \in 1..N : m \in ToSet(text[n].macros) \ off /\ Holds(text[n].guards, on[n - 1])
    BY <2>1, <2>2, RunExplains
  <2>4. on[n - 1] \subseteq on[N]
    <3>1. PICK k : k = n - 1  OBVIOUS
    <3>2. k \in 0..N /\ N \in 0..N /\ k <= N  BY <3>1, <2>1
    <3>3. on[k] \subseteq on[N]  BY <3>2, <2>1, <2>2, RunGrows
    <3>4. QED  BY <3>1, <3>3
  <2>5. PICK c \in design : text[n].guards = c.deps /\ ToSet(text[n].macros) \subseteq ToSet(c.access)
    BY <1>1 DEF DepsInv, FromComponents
  <2>6. \A i \in DOMAIN c.deps : ~c.deps[i].neg => c.deps[i].macro \in on[n - 1]
    BY <2>3, <2>5 DEF Holds
  <2>7. QED  BY <2>2, <2>3, <2>4, <2>5, <2>6
<1>2. QED  BY <1>1, DepsInvHolds, PTL

-----------------------------------------------------------------------------
(* The macros of the components that have their dependencies in X: what    *)
(* CalledFor() does in each round.                                         *)
Called(X, off) ==
  {m \in Macro \ off : \E c \in design : m \in ToSet(c.access) /\ Holds(c.deps, X)}

LEMMA PlainHolds ==
  ASSUME Plain, NEW c \in design, NEW X
  PROVE  Holds(c.deps, X) <=> \A i \in DOMAIN c.deps : c.deps[i].macro \in X
BY DEF Plain, Holds

LEMMA CalledGrows ==
  ASSUME Plain, NEW off, NEW X, NEW Y, X \subseteq Y
  PROVE  Called(X, off) \subseteq Called(Y, off)
<1>1. \A c \in design : Holds(c.deps, X) => Holds(c.deps, Y)  BY PlainHolds
<1>2. QED  BY <1>1 DEF Called

(* The rounds of CalledFor().                                              *)
IsRounds(have, off) ==
  /\ have \in [0..Cardinality(Macro) -> SUBSET Macro]
  /\ have[0] = {}
  /\ \A n \in 1..Cardinality(Macro) : have[n] = Called(have[n - 1], off)

LEMMA CalledForRounds ==
  ASSUME NEW off
  PROVE  \E have : IsRounds(have, off) /\ CalledFor(off) = have[Cardinality(Macro)]
<1> DEFINE N == Cardinality(Macro)
           X == SUBSET Macro
           G == [p \in (1..N) \X X |-> Called(p[2], off)]
           P(f) == f = [n \in 0..N |->
                          IF n = 0 THEN {}
                          ELSE {m \in Macro \ off :
                                  \E c \in design : m \in ToSet(c.access) /\ Holds(c.deps, f[n - 1])}]
           h == CHOOSE f : P(f)
<1>1. N \in Nat  BY MacroAssumption, FS_CardinalityType
<1>2. \A on : Called(on, off) \in X  BY DEF Called
<1>3. G \in Steps(N, X)  BY <1>2 DEF Steps
<1>4. \A n \in 1..N, on \in X : G[<<n, on>>] = Called(on, off)  OBVIOUS
<1>5. PICK f \in [0..N -> X] : f[0] = {} /\ \A n \in 1..N : f[n] = G[<<n, f[n - 1]>>]
  <2>1. \E b \in X : b = {}  OBVIOUS
  <2> HIDE DEF N, X, G
  <2>2. PICK b \in X : b = {}  BY <2>1
  <2>3. PICK f : IsRecursion(f, N, X, b, G)  BY <1>1, <1>3, RecursionExists
  <2>4. QED  BY <2>2, <2>3 DEF IsRecursion
<1>6. \A n \in 1..N : n - 1 \in 0..N /\ f[n - 1] \in X  BY <1>1, <1>5
<1>7. \A n \in 1..N : f[n] = Called(f[n - 1], off)  BY <1>4, <1>5, <1>6
<1>8. P(f)
  <2>1. \A n \in 0..N : n # 0 => n \in 1..N  BY <1>1
  <2>2. f = [n \in 0..N |-> f[n]]  BY <1>5
  <2>3. \A n \in 0..N : f[n] = IF n = 0 THEN {} ELSE Called(f[n - 1], off)
    BY <2>1, <1>5, <1>7
  <2>4. f = [n \in 0..N |-> IF n = 0 THEN {} ELSE Called(f[n - 1], off)]
    BY <2>2, <2>3
  <2>5. QED  BY <2>4 DEF Called
<1>9. CalledFor(off) = h[N]  BY DEF CalledFor
<1>10. P(h)
  <2> HIDE DEF P
  <2>1. QED  BY <1>8
<1>11. DOMAIN h = 0..N /\ \A n \in 0..N : h[n] = IF n = 0 THEN {} ELSE Called(h[n - 1], off)
  <2> HIDE DEF h
  <2>1. h = [n \in 0..N |-> IF n = 0 THEN {} ELSE Called(h[n - 1], off)]
    BY <1>10 DEF Called
  <2>2. QED  BY <2>1
<1>12. h = [n \in 0..N |-> h[n]]
  <2> HIDE DEF h
  <2>1. QED  BY <1>10
<1> HIDE DEF h
<1>13. \A n \in 0..N : h[n] \in X  BY <1>2, <1>11
<1>14. h \in [0..N -> X]  BY <1>12, <1>13
<1>15. 0 \in 0..N /\ \A n \in 1..N : n \in 0..N /\ n # 0  BY <1>1
<1>16. IsRounds(h, off)  BY <1>11, <1>14, <1>15 DEF IsRounds
<1>17. QED  BY <1>9, <1>16

(* As many rounds as there are macros are enough: a round that adds none   *)
(* is the last to matter.                                                  *)
LEMMA CalledForIsLeast ==
  ASSUME Plain, NEW off
  PROVE  /\ CalledFor(off) \subseteq Macro
         /\ Called(CalledFor(off), off) = CalledFor(off)
         /\ \A X : Called(X, off) \subseteq X => CalledFor(off) \subseteq X
<1> DEFINE N == Cardinality(Macro)
<1>1. N \in Nat  BY MacroAssumption, FS_CardinalityType
<1>2. PICK have : IsRounds(have, off) /\ CalledFor(off) = have[N]
  BY CalledForRounds
<1>3. \A n \in 0..N : have[n] \subseteq Macro  BY <1>2 DEF IsRounds
<1>4. \A k \in Nat : k + 1 <= N => have[k + 1] = Called(have[k], off)
  <2> SUFFICES ASSUME NEW k \in Nat, k + 1 <= N
               PROVE  have[k + 1] = Called(have[k], off)
    OBVIOUS
  <2>1. PICK n \in 1..N : n = k + 1 /\ n - 1 = k  BY <1>1
  <2>2. have[n] = Called(have[n - 1], off)  BY <1>2, <2>1 DEF IsRounds
  <2>3. QED  BY <2>1, <2>2
<1>5. have[0] = {}  BY <1>2 DEF IsRounds
<1> DEFINE Settled(k) == Called(have[k], off) = have[k]
           Q(k) == /\ have[k] \subseteq Called(have[k], off)
                   /\ Settled(k) \/ Cardinality(have[k]) >= k
           S == {k \in Nat : k <= N => Q(k)}
<1>6. 0 \in S
  <2>1. Cardinality(have[0]) >= 0  BY <1>5, FS_EmptySet
  <2>2. QED  BY <2>1, <1>5
<1>7. ASSUME NEW k \in Nat, k \in S PROVE k + 1 \in S
  <2> SUFFICES ASSUME k + 1 <= N PROVE Q(k + 1)
    <3> HIDE DEF Q, N
    <3>1. QED  OBVIOUS
  <2>1. k <= N /\ k \in 0..N /\ k + 1 \in 0..N  BY <1>1
  <2>2. Q(k)
    <3> HIDE DEF Q
    <3>1. QED  BY <1>7, <2>1
  <2>3. have[k + 1] = Called(have[k], off)  BY <1>4
  <2>4. have[k + 1] \subseteq Called(have[k + 1], off)
    BY <2>2, <2>3, CalledGrows
  <2>5. CASE Settled(k)  BY <2>3, <2>4, <2>5
  <2>6. CASE ~Settled(k) /\ Cardinality(have[k]) >= k
    <3>1. IsFiniteSet(have[k + 1])  BY <1>3, <2>1, MacroAssumption, FS_Subset
    <3>2. have[k] \subseteq have[k + 1] /\ have[k] # have[k + 1]
      BY <2>2, <2>3, <2>6
    <3>3. /\ IsFiniteSet(have[k])
          /\ Cardinality(have[k]) <= Cardinality(have[k + 1])
          /\ Cardinality(have[k]) = Cardinality(have[k + 1]) => have[k] = have[k + 1]
      BY <3>1, <3>2, FS_Subset
    <3>4. Cardinality(have[k]) \in Nat /\ Cardinality(have[k + 1]) \in Nat
      BY <3>1, <3>3, FS_CardinalityType
    <3>5. Cardinality(have[k + 1]) >= k + 1  BY <3>2, <3>3, <3>4, <2>6
    <3>6. QED  BY <2>4, <3>5
  <2>7. QED  BY <2>2, <2>5, <2>6
<1> HIDE DEF S
<1>8. Nat \subseteq S  BY <1>6, <1>7, NatSetInduction
<1>9. Q(N)
  <2>1. N \in S /\ N <= N  BY <1>1, <1>8
  <2> HIDE DEF Q
  <2>2. QED  BY <2>1 DEF S
<1>10. have[N] \subseteq Macro  BY <1>1, <1>3
<1>11. Settled(N)
  <2> SUFFICES ASSUME Cardinality(have[N]) >= N PROVE Settled(N)
    BY <1>9
  <2>1. /\ Cardinality(have[N]) <= N
        /\ Cardinality(have[N]) = N => have[N] = Macro
        /\ IsFiniteSet(have[N])
    BY <1>10, MacroAssumption, FS_Subset
  <2>2. Cardinality(have[N]) \in Nat  BY <2>1, FS_CardinalityType
  <2>3. have[N] = Macro  BY <2>1, <2>2, <1>1
  <2>4. Called(have[N], off) \subseteq Macro  BY DEF Called
  <2>5. QED  BY <2>3, <2>4, <1>9
<1>12. ASSUME NEW X, Called(X, off) \subseteq X PROVE have[N] \subseteq X
  <2> DEFINE T == {k \in Nat : k <= N => have[k] \subseteq X}
  <2>1. 0 \in T  BY <1>5
  <2>2. ASSUME NEW k \in Nat, k \in T PROVE k + 1 \in T
    <3> SUFFICES ASSUME k + 1 <= N PROVE have[k + 1] \subseteq X  OBVIOUS
    <3>1. k <= N  BY <1>1
    <3>2. have[k] \subseteq X  BY <2>2, <3>1
    <3>3. Called(have[k], off) \subseteq Called(X, off)  BY <3>2, CalledGrows
    <3>4. QED  BY <3>3, <1>4, <1>12
  <2> HIDE DEF T
  <2>3. Nat \subseteq T  BY <2>1, <2>2, NatSetInduction
  <2>4. N \in T /\ N <= N  BY <2>3, <1>1
  <2> HIDE DEF N
  <2>5. QED  BY <2>4 DEF T
<1>13. QED  BY <1>2, <1>10, <1>11, <1>12

(* A component all of whose dependencies are defined above has been        *)
(* written there: none such is left in the table.                          *)
LEMMA NoneWithheld ==
  ASSUME DepsInv, Finished, Plain, NEW c \in design,
         \A i \in DOMAIN c.deps : c.deps[i].macro \in already_defined
  PROVE  ToSet(c.access) \subseteq already_defined
<1>1. c \in Component  BY DesignTypes DEF DepsInv
<1>2. \A i \in DOMAIN c.deps : c.deps[i].macro \in Macro  BY <1>1, ComponentType
<1>3. Met(c)  BY <1>2, DefinedItself DEF Met
<1>4. Pending = ToSet(dephash)  BY DEF Finished, Pending
<1>5. c \notin Pending  BY <1>3, <1>4 DEF DepsInv, Tested, Finished
<1>6. QED  BY <1>5 DEF DepsInv, AtOnce

(* The blocks that are listed for reference add nothing.                   *)
LEMMA RunWithinDefined ==
  ASSUME DepsInv, Finished, Plain, NEW off, NEW on, IsRun(on, text, off)
  PROVE  on[Len(text)] \subseteq already_defined
<1> DEFINE N == Len(text)
           T == {k \in Nat : k <= N => on[k] \subseteq already_defined}
<1>1. N \in Nat  BY LenProperties DEF DepsInv, TypeOK
<1>2. 0 \in T  BY DEF IsRun
<1>3. ASSUME NEW k \in Nat, k \in T PROVE k + 1 \in T
  <2> SUFFICES ASSUME k + 1 <= N, NEW m \in on[k + 1] PROVE m \in already_defined
    OBVIOUS
  <2>1. PICK n \in 1..N : n = k + 1 /\ n - 1 = k  BY <1>1
  <2>2. on[k] \subseteq already_defined  BY <1>1, <1>3
  <2>3. on[n] = IF Holds(text[n].guards, on[n - 1])
                  THEN on[n - 1] \cup (ToSet(text[n].macros) \ off) ELSE on[n - 1]
    BY DEF IsRun
  <2>4. CASE m \in on[k]  BY <2>2, <2>4
  <2>5. CASE m \notin on[k]
    <3>1. Holds(text[n].guards, on[k]) /\ m \in ToSet(text[n].macros)
      BY <2>1, <2>3, <2>5
    <3>2. PICK c \in design : text[n].guards = c.deps /\ ToSet(text[n].macros) \subseteq ToSet(c.access)
      BY DEF DepsInv, FromComponents
    <3>3. \A i \in DOMAIN c.deps : c.deps[i].macro \in already_defined
      BY <2>2, <3>1, <3>2, PlainHolds
    <3>4. QED  BY <3>1, <3>2, <3>3, NoneWithheld
  <2>6. QED  BY <2>4, <2>5
<1> HIDE DEF T
<1>4. Nat \subseteq T  BY <1>2, <1>3, NatSetInduction
<1>5. N \in T /\ N <= N  BY <1>1, <1>4
<1>6. QED  BY <1>5 DEF T

(* What is defined in the end is defined as soon as the blocks above the   *)
(* place have named it.                                                    *)
LEMMA DefinedWhereNamed ==
  ASSUME DepsInv, Finished, Plain, NEW off, NEW on, IsRun(on, text, off),
         NEW k \in 0..Len(text), Grounded(text, k), already_defined = MacrosOf(text, k),
         NEW e \in 0..k
  PROVE  on[Len(text)] \cap MacrosOf(text, e) \subseteq on[e]
<1> DEFINE N == Len(text)
           P == on[N]
           T == {i \in Nat : i <= k => P \cap MacrosOf(text, i) \subseteq on[i]}
<1>1. N \in Nat /\ k \in Nat /\ k <= N /\ text \in Seq(Block)
  BY LenProperties DEF DepsInv, TypeOK
<1>2. 0 \in T
  <2>1. MacrosOf(text, 0) = {}  BY DEF MacrosOf
  <2>2. QED  BY <2>1
<1>3. P \subseteq already_defined  BY RunWithinDefined
<1>4. already_defined \subseteq UNION {ToSet(c.access) : c \in design}  BY KnownMacros
<1>5. ASSUME NEW i \in Nat, i \in T PROVE i + 1 \in T
  <2> SUFFICES ASSUME i + 1 <= k, NEW d \in P, d \in MacrosOf(text, i + 1)
               PROVE  d \in on[i + 1]
    OBVIOUS
  <2>1. PICK b \in 1..N : b = i + 1 /\ b - 1 = i /\ b <= k  BY <1>1
  <2>2. P \cap MacrosOf(text, i) \subseteq on[i]  BY <1>1, <1>5
  <2>3. on[b] = IF Holds(text[b].guards, on[i])
                  THEN on[i] \cup (ToSet(text[b].macros) \ off) ELSE on[i]
    BY <2>1 DEF IsRun
  <2>4. d \in MacrosOf(text, i) \/ d \in ToSet(text[b].macros)
    <3>1. PICK j \in 1..(i + 1) : d \in ToSet(text[j].macros)  BY DEF MacrosOf
    <3>2. j \in 1..i \/ j = b  BY <2>1
    <3>3. QED  BY <3>1, <3>2 DEF MacrosOf
  <2>5. CASE d \in MacrosOf(text, i)  BY <2>1, <2>2, <2>3, <2>5
  <2>6. CASE d \in ToSet(text[b].macros)
    <3>1. PICK n \in 1..N : d \in ToSet(text[n].macros) \ off /\ Holds(text[n].guards, on[n - 1])
      BY <1>1, RunExplains
    <3>2. PICK c \in design : text[n].guards = c.deps /\ ToSet(text[n].macros) \subseteq ToSet(c.access)
      BY DEF DepsInv, FromComponents
    <3>3. PICK x \in design : text[b].guards = x.deps /\ ToSet(text[b].macros) \subseteq ToSet(x.access)
      BY DEF DepsInv, FromComponents
    <3>4. x = c  BY <3>1, <3>2, <3>3, <2>6 DEF Plain
    <3>5. on[n - 1] \subseteq P
      <4>1. PICK r \in 0..N : r = n - 1  BY <1>1
      <4>2. r <= N /\ N \in 0..N  BY <1>1
      <4>3. on[r] \subseteq on[N]  BY <4>2, <1>1, RunGrows
      <4>4. QED  BY <4>1, <4>3
    <3>6. ASSUME NEW j \in DOMAIN c.deps PROVE c.deps[j].macro \in on[i]
      <4>1. c.deps[j].macro \in P  BY <3>1, <3>2, <3>5, PlainHolds
      <4>2. b \in 1..k  BY <2>1
      <4>3. AlreadyDefined(c.deps[j].macro, MacrosOf(text, b - 1))
        BY <4>2, <3>3, <3>4 DEF Grounded
      <4>4. MacrosOf(text, i) \subseteq already_defined  BY <2>1, <1>1 DEF MacrosOf
      <4>5. c.deps[j].macro \in MacrosOf(text, i)
        BY <4>1, <4>3, <4>4, <2>1, <1>3, <1>4, PlainDefined
      <4>6. QED  BY <4>1, <4>5, <2>2
    <3>7. Holds(text[b].guards, on[i])  BY <3>3, <3>4, <3>6, PlainHolds
    <3>8. QED  BY <3>1, <3>7, <2>1, <2>3, <2>6
  <2>7. QED  BY <2>4, <2>5, <2>6
<1> HIDE DEF T
<1>6. Nat \subseteq T  BY <1>2, <1>5, NatSetInduction
<1>7. e \in T /\ e <= k  BY <1>1, <1>6
<1>8. QED  BY <1>7 DEF T

(* In plain designs, whatever order the tables are walked in and whatever  *)
(* lines are commented out, the macros that end up defined are the least   *)
(* set that has those of every component whose dependencies it has.        *)
THEOREM DefinesRight == Spec => []DefinesWhatTagsCallFor
<1>1. ASSUME DepsInv PROVE DefinesWhatTagsCallFor
  <2> SUFFICES ASSUME Finished, Plain, NEW off \in SUBSET Macro
               PROVE  Preprocess(text, off) = CalledFor(off)
    BY DEF DefinesWhatTagsCallFor
  <2> DEFINE N == Len(text)
             CF == CalledFor(off)
  <2>1. text \in Seq(Block) /\ N \in Nat  BY <1>1, LenProperties DEF DepsInv, TypeOK
  <2>2. PICK on : IsRun(on, text, off) /\ Preprocess(text, off) = on[N]
    BY <2>1, PreprocessRuns
  <2>3. /\ Called(CF, off) = CF
        /\ \A X : Called(X, off) \subseteq X => CF \subseteq X
    BY CalledForIsLeast
  <2> HIDE DEF CF
  <2>4. on[N] \subseteq CF
    <3> DEFINE T == {k \in Nat : k <= N => on[k] \subseteq CF}
    <3>1. 0 \in T  BY <2>2 DEF IsRun
    <3>2. ASSUME NEW k \in Nat, k \in T PROVE k + 1 \in T
      <4> SUFFICES ASSUME k + 1 <= N, NEW m \in on[k + 1], m \notin on[k]
                   PROVE  m \in CF
        BY <2>1, <3>2
      <4>1. PICK n \in 1..N : n = k + 1 /\ n - 1 = k  BY <2>1
      <4>2. on[n] = IF Holds(text[n].guards, on[k])
                      THEN on[k] \cup (ToSet(text[n].macros) \ off) ELSE on[k]
        BY <4>1, <2>2 DEF IsRun
      <4>3. Holds(text[n].guards, on[k]) /\ m \in ToSet(text[n].macros) \ off
        BY <4>1, <4>2
      <4>4. PICK c \in design : text[n].guards = c.deps /\ ToSet(text[n].macros) \subseteq ToSet(c.access)
        BY <1>1 DEF DepsInv, FromComponents
      <4>5. m \in Macro  BY <4>3, <2>1, BlockType
      <4>6. m \in Called(on[k], off)  BY <4>3, <4>4, <4>5 DEF Called
      <4>7. on[k] \subseteq CF  BY <2>1, <3>2
      <4>8. QED  BY <4>6, <4>7, <2>3, CalledGrows
    <3> HIDE DEF T
    <3>3. Nat \subseteq T  BY <3>1, <3>2, NatSetInduction
    <3>4. N \in T /\ N <= N  BY <2>1, <3>3
    <3>5. QED  BY <3>4 DEF T
  <2>5. Called(on[N], off) \subseteq on[N]
    <3> SUFFICES ASSUME NEW m \in Called(on[N], off) PROVE m \in on[N]
      OBVIOUS
    <3>1. PICK c \in design : m \in ToSet(c.access) /\ Holds(c.deps, on[N])
      BY DEF Called
    <3>2. m \notin off  BY DEF Called
    <3>3. PICK k \in 0..N : Grounded(text, k) /\ already_defined = MacrosOf(text, k)
      BY <1>1 DEF DepsInv, GroundedFirst
    <3>4. on[N] \subseteq already_defined  BY <1>1, <2>2, RunWithinDefined
    <3>5. \A i \in DOMAIN c.deps : c.deps[i].macro \in on[N]  BY <3>1, PlainHolds
    <3>6. m \in already_defined  BY <1>1, <3>1, <3>4, <3>5, NoneWithheld
    <3>7. PICK b \in 1..k : m \in ToSet(text[b].macros)  BY <3>3, <3>6 DEF MacrosOf
    <3>8. PICK a \in 0..k : a = b - 1  BY <2>1
    <3>9. b \in 1..N /\ b \in 0..N /\ b <= N /\ N \in 0..N  BY <2>1
    <3>10. PICK x \in design : text[b].guards = x.deps /\ ToSet(text[b].macros) \subseteq ToSet(x.access)
      BY <1>1, <3>9 DEF DepsInv, FromComponents
    <3>11. x = c  BY <3>1, <3>7, <3>10 DEF Plain
    <3>12. on[N] \cap MacrosOf(text, a) \subseteq on[a]
      BY <1>1, <2>2, <3>3, DefinedWhereNamed
    <3>13. ASSUME NEW j \in DOMAIN c.deps PROVE c.deps[j].macro \in on[a]
      <4>1. AlreadyDefined(c.deps[j].macro, MacrosOf(text, a))
        BY <3>3, <3>8, <3>10, <3>11 DEF Grounded
      <4>2. MacrosOf(text, a) \subseteq already_defined
        BY <3>3, <3>8 DEF MacrosOf
      <4>3. already_defined \subseteq UNION {ToSet(d.access) : d \in design}
        BY <1>1, KnownMacros
      <4>4. c.deps[j].macro \in MacrosOf(text, a)
        BY <4>1, <4>2, <4>3, <3>4, <3>5, PlainDefined
      <4>5. QED  BY <4>4, <3>5, <3>12
    <3>14. Holds(text[b].guards, on[a])  BY <3>10, <3>11, <3>13, PlainHolds
    <3>15. m \in on[b]  BY <3>2, <3>7, <3>8, <3>9, <3>14, <2>2 DEF IsRun
    <3>16. on[b] \subseteq on[N]  BY <3>9, <2>1, <2>2, RunGrows
    <3>17. QED  BY <3>15, <3>16
  <2>6. CF \subseteq on[N]  BY <2>3, <2>5
  <2>7. QED  BY <2>2, <2>4, <2>6 DEF CF
<1>2. QED  BY <1>1, DepsInvHolds, PTL
=============================================================================
