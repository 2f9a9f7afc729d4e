---------------------------- MODULE MCAccessDeps ----------------------------
(* Instances of AccessDeps for TLC.                                        *)
EXTENDS AccessDeps

CONSTANTS A, B, C, D

Pos(m) == [neg |-> FALSE, macro |-> m]
Neg(m) == [neg |-> TRUE, macro |-> m]

Comp(periph, access, deps) ==
  [periph |-> periph, depends |-> deps # <<>>, access |-> access, deps |-> deps]

Reflexive == {<<m, m>> : m \in Macro}

(* Four components that each define a macro, and depend upon any of the    *)
(* others (in a circle, too): every graph of dependencies of degree two.   *)
Deps == {<<>>} \cup {<<Pos(m)>> : m \in Macro}
        \cup {<<Pos(f[1]), Pos(f[2])>> : f \in {<<A, B>>, <<B, C>>, <<C, A>>}}

PlainDesigns ==
  { {Comp(FALSE, <<A>>, f[A]), Comp(TRUE, <<B>>, f[B]),
     Comp(TRUE, <<C>>, f[C]), Comp(TRUE, <<D>>, <<Pos(B), Pos(A)>>)} :
      f \in [{A, B, C} -> Deps] }

(* Negative dependencies, components of several macros, and macros that    *)
(* several components define.                                              *)
MixedDesigns ==
  { {Comp(FALSE, <<A>>, f[A]), Comp(TRUE, <<B, C>>, f[B]),
     Comp(TRUE, <<C, B>>, f[C])} :
      f \in [{A, B, C} -> {<<>>} \cup {<<Pos(m)>> : m \in {A, B, D}}
                                 \cup {<<Neg(m)>> : m \in {A, B, D}}] }

MCDesigns == PlainDesigns \cup MixedDesigns
=============================================================================
