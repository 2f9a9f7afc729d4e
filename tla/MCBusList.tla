------------------------------ MODULE MCBusList ------------------------------
(* Instances of BusList for TLC.                                           *)
EXTENDS BusList

CONSTANTS A, B
MCNames == {A, B}

None == [kind |-> "none", name |-> NoName, tags |-> <<>>, val |-> NoTags]
Named(n) == [kind |-> "name", name |-> n, tags |-> <<>>, val |-> NoTags]

(* A piece with these tags, in every order of its table.                   *)
Maps(n, val) ==
  {[kind |-> "map", name |-> n, tags |-> s, val |-> val] :
     s \in {f \in [1..Cardinality(DOMAIN val) -> DOMAIN val] : IsInjective(f)}}

Contents ==
  {[WIDTH |-> 32, TYPE |-> 2, CLOCK |-> 1],
   [NULLSZ |-> 4, WIDTH |-> 32, OPT_PIPE |-> 5],
   [WIDTH |-> 64, RESET |-> 1, CLOCK |-> 1],
   [IDWIDTH |-> 2, RESET |-> 2, TYPE |-> 2]}
PiecesOf(n) == UNION {Maps(n, v) : v \in Contents}

Third ==
  {None, Named(B)} \cup Maps(A, [IDWIDTH |-> 3, NULLSZ |-> 4]) \cup Maps(B, [CLOCK |-> 2])
  \cup Maps(NoName, [WIDTH |-> 8])

Comp(b, s, m) == [pieces |-> [BUS |-> b, SLAVE |-> s, MASTER |-> m],
                  slave |-> s # None, master |-> m # None]
(* Two pieces of the bus A and a third, in one component or in two, in     *)
(* both orders of the components; no default bus, A, and B.                *)
Spread(p, q, r) ==
  {[default |-> NoName, comps |-> <<Comp(None, p, q), Comp(None, r, None)>>],
   [default |-> A, comps |-> <<Comp(None, r, None), Comp(p, q, None)>>],
   [default |-> B, comps |-> <<Comp(p, None, r), [Comp(None, Named(A), None) EXCEPT !.master = TRUE]>>]}
MCDesigns ==
  UNION {Spread(p, q, r) : p \in PiecesOf(A), q \in PiecesOf(A), r \in Third}
  \cup {[default |-> d, comps |-> <<[Comp(p, None, None) EXCEPT !.slave = TRUE]>>] :
           d \in {A, NoName}, p \in {None} \cup Maps(A, [WIDTH |-> 32, CLOCK |-> 1])}
=============================================================================
