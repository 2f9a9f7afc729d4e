---------------------------- MODULE MCPicAssign -----------------------------
(* Instances of PicAssign for TLC.                                         *)
EXTENDS PicAssign

CONSTANTS a, b, c, x, sys, alt, sysvec, altvec

P(name, bus, max) == [name |-> name, bus |-> bus, max |-> max]
C(lines) == [lines |-> lines, listed |-> FALSE]
L(lines) == [lines |-> lines, listed |-> TRUE]

MCPics == { {},
            {P(sys, sysvec, 2)},
            {P(sys, sysvec, 0), P(alt, altvec, 2)},
            {P(sys, sysvec, 1), P(alt, altvec, 3)} }

(* Lines of one component and of several; a list that names b twice.       *)
MCComps == { {C(<<a, b>>), C(<<c>>), L(<<x>>)}, {C(<<a, b, c, x>>)},
             {L(<<b, a, b>>), C(<<c, x>>)} }

(* Lines with and without an ID, the same ID and one out of bounds.        *)
MCIds == [{a, b, c} -> {-1, 1}]
         \cup {[l \in {a, b, c} |-> IF l = c THEN -1 ELSE 0],
               [l \in {a, b, c} |-> IF l = b THEN -1 ELSE 2]}

(* x is a line that names no controller that exists, then one that does.   *)
MCTags ==
  { [l \in {a, b, c, x} |-> IF l = x THEN <<altvec>> ELSE <<sys>>],
    [l \in {a, b, c, x} |-> CASE l = a -> <<sys, alt>> [] l = b -> <<alt>>
                               [] l = c -> <<alt, alt>> [] l = x -> <<>>] }

MCDesigns ==
  { [pics |-> p, comps |-> cs, tags |-> t,
     id |-> [l \in {a, b, c, x} |-> IF l = x THEN -1 ELSE i[l]]] :
      p \in MCPics, cs \in MCComps, t \in MCTags, i \in MCIds }
=============================================================================
