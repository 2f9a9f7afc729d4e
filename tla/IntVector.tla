------------------------------ MODULE IntVector -----------------------------
(***************************************************************************)
(* What the assignment of interrupts promises of the interrupt vectors: a  *)
(* position is given to one interrupt line, once and for good, and a line  *)
(* that names a position is given no other.                                *)
(***************************************************************************)
EXTENDS Integers

CONSTANTS Line,    \* the interrupt lines
          Free     \* not a line

VARIABLES
  vector,          \* the line at each position, [<<vector, position>> -> Line]
  wanted           \* wanted[l]: the position line l names, if not negative

IVInit == \A s \in DOMAIN vector : vector[s] = Free

Claim(s, l) ==
  /\ vector[s] = Free
  /\ wanted[l] < 0 \/ wanted[l] = s[2]
  /\ vector' = [vector EXCEPT ![s] = l]
  /\ UNCHANGED wanted

IVNext == \E s \in DOMAIN vector, l \in Line : Claim(s, l)

IVSpec == IVInit /\ [][IVNext]_<<vector, wanted>>
=============================================================================
