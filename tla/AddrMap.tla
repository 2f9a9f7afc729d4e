------------------------------- MODULE AddrMap ------------------------------
(***************************************************************************)
(* What the address assignment of one bus promises, whatever the order and *)
(* the sizes it chooses: each slave is given, once and for good, a region  *)
(* of the bus whose size is the one it needs or a larger one, which starts *)
(* at a multiple of its size, leaves the null space alone and meets no     *)
(* other slave's region.                                                   *)
(***************************************************************************)
EXTENDS Integers

CONSTANTS Slave    \* the identities of slaves

VARIABLES
  map,             \* the regions given so far, [slave |-> [base, size]]
  need,            \* the octets each slave of the bus decodes itself
  nullsz           \* the octets at the bottom of the bus that map nothing

amvars == <<map, need, nullsz>>

Disjoint(r, q) == r.base + r.size <= q.base \/ q.base + q.size <= r.base

AInit == DOMAIN map = {}

Place(s) ==
  /\ s \notin DOMAIN map
  /\ DOMAIN map' = DOMAIN map \cup {s}
  /\ \A t \in DOMAIN map : map'[t] = map[t] /\ Disjoint(map'[s], map[t])
  /\ map'[s].base >= nullsz
  /\ map'[s].base % map'[s].size = 0
  /\ map'[s].size >= need[s]
  /\ UNCHANGED <<need, nullsz>>

ANext == \E s \in Slave : Place(s)

ASpec == AInit /\ [][ANext]_amvars
=============================================================================
