----------------------------- MODULE MCBusTree -----------------------------
(* Instances of BusTree for TLC.                                           *)
EXTENDS BusTree

Wb(lgdw, nullsz)   == [word |-> TRUE,  lgdw |-> lgdw, nullsz |-> nullsz, minaw |-> 0]
Axil(lgdw, nullsz) == [word |-> FALSE, lgdw |-> lgdw, nullsz |-> nullsz, minaw |-> 4]

Io(b, n)      == [bus |-> b, naddr |-> n, memory |-> FALSE, below |-> 0]
Mem(b, n)     == [bus |-> b, naddr |-> n, memory |-> TRUE,  below |-> 0]
Bridge(b, m)  == [bus |-> b, naddr |-> 0, memory |-> FALSE, below |-> m]
(* A bridge that has an NADDR is asked for its width when it is added.     *)
Early(b, m)   == [Bridge(b, m) EXCEPT !.naddr = 1]

(* The rotations of a list and of its reverse: 8 of the 24 orders of four, *)
(* each pair in both orders, next to each other and apart.                 *)
Permuted(s) ==
  {[i \in DOMAIN s |-> t[1 + ((i + r) % Len(s))]] : t \in {s, Reverse(s)}, r \in DOMAIN s}

On(buses, comps, orders, reg, cpu) ==
  {[buses |-> buses, comps |-> c, order |-> o, regbus |-> reg, cpubus |-> cpu] :
     c \in comps, o \in orders}

Orders(n) == {[i \in 1..n |-> i], [i \in 1..n |-> n + 1 - i]}

(* Two buses, the second below a slave of the first.                       *)
Two ==
  UNION {On(<<p, q>>, Permuted(<<Io(1, n), Bridge(1, 2), Mem(2, 4), s>>), Orders(2), 1, cpu) :
    p \in {Wb(2, 0), Wb(2, 4), Axil(2, 8)}, q \in {Wb(2, 0), Wb(3, 8), Axil(2, 0)},
    n \in {1, 5}, s \in {Io(2, 1), Mem(1, 3)}, cpu \in {1}}

(* A chain of three, the last with a single slave or two.                  *)
Three ==
  UNION {On(<<p, Wb(2, 0), r>>, Permuted(<<Io(1, 2), Bridge(1, 2), Bridge(2, 3), m>>)
              \cup Permuted(<<Bridge(1, 2), Bridge(2, 3), Mem(2, 2), m>>), Orders(3), 1, 1) :
    p \in {Wb(2, 4), Axil(2, 8)}, r \in {Wb(2, 0), Wb(2, 4), Axil(3, 0)}, m \in {Mem(3, 4), Io(3, 1)}}

(* Two masters of one bus, at equal distances; and two buses side by side. *)
Shared ==
  On(<<Wb(2, 4), Wb(2, 4), Wb(2, 0)>>,
     Permuted(<<Bridge(1, 3), Bridge(2, 3), Mem(3, 4), Io(3, 2)>>), Orders(3), 1, 2)
  \cup On(<<Wb(2, 4), Wb(2, 0), Wb(2, 0)>>, {<<Mem(1, 4), Io(1, 1), Mem(2, 2)>>}, Orders(3), 1, 2)

(* Bridges that are asked too early: after, before and between the slaves  *)
(* of their bus, or with a bus that has none.                              *)
Hastily ==
  On(<<Wb(2, 4), Wb(2, 0)>>, Permuted(<<Io(2, 2), Mem(2, 4), Early(1, 2), Io(1, 1)>>), Orders(2), 1, 1)
  \cup On(<<Wb(2, 4), Wb(2, 0)>>, Permuted(<<Early(1, 2), Mem(1, 4), Io(1, 1)>>), Orders(2), 1, 1)

EarlyDesigns == {d \in Hastily : \E c \in DOMAIN d.comps : d.comps[c].bus = 2}

MCDesigns == Two \cup Three \cup Shared \cup Hastily

MCBuses == UNION {Range(d.buses) : d \in MCDesigns}
=============================================================================
