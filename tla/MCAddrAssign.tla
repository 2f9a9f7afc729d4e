---------------------------- MODULE MCAddrAssign ----------------------------
(* Instances of AddrAssign for TLC.                                        *)
EXTENDS AddrAssign

(* A list of n slaves, named by their position.                            *)
ListsOf(n, naddrs, orders) ==
  { [i \in 1..n |-> [name |-> i, naddr |-> f[i][1],
                     ordered |-> f[i][2] # 0, order |-> f[i][2]]] :
      f \in [1..n -> naddrs \X orders] }

MCLists == ListsOf(0, {}, {})
           \cup ListsOf(1, {1, 3, 16}, {0, 1})
           \cup ListsOf(2, {1, 3, 8}, {0, 1, 2})
           \cup ListsOf(3, {1, 8}, {0, 1}) \cup ListsOf(3, {1, 2, 8}, {0})
           \cup ListsOf(4, {1, 3}, {0})

Wb(lgdw, nullsz)      == [word |-> TRUE,  lgdw |-> lgdw, nullsz |-> nullsz, minaw |-> 0]
Axi(lgdw, nullsz, mn) == [word |-> FALSE, lgdw |-> lgdw, nullsz |-> nullsz, minaw |-> mn]

(* 32-bit Wishbone (with none, a short, an unaligned and a wide null       *)
(* space), 16-bit Wishbone, 32-bit AXI-lite below and above its minimum.   *)
MCBuses == { Wb(2, 0), Wb(2, 4), Wb(2, 6), Wb(2, 32), Wb(1, 2),
             Axi(2, 0, 0), Axi(2, 8, 5) }
=============================================================================
