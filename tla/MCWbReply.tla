------------------------------ MODULE MCWbReply ------------------------------
(* Instances of WbReply for TLC.                                           *)
EXTENDS WbReply

(* The layout that assign_addresses gives slaves of these names and widths.*)
LayOut(names, bits) ==
  LET base[i \in 1..Len(bits)] ==
        IF i = 1 THEN 0 ELSE AlignUp(base[i-1] + 2^bits[i-1], 2^bits[i])
  IN  [i \in 1..Len(bits) |-> [name |-> names[i], base |-> base[i], bits |-> bits[i]]]

Singles(n, w) == LayOut(<<"s1", "s2", "s3", "s4", "s5">>, [i \in 1..n |-> w])

(* Each slave is asked for its first and its last address, and the bus for *)
(* the first and last address it has.                                      *)
B(slist, dlist) ==
  LET top   == IF dlist = <<>> THEN slist ELSE dlist
      edges == UNION {{s.base, s.base + 2^s.bits - 1} : s \in ToSet(top)}
  IN  [slist |-> slist, dlist |-> dlist, lowpower |-> FALSE,
       asks |-> edges \cup {0, 2^Sbaw(top) - 1}]

(* Three SINGLE slaves (and a default, in two forms), and four.            *)
SioBuses == {B(Singles(3, 0), <<>>), B(Singles(4, 0), <<>>),
             [B(Singles(3, 1), <<>>) EXCEPT !.lowpower = TRUE]}

(* DOUBLE slaves: two of one size, three of different sizes, and in an     *)
(* order that leaves a gap.                                                *)
DioBuses == {B(<<>>, LayOut(<<"d1", "d2">>, <<1, 1>>)),
             B(<<>>, LayOut(<<"d1", "d2", "d3">>, <<0, 1, 2>>)),
             B(<<>>, LayOut(<<"d1", "d2">>, <<0, 2>>))}

(* Both: the SINGLE slaves fill the place of their bus, which is asked for *)
(* each of them, or a part of it.                                          *)
Both(bits, asks) ==
  [B(Singles(3, 0), LayOut(<<"d1", SioName>>, bits)) EXCEPT !.asks = asks]

BothBuses == {Both(<<1, 2>>, {0, 1, 4, 5, 6, 7}), Both(<<0, 3>>, {0, 3, 8, 9, 10, 13})}

MCBuses == SioBuses \cup DioBuses \cup BothBuses
=============================================================================
