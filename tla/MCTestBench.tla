----------------------------- MODULE MCTestBench -----------------------------
(* Instances of TestBench for TLC.  A second is 48 ps.                     *)
EXTENDS TestBench

CONSTANTS B, C
MCClockNames == {Clk, B, C}
MCDefault(n) == <<"i", n>>

Comp0 == [name |-> <<>>, wire |-> <<>>, top |-> <<>>, class |-> <<>>, reset |-> <<>>, freq |-> <<>>,
          number |-> 0, simtick |-> FALSE, simclock |-> NoName, simload |-> <<>>]
Named1(n, hz) == [Comp0 EXCEPT !.name = <<n>>, !.number = hz]
Ticked(c) == [c EXCEPT !.simtick = TRUE]
Orders(cs) == {[k \in 1..Len(cs) |-> cs[f[k]]] : f \in {g \in [1..Len(cs) -> 1..Len(cs)] : IsInjective(g)}}

(* Clocks that several components describe, in every order of these.       *)
Described ==
  UNION {Orders(cs) : cs \in {
    <<[Named1(Clk, 0) EXCEPT !.top = <<"t">>, !.simtick = TRUE],
      [Named1(Clk, 6) EXCEPT !.reset = <<"r">>, !.wire = <<MCDefault(Clk)>>],
      [Comp0 EXCEPT !.name = <<B, Clk>>, !.freq = <<4, 3>>, !.top = <<"tb", "u">>, !.simtick = TRUE]>>,
    <<[Comp0 EXCEPT !.name = <<B, C>>, !.freq = <<3>>, !.wire = <<<<"w", B>>>>],
      [Ticked(Named1(C, 4)) EXCEPT !.class = <<"D">>, !.simclock = B],
      Ticked(Named1(Clk, 6))>>,
    <<[Comp0 EXCEPT !.name = <<Clk, B>>, !.number = 6],
      [Ticked(Named1(B, 4)) EXCEPT !.reset = <<"r">>],
      [Comp0 EXCEPT !.name = <<B, Clk>>, !.reset = <<"s">>, !.freq = <<6, 3>>]>>}}

(* A clock alone (its period odd, or with a class of its own), and none.   *)
Single == {<<>>, <<Ticked(Named1(Clk, 9))>>,
           <<[Ticked(Named1(Clk, 4)) EXCEPT !.class = <<"D">>]>>, <<[Ticked(Comp0) EXCEPT !.simclock = Clk]>>}

(* Memories to be loaded: neighbours, a gap, and one that is not there.    *)
Memory(b, n, w, def) == [Comp0 EXCEPT !.simload = <<[base |-> b, naddr |-> n, width |-> w, defined |-> def]>>]
Loaded == {<<Memory(8, 2, 16, TRUE), Memory(4, 4, 8, TRUE), Memory(16, 4, 8, TRUE), Memory(24, 4, 8, d)>> : d \in BOOLEAN}
          \cup {<<Memory(12, 1, 32, TRUE), Memory(8, 4, 8, d), Memory(0, 8, 8, TRUE)>> : d \in BOOLEAN}

MCDesigns == Described \cup Single \cup Loaded
MCProgram == {<<a, n>> \in (0..29) \X {0, 1, 3, 7, 13} : a + n < 32}
=============================================================================
