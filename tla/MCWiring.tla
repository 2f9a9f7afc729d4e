------------------------------ MODULE MCWiring ------------------------------
(* Instances of Wiring for TLC.                                            *)
EXTENDS Wiring

CONSTANTS m1, m2

BusesOf(classes, sizes) ==
  UNION {[class : classes, kinds : [1..n -> Kind]] : n \in sizes}

(* Every bus of up to five slaves, in every order of their kinds.          *)
MCBuses == BusesOf(Class, 1..5)

(* A NULLSZ of 8 octets moves two registers of 32 bits by two words, and   *)
(* one of 16 octets moves three or four registers by four words.           *)
FirstWords(b) ==
  {0} \cup (IF b.class = "axil" /\ Len(b.kinds) \in 2..4 /\ HowMany(b, "SINGLE") = Len(b.kinds)
             THEN {2^NextLg(Len(b.kinds))} ELSE {})

(* No slave has options, or the first one does.                            *)
Options(n) ==
  {[x \in 1..n \cup {m1, m2} |-> IF x = 1 THEN o ELSE "RW"] : o \in Option}

DesignsOf(buses) ==
  UNION {[bus : {b}, masters : {<<>>, <<m1>>, <<m1, m2>>}, option : Options(Len(b.kinds)),
          err : IF b.class = "wb" THEN {{}, {1}} ELSE {{}},
          first : FirstWords(b), step : {1}] : b \in buses}

MCDesigns == {d \in DesignsOf(MCBuses) : Handled(d)}

(* AXI-lite buses with one master and slaves of every kind.                *)
MixedDesigns ==
  {d \in DesignsOf({b \in MCBuses : b.class = "axil" /\ Len(b.kinds) <= 4}) :
     /\ Len(d.masters) = 1 /\ d.option[1] = "RW" /\ d.err = {}
     /\ LET sp == SplitOfBus(d.bus) IN ~sp.is_single /\ ~sp.is_double}
=============================================================================
