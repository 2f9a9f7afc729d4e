------------------------------- MODULE Wiring -------------------------------
(***************************************************************************)
(* writeout_bus_logic_v (sw/bus/wb.cpp, axil.cpp, axi.cpp): the logic that *)
(* is printed for a bus, once allocate_subbus (Subbus) has split its       *)
(* slaves into three lists.  Each section of the function is an action: it *)
(* adds to the wires that are driven and to those that are read.           *)
(*                                                                         *)
(* A wire belongs to a unit: a slave, a master, or one of the two buses    *)
(* that were created.  What a module that the logic instantiates does is   *)
(* external; all that is used of it is which of its ports are outputs, and *)
(* that it sends a request to the slave whose address matches.             *)
(*                                                                         *)
(* assign_addresses sorts each list before the logic is written.  Every    *)
(* order of the slaves is an initial state, so the sort is left out.       *)
(***************************************************************************)
EXTENDS Subbus, Bitlib

CONSTANTS
  Designs     \* [bus, masters, option, err, first, step]: the bus, m_mlist,
              \* SLAVE.OPTIONS and MASTER.OPTIONS of each unit, the slaves
              \* that have an ERROR.WIRE (<prefix>_err), and, for slaves of
              \* one word each, the word address of the first and the words
              \* from one to the next: 0 and 1, if NULLSZ does not move them

Option == {"RW", "RO", "WO"}

ASSUME DesignsAssumption ==
  \A d \in Designs :
    /\ d.bus \in Buses /\ d.bus.kinds # <<>> /\ Len(d.bus.kinds) < 2^MaxLg
    /\ d.masters \in Seq(Range(d.masters)) /\ IsInjective(d.masters)
    /\ Range(d.masters) \cap (DOMAIN d.bus.kinds \cup {Sio, Dio}) = {}
    /\ \A x \in DOMAIN d.bus.kinds \cup Range(d.masters) : d.option[x] \in Option
    /\ d.err \subseteq DOMAIN d.bus.kinds
    /\ d.first \in Nat /\ d.step \in Nat

VARIABLES
  design,     \* the design, an element of Designs
  wpc,        \* the section: "ports", "early", "slist", "dlist", "main",
              \* "empty" or "written"
  drivers,    \* <<unit, wire, what drives it, at which place, the n-th time>>
  reads,      \* <<unit, wire>>: read by a component or by the logic
  links       \* [up, selects, down]: logic that takes the requests of up;
              \* its port k takes those with an address of a slave in
              \* selects[k] and is connected to down[k]

wvars == <<design, wpc, drivers, reads, links>>
allvars == <<vars, wvars>>

masters == design.masters
class == design.bus.class
-----------------------------------------------------------------------------
(* The wires of a bus, of its write and of its read channels.              *)
WbWires == {"cyc", "stb", "we", "addr", "data", "sel", "stall", "ack", "idata", "err"}

AxilWrite == {"awvalid", "awready", "awaddr", "awprot", "wvalid", "wready",
              "wdata", "wstrb", "bvalid", "bready", "bresp"}
AxilRead == {"arvalid", "arready", "araddr", "arprot", "rvalid", "rready", "rdata", "rresp"}

AxiWrite == AxilWrite \cup {"awid", "awlen", "awsize", "awburst", "awlock",
                            "awcache", "awqos", "wlast", "bid"}
AxiRead == AxilRead \cup {"arid", "arlen", "arsize", "arburst", "arlock",
                          "arcache", "arqos", "rid", "rlast"}

Wires == CASE class = "wb"   -> WbWires
           [] class = "axil" -> AxilWrite \cup AxilRead
           [] class = "axi4" -> AxiWrite \cup AxiRead

(* Those a slave drives; the others are driven by the bus.                 *)
Replies == Wires \cap {"stall", "ack", "idata", "err", "awready", "wready", "bvalid", "bid",
                       "bresp", "arready", "rvalid", "rid", "rdata", "rlast", "rresp"}
Requests == Wires \ Replies

At(units, wires) == units \X wires
Driven(units, wires, by) == {<<u, w, by, 0, 1>> : u \in units, w \in wires}

(* A driver at each place of a list of units.                              *)
DrivenBy(list, wires, by) ==
  {<<list[k], w, by, k, 1>> : k \in DOMAIN list, w \in wires}

(* Lines that are printed again: again has <<wire, n>> for the n-th time.  *)
Repeated(list, again, by) ==
  {<<list[k], a[1], by, k, a[2]>> : k \in DOMAIN list, a \in again}

Write(ds, rs, ls, next) ==
  /\ drivers' = drivers \cup ds
  /\ reads' = reads \cup rs
  /\ links' = links \cup ls
  /\ wpc' = next
  /\ UNCHANGED <<vars, design>>
-----------------------------------------------------------------------------
(* The ports that SLAVE.PORTLIST names: those the component connects.      *)
WbSlavePorts(s) ==
  LET option == design.option[s]
  IN  {"cyc", "stb", "stall", "ack"}
      \cup (IF option = "RW" THEN {"we"} ELSE {})
      \cup (IF KindOf(s) # "SINGLE" THEN {"addr"} ELSE {})
      \cup (IF option # "RO" THEN {"data", "sel"} ELSE {})
      \cup (IF option # "WO" THEN {"idata"} ELSE {})
      \cup (IF s \in design.err THEN {"err"} ELSE {})

AxilSlavePorts(option) ==
  (IF option = "RO" THEN {} ELSE AxilWrite) \cup (IF option = "WO" THEN {} ELSE AxilRead)

AxiSlavePorts(option) ==
  (IF option = "RO" THEN {} ELSE AxiWrite) \cup (IF option = "WO" THEN {} ELSE AxiRead)

SlavePorts(s) == CASE class = "wb"   -> WbSlavePorts(s)
                   [] class = "axil" -> AxilSlavePorts(design.option[s])
                   [] class = "axi4" -> AxiSlavePorts(design.option[s])

(* MASTER.PORTLIST.  That of Wishbone does not ask for the options.        *)
AxilMasterPorts(option) ==
  (IF option = "RO" THEN {} ELSE AxilWrite) \cup (IF option = "WO" THEN {} ELSE AxilRead)

AxiMasterPorts(option) ==
  (IF option = "RO" THEN {} ELSE AxiWrite) \cup (IF option = "WO" THEN {} ELSE AxiRead)

MasterPorts(m) == CASE class = "wb"   -> WbWires
                    [] class = "axil" -> AxilMasterPorts(design.option[m])
                    [] class = "axi4" -> AxiMasterPorts(design.option[m])

Components ==
  /\ pc = "done" /\ wpc = "ports"
  /\ Write((UNION {Driven({s}, SlavePorts(s) \cap Replies, "slave") : s \in Slaves})
             \cup (UNION {Driven({m}, MasterPorts(m) \cap Requests, "master") : m \in Range(masters)}),
           (UNION {At({s}, SlavePorts(s) \cap Requests) : s \in Slaves})
             \cup (UNION {At({m}, MasterPorts(m) \cap Replies) : m \in Range(masters)}),
           {}, "early")

(* "The %s bus has no masters assigned to it": every input is tied off.    *)
(* AXI gathers what the slaves answer in a wire <slave>_unused.            *)
NoMasters ==
  /\ wpc = "early" /\ masters = <<>>
  /\ Write(DrivenBy(plist, Requests, "tie"),
           IF class = "wb" THEN {} ELSE At(Range(plist), Replies), {}, "written")

(* The error wire of a slave that has none of its own is tied off.         *)
ErrorWires(list) == {d \in DrivenBy(list, {"err"}, "tie") : d[1] \notin design.err}

(* One master and one slave: "skipping the interconnect".                  *)
Direct ==
  LET s == plist[1]
      m == masters[1]
  IN  /\ wpc = "early" /\ Len(masters) = 1 /\ Len(plist) = 1
      /\ Write(Driven({s}, Requests, "assign") \cup Driven({m}, Replies, "assign")
                 \cup (IF class = "wb" THEN ErrorWires(plist) ELSE {}),
               At({m}, Requests) \cup At({s}, Replies),
               {[up |-> {m}, selects |-> <<{s}>>, down |-> plist]}, "written")

NotEarly ==
  /\ wpc = "early" /\ masters # <<>>
  /\ ~(Len(masters) = 1 /\ Len(plist) = 1)
  /\ Write({}, {}, {}, "slist")

(* Three loops print a list from its last slave to its first: those of the *)
(* bases and of the masks of an address table, and the ports.              *)
SlaveAddr_FromTheFirst(list) == list                      \* mutant

SlaveAddr(list) == Reverse(list)
SlaveMask(list) == Reverse(list)
XbarconSlave(list) == Reverse(list)

(* The k-th port takes what matches the k-th base under the k-th mask.     *)
Table(list) ==
  [k \in DOMAIN list |-> {SlaveAddr(list)[k]} \cap {SlaveMask(list)[k]}]

(* The comparisons that Wishbone prints in place, one below each slave: a  *)
(* mask of zero never matches.                                             *)
Strobes(list) == [k \in DOMAIN list |-> IF Len(list) = 1 THEN {} ELSE {list[k]}]

(* axilsingle has no table: it takes just enough address bits to count its *)
(* ports, which are the words of its address space (external).  The first  *)
(* in a list of ports is the highest.                                      *)
Word(k) == design.first + (k - 1) * design.step

ByIndex(list) ==
  [k \in DOMAIN list |->
     {list[j] : j \in {i \in DOMAIN list : Word(i) % 2^NextLg(Len(list)) = Len(list) - k}}]

-----------------------------------------------------------------------------
(* Wishbone: the logic of m_slist and of m_dlist is printed in place.      *)
WbSlist ==
  /\ wpc = "slist" /\ class = "wb" /\ Sio \in created
  /\ Write(DrivenBy(slist, Requests \ {"addr"}, "sio") \cup Driven({Sio}, {"stall", "ack", "idata"}, "sio"),
           At({Sio}, Requests) \cup At(Range(slist), {"idata"}),
           {[up |-> {Sio}, selects |-> Strobes(slist), down |-> slist]}, "dlist")

WbDlist ==
  /\ wpc = "dlist" /\ class = "wb" /\ Dio \in created
  /\ Write(DrivenBy(dlist, Requests, "dio") \cup Driven({Dio}, {"stall", "ack", "idata"}, "dio"),
           At({Dio}, Requests) \cup At(Range(dlist), {"idata"}),
           {[up |-> {Dio}, selects |-> Strobes(dlist), down |-> dlist]}, "main")

WbXbar ==
  /\ wpc = "main" /\ class = "wb"
  /\ Write(ErrorWires(plist) \cup DrivenBy(plist, Requests, "xbar") \cup DrivenBy(masters, Replies, "xbar"),
           At(Range(plist), Replies) \cup At(Range(masters), Requests),
           {[up |-> Range(masters), selects |-> Table(plist), down |-> XbarconSlave(plist)]}, "written")
-----------------------------------------------------------------------------
(* AXI: what the simplifiers drive (drives), what the lines below them     *)
(* assign (assigns) and assign once more (again), and the replies that are *)
(* read of each of their slaves.                                           *)
AxilSingle ==
  [drives  |-> {"awvalid", "arvalid"},
   assigns |-> {"awaddr", "awprot", "wvalid", "wdata", "wstrb", "bready", "araddr", "arprot", "rready"},
   again   |-> {},
   reads   |-> {"bresp", "rdata", "rresp"}]

AxilDouble_NoRready ==                                    \* mutant
  [drives  |-> {"awvalid", "arvalid"},
   assigns |-> {"awaddr", "awprot", "wvalid", "wdata", "wstrb", "bready", "araddr", "arprot"},
   again   |-> {},
   reads   |-> {"bresp", "rdata", "rresp"}]

AxilDouble == AxilSingle

(* "AXI-Single isn't yet written": the lines are those of AXI-lite.        *)
AxiSingle == AxilSingle

AxiDouble ==
  [drives  |-> {"awvalid", "wvalid", "arvalid"},
   assigns |-> {"awid", "awaddr", "awlen", "awsize", "awburst", "awlock", "awcache",
                "awprot", "awqos", "wdata", "wstrb", "wlast", "bready",
                "arid", "araddr", "arlen", "arsize", "arburst", "arlock", "arcache",
                "arprot", "arqos", "rready"},
   again   |-> {<<"arprot", 2>>, <<"arprot", 3>>},
   reads   |-> {"bresp", "rdata", "rresp"}]

(* A simplifier between the wires of up and the slaves of a list.          *)
Simplifier(by, up, list, wires, selects, next) ==
  Write(DrivenBy(list, wires.drives, by) \cup DrivenBy(list, wires.assigns, by)
          \cup Repeated(list, wires.again, by) \cup Driven({up}, Replies, by),
        At({up}, Requests) \cup At(Range(list), wires.reads),
        {[up |-> {up}, selects |-> selects, down |-> XbarconSlave(list)]}, next)

(* The logic for SINGLE slaves takes the wires of the first master, and    *)
(* returns, if they are all the slaves of the bus and if they are not.     *)
SinglesOf == IF split.is_single THEN plist ELSE slist

Single ==
  /\ wpc = "slist" /\ class # "wb"
  /\ split.is_single \/ Sio \in created
  /\ Len(masters) = 1                                     \* asserted
  /\ Simplifier("single", masters[1], SinglesOf,
                IF class = "axil" THEN AxilSingle ELSE AxiSingle,
                ByIndex(SinglesOf), "written")

NoSlist ==
  /\ wpc = "slist"
  /\ Sio \notin created
  /\ class # "wb" => ~split.is_single
  /\ Write({}, {}, {}, "dlist")

(* That for DOUBLE slaves takes the wires of the created bus, unless they  *)
(* are all the slaves of the bus.                                          *)
DoublesOf ==
  [up |-> IF split.is_double THEN masters[1] ELSE Dio,
   list |-> IF Dio \in created THEN dlist ELSE plist]

Double ==
  /\ wpc = "dlist" /\ class # "wb"
  /\ split.is_double \/ Dio \in created
  /\ Simplifier("double", DoublesOf.up, DoublesOf.list,
                IF class = "axil" THEN AxilDouble ELSE AxiDouble,
                Table(DoublesOf.list), IF split.is_double THEN "written" ELSE "main")

NoDlist ==
  /\ wpc = "dlist"
  /\ Dio \notin created
  /\ class # "wb" => ~split.is_double
  /\ Write({}, {}, {}, "main")

AxiXbar ==
  /\ wpc = "main" /\ class # "wb"
  /\ Write(DrivenBy(plist, Requests, "xbar") \cup DrivenBy(masters, Replies, "xbar"),
           At(Range(plist), Replies) \cup At(Range(masters), Requests),
           {[up |-> Range(masters), selects |-> Table(plist), down |-> XbarconSlave(plist)]}, "empty")

(* The replies of the channels that a slave does not have come from an     *)
(* instance of axilempty or axiempty.                                      *)
AxilEmpty(option) ==
  CASE option = "WO" -> {"arready", "rvalid", "rdata", "rresp"}
    [] option = "RO" -> {"awready", "wready", "bvalid", "bresp"}
    [] option = "RW" -> {}

AxiEmpty(option) ==
  CASE option = "WO" -> {"arready", "rvalid", "rdata", "rlast", "rresp"}
    [] option = "RO" -> {"awready", "wready", "bvalid", "bid", "bresp"}
    [] option = "RW" -> {}

EmptyOf(s) == IF class = "axil" THEN AxilEmpty(design.option[s]) ELSE AxiEmpty(design.option[s])

EmptyPorts ==
  /\ wpc = "empty"
  /\ Write(UNION {Driven({s}, EmptyOf(s), "empty") : s \in Range(plist) \ {Sio, Dio}},
           {}, {}, "written")
-----------------------------------------------------------------------------
WInit ==
  /\ design \in Designs /\ Init /\ bus = design.bus
  /\ wpc = "ports" /\ drivers = {} /\ reads = {} /\ links = {}

WNext ==
  \/ Next /\ UNCHANGED wvars
  \/ Components \/ NoMasters \/ Direct \/ NotEarly
  \/ WbSlist \/ WbDlist \/ WbXbar
  \/ Single \/ NoSlist \/ Double \/ NoDlist \/ AxiXbar \/ EmptyPorts

WSpec == WInit /\ [][WNext]_allvars

(* The functions run one after the other until the last one returns.       *)
WFairSpec == WSpec /\ WF_allvars(WNext)
-----------------------------------------------------------------------------
HowMany(b, kind) == Cardinality({i \in DOMAIN b.kinds : b.kinds[i] = kind})

SplitOfBus(b) == Split(b.class, HowMany(b, "SINGLE"), HowMany(b, "DOUBLE"), Len(b.kinds))

(* The slaves of one word each lie where axilsingle looks for them.        *)
CountedFromZero(d) == d.step = 1 /\ d.first % 2^NextLg(Len(d.bus.kinds)) = 0

(* The designs that the logic is complete for.  The others:                *)
(* - a bus without masters is not tied off below the buses it creates;     *)
(* - a Wishbone bus of SINGLE and DOUBLE slaves alone may create a bus     *)
(*   that stays empty, and a list of one slave is never strobed;           *)
(* - AXI-lite prints nothing but the SINGLE slaves when there are others,  *)
(*   and connects one master to a bus of DOUBLE slaves alone;              *)
(* - axilsingle counts words from zero, wherever a NULLSZ puts its slaves; *)
(* - AXI4 has no logic yet for SINGLE slaves that are moved;               *)
(* - the options are not looked at by Wishbone (WO), by the logic of one   *)
(*   master and one slave or of no master, and by the simplifiers; the     *)
(*   logic that stands in for the read channel of a WO slave of AXI4 has   *)
(*   no rid.                                                               *)
Handled(d) ==
  LET sp == SplitOfBus(d.bus)
      direct == Len(d.bus.kinds) = 1 /\ Len(d.masters) = 1
      mixed == ~sp.is_single /\ ~sp.is_double
  IN  /\ d.masters = <<>> => ~NeedsSio(sp) /\ ~NeedsDio(sp)
      /\ CASE d.bus.class = "wb" ->
                  /\ NeedsSio(sp) => ~sp.is_double /\ sp.num_single # 1
                  /\ NeedsDio(sp) /\ ~NeedsSio(sp) => HowMany(d.bus, "DOUBLE") # 1
           [] d.bus.class = "axil" -> /\ ~NeedsSio(sp)
                                      /\ ~mixed /\ ~direct => Len(d.masters) <= 1
                                      /\ sp.is_single /\ ~direct /\ d.masters # <<>> => CountedFromZero(d)
           [] d.bus.class = "axi4" -> /\ ~NeedsSio(sp)
                                      /\ ~direct => ~sp.is_single /\ (sp.is_double => Len(d.masters) <= 1)
      /\ \A s \in DOMAIN d.bus.kinds :
           \/ d.option[s] = "RW"
           \/ d.bus.class = "wb" /\ d.option[s] = "RO"
           \/ /\ d.bus.class # "wb" /\ d.bus.kinds[s] = "OTHER" /\ ~direct /\ d.masters # <<>>
              /\ ~(d.bus.class = "axi4" /\ d.option[s] = "WO")
      /\ d.bus.class # "wb" => \A m \in Range(d.masters) : d.option[m] = "RW"

Written == wpc = "written"

(* The only line printed more than once: arprot of the DOUBLE slaves of    *)
(* AXI4, three times.                                                      *)
PrintedAgain(d) == class = "axi4" /\ d[2] = "arprot" /\ d[3] = "double" /\ d[5] \in 2..3

(* When the logic is complete, each wire that some component or some of    *)
(* the logic reads has a driver, and none has two different ones: not those*)
(* of the buses that were created, nor those of slaves that leave out half *)
(* of the ports.  Verilog leaves an undriven wire at high impedance, and   *)
(* two drivers in conflict, with at most a warning.  The code does print   *)
(* one assignment three times (axi.cpp:1222, 1224, 1225): three drivers,   *)
(* of the same value.  Every other is printed once.                        *)
WiresDriven ==
  Written =>
    LET driven  == {<<d[1], d[2]>> : d \in drivers}
        sources == {<<d[1], d[2], d[3], d[4]>> : d \in drivers}
    IN  /\ reads \subseteq driven
        /\ Cardinality(sources) = Cardinality(driven)
        /\ \A d \in drivers : d[5] = 1 \/ PrintedAgain(d)

(* The slaves that get the requests with their addresses, and no others.   *)
SentTo(l) == {l.down[k] : k \in {i \in DOMAIN l.down : l.selects[i] = {l.down[i]}}}

OneStep(units) == units \cup UNION {SentTo(l) : l \in {k \in links : k.up \cap units # {}}}

(* README.md:217 "Simple bus components ... just work.  This includes both *)
(* bus masters and bus slaves.  Not only that, the bus simplifier logic    *)
(* also "just works", with the caveat below.": there is a way from each    *)
(* master of the bus to each of its slaves, through at most two of the     *)
(* buses that were created, and no slave is connected in two places.  (The *)
(* caveat: the simplifiers of the SINGLE slaves of AXI are not built.)     *)
EverySlaveReached ==
  Written =>
    /\ \A m \in Range(masters) : Slaves \subseteq OneStep(OneStep(OneStep({m})))
    /\ masters # <<>> => \A s \in Slaves : Cardinality({l \in links : s \in Range(l.down)}) = 1
=============================================================================
