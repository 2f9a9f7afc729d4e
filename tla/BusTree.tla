------------------------------ MODULE BusTree ------------------------------
(***************************************************************************)
(* The tree of buses (sw/subbus.cpp, businfo.cpp, bus/wb.cpp, bus/axil.cpp)*)
(* and the address map that the outputs give of it: register definitions   *)
(* (gather.cpp, bldregdefs.cpp), linker script (bldboardld.cpp), cachable  *)
(* addresses (bldcachable.cpp).                                            *)
(*                                                                         *)
(* A slave that masters a bus of its own (SUBBUS) is as wide as that bus:  *)
(* asking for its width assigns the addresses of the bus below, by         *)
(* recursion, which the stack holds here.  One bus at a time is laid out,  *)
(* by the actions of AddrAssign.  Widths and bases are then read again by  *)
(* three walks of the tree, which must agree with what the decoders do.    *)
(***************************************************************************)
EXTENDS AddrAssign, SequencesExt

CONSTANT
  Designs     \* the designs: [buses, comps, order, regbus, cpubus]

(* comps, in the order of the hash table: the bus they are slaves of,      *)
(* NADDR (0: none given), MEMORY or not, and the bus below or 0.           *)
(* order: gbl_blist.  regbus: REGISTER.BUS.  cpubus: the MASTER.BUS of the *)
(* component with the LD.FILE and the CACHABLE.FILE.                       *)
Comp == [bus : Nat, naddr : Nat, memory : BOOLEAN, below : Nat]

ASSUME DesignAssumption ==
  \A d \in Designs :
    /\ d.buses \in Seq(Buses) /\ d.comps \in Seq(Comp)
    /\ \A c \in DOMAIN d.comps :
         /\ d.comps[c].bus \in DOMAIN d.buses
         /\ d.comps[c].below # 0 =>
              d.comps[c].below \in DOMAIN d.buses /\ d.comps[c].below > d.comps[c].bus
         /\ d.comps[c].below = 0 => d.comps[c].naddr > 0
    /\ Len(d.order) = Len(d.buses) /\ d.order \in Seq(DOMAIN d.buses)
    /\ Range(d.order) = DOMAIN d.buses
    /\ {d.regbus, d.cpubus} \subseteq DOMAIN d.buses

VARIABLES
  design,
  stage,      \* "add", "assign", "regdefs", "ld", "cachable", "done", or
              \* where it stops before: "aborted", "lost"
  item,       \* the component, or the bus, that the loop looks at
  stack,      \* the buses whose addresses are being assigned
  slaves,     \* m_plist of each bus
  assigned,   \* the buses with m_addresses_assigned
  width,      \* m_address_width of each bus
  layout,     \* p_base and p_mask of the slaves of each bus
  regbase,    \* the key REGBASE of each component, 0 where there is none
  out         \* what is written: [regs, ranges, cachable]

control == <<stage, item, stack>>
tree == <<slaves, assigned, width, layout>>
treevars == <<design, control, tree, regbase, out, vars>>

TreeBuses == DOMAIN design.buses
Comps == DOMAIN design.comps
Below(c) == design.comps[c].below
-----------------------------------------------------------------------------
(* Address lines of a bus that count octets in a bus word, if any do not   *)
(* leave the bus.                                                          *)
WordBits(b) == IF design.buses[b].word THEN design.buses[b].lgdw ELSE 0

(* SUBBUS::get_slave_address_width() sets p_naddr so that the slave of bus *)
(* b is as wide as the bus it masters.                                     *)
SubbusNAddr_Words(b, c) == 2^width[Below(c)]                     \* mutant
SubbusNAddr(b, c) == 2^(width[Below(c)] + WordBits(Below(c)) - design.buses[b].lgdw)

NAddr(b, c) == IF Below(c) = 0 THEN design.comps[c].naddr ELSE SubbusNAddr(b, c)

Idle ==
  /\ bus = [word |-> TRUE, lgdw |-> 0, nullsz |-> 0, minaw |-> 0] /\ list = <<>>
  /\ pc = "done" /\ mina = 0 /\ min_awd = 0 /\ min_asz = 0 /\ min_relevant = 0
  /\ start_address = 0 /\ place = <<>> /\ mask = <<>> /\ m_address_width = 0

TreeInit ==
  /\ design \in Designs
  /\ stage = "add" /\ item = 1 /\ stack = <<>>
  /\ slaves = [b \in TreeBuses |-> <<>>]
  /\ assigned = {}
  /\ width = [b \in TreeBuses |-> 0]
  /\ layout = [b \in TreeBuses |-> <<>>]
  /\ regbase = [c \in Comps |-> 0]
  /\ out = [regs |-> {}, ranges |-> {}, cachable |-> {}]
  /\ Idle

(* BUSINFO::add(), PLIST::add().  A SUBBUS with an NADDR is asked for its  *)
(* width at once, before gbl_ready_for_address_assignment.  If the bus     *)
(* below has no slaves yet, it counts as assigned from now on; if it has,  *)
(* the assertion that begins PLIST::assign_addresses() ends the program.   *)
Asks == Below(item) # 0 /\ design.comps[item].naddr # 0 /\ Below(item) \notin assigned

AddSlave ==
  /\ stage = "add" /\ stack = <<>> /\ item \in Comps
  /\ Asks => slaves[Below(item)] = <<>>
  /\ slaves' = [slaves EXCEPT ![design.comps[item].bus] = Append(@, item)]
  /\ assigned' = IF Asks THEN assigned \cup {Below(item)} ELSE assigned
  /\ item' = item + 1
  /\ UNCHANGED <<design, stage, stack, width, layout, regbase, out, vars>>

AddAborts ==
  /\ stage = "add" /\ stack = <<>> /\ item \in Comps
  /\ Asks /\ slaves[Below(item)] # <<>>
  /\ stage' = "aborted"
  /\ UNCHANGED <<design, item, stack, tree, regbase, out, vars>>

(* The loop of build_bus_list over gbl_blist.                              *)
EndAdd ==
  /\ stage = "add" /\ stack = <<>> /\ item \notin Comps
  /\ stage' = "assign" /\ item' = 1
  /\ UNCHANGED <<design, stack, tree, regbase, out, vars>>

AssignBus ==
  /\ stage = "assign" /\ stack = <<>> /\ item \in TreeBuses
  /\ stack' = IF design.order[item] \in assigned THEN <<>> ELSE <<design.order[item]>>
  /\ item' = item + 1
  /\ UNCHANGED <<design, stage, tree, regbase, out, vars>>

(* Slaves that came after their bus was assigned are never laid out.  What *)
(* is written then, from masks that nothing initialized, is not modelled.  *)
Lost == \E b \in TreeBuses : slaves[b] # <<>> /\ layout[b] = <<>>

EndAssign ==
  /\ stage = "assign" /\ stack = <<>> /\ item \notin TreeBuses
  /\ stage' = IF Lost THEN "lost" ELSE "regdefs"
  /\ UNCHANGED <<design, item, stack, tree, regbase, out, vars>>

(* assign_addresses() of the bus on top of the stack.  The first slave     *)
(* that masters a bus without addresses has these assigned first.          *)
Working == stack # <<>> /\ pc = "done" /\ list = <<>>
Top == Last(stack)
Waiting == {i \in DOMAIN slaves[Top] :
              Below(slaves[Top][i]) # 0 /\ Below(slaves[Top][i]) \notin assigned}

CallSubbus ==
  /\ Working /\ Waiting # {}
  /\ stack' = Append(stack, Below(slaves[Top][Min(Waiting)]))
  /\ UNCHANGED <<design, stage, item, tree, regbase, out, vars>>

AssignEmpty ==
  /\ Working /\ slaves[Top] = <<>>
  /\ assigned' = assigned \cup {Top}
  /\ stack' = Front(stack)
  /\ UNCHANGED <<design, stage, item, slaves, width, layout, regbase, out, vars>>

StartPlist ==
  /\ Working /\ slaves[Top] # <<>> /\ Waiting = {}
  /\ bus' = design.buses[Top]
  /\ list' = [i \in DOMAIN slaves[Top] |->
                [name |-> slaves[Top][i], naddr |-> NAddr(Top, slaves[Top][i]),
                 ordered |-> FALSE, order |-> 0]]
  /\ pc' = "start"
  /\ mina' = 0 /\ min_awd' = 0 /\ min_asz' = 0 /\ min_relevant' = 0
  /\ start_address' = 0 /\ place' = <<>> /\ mask' = <<>> /\ m_address_width' = 0
  /\ UNCHANGED <<design, control, tree, regbase, out>>

PlistStep ==
  /\ Next
  /\ UNCHANGED <<design, control, tree, regbase, out>>

EndPlist ==
  /\ stack # <<>> /\ pc = "done" /\ list # <<>>
  /\ layout' = [layout EXCEPT ![Top] =
       [i \in DOMAIN list |-> [comp |-> list[i].name, base |-> place[i].base, mask |-> mask[i]]]]
  /\ width' = [width EXCEPT ![Top] = m_address_width]
  /\ slaves' = [slaves EXCEPT ![Top] = [i \in DOMAIN list |-> list[i].name]]
  /\ assigned' = assigned \cup {Top}
  /\ stack' = Front(stack)
  /\ list' = <<>>
  /\ UNCHANGED <<design, stage, item, regbase, out, bus, pc, mina, min_awd, min_asz, min_relevant,
                 start_address, place, mask, m_address_width>>
-----------------------------------------------------------------------------
(* gather_peripherals(): the slaves below a bus, with their address there. *)
Gather_Near(bus0) ==                                             \* mutant
  LET found[b \in TreeBuses] ==
        UNION {LET s == layout[b][i] IN
               {[comp |-> s.comp, addr |-> s.base]}
               \cup (IF Below(s.comp) # 0 THEN found[Below(s.comp)] ELSE {}) :
               i \in DOMAIN layout[b]}
  IN  found[bus0]
Gather(bus0) ==
  LET found[b \in TreeBuses] == [base \in Nat |->
        UNION {LET s == layout[b][i]
                   addr == s.base + base
               IN  {[comp |-> s.comp, addr |-> addr]}
                   \cup (IF Below(s.comp) # 0 THEN found[Below(s.comp)][addr] ELSE {}) :
               i \in DOMAIN layout[b]}]
  IN  found[bus0][0]

(* setvalue(REGBASE) leaves a value that is there as it is, and the loop   *)
(* that ends gather_peripherals() then copies it to p_regbase.             *)
Rebased(found) ==
  [c \in Comps |-> IF regbase[c] # 0 \/ c \notin {f.comp : f \in found} THEN regbase[c]
                   ELSE (CHOOSE f \in found : f.comp = c).addr]

(* build_regdefs_h(): (roff << 2) + p_regbase, for every register.         *)
RegDefs ==
  LET found == Gather(design.regbus)
      based == Rebased(found)
  IN  /\ stage = "regdefs"
      /\ regbase' = based
      /\ out' = [out EXCEPT !.regs = {[comp |-> f.comp, base |-> based[f.comp]] : f \in found}]
      /\ stage' = "ld"
      /\ UNCHANGED <<design, item, stack, tree, vars>>

(* build_script_ld(): the memories, by ORIGIN and LENGTH.                  *)
Length_Bits(c) == design.comps[c].naddr * 2^(design.buses[design.comps[c].bus].lgdw + 3)  \* mutant
Length(c) == design.comps[c].naddr * 2^design.buses[design.comps[c].bus].lgdw

LdFile ==
  LET found == Gather(design.cpubus)
      based == Rebased(found)
  IN  /\ stage = "ld"
      /\ regbase' = based
      /\ out' = [out EXCEPT !.ranges =
           {[comp |-> c, origin |-> based[c], length |-> Length(c)] :
              c \in {f.comp : f \in {x \in found : design.comps[x.comp].memory}}}]
      /\ stage' = "cachable"
      /\ UNCHANGED <<design, item, stack, tree, vars>>

(* print_cachable(): masks and addresses are sets of bits of an octet      *)
(* address.  Those of a bus are added to those that lead to it.            *)
BitSet(n) == {i \in 0..MaxLg : (n \div 2^i) % 2 = 1}

MaskBits_Words(b, m) == {i : i \in m.lo..(m.hi - 1)}             \* mutant
MaskBits(b, m) == {i + WordBits(b) : i \in m.lo..(m.hi - 1)}

Region8 == [mask : SUBSET (0..MaxLg), addr : SUBSET (0..MaxLg)]

Regions(bus0) ==
  LET below[b \in TreeBuses] == [r8 \in Region8 |->
        UNION {LET s == layout[b][i]
                   submask == MaskBits(b, s.mask) \cup r8.mask
                   sub == [mask |-> submask, addr |-> (BitSet(s.base) \cup r8.addr) \cap submask]
               IN  IF Below(s.comp) # 0 THEN below[Below(s.comp)][sub]
                   ELSE IF design.comps[s.comp].memory THEN {sub} ELSE {} :
               i \in DOMAIN layout[b]}]
  IN  below[bus0][[mask |-> {}, addr |-> {}]]

Cachable ==
  /\ stage = "cachable"
  /\ out' = [out EXCEPT !.cachable = Regions(design.cpubus)]
  /\ stage' = "done"
  /\ UNCHANGED <<design, item, stack, tree, regbase, vars>>

TreeNext ==
  \/ AddSlave \/ AddAborts \/ EndAdd \/ AssignBus \/ EndAssign
  \/ CallSubbus \/ AssignEmpty \/ StartPlist \/ PlistStep \/ EndPlist
  \/ RegDefs \/ LdFile \/ Cachable

TreeSpec == TreeInit /\ [][TreeNext]_treevars
FairTreeSpec == TreeSpec /\ WF_treevars(TreeNext)
-----------------------------------------------------------------------------
(* What the hardware does with an octet address of a bus: every slave      *)
(* whose decoder matches answers, and a bridge passes on the address lines *)
(* that its bus has.                                                       *)
Answer(s, b, a) ==
  Bits(a \div 2^WordBits(b), s.mask) = Bits(s.base \div 2^WordBits(b), s.mask)

Octets(b) == 0..(2^(width[b] + WordBits(b)) - 1)

Reached(bus0, a0) ==
  LET at[b \in TreeBuses] == [a \in Nat |->
        UNION {LET m == Below(s.comp) IN
               IF m # 0 THEN at[m][a % 2^(width[m] + WordBits(m))] ELSE {s.comp} :
               s \in {x \in Range(layout[b]) : Answer(x, b, a)}}]
  IN  at[bus0][a0]

(* Every variable has its type, and a bus that has its addresses is not    *)
(* assigned again, nor twice at a time (m_addresses_assigned).             *)
TreeTypeOK ==
  /\ stage \in {"add", "assign", "regdefs", "ld", "cachable", "done", "aborted", "lost"}
  /\ item \in Nat
  /\ stack \in Seq(TreeBuses) /\ IsInjective(stack) /\ Range(stack) \cap assigned = {}
  /\ slaves \in [TreeBuses -> Seq(Comps)] /\ assigned \subseteq TreeBuses
  /\ width \in [TreeBuses -> Nat] /\ regbase \in [Comps -> Nat]

(* What regdefs.h calls the address of a register leads, through all the   *)
(* bridges on the way, to the component of the register and to no other.   *)
RegsReachTheirSlave ==
  \A r \in out.regs : LET c == r.comp IN
    Below(c) = 0 => \A off \in 0..(Length(c) - 1) :
      off % 4 = 0 => Reached(design.regbus, r.base + off) = {c}

(* icd.txt:342-344 "the bus-master perspective to write the linker script  *)
(* from": every octet of the range that the script gives a memory leads,   *)
(* on the bus of the CPU, to this memory and to nothing else.  The passing *)
(* run has designs where host and CPU see the memories at one address.     *)
RangesReachMemory ==
  \A m \in out.ranges : \A off \in 0..(m.length - 1) :
    Reached(design.cpubus, m.origin + off) = {m.comp}

(* icd.txt:408-410 "a combinatorial check of whether a given address       *)
(* beneath it is a cachable address (i.e., is it a memory or other type of *)
(* peripheral)": it says yes of the addresses that lead to a memory, and   *)
(* of no other, however many bridges away.                                 *)
CachableIffMemory ==
  stage = "done" => \A a \in Octets(design.cpubus) :
    (\E r \in out.cachable : BitSet(a) \cap r.mask = r.addr)
      <=> \E c \in Reached(design.cpubus, a) : design.comps[c].memory

(* plist.cpp:423 "assert(gbl_ready_for_address_assignment)": no bus with   *)
(* slaves is laid out while slaves are still added.                        *)
AssignedWhenReady == stage # "aborted"

(* The recursion ends, in every tree.  Then no bus below is wider than the *)
(* room its slave was given, whatever order components and buses have: the *)
(* width that was asked for was the last one.  The program stops early, or *)
(* goes on without addresses, for no other reason than a bridge that has   *)
(* an NADDR and a bus with slaves: slaves that were added before it make   *)
(* it abort, slaves that come after it are lost.                           *)
Fits ==
  \A b \in TreeBuses : \A i, j \in DOMAIN layout[b] :
    LET s == layout[b][i] IN Below(s.comp) # 0 =>
      /\ s.base + 2^(width[Below(s.comp)] + WordBits(Below(s.comp))) <= Cardinality(Octets(b))
      /\ layout[b][j].base > s.base =>
           s.base + 2^(width[Below(s.comp)] + WordBits(Below(s.comp))) <= layout[b][j].base

Hasty(c, d) == Below(c) # 0 /\ design.comps[c].naddr # 0 /\ design.comps[d].bus = Below(c)

SubbusFits ==
  <>(\/ stage = "done" /\ Fits
     \/ stage = "aborted" /\ \E c, d \in Comps : Hasty(c, d) /\ d < c
     \/ stage = "lost" /\ \E c, d \in Comps : Hasty(c, d) /\ d > c)
=============================================================================
