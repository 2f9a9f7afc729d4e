----------------------------- MODULE AddrAssign -----------------------------
(***************************************************************************)
(* PLIST::assign_addresses (sw/plist.cpp): the addresses of the slaves of  *)
(* one bus.  The slaves are sorted, the smallest distance between slaves   *)
(* that needs the fewest address comparisons is searched for, and the      *)
(* slaves are then laid out from the null space up, each at a multiple of  *)
(* the size it is given.  Each decoder compares only the address bits that *)
(* its mask names, so two slaves whose regions met would both answer.      *)
(*                                                                         *)
(* Addresses (nullsz, start, base) are in octets, address widths of the    *)
(* bus and of its slaves in bus words when the bus is word addressed       *)
(* (Wishbone) and in octets otherwise (AXI-lite, AXI).                     *)
(***************************************************************************)
EXTENDS Bitlib, Sequences

CONSTANTS
  Lists,      \* the lists of slaves a bus may have
  Buses,      \* the buses: [word, lgdw, nullsz, minaw]
  AddrBits    \* the address bits the search considers (32 in the code)

(* A slave: PREFIX (by its rank among the names), NADDR and SLAVE.ORDER.   *)
Slave == [name : Nat, naddr : Nat \ {0}, ordered : BOOLEAN, order : Int]

Place == [base : Nat, bits : Nat]

Mask == [lo : Int, hi : Int]

Bus == [word : BOOLEAN, lgdw : Nat, nullsz : Nat, minaw : Nat]

ASSUME ListsAssumption ==
  /\ Lists \subseteq Seq(Slave)
  /\ \A l \in Lists : \A i, j \in 1..Len(l) : l[i].name = l[j].name => i = j

SlaveNames == UNION {{l[i].name : i \in 1..Len(l)} : l \in Lists}

ASSUME BusesAssumption == Buses \subseteq Bus
ASSUME AddrBitsAssumption == AddrBits \in Nat

VARIABLES
  bus,        \* the bus
  list,       \* its slaves, sorted once pc leaves "start"
  pc,         \* "start", "search", "assign" or "done"
  mina,       \* the distance the search looks at
  min_awd,    \* the address bits every slave is at least given, in octets
  min_asz,    \* the address width of the bus that the search has settled on
  min_relevant,    \* the bits compared to decode a slave, at min_awd
  start_address,   \* the first octet not yet given out
  place,      \* place[i]: the base and the address bits given to list[i]
  mask,       \* mask[i]: bits lo..hi-1 of a bus address select list[i]
  m_address_width  \* the address width of the bus

vars == <<bus, list, pc, mina, min_awd, min_asz, min_relevant,
          start_address, place, mask, m_address_width>>
searchvars == <<mina, min_awd, min_asz, min_relevant>>
-----------------------------------------------------------------------------
(* Octet bits of an address that are not part of a bus address.            *)
DAddrABits == IF bus.word THEN bus.lgdw ELSE 0

(* PERIPH::get_slave_address_width() *)
AddressWidth(s) == NextLg(s.naddr) + (IF bus.word THEN 0 ELSE bus.lgdw)

(* compare_naddr(): unordered slaves first, by width and then by name.     *)
CompareNAddr_OrderedFirst(a, b) ==                        \* mutant
  \/ a.ordered /\ ~b.ordered
  \/ a.ordered /\ b.ordered /\ a.order < b.order
  \/ ~a.ordered /\ ~b.ordered /\ AddressWidth(a) < AddressWidth(b)

CompareNAddr(a, b) ==
  \/ ~a.ordered /\ b.ordered
  \/ a.ordered /\ b.ordered /\ a.order < b.order
  \/ /\ ~a.ordered /\ ~b.ordered
     /\ \/ AddressWidth(a) < AddressWidth(b)
        \/ AddressWidth(a) = AddressWidth(b) /\ a.name < b.name

(* The outcomes of std::sort, which need not keep ties in their order.     *)
Sortings(l) ==
  { [i \in 1..Len(l) |-> l[p[i]]] : p \in
      { q \in [1..Len(l) -> 1..Len(l)] :
          /\ \A i, j \in 1..Len(l) : q[i] = q[j] => i = j
          /\ \A i, j \in 1..Len(l) : i < j => ~CompareNAddr(l[q[j]], l[q[i]]) } }

(* min_addr_size_bytes(): the width of the bus if slaves are 2^mn apart.   *)
MinAddrSizeBytes(l, mn, nullsz) ==
  LET end[i \in 0..Len(l)] ==
        IF i = 0 THEN nullsz
        ELSE LET w == AddressWidth(l[i])
                 size == 2^AtLeast(w, mn)
             IN  IF w <= 0 THEN end[i-1] ELSE AlignUp(end[i-1], size) + size
  IN  NextLg(end[Len(l)])

MinAddrSizeOctets(l, mn, nullsz, daddr) ==
  daddr + MinAddrSizeBytes(l, AtLeast(mn - daddr, 1), nullsz \div 2^daddr)
-----------------------------------------------------------------------------
Init ==
  /\ bus \in Buses
  /\ list \in Lists
  /\ pc = "start"
  /\ mina = 0 /\ min_awd = 0 /\ min_asz = 0 /\ min_relevant = 0
  /\ start_address = 0
  /\ place = <<>>
  /\ mask = <<>>
  /\ m_address_width = 0

(* A bus without slaves: only the null space is addressed.                 *)
AssignNone ==
  /\ pc = "start" /\ Len(list) < 1
  /\ m_address_width' = IF bus.nullsz > 0 THEN NextLg(bus.nullsz) ELSE 0
  /\ pc' = "done"
  /\ UNCHANGED <<bus, list, searchvars, start_address, place, mask>>

(* A single slave and no null space: it answers on every address.          *)
AssignOnly ==
  /\ pc = "start" /\ Len(list) = 1 /\ bus.nullsz = 0
  /\ place' = <<[base |-> 0, bits |-> AddressWidth(list[1]) + DAddrABits]>>
  /\ mask' = <<[lo |-> 0, hi |-> 0]>>
  /\ m_address_width' = AddressWidth(list[1])
  /\ pc' = "done"
  /\ UNCHANGED <<bus, list, searchvars, start_address>>

(* Sort, and find the width "if we don't do anything smart".               *)
SortSlaves ==
  /\ pc = "start"
  /\ Len(list) >= 2 \/ (Len(list) = 1 /\ bus.nullsz > 0)
  /\ list' \in Sortings(list)
  /\ min_awd' = AddressWidth(list'[Len(list)]) + DAddrABits
  /\ min_asz' = AtLeast(MinAddrSizeOctets(list', min_awd', bus.nullsz, DAddrABits),
                        bus.minaw)
  /\ min_relevant' = AddrBits - DAddrABits
  /\ mina' = DAddrABits + 1
  /\ pc' = "search"
  /\ UNCHANGED <<bus, start_address, place, mask, m_address_width>>

(* One turn of the search for the fewest relevant address bits.            *)
Search_NoAdvance ==                                       \* mutant
  /\ pc = "search" /\ mina < AddrBits - DAddrABits
  /\ MinAddrSizeOctets(list, mina, bus.nullsz, DAddrABits) >= mina
  /\ UNCHANGED vars

Search ==
  /\ pc = "search" /\ mina < AddrBits - DAddrABits
  /\ \E total \in {MinAddrSizeOctets(list, mina, bus.nullsz, DAddrABits)} :
       /\ total >= mina
       /\ IF total <= min_asz /\ total - mina < min_relevant
            THEN /\ min_asz' = total
                 /\ min_relevant' = total - mina
                 /\ min_awd' = mina
            ELSE UNCHANGED <<min_asz, min_relevant, min_awd>>
  /\ mina' = mina + 1
  /\ UNCHANGED <<bus, list, pc, start_address, place, mask, m_address_width>>

(* The search is over: lay the slaves out, from the null space up.         *)
SearchDone_FromZero ==                                    \* mutant
  /\ pc = "search"
  /\ \/ mina >= AddrBits - DAddrABits
     \/ MinAddrSizeOctets(list, mina, bus.nullsz, DAddrABits) < mina
  /\ start_address' = 0
  /\ pc' = "assign"
  /\ UNCHANGED <<bus, list, searchvars, place, mask, m_address_width>>

SearchDone ==
  /\ pc = "search"
  /\ \/ mina >= AddrBits - DAddrABits
     \/ MinAddrSizeOctets(list, mina, bus.nullsz, DAddrABits) < mina
  /\ start_address' = bus.nullsz
  /\ pc' = "assign"
  /\ UNCHANGED <<bus, list, searchvars, place, mask, m_address_width>>

(* One slave is placed.  A slave without address bits of its own takes no  *)
(* room: it does not move start_address.                                   *)
Assign ==
  LET s    == list[Len(place) + 1]
      full == AddressWidth(s) + DAddrABits
      pa   == AtLeast(full, min_awd)
      base == AlignUp(start_address, 2^pa)
  IN  /\ pc = "assign" /\ Len(place) < Len(list)
      /\ IF full <= 0
           THEN /\ place' = Append(place, [base |-> start_address, bits |-> 0])
                /\ UNCHANGED start_address
           ELSE /\ place' = Append(place, [base |-> base, bits |-> pa])
                /\ start_address' = base + 2^pa
      /\ UNCHANGED <<bus, list, pc, searchvars, mask, m_address_width>>

(* assert(start_address != 0), then the masks are trimmed to the bus.      *)
Trim_FullDecode ==                                        \* mutant
  /\ pc = "assign" /\ Len(place) = Len(list)
  /\ start_address # 0
  /\ LET top == NextLg(start_address) - DAddrABits
     IN  /\ mask' = [i \in 1..Len(list) |-> [lo |-> AddressWidth(list[i]), hi |-> top]]
         /\ m_address_width' = top
  /\ pc' = "done"
  /\ UNCHANGED <<bus, list, searchvars, start_address, place>>

Trim ==
  /\ pc = "assign" /\ Len(place) = Len(list)
  /\ start_address # 0
  /\ LET top == NextLg(start_address) - DAddrABits
     IN  /\ mask' = [i \in 1..Len(list) |->
                       IF place[i].bits = 0 THEN [lo |-> 0, hi |-> 0]
                       ELSE [lo |-> place[i].bits - DAddrABits, hi |-> top]]
         /\ m_address_width' = top
  /\ pc' = "done"
  /\ UNCHANGED <<bus, list, searchvars, start_address, place>>

Next == AssignNone \/ AssignOnly \/ SortSlaves \/ Search \/ SearchDone \/ Assign \/ Trim

Spec == Init /\ [][Next]_vars

(* assign_addresses is one function call: it runs on until it returns.     *)
FairSpec == Spec /\ WF_vars(Next)
-----------------------------------------------------------------------------
(* The octets given to list[i].                                            *)
Region(i) == [base |-> place[i].base, size |-> 2^place[i].bits]

(* The decoder of list[i] answers a bus address:                           *)
(* (addr & mask) == (base & mask), the comparison the bus logic makes.     *)
Bits(addr, m) == (addr % 2^m.hi) \div 2^m.lo

Selects(i, addr) ==
  Bits(addr, mask[i]) = Bits(place[i].base \div 2^DAddrABits, mask[i])

Finished == pc = "done"

(* Every variable has its type, and at most one region per slave is given. *)
TypeOK ==
  /\ bus \in Bus
  /\ list \in Seq(Slave)
  /\ pc \in {"start", "search", "assign", "done"}
  /\ {mina, min_awd, min_asz, start_address} \subseteq Nat
  /\ {min_relevant, m_address_width} \subseteq Int
  /\ place \in Seq(Place) /\ Len(place) <= Len(list)
  /\ mask \in Seq(Mask)

(* No octet of the bus is given to two slaves, at any time of the          *)
(* assignment (PLIST::assign_addresses: start_address moves past each).    *)
SlavesDisjoint ==
  \A i, j \in 1..Len(place) : i < j =>
    place[i].base + 2^place[i].bits <= place[j].base

(* When the masks have been trimmed, a bus address selects a slave if and  *)
(* only if it lies in the region of that slave: the bits the masks leave   *)
(* out never make a second slave answer, nor a slave miss its own address. *)
DecodesOwner ==
  Finished =>
    \A i \in 1..Len(place), addr \in 0..(2^m_address_width - 1) :
      Selects(i, addr) <=>
        /\ place[i].base <= addr * 2^DAddrABits
        /\ addr * 2^DAddrABits < place[i].base + 2^place[i].bits

(* Each slave is given all the address lines it decodes itself, above the  *)
(* null space, and the bus has the address lines to reach its last octet.  *)
RoomForSlaves ==
  Finished =>
    \A i \in 1..Len(list) :
      /\ place[i].bits >= AddressWidth(list[i]) + DAddrABits
      /\ place[i].base >= bus.nullsz
      /\ place[i].base + 2^place[i].bits <= 2^(m_address_width + DAddrABits)

(* SLAVE.ORDER is honoured: slaves with an order come in that order, and   *)
(* after all the slaves without one.                                       *)
OrderHonoured ==
  \A i, j \in 1..Len(place) :
    list[j].ordered /\ (list[i].ordered => list[i].order < list[j].order)
      => place[i].base < place[j].base

(* The width that the search settled on, computed by min_addr_size_bytes,  *)
(* is the width that the assignment ends with: the two loops lay out the   *)
(* same bus.  It holds of buses whose null space is a number of bus words  *)
(* and whose slaves all have address bits (the estimate skips the others). *)
EstimateExact ==
  ( /\ Finished /\ mina > 0
    /\ bus.nullsz % 2^DAddrABits = 0
    /\ \A i \in 1..Len(list) : AddressWidth(list[i]) > 0 )
  => m_address_width + DAddrABits = min_asz

(* Room, order and width together: the layout is the one asked for.        *)
LayoutAsAsked == RoomForSlaves /\ OrderHonoured /\ EstimateExact

(* The assignment implements the abstract map of one bus: what it has      *)
(* placed stays where it is, and each new slave fits among the others.     *)
IndexOf(n) == CHOOSE i \in 1..Len(place) : list[i].name = n

MapOf == [n \in {list[i].name : i \in 1..Len(place)} |-> Region(IndexOf(n))]

SlavesOf(l) == {l[i] : i \in 1..Len(l)}

SlaveOf(n) == CHOOSE s \in SlavesOf(list) : s.name = n

NeedOf == [n \in {s.name : s \in SlavesOf(list)} |->
             2^(AddressWidth(SlaveOf(n)) + DAddrABits)]

Map == INSTANCE AddrMap WITH
  Slave <- SlaveNames, map <- MapOf, need <- NeedOf, nullsz <- bus.nullsz

ImplementsAddrMap == Map!ASpec

(* The assignment of every bus ends: the search and both loops are bounded.*)
Terminates == <>Finished
=============================================================================
