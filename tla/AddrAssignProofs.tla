-------------------------- MODULE AddrAssignProofs --------------------------
(***************************************************************************)
(* Proofs about PLIST::assign_addresses, for every set of slave lists and  *)
(* of buses: the regions are apart, in the order asked for, with room for  *)
(* their slaves and as wide as the search has estimated; the masks decode  *)
(* the owner of each address; and the whole implements AddrMap.  Then about*)
(* the tree of buses that are laid out so: the addresses in the register   *)
(* definitions, in the linker script and in the cachable function are those*)
(* that the decoders of all the buses answer.                              *)
(***************************************************************************)
EXTENDS BusTree, Lemmas

(* A slave list, once sorted, is a list of the same slaves.                *)
LEMMA SortingType ==
  ASSUME NEW l \in Seq(Slave), NEW s \in Sortings(l)
  PROVE  s \in Seq(Slave) /\ Len(s) = Len(l)
<1>1. PICK q \in [1..Len(l) -> 1..Len(l)] : s = [i \in 1..Len(l) |-> l[q[i]]]
  BY DEF Sortings
<1>2. \A i \in 1..Len(l) : l[q[i]] \in Slave
  OBVIOUS
<1>3. Len(l) \in Nat  OBVIOUS
<1>4. QED  BY <1>1, <1>2, <1>3

(* The address lines of a slave are counted by a natural number.           *)
LEMMA WidthType ==
  ASSUME bus \in Bus, NEW s
  PROVE  AddressWidth(s) \in Nat /\ DAddrABits \in Nat
BY NextLgNat, SMT DEF AddressWidth, DAddrABits, Bus

(* Raising a width to a minimum never lowers it.                           *)
LEMMA AtLeastType ==
  ASSUME NEW a \in Nat, NEW b \in Nat
  PROVE  AtLeast(a, b) \in Nat /\ AtLeast(a, b) >= a /\ AtLeast(a, b) >= b
BY DEF AtLeast

(* The estimate of the search is a natural number.                         *)
LEMMA EstimateType ==
  ASSUME NEW l, NEW mn, NEW nz, NEW d \in Nat
  PROVE  MinAddrSizeOctets(l, mn, nz, d) \in Nat
<1>1. \A x : NextLg(x) \in Nat  BY NextLgNat
<1>2. MinAddrSizeBytes(l, AtLeast(mn - d, 1), nz \div 2^d) \in Nat
  BY <1>1, Zenon DEF MinAddrSizeBytes
<1>3. QED  BY <1>2 DEF MinAddrSizeOctets

(* Every step of the assignment keeps the types.                           *)
LEMMA TypeStep ==
  ASSUME TypeOK, [Next]_vars
  PROVE  TypeOK'
<1>0. DAddrABits \in Nat /\ \A s : AddressWidth(s) \in Nat
  BY WidthType DEF TypeOK
<1>1. CASE AssignNone
  <2>1. m_address_width' \in Int
    <3>1. NextLg(bus.nullsz) \in Nat  BY NextLgNat
    <3>2. QED  BY <1>1, <3>1 DEF AssignNone
  <2>2. QED  BY <1>1, <2>1 DEF AssignNone, TypeOK, searchvars
<1>2. CASE AssignOnly
  <2> DEFINE w == AddressWidth(list[1])
             p == [base |-> 0, bits |-> w + DAddrABits]
             m == [lo |-> 0, hi |-> 0]
  <2>1. w \in Nat  BY <1>0
  <2>2. p \in Place /\ m \in Mask
    BY <1>0, <2>1 DEF Place, Mask
  <2>3. place' = <<p>> /\ mask' = <<m>> /\ m_address_width' = w
    BY <1>2 DEF AssignOnly
  <2> HIDE DEF p, m, w
  <2>4. /\ place' \in Seq(Place) /\ Len(place') = 1
        /\ mask' \in Seq(Mask)
    BY <2>2, <2>3
  <2>5. /\ UNCHANGED <<bus, list, searchvars, start_address>>
        /\ pc' = "done" /\ Len(list) = 1
    BY <1>2 DEF AssignOnly
  <2>6. QED  BY <2>1, <2>3, <2>4, <2>5 DEF TypeOK, searchvars
<1>3. CASE SortSlaves
  <2>1. list' \in Seq(Slave) /\ Len(list') = Len(list)
    BY <1>3, SortingType DEF SortSlaves, TypeOK
  <2>2. /\ bus' = bus /\ bus.minaw \in Nat
        /\ AddressWidth(list'[Len(list)]) \in Nat
    BY <1>3, <1>0 DEF SortSlaves, TypeOK, Bus
  <2>3. min_awd' \in Nat
    BY <1>3, <1>0, <2>2 DEF SortSlaves
  <2>4. min_asz' \in Nat
    <3>1. MinAddrSizeOctets(list', min_awd', bus.nullsz, DAddrABits) \in Nat
      BY <1>0, EstimateType
    <3>2. QED  BY <1>3, <2>2, <3>1, AtLeastType DEF SortSlaves
  <2>5. /\ mina' \in Nat /\ min_relevant' \in Int
    BY <1>3, <1>0, AddrBitsAssumption DEF SortSlaves
  <2>6. QED
    BY <1>3, <2>1, <2>3, <2>4, <2>5 DEF SortSlaves, TypeOK
<1>4. CASE Search
  <2> DEFINE total == MinAddrSizeOctets(list, mina, bus.nullsz, DAddrABits)
  <2>1. total \in Nat  BY <1>0, EstimateType
  <2> HIDE DEF total
  <2>2. /\ min_asz' \in Nat /\ min_relevant' \in Int /\ min_awd' \in Nat
    BY <1>4, <2>1 DEF Search, TypeOK, total
  <2>3. QED  BY <1>4, <2>2 DEF Search, TypeOK
<1>5. CASE SearchDone
  BY <1>5 DEF SearchDone, TypeOK, searchvars, Bus
<1>6. CASE Assign
  <2> DEFINE s    == list[Len(place) + 1]
             full == AddressWidth(s) + DAddrABits
             pa   == AtLeast(full, min_awd)
             base == AlignUp(start_address, 2^pa)
  <2>1. full \in Nat  BY <1>0
  <2>2. pa \in Nat  BY <2>1, AtLeastType DEF TypeOK
  <2>3. 2^pa \in Nat /\ 2^pa > 0  BY <2>2, PowerPositive
  <2>4. base \in Nat  BY <2>3, AlignUpProperties DEF TypeOK
  <2> HIDE DEF full, pa, base
  <2>5. /\ \E p \in Place : place' = Append(place, p)
        /\ start_address' \in Nat
    <3>1. CASE full <= 0
      BY <1>6, <3>1 DEF Assign, TypeOK, full, Place
    <3>2. CASE ~(full <= 0)
      <4>1. /\ place' = Append(place, [base |-> base, bits |-> pa])
            /\ start_address' = base + 2^pa
        BY <1>6, <3>2 DEF Assign, full, pa, base
      <4>2. [base |-> base, bits |-> pa] \in Place
        BY <2>2, <2>4 DEF Place
      <4>3. QED  BY <4>1, <4>2, <2>3, <2>4
    <3>3. QED  BY <3>1, <3>2
  <2>6. place' \in Seq(Place) /\ Len(place') = Len(place) + 1
    BY <2>5 DEF TypeOK
  <2>7. QED  BY <1>6, <2>5, <2>6 DEF Assign, TypeOK, searchvars
<1>7. CASE Trim
  <2> DEFINE top == NextLg(start_address) - DAddrABits
  <2>1. top \in Int  BY <1>0, NextLgNat
  <2> HIDE DEF top
  <2>2. \A i \in 1..Len(list) : place[i].bits \in Nat
    <3>1. Len(place) = Len(list)  BY <1>7 DEF Trim
    <3>2. \A i \in 1..Len(place) : place[i] \in Place
      BY DEF TypeOK
    <3>3. QED  BY <3>1, <3>2 DEF Place
  <2>3. mask' \in Seq(Mask) /\ m_address_width' \in Int
    <3> DEFINE m(i) == IF place[i].bits = 0 THEN [lo |-> 0, hi |-> 0]
                       ELSE [lo |-> place[i].bits - DAddrABits, hi |-> top]
    <3>1. \A i \in 1..Len(list) : m(i) \in Mask
      BY <1>0, <2>1, <2>2 DEF Mask
    <3>2. mask' = [i \in 1..Len(list) |-> m(i)] /\ m_address_width' = top
      BY <1>7 DEF Trim, top
    <3>3. Len(list) \in Nat  BY DEF TypeOK
    <3> HIDE DEF m
    <3>4. QED  BY <3>1, <3>2, <3>3, <2>1
  <2>4. QED  BY <1>7, <2>3 DEF Trim, TypeOK, searchvars
<1>8. CASE UNCHANGED vars
  BY <1>8 DEF vars, TypeOK
<1>9. QED
  BY <1>1, <1>2, <1>3, <1>4, <1>5, <1>6, <1>7, <1>8 DEF Next

(* The type invariant of the assignment.                                   *)
THEOREM TypeCorrect == Spec => []TypeOK
<1>1. Init => TypeOK
  BY ListsAssumption, BusesAssumption DEF Init, TypeOK
<1>2. TypeOK /\ [Next]_vars => TypeOK'  BY TypeStep
<1>3. QED  BY <1>1, <1>2, PTL DEF Spec
-----------------------------------------------------------------------------
(* Every bus has words of at least 16 bits, so that a register of one word *)
(* has address bits.  On an 8-bit word addressed bus it has none, takes no *)
(* room, and the theorems below do not hold of it.                         *)
WideBuses == \A b \in Buses : b.lgdw > 0

(* The inductive invariant: what has been placed is sound, lies below      *)
(* start_address, and comes in increasing order.                           *)
NothingPlaced == pc \in {"start", "search"} => place = <<>>

RegionSound(i) ==
  /\ place[i].base >= bus.nullsz
  /\ place[i].base % 2^place[i].bits = 0
  /\ place[i].bits >= AddressWidth(list[i]) + DAddrABits

BelowStart ==
  pc = "assign" =>
    /\ start_address >= bus.nullsz
    /\ \A i \in 1..Len(place) :
          place[i].base + 2^place[i].bits <= start_address

LayoutInv ==
  /\ bus \in Buses
  /\ NothingPlaced
  /\ \A i \in 1..Len(place) : RegionSound(i)
  /\ BelowStart
  /\ SlavesDisjoint

(* Every step of the assignment keeps the layout invariant: only Assign    *)
(* (one slave above start_address) and AssignOnly add a region.            *)
LEMMA LayoutStep ==
  ASSUME WideBuses, TypeOK, TypeOK', LayoutInv, [Next]_vars
  PROVE  LayoutInv'
<1> USE DEF LayoutInv
<1>0. /\ DAddrABits \in Nat /\ \A s : AddressWidth(s) \in Nat
      /\ \A s : AddressWidth(s) + DAddrABits > 0
  <2>1. DAddrABits \in Nat /\ \A s : AddressWidth(s) \in Nat
    BY WidthType DEF TypeOK
  <2>2. bus.lgdw > 0 /\ bus.lgdw \in Nat  BY DEF WideBuses, TypeOK, Bus
  <2>3. \A s : NextLg(s.naddr) \in Nat  BY NextLgNat
  <2>4. QED  BY <2>1, <2>2, <2>3 DEF DAddrABits, AddressWidth
<1>1. CASE UNCHANGED <<bus, list, place>> /\ pc' = pc /\ UNCHANGED start_address
  BY <1>1 DEF NothingPlaced, RegionSound, BelowStart, SlavesDisjoint,
              AddressWidth, DAddrABits
<1>2. CASE place = <<>> /\ place' = <<>> /\ UNCHANGED bus /\ pc' # "assign"
  BY <1>2 DEF NothingPlaced, RegionSound, BelowStart, SlavesDisjoint
<1>3. CASE AssignOnly
  <2> DEFINE w == AddressWidth(list[1]) + DAddrABits
  <2>1. w \in Nat /\ 2^w \in Nat /\ 2^w > 0
    BY <1>0, PowerPositive
  <2>2. place' = <<[base |-> 0, bits |-> w]>>
    BY <1>3 DEF AssignOnly
  <2>3. /\ Len(place') = 1 /\ place'[1].base = 0 /\ place'[1].bits = w
    BY <2>2
  <2>4. 0 % 2^w = 0  BY <2>1, Z3
  <2>5. /\ bus' = bus /\ list' = list /\ bus.nullsz = 0 /\ pc' = "done"
    BY <1>3 DEF AssignOnly
  <2>6. AddressWidth(list[1])' + DAddrABits' = w
    BY <2>5 DEF AddressWidth, DAddrABits
  <2> HIDE DEF w
  <2>7. \A i \in 1..Len(place') : RegionSound(i)'
    BY <2>1, <2>3, <2>4, <2>5, <2>6 DEF RegionSound
  <2>8. QED
    BY <2>3, <2>5, <2>7 DEF NothingPlaced, BelowStart, SlavesDisjoint
<1>4. CASE SearchDone
  <2>1. /\ place = <<>> /\ place' = <<>> /\ bus' = bus /\ pc' = "assign"
        /\ start_address' = bus.nullsz
    BY <1>4 DEF SearchDone, NothingPlaced
  <2>2. bus.nullsz \in Nat  BY DEF TypeOK, Bus
  <2>3. QED  BY <2>1, <2>2 DEF NothingPlaced, RegionSound, BelowStart, SlavesDisjoint
<1>5. CASE Assign
  <2>0. place \in Seq(Place) /\ Len(place) \in Nat  BY DEF TypeOK
  <2>n. PICK n \in Nat : n = Len(place) + 1  BY <2>0
  <2> DEFINE full == AddressWidth(list[n]) + DAddrABits
             pa   == AtLeast(full, min_awd)
             base == AlignUp(start_address, 2^pa)
             p    == [base |-> base, bits |-> pa]
  <2>1. /\ pa \in Nat /\ pa >= full /\ full \in Nat /\ full > 0
    <3>1. full \in Nat /\ full > 0  BY <1>0
    <3>2. min_awd \in Nat  BY DEF TypeOK
    <3> HIDE DEF full
    <3>3. QED  BY <3>1, <3>2, AtLeastType
  <2>2. 2^pa \in Nat /\ 2^pa > 0  BY <2>1, PowerPositive
  <2>3. /\ base \in Nat /\ base >= start_address /\ base % 2^pa = 0
    BY <2>2, AlignUpProperties DEF TypeOK
  <2>4. /\ place' = Append(place, p)
        /\ start_address' = base + 2^pa
        /\ bus' = bus /\ list' = list /\ pc = "assign" /\ pc' = "assign"
    BY <1>5, <2>1, <2>n DEF Assign
  <2>5. AddressWidth(list[n])' + DAddrABits' = full
    BY <2>4 DEF AddressWidth, DAddrABits
  <2> HIDE DEF full, pa, base
  <2>6. /\ Len(place') = n
        /\ place'[n].base = base /\ place'[n].bits = pa
        /\ \A i \in 1..Len(place) : place'[i] = place[i]
    <3>1. p \in Place  BY <2>1, <2>3 DEF Place
    <3>2. p.base = base /\ p.bits = pa  OBVIOUS
    <3> HIDE DEF p
    <3>3. /\ Len(place') = n /\ place'[n] = p
          /\ \A i \in 1..Len(place) : place'[i] = place[i]
      BY <2>0, <2>n, <2>4, <3>1
    <3>4. QED  BY <3>2, <3>3
  <2>7. \A i \in 1..Len(place) :
          /\ place[i].base \in Nat /\ place[i].bits \in Nat
          /\ 2^place[i].bits \in Nat
    <3>1. \A i \in 1..Len(place) : place[i] \in Place  BY <2>0
    <3>2. QED  BY <3>1, PowerPositive DEF Place
  <2>8. start_address \in Nat /\ bus.nullsz \in Nat /\ start_address >= bus.nullsz
    BY <2>4 DEF TypeOK, Bus, BelowStart
  <2>9. \A i \in 1..n : RegionSound(i)'
    <3>1. RegionSound(n)'
      BY <2>1, <2>3, <2>4, <2>5, <2>6, <2>8 DEF RegionSound
    <3>2. \A i \in 1..Len(place) : RegionSound(i)'
      BY <2>4, <2>6 DEF RegionSound, AddressWidth, DAddrABits
    <3>3. QED  BY <2>0, <2>n, <3>1, <3>2
  <2>10. BelowStart'
    <3>1. \A i \in 1..Len(place) :
            place'[i].base + 2^place'[i].bits <= start_address'
      BY <2>2, <2>3, <2>4, <2>6, <2>7, <2>8 DEF BelowStart
    <3>2. place'[n].base + 2^place'[n].bits <= start_address'
      BY <2>2, <2>3, <2>4, <2>6
    <3>3. start_address' >= bus.nullsz'
      BY <2>2, <2>3, <2>4, <2>8
    <3>4. QED  BY <2>0, <2>n, <2>6, <3>1, <3>2, <3>3 DEF BelowStart
  <2>11. SlavesDisjoint'
    <3>1. \A i \in 1..Len(place) : place[i].base + 2^place[i].bits <= base
      BY <2>3, <2>4, <2>7, <2>8 DEF BelowStart
    <3>2. ASSUME NEW i \in 1..n, NEW j \in 1..n, i < j
          PROVE  place'[i].base + 2^place'[i].bits <= place'[j].base
      <4>1. i \in 1..Len(place)  BY <2>0, <2>n, <3>2
      <4>2. CASE j = n  BY <2>6, <3>1, <4>1, <4>2
      <4>3. CASE j # n
        <5>1. j \in 1..Len(place)  BY <2>0, <2>n, <4>3
        <5>2. QED  BY <2>6, <3>2, <4>1, <5>1 DEF SlavesDisjoint
      <4>4. QED  BY <4>2, <4>3
    <3>3. QED  BY <2>6, <3>2 DEF SlavesDisjoint
  <2>12. QED  BY <2>4, <2>6, <2>9, <2>10, <2>11 DEF NothingPlaced
<1>6. CASE Trim
  <2>1. UNCHANGED <<bus, list, place>> /\ pc' = "done"
    BY <1>6 DEF Trim
  <2>2. QED
    BY <2>1 DEF NothingPlaced, RegionSound, BelowStart, SlavesDisjoint,
                AddressWidth, DAddrABits
<1>7. QED
  <2>1. CASE AssignNone \/ SortSlaves
    <3>1. place = <<>> /\ place' = <<>> /\ bus' = bus /\ pc' # "assign"
      BY <2>1 DEF AssignNone, SortSlaves, NothingPlaced
    <3>2. QED  BY <3>1, <1>2
  <2>2. CASE Search
    BY <2>2, <1>1 DEF Search
  <2>3. CASE UNCHANGED vars
    BY <2>3, <1>1 DEF vars
  <2>4. QED
    BY <2>1, <2>2, <2>3, <1>3, <1>4, <1>5, <1>6 DEF Next

(* The layout invariant holds of every assignment.                         *)
THEOREM LayoutSound == WideBuses => (Spec => []LayoutInv)
<1> SUFFICES ASSUME WideBuses PROVE Spec => []LayoutInv
  OBVIOUS
<1>1. Init => LayoutInv
  BY DEF Init, LayoutInv, NothingPlaced, BelowStart, SlavesDisjoint
<1>2. TypeOK /\ TypeOK' /\ LayoutInv /\ [Next]_vars => LayoutInv'
  BY LayoutStep
<1>3. QED  BY <1>1, <1>2, TypeCorrect, PTL DEF Spec

(* No octet of a bus is ever given to two slaves, whatever the slaves, the *)
(* null space and the order that std::sort leaves ties in.                 *)
THEOREM RegionsNeverMeet == WideBuses => (Spec => []SlavesDisjoint)
<1>1. LayoutInv => SlavesDisjoint  BY DEF LayoutInv
<1>2. QED  BY <1>1, LayoutSound, PTL
-----------------------------------------------------------------------------
(* The slaves of a bus keep their names apart, in whatever order they are. *)
NamesInv ==
  /\ \A i \in 1..Len(list) : list[i].name \in SlaveNames
  /\ \A i, j \in 1..Len(list) : list[i].name = list[j].name => i = j

(* Sorting permutes: same slaves, and each of them once.                   *)
LEMMA SortingPermutes ==
  ASSUME NEW l \in Seq(Slave), NEW s \in Sortings(l)
  PROVE  /\ Len(s) = Len(l) /\ SlavesOf(s) = SlavesOf(l)
         /\ \E q \in [1..Len(l) -> 1..Len(l)] :
              /\ \A i, j \in 1..Len(l) : q[i] = q[j] => i = j
              /\ \A i \in 1..Len(l) : s[i] = l[q[i]]
<1> DEFINE I == 1..Len(l)
<1>0. Len(l) \in Nat  OBVIOUS
<1>1. PICK q \in [I -> I] : /\ \A i, j \in I : q[i] = q[j] => i = j
                            /\ s = [i \in I |-> l[q[i]]]
  BY DEF Sortings
<1>2. Len(s) = Len(l) /\ \A i \in I : s[i] = l[q[i]]
  BY <1>0, <1>1
<1>3. q \in Injection(I, I)
  BY <1>1 DEF Injection, IsInjective
<1>4. IsFiniteSet(I) /\ Cardinality(I) = Cardinality(I)
  BY <1>0, FS_Interval
<1>5. q \in Surjection(I, I)
  BY <1>3, <1>4, FS_Injection
<1>6. \A k \in I : \E i \in I : q[i] = k
  BY <1>5 DEF Surjection
<1>7. SlavesOf(s) = SlavesOf(l)
  <2>1. SlavesOf(s) = {l[q[i]] : i \in I}  BY <1>2 DEF SlavesOf
  <2>2. SlavesOf(l) = {l[k] : k \in I}  BY DEF SlavesOf
  <2>3. {l[q[i]] : i \in I} = {l[k] : k \in I}
    <3>1. \A i \in I : q[i] \in I  BY <1>1
    <3>2. \A x : (\E i \in I : x = l[q[i]]) <=> (\E k \in I : x = l[k])
      BY <3>1, <1>6
    <3> HIDE DEF I
    <3>3. QED  BY <3>2
  <2>4. QED  BY <2>1, <2>2, <2>3
<1>8. QED  BY <1>1, <1>2, <1>7

(* Slave names stay distinct and known, through the sort included.         *)
LEMMA NamesCorrect == Spec => []NamesInv
<1>1. Init => NamesInv
  BY ListsAssumption DEF Init, NamesInv, SlaveNames
<1>2. TypeOK /\ NamesInv /\ [Next]_vars => NamesInv'
  <2> SUFFICES ASSUME TypeOK, NamesInv, [Next]_vars PROVE NamesInv'
    OBVIOUS
  <2>1. CASE SortSlaves
    <3>1. list \in Seq(Slave) /\ list' \in Sortings(list)
      BY <2>1 DEF SortSlaves, TypeOK
    <3>2. PICK q \in [1..Len(list) -> 1..Len(list)] :
            /\ \A i, j \in 1..Len(list) : q[i] = q[j] => i = j
            /\ \A i \in 1..Len(list) : list'[i] = list[q[i]]
      BY <3>1, SortingPermutes
    <3>3. Len(list') = Len(list)  BY <3>1, SortingPermutes
    <3>4. \A i \in 1..Len(list) : q[i] \in 1..Len(list)  BY <3>2
    <3>5. \A i \in 1..Len(list) : list'[i].name = list[q[i]].name  BY <3>2
    <3>6. \A i \in 1..Len(list) : list'[i].name \in SlaveNames
      BY <3>4, <3>5 DEF NamesInv
    <3>7. ASSUME NEW i \in 1..Len(list), NEW j \in 1..Len(list),
                 list'[i].name = list'[j].name
          PROVE  i = j
      <4>1. \A k, n \in 1..Len(list) : list[k].name = list[n].name => k = n
        BY DEF NamesInv
      <4>2. PICK k \in 1..Len(list) : k = q[i]  BY <3>4
      <4>3. PICK n \in 1..Len(list) : n = q[j]  BY <3>4
      <4>4. list[k].name = list[n].name  BY <3>5, <3>7, <4>2, <4>3
      <4>5. k = n  BY <4>1, <4>4, Zenon
      <4>6. QED  BY <3>2, <4>2, <4>3, <4>5
    <3>8. QED  BY <3>3, <3>6, <3>7 DEF NamesInv
  <2>2. CASE UNCHANGED list
    BY <2>2 DEF NamesInv
  <2>3. QED
    BY <2>1, <2>2 DEF Next, vars, AssignNone, AssignOnly, Search, SearchDone,
                      Assign, Trim
<1>3. QED  BY <1>1, <1>2, TypeCorrect, PTL DEF Spec

(* A step that leaves the slaves and the regions alone is a stutter of the *)
(* abstract map.                                                           *)
LEMMA QuietStep ==
  ASSUME UNCHANGED <<bus, list, place>>
  PROVE  UNCHANGED Map!amvars
BY DEF Map!amvars, MapOf, NeedOf, IndexOf, SlaveOf, SlavesOf, Region,
       AddressWidth, DAddrABits

(* Sorting happens before anything is placed: also a stutter.              *)
LEMMA SortStep ==
  ASSUME TypeOK, LayoutInv, SortSlaves
  PROVE  UNCHANGED Map!amvars
<1>1. /\ list \in Seq(Slave) /\ list' \in Sortings(list)
      /\ place = <<>> /\ place' = <<>> /\ bus' = bus
  BY DEF SortSlaves, TypeOK, LayoutInv, NothingPlaced
<1>2. SlavesOf(list') = SlavesOf(list)  BY <1>1, SortingPermutes
<1>3. MapOf' = MapOf
  <2>1. 1..Len(place) = {} /\ 1..Len(place') = {}  BY <1>1
  <2>2. QED  BY <2>1 DEF MapOf
<1>4. NeedOf' = NeedOf
  BY <1>1, <1>2 DEF NeedOf, SlaveOf, AddressWidth, DAddrABits
<1>5. QED  BY <1>1, <1>3, <1>4 DEF Map!amvars

(* One more region: the abstract map places the slave it belongs to.       *)
LEMMA PlaceStep ==
  ASSUME TypeOK, TypeOK', LayoutInv, LayoutInv', NamesInv,
         bus' = bus, list' = list, Len(place) < Len(list),
         Len(place') = Len(place) + 1,
         \A i \in 1..Len(place) : place'[i] = place[i]
  PROVE  Map!ANext
<1>0. /\ Len(place) \in Nat /\ Len(list) \in Nat
      /\ DAddrABits \in Nat /\ \A s : AddressWidth(s) \in Nat
  BY WidthType DEF TypeOK
<1>k. PICK k \in Nat : k = Len(place) + 1  BY <1>0
<1> DEFINE P  == 1..Len(place)
           nm == list[k].name
           idx(n)  == CHOOSE i \in P : list[i].name = n
           idx1(n) == CHOOSE i \in 1..k : list[i].name = n
<1>1. /\ P \subseteq 1..Len(list) /\ k \in 1..Len(list)
      /\ 1..k = P \cup {k} /\ k \notin P
  BY <1>0, <1>k
<1>2. \A i, j \in 1..Len(list) : list[i].name = list[j].name => i = j
  BY DEF NamesInv
<1>3. \A i \in P : IndexOf(list[i].name) = i
  <2> SUFFICES ASSUME NEW i \in P PROVE IndexOf(list[i].name) = i
    OBVIOUS
  <2>1. \A j \in P : list[j].name = list[i].name => j = i  BY <1>1, <1>2
  <2>2. QED  BY <2>1 DEF IndexOf
<1>4. \A i \in 1..k : IndexOf(list[i].name)' = i
  <2> SUFFICES ASSUME NEW i \in 1..k PROVE IndexOf(list[i].name)' = i
    OBVIOUS
  <2>1. \A j \in 1..k : list[j].name = list[i].name => j = i  BY <1>1, <1>2
  <2>2. IndexOf(list[i].name)' = CHOOSE j \in 1..k : list[j].name = list[i].name
    BY <1>k DEF IndexOf
  <2>3. QED  BY <2>1, <2>2
<1>5. /\ DOMAIN MapOf = {list[i].name : i \in P}
      /\ \A i \in P : MapOf[list[i].name] = Region(i)
  BY <1>3 DEF MapOf
<1>6. /\ DOMAIN MapOf' = {list[i].name : i \in 1..k}
      /\ \A i \in 1..k : MapOf'[list[i].name] = Region(i)'
  BY <1>4, <1>k DEF MapOf
<1>7. nm \notin DOMAIN MapOf
  BY <1>1, <1>2, <1>5
<1>8. DOMAIN MapOf' = DOMAIN MapOf \cup {nm}
  BY <1>1, <1>5, <1>6
<1>9. \A t \in DOMAIN MapOf :
        MapOf'[t] = MapOf[t] /\ Map!Disjoint(MapOf'[nm], MapOf[t])
  <2> SUFFICES ASSUME NEW t \in DOMAIN MapOf
               PROVE  MapOf'[t] = MapOf[t] /\ Map!Disjoint(MapOf'[nm], MapOf[t])
    OBVIOUS
  <2>1. PICK i \in P : t = list[i].name  BY <1>5
  <2>2. MapOf[t] = Region(i) /\ MapOf'[t] = Region(i)'
    BY <2>1, <1>1, <1>5, <1>6
  <2>3. Region(i)' = Region(i)  BY DEF Region
  <2>4. place'[i].base + 2^place'[i].bits <= place'[k].base
    <3>1. i < k  BY <1>0, <1>k
    <3>2. SlavesDisjoint'  BY DEF LayoutInv
    <3>3. QED  BY <1>0, <1>1, <1>k, <3>1, <3>2 DEF SlavesDisjoint
  <2>5. MapOf'[nm] = [base |-> place'[k].base, size |-> 2^place'[k].bits]
    BY <1>1, <1>6 DEF Region
  <2>6. MapOf[t] = [base |-> place'[i].base, size |-> 2^place'[i].bits]
    BY <2>2 DEF Region
  <2>7. QED  BY <2>2, <2>3, <2>4, <2>5, <2>6 DEF Map!Disjoint
<1>10. /\ MapOf'[nm].base >= bus.nullsz
       /\ MapOf'[nm].base % MapOf'[nm].size = 0
       /\ MapOf'[nm].size >= NeedOf[nm]
  <2>1. MapOf'[nm] = [base |-> place'[k].base, size |-> 2^place'[k].bits]
    BY <1>1, <1>6 DEF Region
  <2>2. RegionSound(k)'  BY <1>0, <1>1, <1>k DEF LayoutInv
  <2>3. /\ place'[k].base >= bus.nullsz
        /\ place'[k].base % 2^place'[k].bits = 0
        /\ place'[k].bits >= AddressWidth(list[k]) + DAddrABits
    BY <2>2 DEF RegionSound, AddressWidth, DAddrABits
  <2>4. NeedOf[nm] = 2^(AddressWidth(list[k]) + DAddrABits)
    <3>1. list[k] \in SlavesOf(list)  BY <1>1 DEF SlavesOf
    <3>2. \A s \in SlavesOf(list) : s.name = nm => s = list[k]
      BY <1>1, <1>2 DEF SlavesOf
    <3>3. SlaveOf(nm) = list[k]  BY <3>1, <3>2 DEF SlaveOf
    <3>4. nm \in {s.name : s \in SlavesOf(list)}  BY <3>1
    <3>5. QED  BY <3>3, <3>4 DEF NeedOf
  <2>5. place'[k].bits \in Nat
    <3>1. place' \in Seq(Place) /\ k \in 1..Len(place')  BY <1>k, <1>0 DEF TypeOK
    <3>2. place'[k] \in Place  BY <3>1
    <3>3. QED  BY <3>2 DEF Place
  <2>6. 2^(AddressWidth(list[k]) + DAddrABits) <= 2^place'[k].bits
    BY <1>0, <2>3, <2>5, PowerMonotonic
  <2>7. /\ 2^(AddressWidth(list[k]) + DAddrABits) \in Nat
        /\ 2^place'[k].bits \in Nat
    BY <1>0, <2>5, PowerPositive
  <2>8. QED  BY <2>1, <2>3, <2>4, <2>6, <2>7
<1>11. NeedOf' = NeedOf /\ bus.nullsz' = bus.nullsz
  BY DEF NeedOf, SlaveOf, SlavesOf, AddressWidth, DAddrABits
<1>12. nm \in SlaveNames  BY <1>1 DEF NamesInv
<1>13. Map!Place(nm)
  BY <1>7, <1>8, <1>9, <1>10, <1>11 DEF Map!Place
<1>14. QED  BY <1>12, <1>13 DEF Map!ANext

(* The assignment implements the abstract map of a bus: whatever it has    *)
(* placed it never moves, and what it adds fits among the rest.            *)
THEOREM AssignImplementsMap == WideBuses => (Spec => ImplementsAddrMap)
<1> SUFFICES ASSUME WideBuses PROVE Spec => Map!ASpec
  BY DEF ImplementsAddrMap
<1>1. Init => Map!AInit
  <2> SUFFICES ASSUME Init PROVE Map!AInit
    OBVIOUS
  <2>1. 1..Len(place) = {}  BY DEF Init
  <2>2. QED  BY <2>1 DEF Map!AInit, MapOf
<1>2. /\ TypeOK /\ TypeOK' /\ LayoutInv /\ LayoutInv' /\ NamesInv /\ [Next]_vars
      => [Map!ANext]_(Map!amvars)
  <2> SUFFICES ASSUME TypeOK, TypeOK', LayoutInv, LayoutInv', NamesInv, [Next]_vars
               PROVE  [Map!ANext]_(Map!amvars)
    OBVIOUS
  <2>1. CASE UNCHANGED <<bus, list, place>>
    BY <2>1, QuietStep
  <2>2. CASE SortSlaves
    BY <2>2, SortStep
  <2>3. CASE AssignOnly
    <3>1. /\ bus' = bus /\ list' = list /\ place = <<>>
          /\ Len(list) = 1 /\ Len(place') = 1
      BY <2>3 DEF AssignOnly, LayoutInv, NothingPlaced
    <3>2. Len(place) = 0  BY <3>1
    <3>3. QED  BY <3>1, <3>2, PlaceStep
  <2>4. CASE Assign
    <3>1. \E p \in Place : place' = Append(place, p)
      <4>1. place' \in Seq(Place) /\ place \in Seq(Place)  BY DEF TypeOK
      <4>2. \E p : place' = Append(place, p)  BY <2>4 DEF Assign
      <4>3. PICK p : place' = Append(place, p)  BY <4>2
      <4>4. p \in Place
        <5>1. Len(place) \in Nat  BY <4>1
        <5>2. p = place'[Len(place) + 1] /\ Len(place) + 1 \in 1..Len(place')
          BY <4>1, <4>3, <5>1
        <5>3. QED  BY <4>1, <5>2
      <4>5. QED  BY <4>3, <4>4
    <3>2. place \in Seq(Place)  BY DEF TypeOK
    <3>3. /\ bus' = bus /\ list' = list /\ Len(place) < Len(list)
          /\ Len(place') = Len(place) + 1
          /\ \A i \in 1..Len(place) : place'[i] = place[i]
      BY <2>4, <3>1, <3>2 DEF Assign
    <3>4. QED  BY <3>3, PlaceStep
  <2>5. QED
    BY <2>1, <2>2, <2>3, <2>4
       DEF Next, vars, AssignNone, Search, SearchDone, Trim
<1>3. QED
  BY <1>1, <1>2, TypeCorrect, LayoutSound, NamesCorrect, PTL DEF Spec, Map!ASpec
-----------------------------------------------------------------------------
(* Once the search has begun the list is sorted.                           *)
Sorted ==
  pc # "start" =>
    \A i, j \in 1..Len(list) : i < j => ~CompareNAddr(list[j], list[i])

LEMMA SortedKept ==
  ASSUME TypeOK, Sorted, [Next]_vars
  PROVE  Sorted'
<1>1. CASE SortSlaves
  <2>1. /\ list \in Seq(Slave) /\ list' \in Sortings(list) /\ bus' = bus
    BY <1>1 DEF SortSlaves, TypeOK
  <2>2. PICK q \in [1..Len(list) -> 1..Len(list)] :
          /\ list' = [i \in 1..Len(list) |-> list[q[i]]]
          /\ \A i, j \in 1..Len(list) : i < j => ~CompareNAddr(list[q[j]], list[q[i]])
    BY <2>1 DEF Sortings
  <2>3. Len(list') = Len(list)  BY <2>1, SortingType
  <2>4. \A i, j \in 1..Len(list) : i < j => ~CompareNAddr(list'[j], list'[i])
    BY <2>2
  <2> SUFFICES ASSUME NEW i \in 1..Len(list), NEW j \in 1..Len(list), i < j
               PROVE  ~CompareNAddr(list[j], list[i])'
    BY <2>3 DEF Sorted
  <2>5. ~CompareNAddr(list'[j], list'[i])  BY <2>4
  <2>6. QED  BY <2>1, <2>5 DEF CompareNAddr, AddressWidth
<1>2. CASE AssignNone \/ AssignOnly
  <2>1. list \in Seq(Slave) /\ list' = list  BY <1>2 DEF AssignNone, AssignOnly, TypeOK
  <2>2. Len(list) < 1 \/ Len(list) = 1  BY <1>2 DEF AssignNone, AssignOnly
  <2>3. QED  BY <2>1, <2>2 DEF Sorted
<1>3. CASE Search \/ SearchDone \/ Assign \/ Trim \/ UNCHANGED vars
  <2>1. UNCHANGED <<bus, list>> /\ (pc = "start" => pc' = "start")
    BY <1>3 DEF Search, SearchDone, Assign, Trim, vars
  <2>2. QED  BY <2>1 DEF Sorted, CompareNAddr, AddressWidth
<1>4. QED  BY <1>1, <1>2, <1>3 DEF Next

(* SLAVE.ORDER is honoured: slaves with an order come in that order, and   *)
(* after all the slaves without one.                                       *)
THEOREM OrderKept == WideBuses => (Spec => []OrderHonoured)
<1> SUFFICES ASSUME WideBuses PROVE Spec => []OrderHonoured
  OBVIOUS
<1>1. Init => Sorted  BY DEF Init, Sorted
<1>2. TypeOK /\ Sorted /\ [Next]_vars => Sorted'  BY SortedKept
<1>3. TypeOK /\ LayoutInv /\ Sorted => OrderHonoured
  <2> SUFFICES ASSUME TypeOK, LayoutInv, Sorted,
                      NEW i \in 1..Len(place), NEW j \in 1..Len(place), list[j].ordered,
                      list[i].ordered => list[i].order < list[j].order
               PROVE  place[i].base < place[j].base
    BY DEF OrderHonoured
  <2>1. pc # "start"  BY DEF LayoutInv, NothingPlaced
  <2>2. /\ i \in 1..Len(list) /\ j \in 1..Len(list)
        /\ place[i] \in Place /\ place[j] \in Place
        /\ list[i] \in Slave /\ list[j] \in Slave
    BY DEF TypeOK
  <2>3. CompareNAddr(list[i], list[j])
    BY <2>2 DEF CompareNAddr, Slave
  <2>4. i < j
    <3>1. i # j  BY <2>2 DEF Slave
    <3>2. ~(j < i)  BY <2>1, <2>2, <2>3 DEF Sorted
    <3>3. QED  BY <3>1, <3>2
  <2>5. place[i].base + 2^place[i].bits <= place[j].base
    BY <2>4 DEF LayoutInv, SlavesDisjoint
  <2>6. 2^place[i].bits \in Nat /\ 2^place[i].bits > 0
    BY <2>2, PowerPositive DEF Place
  <2>7. QED  BY <2>2, <2>5, <2>6 DEF Place
<1>4. QED  BY <1>1, <1>2, <1>3, TypeCorrect, LayoutSound, PTL DEF Spec
-----------------------------------------------------------------------------
(* How an assignment may have ended: without slaves; with one slave that   *)
(* has the bus to itself; or with all slaves laid out and masks trimmed.   *)
EndedEmpty == Len(list) = 0 /\ Len(place) = 0

EndedAlone ==
  /\ Len(list) = 1 /\ bus.nullsz = 0 /\ Len(place) = 1
  /\ place[1].base = 0 /\ place[1].bits = AddressWidth(list[1]) + DAddrABits
  /\ mask[1] = [lo |-> 0, hi |-> 0] /\ m_address_width = AddressWidth(list[1])

EndedTrimmed ==
  /\ Len(place) = Len(list)
  /\ \A i \in 1..Len(place) : place[i].base + 2^place[i].bits <= start_address
  /\ m_address_width = NextLg(start_address) - DAddrABits
  /\ \A i \in 1..Len(list) :
       place[i].bits > 0 =>
         mask[i] = [lo |-> place[i].bits - DAddrABits, hi |-> m_address_width]

EndedWell == pc = "done" => EndedEmpty \/ EndedAlone \/ EndedTrimmed

LEMMA EndedKept ==
  ASSUME TypeOK, LayoutInv, EndedWell, [Next]_vars
  PROVE  EndedWell'
<1>1. CASE AssignNone
  <2>1. Len(list) = 0 /\ place = <<>> /\ place' = place /\ list' = list
    BY <1>1 DEF AssignNone, TypeOK, LayoutInv, NothingPlaced
  <2>2. QED  BY <2>1 DEF EndedWell, EndedEmpty
<1>2. CASE AssignOnly
  <2> DEFINE w == AddressWidth(list[1])
  <2>1. /\ UNCHANGED <<bus, list>> /\ Len(list) = 1 /\ bus.nullsz = 0
        /\ place' = <<[base |-> 0, bits |-> w + DAddrABits]>>
        /\ mask' = <<[lo |-> 0, hi |-> 0]>> /\ m_address_width' = w
    BY <1>2 DEF AssignOnly
  <2>2. AddressWidth(list[1])' = w /\ DAddrABits' = DAddrABits
    BY <2>1 DEF AddressWidth, DAddrABits
  <2> HIDE DEF w
  <2>3. /\ Len(place') = 1 /\ place'[1].base = 0 /\ place'[1].bits = w + DAddrABits
        /\ mask'[1] = [lo |-> 0, hi |-> 0]
    BY <2>1
  <2>4. EndedAlone'  BY <2>1, <2>2, <2>3 DEF EndedAlone
  <2>5. QED  BY <2>4 DEF EndedWell
<1>3. CASE Trim
  <2> DEFINE top == NextLg(start_address) - DAddrABits
  <2>1. /\ UNCHANGED <<bus, list, place, start_address>> /\ Len(place) = Len(list)
        /\ pc = "assign" /\ m_address_width' = top
        /\ mask' = [i \in 1..Len(list) |->
                      IF place[i].bits = 0 THEN [lo |-> 0, hi |-> 0]
                      ELSE [lo |-> place[i].bits - DAddrABits, hi |-> top]]
    BY <1>3 DEF Trim
  <2>2. DAddrABits' = DAddrABits  BY <2>1 DEF DAddrABits
  <2> HIDE DEF top
  <2>3. \A i \in 1..Len(list) : place[i].bits > 0 =>
          mask'[i] = [lo |-> place[i].bits - DAddrABits, hi |-> top]
    BY <2>1
  <2>4. \A i \in 1..Len(place) : place[i].base + 2^place[i].bits <= start_address
    BY <2>1 DEF LayoutInv, BelowStart
  <2>5. EndedTrimmed'  BY <2>1, <2>2, <2>3, <2>4 DEF EndedTrimmed, top
  <2>6. QED  BY <2>5 DEF EndedWell
<1>4. CASE SortSlaves \/ Search \/ SearchDone \/ Assign
  BY <1>4 DEF SortSlaves, Search, SearchDone, Assign, EndedWell
<1>5. CASE UNCHANGED vars
  BY <1>5 DEF vars, EndedWell, EndedEmpty, EndedAlone, EndedTrimmed, AddressWidth,
              DAddrABits
<1>6. QED  BY <1>1, <1>2, <1>3, <1>4, <1>5 DEF Next

LEMMA EndedCorrect == WideBuses => (Spec => []EndedWell)
<1> SUFFICES ASSUME WideBuses PROVE Spec => []EndedWell
  OBVIOUS
<1>1. Init => EndedWell  BY DEF Init, EndedWell
<1>2. TypeOK /\ LayoutInv /\ EndedWell /\ [Next]_vars => EndedWell'  BY EndedKept
<1>3. QED  BY <1>1, <1>2, TypeCorrect, LayoutSound, PTL DEF Spec

(* nextlg() counts bits in an int: the addresses given out are within its  *)
(* reach.                                                                  *)
WithinReach == start_address <= 2^(MaxLg + 1)

(* What the layout says of one slave of a finished assignment.             *)
LEMMA TrimmedFacts ==
  ASSUME WideBuses, TypeOK, LayoutInv, EndedTrimmed, WithinReach,
         NEW i \in 1..Len(place)
  PROVE  /\ place[i].base \in Nat /\ place[i].bits \in Nat /\ DAddrABits \in Nat
         /\ place[i].base % 2^place[i].bits = 0
         /\ DAddrABits <= place[i].bits /\ place[i].bits > 0
         /\ place[i].base + 2^place[i].bits <= 2^(m_address_width + DAddrABits)
         /\ m_address_width + DAddrABits \in Nat
         /\ m_address_width \in Nat
<1>1. place[i].base \in Nat /\ place[i].bits \in Nat
  <2>1. place[i] \in Place  BY DEF TypeOK
  <2>2. QED  BY <2>1 DEF Place
<1>2. /\ DAddrABits \in Nat /\ AddressWidth(list[i]) \in Nat
      /\ AddressWidth(list[i]) + DAddrABits > 0
  <2>1. DAddrABits \in Nat /\ AddressWidth(list[i]) \in Nat
    BY WidthType DEF TypeOK
  <2>2. bus.lgdw > 0 /\ bus.lgdw \in Nat  BY DEF WideBuses, TypeOK, Bus, LayoutInv
  <2>3. NextLg(list[i].naddr) \in Nat  BY NextLgNat
  <2>4. QED  BY <2>1, <2>2, <2>3 DEF DAddrABits, AddressWidth
<1>3. /\ place[i].base % 2^place[i].bits = 0
      /\ place[i].bits >= AddressWidth(list[i]) + DAddrABits
  BY DEF LayoutInv, RegionSound
<1>4. start_address \in Nat /\ start_address <= 2^NextLg(start_address)
  BY NextLgReaches DEF TypeOK, WithinReach
<1>5. NextLg(start_address) \in Nat /\ 2^NextLg(start_address) \in Nat
      /\ 2^place[i].bits \in Nat
  BY <1>1, NextLgNat, PowerPositive
<1>6. m_address_width + DAddrABits = NextLg(start_address)
  BY <1>2, <1>5 DEF EndedTrimmed
<1>7. place[i].base + 2^place[i].bits <= start_address
  BY DEF EndedTrimmed
<1>8. m_address_width \in Nat
  <2>1. 2^place[i].bits <= start_address  BY <1>1, <1>4, <1>5, <1>7
  <2>2. place[i].bits <= MaxLg + 1
    <3>1. /\ MaxLg + 1 \in Nat /\ 2^(MaxLg + 1) \in Nat /\ 2^(MaxLg + 1) > 0
          /\ 2^(MaxLg + 1 + 1) = 2 * 2^(MaxLg + 1)
      <4>1. MaxLg + 1 \in Nat  BY DEF MaxLg
      <4>2. QED  BY <4>1, PowerPositive, PowerSucc
    <3>2. MaxLg + 1 + 1 <= place[i].bits => 2^(MaxLg + 1 + 1) <= 2^place[i].bits
      BY <1>1, <3>1, PowerMonotonic
    <3>3. QED  BY <1>1, <1>4, <1>5, <2>1, <3>1, <3>2 DEF WithinReach
  <2>3. place[i].bits <= NextLg(start_address)
    <3>1. MaxLg + 1 \in Nat  BY DEF MaxLg
    <3>2. place[i].bits \in 0..(MaxLg + 1)  BY <1>1, <2>2, <3>1
    <3>3. QED  BY <1>4, <2>1, <3>2, NextLgAtLeast
  <2>4. m_address_width \in Int  BY DEF TypeOK
  <2>5. QED  BY <1>1, <1>2, <1>3, <1>5, <1>6, <2>3, <2>4
<1>9. place[i].base + 2^place[i].bits <= 2^(m_address_width + DAddrABits)
  BY <1>1, <1>4, <1>5, <1>6, <1>7
<1>10. QED  BY <1>1, <1>2, <1>3, <1>5, <1>6, <1>8, <1>9

(* The slave that has the bus to itself: its region is the whole bus.      *)
LEMMA AloneFacts ==
  ASSUME TypeOK, EndedAlone
  PROVE  /\ m_address_width \in Nat /\ DAddrABits \in Nat
         /\ 2^m_address_width \in Nat /\ 2^DAddrABits \in Nat /\ 2^DAddrABits > 0
         /\ 2^(m_address_width + DAddrABits) = 2^m_address_width * 2^DAddrABits
         /\ place[1].base = 0 /\ place[1].bits = m_address_width + DAddrABits
<1>1. DAddrABits \in Nat /\ AddressWidth(list[1]) \in Nat
  BY WidthType DEF TypeOK
<1>2. m_address_width \in Nat  BY <1>1 DEF EndedAlone
<1>3. /\ 2^m_address_width \in Nat /\ 2^DAddrABits \in Nat /\ 2^DAddrABits > 0
  BY <1>1, <1>2, PowerPositive
<1>4. 2^(m_address_width + DAddrABits) = 2^m_address_width * 2^DAddrABits
  BY <1>1, <1>2, PowerSum
<1>5. QED  BY <1>1, <1>2, <1>3, <1>4 DEF EndedAlone

(* Each slave is given all the address lines it decodes itself, above the  *)
(* null space, and the bus has the address lines to reach its last octet.  *)
THEOREM RoomKept == WideBuses => (Spec => [](WithinReach => RoomForSlaves))
<1> SUFFICES ASSUME WideBuses PROVE Spec => [](WithinReach => RoomForSlaves)
  OBVIOUS
<1>1. TypeOK /\ LayoutInv /\ EndedWell => (WithinReach => RoomForSlaves)
  <2> SUFFICES ASSUME TypeOK, LayoutInv, EndedWell, WithinReach, Finished,
                      NEW i \in 1..Len(list)
               PROVE  /\ place[i].bits >= AddressWidth(list[i]) + DAddrABits
                      /\ place[i].base >= bus.nullsz
                      /\ place[i].base + 2^place[i].bits
                           <= 2^(m_address_width + DAddrABits)
    BY DEF RoomForSlaves
  <2>1. EndedEmpty \/ EndedAlone \/ EndedTrimmed  BY DEF EndedWell, Finished
  <2>2. CASE EndedEmpty  BY <2>2 DEF EndedEmpty
  <2>3. CASE EndedAlone
    <3>1. i = 1 /\ bus.nullsz = 0 /\ m_address_width = AddressWidth(list[1])
      BY <2>3 DEF EndedAlone
    <3>2. 2^place[1].bits = 2^m_address_width * 2^DAddrABits
      BY <2>3, AloneFacts
    <3>3. 2^m_address_width * 2^DAddrABits \in Nat
      <4>1. 2^m_address_width \in Nat /\ 2^DAddrABits \in Nat  BY <2>3, AloneFacts
      <4>2. QED  BY <4>1
    <3>4. QED  BY <2>3, <3>1, <3>2, <3>3, AloneFacts
  <2>4. CASE EndedTrimmed
    <3>1. i \in 1..Len(place)  BY <2>4 DEF EndedTrimmed
    <3>2. place[i].base + 2^place[i].bits <= 2^(m_address_width + DAddrABits)
      BY <2>4, <3>1, TrimmedFacts
    <3>3. RegionSound(i)  BY <3>1 DEF LayoutInv
    <3>4. QED  BY <3>2, <3>3 DEF RegionSound
  <2>5. QED  BY <2>1, <2>2, <2>3, <2>4
<1>2. QED  BY <1>1, TypeCorrect, LayoutSound, EndedCorrect, PTL

(* The decoders of an assignment that has ended, whichever way it has.     *)
LEMMA DecodersOfEnded ==
  ASSUME WideBuses, TypeOK, LayoutInv, EndedWell, EndedTrimmed => WithinReach
  PROVE  DecodesOwner
<1> SUFFICES ASSUME Finished,
                    NEW i \in 1..Len(place), NEW addr \in 0..(2^m_address_width - 1)
             PROVE  Selects(i, addr) <=>
                      /\ place[i].base <= addr * 2^DAddrABits
                      /\ addr * 2^DAddrABits < place[i].base + 2^place[i].bits
  BY DEF DecodesOwner
<1>1. EndedEmpty \/ EndedAlone \/ EndedTrimmed  BY DEF EndedWell, Finished
<1>2. CASE EndedEmpty  BY <1>2 DEF EndedEmpty
<1>3. CASE EndedAlone
  <2>1. /\ m_address_width \in Nat /\ DAddrABits \in Nat
        /\ 2^m_address_width \in Nat /\ 2^DAddrABits \in Nat /\ 2^DAddrABits > 0
        /\ 2^place[1].bits = 2^m_address_width * 2^DAddrABits /\ place[1].base = 0
        /\ i = 1 /\ mask[1] = [lo |-> 0, hi |-> 0]
    BY <1>3, AloneFacts DEF EndedAlone
  <2>2. addr \in Nat /\ addr < 2^m_address_width  BY <2>1
  <2>3. addr * 2^DAddrABits < 2^m_address_width * 2^DAddrABits
    BY <2>1, <2>2, TimesKeepsOrder
  <2>4. addr * 2^DAddrABits \in Nat  BY <2>1, <2>2
  <2>5. Selects(i, addr)
    <3>1. \A a \in Nat : (a % 1) \div 1 = 0  BY Z3
    <3>2. 0 \div 2^DAddrABits = 0
      <4>1. 0 * 2^DAddrABits = 0  BY <2>1
      <4>2. QED  BY <2>1, <4>1, QuotientUnique
    <3>3. Bits(addr, mask[i]) = 0 /\ Bits(0, mask[i]) = 0
      BY <2>1, <2>2, <3>1, PowerZero DEF Bits
    <3>4. QED  BY <2>1, <3>2, <3>3 DEF Selects
  <2>6. QED  BY <2>1, <2>3, <2>4, <2>5
<1>4. CASE EndedTrimmed
  <2>1. /\ place[i].base \in Nat /\ place[i].bits \in Nat /\ DAddrABits \in Nat
        /\ place[i].base % 2^place[i].bits = 0
        /\ DAddrABits <= place[i].bits /\ place[i].bits > 0
        /\ place[i].base + 2^place[i].bits <= 2^(m_address_width + DAddrABits)
        /\ m_address_width \in Nat
    BY <1>4, TrimmedFacts
  <2>2. mask[i] = [lo |-> place[i].bits - DAddrABits, hi |-> m_address_width]
    BY <1>4, <2>1 DEF EndedTrimmed
  <2>3. (addr % 2^m_address_width) \div 2^(place[i].bits - DAddrABits)
          = ((place[i].base \div 2^DAddrABits) % 2^m_address_width)
              \div 2^(place[i].bits - DAddrABits)
        <=> /\ place[i].base <= addr * 2^DAddrABits
            /\ addr * 2^DAddrABits < place[i].base + 2^place[i].bits
    BY <2>1, DecoderSelects
  <2>4. QED  BY <2>2, <2>3 DEF Selects, Bits
<1>5. QED  BY <1>1, <1>2, <1>3, <1>4

(* When the masks have been trimmed, a bus address selects a slave if and  *)
(* only if it lies in the region of that slave: the bits that the masks    *)
(* leave out never make a second slave answer.                             *)
THEOREM DecodersRight == WideBuses => (Spec => [](WithinReach => DecodesOwner))
<1> SUFFICES ASSUME WideBuses PROVE Spec => [](WithinReach => DecodesOwner)
  OBVIOUS
<1>1. TypeOK /\ LayoutInv /\ EndedWell => (WithinReach => DecodesOwner)
  BY DecodersOfEnded
<1>2. QED  BY <1>1, TypeCorrect, LayoutSound, EndedCorrect, PTL
-----------------------------------------------------------------------------
(* The ends that min_addr_size_bytes() computes, slave by slave.           *)
NextEnd(l, mn, i, end) ==
  IF AddressWidth(l[i]) <= 0 THEN end
  ELSE AlignUp(end, 2^AtLeast(AddressWidth(l[i]), mn)) + 2^AtLeast(AddressWidth(l[i]), mn)

IsLayout(end, l, mn, nullsz) ==
  /\ end \in [0..Len(l) -> Nat] /\ end[0] = nullsz
  /\ \A i \in 1..Len(l) : end[i] = NextEnd(l, mn, i, end[i - 1])

LEMMA NextEndType ==
  ASSUME bus \in Bus, NEW l, NEW mn \in Nat, NEW i, NEW end \in Nat
  PROVE  NextEnd(l, mn, i, end) \in Nat
<1>1. PICK n \in Nat : n = AtLeast(AddressWidth(l[i]), mn)
  BY WidthType, AtLeastType
<1>2. 2^n \in Nat /\ 2^n > 0  BY PowerPositive
<1>3. AlignUp(end, 2^n) \in Nat  BY <1>2, AlignUpProperties
<1>4. QED  BY <1>1, <1>2, <1>3 DEF NextEnd

LEMMA LayoutRuns ==
  ASSUME bus \in Bus, NEW l \in Seq(Slave), NEW mn \in Nat, NEW nullsz \in Nat
  PROVE  \E end : /\ IsLayout(end, l, mn, nullsz)
                  /\ MinAddrSizeBytes(l, mn, nullsz) = NextLg(end[Len(l)])
<1> DEFINE N == Len(l)
           next(n, e) == NextEnd(l, mn, n, e)
           G == [p \in (1..N) \X Nat |-> next(p[1], p[2])]
           P(f) == f = [i \in 0..N |->
                          IF i = 0 THEN nullsz
                          ELSE IF AddressWidth(l[i]) <= 0 THEN f[i - 1]
                            ELSE AlignUp(f[i - 1], 2^AtLeast(AddressWidth(l[i]), mn))
                                   + 2^AtLeast(AddressWidth(l[i]), mn)]
           h == CHOOSE f : P(f)
<1>1. N \in Nat  OBVIOUS
<1>2. \A n \in 1..N, e \in Nat : next(n, e) \in Nat  BY NextEndType
<1>3. G \in Steps(N, Nat)  BY <1>2 DEF Steps
<1>4. \A n \in 1..N, e \in Nat : G[<<n, e>>] = next(n, e)
  <2> HIDE DEF next, N
  <2>1. QED  OBVIOUS
<1>5. PICK f \in [0..N -> Nat] : f[0] = nullsz /\ \A n \in 1..N : f[n] = G[<<n, f[n - 1]>>]
  <2> HIDE DEF N, G
  <2>1. PICK f : IsRecursion(f, N, Nat, nullsz, G)  BY <1>1, <1>3, RecursionExists
  <2>2. QED  BY <2>1 DEF IsRecursion
<1>6. \A n \in 1..N : n - 1 \in 0..N /\ f[n - 1] \in Nat  BY <1>1, <1>5
<1>7. \A n \in 1..N : f[n] = next(n, f[n - 1])
  <2> HIDE DEF next, N, G
  <2>1. QED  BY <1>4, <1>5, <1>6
<1>8. P(f)
  <2>1. \A n \in 0..N : n # 0 => n \in 1..N  BY <1>1
  <2>2. f = [n \in 0..N |-> f[n]]  BY <1>5
  <2>3. \A n \in 0..N : f[n] = IF n = 0 THEN nullsz ELSE next(n, f[n - 1])
    <3> HIDE DEF next
    <3>1. QED  BY <2>1, <1>5, <1>7
  <2>4. f = [n \in 0..N |-> IF n = 0 THEN nullsz ELSE next(n, f[n - 1])]
    <3> HIDE DEF next
    <3>1. QED  BY <2>2, <2>3
  <2>5. QED  BY <2>4 DEF NextEnd
<1>9. MinAddrSizeBytes(l, mn, nullsz) = NextLg(h[N])  BY DEF MinAddrSizeBytes
<1>10. P(h)
  <2> HIDE DEF P
  <2>1. QED  BY <1>8
<1>11. h = [n \in 0..N |-> IF n = 0 THEN nullsz ELSE next(n, h[n - 1])]
  <2> HIDE DEF h
  <2>1. QED  BY <1>10 DEF NextEnd
<1> HIDE DEF h
<1>12. DOMAIN h = 0..N /\ h[0] = nullsz /\ \A n \in 1..N : h[n] = next(n, h[n - 1])
  <2> HIDE DEF next
  <2>1. DOMAIN h = 0..N /\ \A n \in 0..N : h[n] = IF n = 0 THEN nullsz ELSE next(n, h[n - 1])
    BY <1>11
  <2>2. 0 \in 0..N /\ \A n \in 1..N : n \in 0..N /\ n # 0  BY <1>1
  <2>3. QED  BY <2>1, <2>2
<1>13. h \in [0..N -> Nat]
  <2> DEFINE T == {k \in Nat : k <= N => h[k] \in Nat}
  <2>1. 0 \in T  BY <1>12
  <2>2. ASSUME NEW k \in Nat, k \in T PROVE k + 1 \in T
    <3> SUFFICES ASSUME k + 1 <= N PROVE h[k + 1] \in Nat  OBVIOUS
    <3>1. k + 1 \in 1..N /\ (k + 1) - 1 = k /\ k <= N  BY <1>1
    <3>2. h[k] \in Nat  BY <2>2, <3>1
    <3> HIDE DEF next
    <3>3. h[k + 1] = next(k + 1, h[k])  BY <3>1, <1>12
    <3>4. QED  BY <3>1, <3>2, <3>3, <1>2
  <2> HIDE DEF T
  <2>3. Nat \subseteq T  BY <2>1, <2>2, NatSetInduction
  <2>4. \A k \in 0..N : h[k] \in Nat  BY <2>3, <1>1 DEF T
  <2>5. h = [k \in 0..N |-> h[k]]
    <3> HIDE DEF next
    <3>1. QED  BY <1>11
  <2>6. QED  BY <2>4, <2>5
<1>14. IsLayout(h, l, mn, nullsz)  BY <1>12, <1>13 DEF IsLayout
<1>15. QED  BY <1>9, <1>14

(* Slaves that are set further apart end no earlier.                       *)
LEMMA LayoutGrows ==
  ASSUME bus \in Bus, NEW l \in Seq(Slave), NEW m \in Nat, NEW n \in Nat, m <= n,
         NEW nullsz \in Nat, NEW e, NEW f,
         IsLayout(e, l, m, nullsz), IsLayout(f, l, n, nullsz)
  PROVE  e[Len(l)] <= f[Len(l)] /\ e[Len(l)] \in Nat /\ f[Len(l)] \in Nat
<1> DEFINE N == Len(l)
           T == {k \in Nat : k <= N => e[k] <= f[k]}
<1>1. N \in Nat /\ nullsz \in Int  OBVIOUS
<1>2. 0 \in T  BY <1>1 DEF IsLayout
<1>3. ASSUME NEW k \in Nat, k \in T PROVE k + 1 \in T
  <2> SUFFICES ASSUME k + 1 <= N PROVE e[k + 1] <= f[k + 1]  OBVIOUS
  <2>1. PICK i \in 1..N : i = k + 1 /\ i - 1 = k  BY <1>1
  <2>2. k \in 0..N /\ k <= N  BY <1>1
  <2>3. PICK x \in Nat, y \in Nat : x = e[k] /\ y = f[k] /\ x <= y
    BY <1>3, <2>2 DEF IsLayout
  <2>4. e[i] = NextEnd(l, m, i, x) /\ f[i] = NextEnd(l, n, i, y)
    BY <2>1, <2>3 DEF IsLayout
  <2>5. CASE AddressWidth(l[i]) <= 0  BY <2>1, <2>3, <2>4, <2>5 DEF NextEnd
  <2>6. CASE ~(AddressWidth(l[i]) <= 0)
    <3>1. PICK w \in Nat : w = AddressWidth(l[i])  BY WidthType
    <3>2. PICK a \in Nat, b \in Nat : a = AtLeast(w, m) /\ b = AtLeast(w, n) /\ a <= b
      BY AtLeastType DEF AtLeast
    <3>3. PICK d \in Nat : a + d = b
      <4>1. b - a \in Nat /\ a + (b - a) = b  BY <3>2
      <4>2. QED  BY <4>1
    <3>4. PICK s \in Nat, c \in Nat : s = 2^a /\ s > 0 /\ c = 2^d /\ c > 0
      BY <3>2, <3>3, PowerPositive
    <3>5. PICK t \in Nat : t = s * c  BY <3>4
    <3>6. 2^b = t
      <4>1. 2^(a + d) = 2^a * 2^d  BY PowerSum
      <4>2. QED  BY <3>3, <3>4, <3>5, <4>1
    <3>7. AlignUp(x, s) <= AlignUp(y, t)  BY <2>3, <3>4, <3>5, AlignUpGrows
    <3>8. s <= t
      <4>1. 1 * s <= c * s  BY <3>4, TimesKeepsOrder
      <4>2. 1 * s = s /\ c * s = s * c  BY <3>4
      <4>3. QED  BY <3>5, <4>1, <4>2
    <3>9. AlignUp(x, s) \in Nat /\ AlignUp(y, t) \in Nat
      <4>1. t > 0  BY <3>4, <3>5, <3>8
      <4>2. QED  BY <2>3, <3>4, <3>5, <4>1, AlignUpProperties
    <3>10. e[i] = AlignUp(x, s) + s /\ f[i] = AlignUp(y, t) + t
      BY <2>4, <2>6, <3>1, <3>2, <3>4, <3>6 DEF NextEnd
    <3>11. QED  BY <2>1, <3>7, <3>8, <3>9, <3>10
  <2>7. QED  BY <2>5, <2>6
<1> HIDE DEF T
<1>4. Nat \subseteq T  BY <1>2, <1>3, NatSetInduction
<1>5. N \in T /\ N <= N  BY <1>1, <1>4
<1>6. e[N] <= f[N]
  <2> HIDE DEF N
  <2>1. QED  BY <1>5 DEF T
<1>7. QED  BY <1>1, <1>6 DEF IsLayout

LEMMA EstimateGrows ==
  ASSUME bus \in Bus, NEW l \in Seq(Slave), NEW m \in Nat, NEW n \in Nat, m <= n,
         NEW nullsz \in Nat
  PROVE  MinAddrSizeBytes(l, m, nullsz) <= MinAddrSizeBytes(l, n, nullsz)
<1>1. PICK e : /\ IsLayout(e, l, m, nullsz)
               /\ MinAddrSizeBytes(l, m, nullsz) = NextLg(e[Len(l)])
  BY LayoutRuns
<1>2. PICK f : /\ IsLayout(f, l, n, nullsz)
               /\ MinAddrSizeBytes(l, n, nullsz) = NextLg(f[Len(l)])
  BY LayoutRuns
<1>3. e[Len(l)] <= f[Len(l)] /\ e[Len(l)] \in Nat /\ f[Len(l)] \in Nat
  BY <1>1, <1>2, LayoutGrows
<1>4. QED  BY <1>1, <1>2, <1>3, NextLgGrows

(* Where a slave has address bits, so has the bus.                         *)
LEMMA EstimatePositive ==
  ASSUME bus \in Bus, NEW l \in Seq(Slave), NEW m \in Nat, NEW nullsz \in Nat,
         Len(l) > 0, AddressWidth(l[Len(l)]) > 0
  PROVE  MinAddrSizeBytes(l, m, nullsz) >= 1
<1>1. PICK e : /\ IsLayout(e, l, m, nullsz)
               /\ MinAddrSizeBytes(l, m, nullsz) = NextLg(e[Len(l)])
  BY LayoutRuns
<1>2. PICK N \in Nat : N = Len(l) /\ N \in 1..Len(l) /\ N - 1 \in 0..Len(l)  OBVIOUS
<1>3. PICK x \in Nat : x = e[N - 1]  BY <1>1, <1>2 DEF IsLayout
<1>4. PICK w \in Nat : w = AddressWidth(l[N]) /\ w > 0  BY <1>2, WidthType
<1>5. PICK a \in Nat : a = AtLeast(w, m) /\ a >= 1
  <2>1. AtLeast(w, m) \in Nat /\ AtLeast(w, m) >= w  BY AtLeastType
  <2>2. QED  BY <1>4, <2>1
<1>6. PICK s \in Nat : s = 2^a /\ s > 0  BY <1>5, PowerPositive
<1>7. PICK k \in Nat : k = a - 1 /\ k + 1 = a  BY <1>5
<1>8. 2^k \in Nat /\ 2^k > 0 /\ s = 2 * 2^k  BY <1>6, <1>7, PowerPositive, PowerSucc
<1>9. e[N] = AlignUp(x, s) + s
  BY <1>1, <1>2, <1>3, <1>4, <1>5, <1>6 DEF IsLayout, NextEnd
<1>10. AlignUp(x, s) \in Nat  BY <1>6, AlignUpProperties
<1>11. PICK y \in Nat : y = e[N] /\ y >= 2  BY <1>6, <1>8, <1>9, <1>10
<1>12. 2^1 = 2
  <2>1. 2^(0 + 1) = 2 * 2^0  BY PowerSucc
  <2>2. QED  BY <2>1, PowerZero
<1>13. 1 \in 0..(MaxLg + 1)  BY DEF MaxLg
<1>14. 1 <= NextLg(y)  BY <1>11, <1>12, <1>13, NextLgAtLeast
<1>15. QED  BY <1>1, <1>2, <1>11, <1>14

(* min_asz as the search computes it for slaves that are 2^m octets apart. *)
Est(m) == MinAddrSizeOctets(list, m, bus.nullsz, DAddrABits)

(* Octets of the null space, in bus words.                                 *)
NullWords == bus.nullsz \div 2^DAddrABits

LEMMA EstimateInWords ==
  ASSUME bus \in Bus, NEW m \in Nat, m > DAddrABits
  PROVE  /\ m - DAddrABits \in Nat
         /\ Est(m) = DAddrABits + MinAddrSizeBytes(list, m - DAddrABits, NullWords)
<1>1. DAddrABits \in Nat  BY WidthType
<1>2. m - DAddrABits \in Nat /\ m - DAddrABits >= 1  BY <1>1
<1>3. AtLeast(m - DAddrABits, 1) = m - DAddrABits  BY <1>2 DEF AtLeast
<1>4. QED  BY <1>2, <1>3 DEF Est, MinAddrSizeOctets, NullWords

LEMMA WordsType ==
  ASSUME bus \in Bus
  PROVE  NullWords \in Nat /\ DAddrABits \in Nat /\ bus.nullsz \in Nat
         /\ (bus.nullsz % 2^DAddrABits = 0 => bus.nullsz = NullWords * 2^DAddrABits)
<1>1. DAddrABits \in Nat /\ bus.nullsz \in Nat  BY WidthType DEF Bus
<1>2. PICK p \in Nat : p = 2^DAddrABits /\ p > 0  BY <1>1, PowerPositive
<1>3. PICK n \in Nat : n = bus.nullsz  BY <1>1
<1>4. n \div p \in Nat /\ (n % p = 0 => n = (n \div p) * p)  BY <1>2, Z3
<1>5. QED  BY <1>1, <1>2, <1>3, <1>4 DEF NullWords

(* The bus words are short against the addresses that are searched, and    *)
(* the width that the bus asks for is one that is searched: 32 bits stand  *)
(* against words of a few octets and the 12 bits of AXI.                   *)
RoomToSearch ==
  \A b \in Buses : b.minaw <= AddrBits /\ 2 * b.lgdw + 1 < AddrBits

(* What EstimateExact asks of the bus and of its slaves.                   *)
WholeWords ==
  bus.nullsz % 2^DAddrABits = 0 /\ \A i \in 1..Len(list) : AddressWidth(list[i]) > 0

(* Before the first turn of the search min_asz may be the minimum width    *)
(* of the bus; from then on it is the estimate for min_awd.                *)
Searching ==
  /\ Len(list) > 0 /\ min_awd > DAddrABits /\ mina > DAddrABits
  /\ pc = "search" /\ mina = DAddrABits + 1 =>
       min_asz = AtLeast(Est(min_awd), bus.minaw) /\ min_relevant = AddrBits - DAddrABits
  /\ pc = "search" /\ mina > DAddrABits + 1 => min_asz = Est(min_awd)

(* What has been laid out are the first slaves of the estimate.            *)
LaidOutAsEstimated ==
  /\ Len(list) > 0 /\ min_awd > DAddrABits
  /\ \E end :
       /\ IsLayout(end, list, min_awd - DAddrABits, NullWords)
       /\ start_address = end[Len(place)] * 2^DAddrABits
       /\ min_asz = DAddrABits + NextLg(end[Len(list)])

EstimateInv ==
  /\ pc = "start" => mina = 0
  /\ pc = "search" /\ WholeWords => Searching
  /\ pc = "assign" /\ WholeWords => LaidOutAsEstimated
  /\ pc = "done" /\ mina > 0 /\ WholeWords /\ WithinReach =>
       m_address_width + DAddrABits = min_asz

LEMMA SortEstimates ==
  ASSUME RoomToSearch, TypeOK, EstimateInv, SortSlaves
  PROVE  EstimateInv'
<1> DEFINE D == DAddrABits
           w == AddressWidth(list'[Len(list)])
<1>1. /\ list' \in Sortings(list) /\ bus' = bus /\ pc' = "search"
      /\ min_awd' = w + D
      /\ min_asz' = AtLeast(MinAddrSizeOctets(list', min_awd', bus.nullsz, D), bus.minaw)
      /\ min_relevant' = AddrBits - D /\ mina' = D + 1
  BY DEF SortSlaves
<1>2. list \in Seq(Slave) /\ bus \in Bus /\ Len(list) \in Nat  BY DEF TypeOK
<1>3. Len(list') = Len(list) /\ Len(list) > 0
  <2>1. Len(list') = Len(list)  BY <1>1, <1>2, SortingType
  <2>2. PICK k \in Nat : k = Len(list)  BY <1>2
  <2>3. k >= 2 \/ k = 1  BY <2>2 DEF SortSlaves
  <2>4. k > 0  BY <2>3
  <2>5. QED  BY <2>1, <2>2, <2>4
<1>4. D' = D  BY <1>1 DEF DAddrABits
<1>5. D \in Nat /\ w \in Nat  BY <1>2, WidthType
<1>6. Est(min_awd)' = MinAddrSizeOctets(list', min_awd', bus.nullsz, D)
  BY <1>1 DEF Est, MinAddrSizeOctets, MinAddrSizeBytes, AddressWidth, DAddrABits
<1>7. ASSUME WholeWords' PROVE w > 0
  <2>1. Len(list) \in 1..Len(list')  BY <1>1, <1>2, <1>3
  <2>2. QED  BY <2>1, <1>1, <1>7 DEF WholeWords, AddressWidth
<1> HIDE DEF w, D
<1>8. WholeWords' => Searching'
  BY <1>1, <1>3, <1>4, <1>5, <1>6, <1>7 DEF Searching, D
<1>9. QED  BY <1>1, <1>8 DEF EstimateInv

LEMMA SearchEstimates ==
  ASSUME RoomToSearch, TypeOK, bus \in Buses, EstimateInv, Search
  PROVE  EstimateInv'
<1> DEFINE D == DAddrABits
<1>1. /\ pc = "search" /\ mina < AddrBits - D
      /\ IF Est(mina) <= min_asz /\ Est(mina) - mina < min_relevant
           THEN /\ min_asz' = Est(mina) /\ min_awd' = mina
           ELSE UNCHANGED <<min_asz, min_relevant, min_awd>>
      /\ mina' = mina + 1
      /\ UNCHANGED <<bus, list, pc>>
  BY DEF Search, Est
<1>2. /\ bus \in Bus /\ list \in Seq(Slave) /\ mina \in Nat /\ min_awd \in Nat
      /\ min_asz \in Nat /\ min_relevant \in Int
  BY DEF TypeOK
<1>3. D' = D /\ WholeWords' = WholeWords
  BY <1>1 DEF DAddrABits, WholeWords, AddressWidth
<1>4. D \in Nat /\ NullWords \in Nat  BY <1>2, WordsType
<1>5. \A m : Est(m)' = Est(m)
  BY <1>1 DEF Est, MinAddrSizeOctets, MinAddrSizeBytes, AddressWidth, DAddrABits
<1>6. Est(mina) \in Nat /\ Est(min_awd) \in Nat  BY <1>4, EstimateType DEF Est
<1> SUFFICES ASSUME WholeWords
             PROVE  /\ Len(list) > 0 /\ min_awd' > D
                    /\ mina > D /\ min_asz' = Est(min_awd')
  <2>1. Est(min_awd)' = Est(min_awd')
    BY <1>1 DEF Est, MinAddrSizeOctets, MinAddrSizeBytes, AddressWidth, DAddrABits
  <2> HIDE DEF D
  <2>2. WholeWords => Searching'
    BY <1>1, <1>2, <1>3, <1>4, <2>1 DEF Searching, D
  <2>3. QED  BY <2>2, <1>1, <1>3 DEF EstimateInv
<1>7. Searching  BY <1>1 DEF EstimateInv
<1> HIDE DEF D
<1>8. CASE Est(mina) <= min_asz /\ Est(mina) - mina < min_relevant
  BY <1>8, <1>1, <1>7 DEF Searching, D
<1>9. CASE ~(Est(mina) <= min_asz /\ Est(mina) - mina < min_relevant)
  <2>1. min_asz' = min_asz /\ min_awd' = min_awd  BY <1>9, <1>1
  <2>2. CASE mina > D + 1  BY <2>1, <2>2, <1>1, <1>7 DEF Searching, D
  <2>3. CASE mina = D + 1
    <3>1. /\ min_asz = AtLeast(Est(min_awd), bus.minaw) /\ min_relevant = AddrBits - D
          /\ min_awd > D /\ Len(list) > 0
      BY <2>3, <1>1, <1>7 DEF Searching, D
    <3>2. mina <= min_awd /\ min_awd > D /\ mina > D  BY <3>1, <2>3, <1>2, <1>4
    <3>3. Est(mina) <= Est(min_awd)
      <4>1. PICK a \in Nat, b \in Nat : a = mina - D /\ b = min_awd - D /\ a <= b
        BY <3>2, <1>2, <1>4
      <4>2. PICK x \in Nat, y \in Nat :
              /\ x = MinAddrSizeBytes(list, a, NullWords)
              /\ y = MinAddrSizeBytes(list, b, NullWords)
        BY NextLgNat DEF MinAddrSizeBytes
      <4>3. x <= y  BY <4>1, <4>2, <1>2, <1>4, EstimateGrows
      <4>4. Est(mina) = D + x /\ Est(min_awd) = D + y
        BY <3>2, <4>1, <4>2, <1>2, EstimateInWords DEF D
      <4>5. QED  BY <4>3, <4>4, <1>4
    <3>4. bus.minaw \in Nat /\ bus.minaw <= AddrBits /\ AddrBits \in Nat
      BY <1>2, AddrBitsAssumption DEF RoomToSearch, Bus
    <3>5. AtLeast(Est(min_awd), bus.minaw) = Est(min_awd)
      BY <3>1, <3>3, <3>4, <1>4, <1>6, <1>9, <2>3 DEF AtLeast
    <3>6. QED  BY <2>1, <3>1, <3>2, <3>5
  <2>4. mina > D  BY <1>7 DEF Searching, D
  <2>5. QED  BY <2>2, <2>3, <2>4, <1>2, <1>4
<1>10. QED  BY <1>8, <1>9

LEMMA SearchedEstimates ==
  ASSUME RoomToSearch, TypeOK, bus \in Buses, NothingPlaced, EstimateInv, SearchDone
  PROVE  EstimateInv'
<1> DEFINE D == DAddrABits
<1>1. /\ pc = "search" /\ (mina >= AddrBits - D \/ Est(mina) < mina)
      /\ start_address' = bus.nullsz /\ pc' = "assign"
      /\ UNCHANGED <<bus, list, mina, min_awd, min_asz, place>>
  BY DEF SearchDone, Est, searchvars
<1>2. bus \in Bus /\ list \in Seq(Slave) /\ mina \in Nat /\ min_awd \in Nat
  BY DEF TypeOK
<1>3. D' = D /\ WholeWords' = WholeWords
  BY <1>1 DEF DAddrABits, WholeWords, AddressWidth
<1>4. D \in Nat /\ NullWords \in Nat /\ NullWords' = NullWords
  BY <1>1, <1>2, WordsType DEF NullWords, DAddrABits
<1> SUFFICES ASSUME WholeWords PROVE LaidOutAsEstimated'
  BY <1>1, <1>3 DEF EstimateInv
<1>5. Searching  BY <1>1 DEF EstimateInv
<1>6. Len(list) > 0 /\ min_awd > D /\ mina > D  BY <1>5 DEF Searching
<1>7. mina # D + 1
  <2> SUFFICES ASSUME mina = D + 1 PROVE FALSE  OBVIOUS
  <2>1. D + 1 < AddrBits - D
    <3>1. bus.lgdw \in Nat /\ 2 * bus.lgdw + 1 < AddrBits /\ AddrBits \in Nat
      BY <1>2, AddrBitsAssumption DEF RoomToSearch, Bus
    <3>2. QED  BY <3>1 DEF DAddrABits
  <2>2. Len(list) \in 1..Len(list)  BY <1>2, <1>6
  <2>3. AddressWidth(list[Len(list)]) > 0  BY <2>2 DEF WholeWords
  <2>4. PICK a \in Nat : a = mina - D  BY <1>4
  <2>5. PICK x \in Nat : x = MinAddrSizeBytes(list, a, NullWords)
    BY NextLgNat DEF MinAddrSizeBytes
  <2>6. x >= 1  BY <1>2, <1>4, <1>6, <2>3, <2>4, <2>5, EstimatePositive
  <2>7. Est(mina) = D + x  BY <1>2, <1>6, <2>4, <2>5, EstimateInWords
  <2>8. QED  BY <1>1, <1>4, <2>1, <2>6, <2>7, AddrBitsAssumption
<1>8. min_asz = Est(min_awd)
  BY <1>1, <1>2, <1>4, <1>5, <1>6, <1>7 DEF Searching
<1>9. PICK b \in Nat : b = min_awd - D  BY <1>2, <1>4, <1>6
<1>10. PICK end : /\ IsLayout(end, list, b, NullWords)
                  /\ MinAddrSizeBytes(list, b, NullWords) = NextLg(end[Len(list)])
  BY <1>2, <1>4, <1>9, LayoutRuns
<1>11. Est(min_awd) = D + MinAddrSizeBytes(list, b, NullWords)
  BY <1>2, <1>6, <1>9, EstimateInWords
<1>12. end[Len(place)] = NullWords
  BY <1>1, <1>10 DEF IsLayout, NothingPlaced
<1>13. start_address' = end[Len(place)] * 2^D
  BY <1>1, <1>2, <1>12, WordsType DEF WholeWords
<1>14. IsLayout(end, list, min_awd - DAddrABits, NullWords)'
  <2>1. (min_awd - DAddrABits)' = b  BY <1>1, <1>3, <1>9
  <2>2. QED  BY <2>1, <1>1, <1>4, <1>10 DEF IsLayout, NextEnd, AddressWidth
<1>15. (start_address = end[Len(place)] * 2^DAddrABits)'
  BY <1>1, <1>3, <1>13
<1>16. (min_asz = DAddrABits + NextLg(end[Len(list)]))'
  BY <1>1, <1>3, <1>8, <1>10, <1>11
<1>17. (Len(list) > 0 /\ min_awd > DAddrABits)'  BY <1>1, <1>3, <1>6
<1>18. QED  BY <1>14, <1>15, <1>16, <1>17 DEF LaidOutAsEstimated

LEMMA PlaceEstimated ==
  ASSUME TypeOK, EstimateInv, Assign
  PROVE  EstimateInv'
<1> DEFINE D == DAddrABits
<1>1. PICK n \in Nat : n = Len(place) + 1  BY DEF TypeOK
<1>2. /\ pc = "assign" /\ Len(place) < Len(list)
      /\ UNCHANGED <<bus, list, pc, min_awd, min_asz>>
  BY DEF Assign, searchvars
<1>3. /\ bus \in Bus /\ min_awd \in Nat /\ Len(place) \in Nat /\ Len(list) \in Nat
      /\ place \in Seq(Place)
  BY DEF TypeOK
<1>4. D' = D /\ WholeWords' = WholeWords /\ NullWords' = NullWords /\ D \in Nat
  BY <1>2, <1>3, WidthType DEF DAddrABits, WholeWords, AddressWidth, NullWords
<1> SUFFICES ASSUME WholeWords PROVE LaidOutAsEstimated'
  BY <1>2, <1>4 DEF EstimateInv
<1>5. LaidOutAsEstimated  BY <1>2 DEF EstimateInv
<1>6. PICK b \in Nat : b = min_awd - D /\ b + D = min_awd
  BY <1>3, <1>4, <1>5 DEF LaidOutAsEstimated
<1>7. PICK end :
        /\ IsLayout(end, list, b, NullWords)
        /\ start_address = end[Len(place)] * 2^D
        /\ min_asz = D + NextLg(end[Len(list)])
  BY <1>6, <1>5 DEF LaidOutAsEstimated
<1>8. n \in 1..Len(list) /\ n - 1 = Len(place)  BY <1>1, <1>2, <1>3
<1>9. PICK w \in Nat : w = AddressWidth(list[n]) /\ w > 0
  BY <1>3, <1>8, WidthType DEF WholeWords
<1>10. PICK a \in Nat : a = AtLeast(w, b)  BY AtLeastType
<1>11. AtLeast(w + D, min_awd) = a + D
  BY <1>4, <1>6, <1>10 DEF AtLeast
<1>12. PICK x \in Nat : x = end[Len(place)]  BY <1>2, <1>3, <1>7 DEF IsLayout
<1>13. PICK s \in Nat, p \in Nat : s = 2^a /\ s > 0 /\ p = 2^D /\ p > 0
  BY <1>4, PowerPositive
<1>14. 2^(a + D) = s * p  BY <1>4, <1>13, PowerSum
<1>15. AlignUp(x * p, s * p) = AlignUp(x, s) * p  BY <1>13, AlignUpScaled
<1>16. PICK y \in Nat : y = AlignUp(x, s)  BY <1>13, AlignUpProperties
<1>17. end[n] = y + s
  <2>1. end[n] = NextEnd(list, b, n, x)
    BY <1>7, <1>8, <1>12 DEF IsLayout
  <2>2. NextEnd(list, b, n, x) = AlignUp(x, 2^a) + 2^a
    BY <1>9, <1>10 DEF NextEnd
  <2>3. QED  BY <2>1, <2>2, <1>13, <1>16
<1>18. start_address' = AlignUp(start_address, 2^AtLeast(w + D, min_awd))
                          + 2^AtLeast(w + D, min_awd)
  <2>1. ~(w + D <= 0)  BY <1>4, <1>9
  <2>2. QED  BY <2>1, <1>1, <1>9 DEF Assign
<1>19. start_address' = end[n] * p
  <2>1. start_address' = AlignUp(x * p, s * p) + s * p
    BY <1>7, <1>11, <1>12, <1>13, <1>14, <1>18
  <2>2. \A i, j, k \in Nat : i * k + j * k = (i + j) * k  BY Z3
  <2>3. y * p + s * p = (y + s) * p  BY <2>2
  <2>4. QED  BY <2>1, <2>3, <1>15, <1>16, <1>17
<1>20. Len(place') = n
  <2>1. \E r : place' = Append(place, r)  BY DEF Assign
  <2>2. QED  BY <2>1, <1>1, <1>3
<1>21. IsLayout(end, list, min_awd - DAddrABits, NullWords)'
  <2>1. (min_awd - DAddrABits)' = b  BY <1>2, <1>4, <1>6
  <2>2. QED  BY <2>1, <1>2, <1>4, <1>7 DEF IsLayout, NextEnd, AddressWidth
<1>22. (start_address = end[Len(place)] * 2^DAddrABits)'
  BY <1>4, <1>13, <1>19, <1>20
<1>23. (min_asz = DAddrABits + NextLg(end[Len(list)]))'
  BY <1>2, <1>4, <1>7
<1>24. (Len(list) > 0 /\ min_awd > DAddrABits)'
  BY <1>2, <1>4, <1>5 DEF LaidOutAsEstimated
<1>25. QED  BY <1>21, <1>22, <1>23, <1>24 DEF LaidOutAsEstimated

LEMMA TrimEstimated ==
  ASSUME TypeOK, EstimateInv, Trim
  PROVE  EstimateInv'
<1> DEFINE D == DAddrABits
<1>1. /\ pc = "assign" /\ Len(place) = Len(list) /\ start_address # 0 /\ pc' = "done"
      /\ m_address_width' = NextLg(start_address) - D
      /\ UNCHANGED <<bus, list, mina, min_awd, min_asz, start_address, place>>
  BY DEF Trim, searchvars
<1>2. bus \in Bus /\ Len(list) \in Nat /\ start_address \in Nat  BY DEF TypeOK
<1>3. D' = D /\ WholeWords' = WholeWords /\ WithinReach' = WithinReach /\ D \in Nat
  BY <1>1, <1>2, WidthType DEF DAddrABits, WholeWords, AddressWidth, WithinReach
<1> SUFFICES ASSUME WholeWords, WithinReach PROVE m_address_width' + D = min_asz
  BY <1>1, <1>3 DEF EstimateInv
<1>4. PICK end :
        /\ IsLayout(end, list, min_awd - D, NullWords)
        /\ start_address = end[Len(place)] * 2^D
        /\ min_asz = D + NextLg(end[Len(list)])
  BY <1>1 DEF EstimateInv, LaidOutAsEstimated
<1>5. PICK x \in Nat : x = end[Len(list)]  BY <1>2, <1>4 DEF IsLayout
<1>6. PICK p \in Nat : p = 2^D  BY <1>3, PowerPositive
<1>7. start_address = x * p  BY <1>1, <1>4, <1>5, <1>6
<1>8. x > 0
  <2>1. x = 0 => x * p = 0  BY <1>6
  <2>2. QED  BY <2>1, <1>1, <1>7
<1>9. NextLg(x * 2^D) = NextLg(x) + D
  BY <1>3, <1>6, <1>7, <1>8, NextLgShift DEF WithinReach
<1>10. NextLg(x) \in Nat  BY NextLgNat
<1> HIDE DEF D
<1>11. QED  BY <1>1, <1>3, <1>4, <1>5, <1>6, <1>7, <1>9, <1>10

(* The width that the search settled on, in bus words and without laying   *)
(* anything out, is the width that the assignment ends with: the two loops *)
(* lay out the same bus.                                                   *)
THEOREM WidthIsEstimated ==
  WideBuses /\ RoomToSearch => (Spec => [](WithinReach => EstimateExact))
<1> SUFFICES ASSUME WideBuses, RoomToSearch
             PROVE  Spec => [](WithinReach => EstimateExact)
  OBVIOUS
<1>1. Init => EstimateInv  BY DEF Init, EstimateInv
<1>2. TypeOK /\ LayoutInv /\ EstimateInv /\ [Next]_vars => EstimateInv'
  <2> SUFFICES ASSUME TypeOK, LayoutInv, EstimateInv, [Next]_vars PROVE EstimateInv'
    OBVIOUS
  <2>1. bus \in Buses /\ NothingPlaced  BY DEF LayoutInv
  <2>2. CASE AssignNone \/ AssignOnly
    <3>1. pc = "start" /\ pc' = "done" /\ mina' = mina
      BY <2>2 DEF AssignNone, AssignOnly, searchvars
    <3>2. QED  BY <3>1 DEF EstimateInv
  <2>3. CASE SortSlaves  BY <2>3, SortEstimates
  <2>4. CASE Search  BY <2>1, <2>4, SearchEstimates
  <2>5. CASE SearchDone  BY <2>1, <2>5, SearchedEstimates
  <2>6. CASE Assign  BY <2>6, PlaceEstimated
  <2>7. CASE Trim  BY <2>7, TrimEstimated
  <2>8. CASE UNCHANGED vars
    <3>1. /\ UNCHANGED <<bus, list, pc, mina, min_awd, min_asz, min_relevant,
                         start_address, place, m_address_width>>
      BY <2>8 DEF vars
    <3>2. \A m : Est(m)' = Est(m)
      BY <3>1 DEF Est, MinAddrSizeOctets, MinAddrSizeBytes, AddressWidth, DAddrABits
    <3>3. Est(min_awd)' = Est(min_awd)
      BY <3>1 DEF Est, MinAddrSizeOctets, MinAddrSizeBytes, AddressWidth, DAddrABits
    <3>4. Searching' = Searching  BY <3>1, <3>3 DEF Searching, DAddrABits
    <3>5. LaidOutAsEstimated' = LaidOutAsEstimated
      BY <3>1 DEF LaidOutAsEstimated, IsLayout, NextEnd, AddressWidth, DAddrABits, NullWords
    <3>6. WholeWords' = WholeWords /\ WithinReach' = WithinReach /\ DAddrABits' = DAddrABits
      BY <3>1 DEF WholeWords, WithinReach, AddressWidth, DAddrABits
    <3>7. QED  BY <3>1, <3>4, <3>5, <3>6 DEF EstimateInv
  <2>9. QED  BY <2>2, <2>3, <2>4, <2>5, <2>6, <2>7, <2>8 DEF Next
<1>3. EstimateInv => (WithinReach => EstimateExact)
  BY DEF EstimateInv, EstimateExact, WholeWords, Finished
<1>4. QED  BY <1>1, <1>2, <1>3, TypeCorrect, LayoutSound, PTL DEF Spec

(* The layout is the one asked for: all of what the run checks.            *)
THEOREM LaidOutAsAsked ==
  WideBuses /\ RoomToSearch => (Spec => [](WithinReach => LayoutAsAsked))
<1> SUFFICES ASSUME WideBuses, RoomToSearch
             PROVE  Spec => [](WithinReach => LayoutAsAsked)
  OBVIOUS
<1>1. (WithinReach => RoomForSlaves) /\ OrderHonoured /\ (WithinReach => EstimateExact)
        => (WithinReach => LayoutAsAsked)
  BY DEF LayoutAsAsked
<1>2. Spec => [](WithinReach => RoomForSlaves)  BY RoomKept
<1>3. Spec => []OrderHonoured  BY OrderKept
<1>4. Spec => [](WithinReach => EstimateExact)  BY WidthIsEstimated
<1>5. QED  BY <1>1, <1>2, <1>3, <1>4, PTL

(* The regions in words of the bus, as the logic of the bus sees them.     *)
WordRegion(i) == [base |-> place[i].base \div 2^DAddrABits, bits |-> place[i].bits - DAddrABits]

WordsEnd(i) == WordRegion(i).base + 2^WordRegion(i).bits

(* What the generated reply logic takes for granted of a list of slaves    *)
(* (Placed and Sbaw of WbReply): aligned regions, one above the other, and *)
(* the address lines that the last of them needs and no more.              *)
PlacedInWords ==
  Finished /\ Len(place) >= 2 =>
    /\ \A i \in 1..Len(place) :
         /\ WordRegion(i).base \in Nat /\ WordRegion(i).bits \in Nat
         /\ WordRegion(i).base % 2^WordRegion(i).bits = 0
    /\ \A i, j \in 1..Len(place) : i < j => WordsEnd(i) <= WordRegion(j).base
    /\ m_address_width = NextLg(WordsEnd(Len(place)))

(* Nothing is left between the last slave and the end.                     *)
LastEnds ==
  (pc = "assign" /\ Len(place) >= 1) \/ (pc = "done" /\ Len(place) >= 2) =>
    start_address = place[Len(place)].base + 2^place[Len(place)].bits

LEMMA LastKept ==
  ASSUME WideBuses, TypeOK, LayoutInv, LastEnds, [Next]_vars
  PROVE  LastEnds'
<1>1. CASE AssignNone \/ SortSlaves
  <2>1. place = <<>> /\ place' = place
    BY <1>1 DEF AssignNone, SortSlaves, LayoutInv, NothingPlaced
  <2>2. Len(place') = 0  BY <2>1
  <2>3. QED  BY <2>2 DEF LastEnds
<1>2. CASE AssignOnly
  <2>1. Len(place') = 1 /\ pc' = "done"  BY <1>2 DEF AssignOnly
  <2>2. QED  BY <2>1 DEF LastEnds
<1>3. CASE Search  BY <1>3 DEF Search, LastEnds
<1>4. CASE SearchDone
  <2>1. place = <<>> /\ place' = place  BY <1>4 DEF SearchDone, LayoutInv, NothingPlaced
  <2>2. Len(place') = 0  BY <2>1
  <2>3. QED  BY <2>2 DEF LastEnds
<1>5. CASE Assign
  <2>1. place \in Seq(Place) /\ Len(place) \in Nat  BY DEF TypeOK
  <2>2. PICK n \in Nat : n = Len(place) + 1  BY <2>1
  <2>3. PICK full \in Nat : full = AddressWidth(list[n]) + DAddrABits /\ full > 0
    <3>1. DAddrABits \in Nat /\ AddressWidth(list[n]) \in Nat
      BY WidthType DEF TypeOK
    <3>2. bus.lgdw > 0 /\ bus.lgdw \in Nat  BY DEF WideBuses, TypeOK, Bus, LayoutInv
    <3>3. NextLg(list[n].naddr) \in Nat  BY NextLgNat
    <3>4. QED  BY <3>1, <3>2, <3>3 DEF DAddrABits, AddressWidth
  <2>4. PICK pa \in Nat : pa = AtLeast(full, min_awd)
    <3>1. min_awd \in Nat  BY DEF TypeOK
    <3>2. QED  BY <2>3, <3>1, AtLeastType
  <2>5. PICK base \in Nat : base = AlignUp(start_address, 2^pa)
    <3>1. 2^pa \in Nat /\ 2^pa > 0  BY PowerPositive
    <3>2. QED  BY <3>1, AlignUpProperties DEF TypeOK
  <2>6. PICK p : p = [base |-> base, bits |-> pa]  OBVIOUS
  <2>7. place' = Append(place, p) /\ start_address' = base + 2^pa
    BY <1>5, <2>2, <2>3, <2>4, <2>5, <2>6 DEF Assign
  <2>8. p \in Place  BY <2>6 DEF Place
  <2>9. Len(place') = n /\ place'[n] = p  BY <2>1, <2>2, <2>7, <2>8
  <2>10. QED  BY <2>6, <2>7, <2>9 DEF LastEnds
<1>6. CASE Trim
  <2>1. pc = "assign" /\ place' = place /\ start_address' = start_address
    BY <1>6 DEF Trim
  <2>2. Len(place) \in Nat  BY DEF TypeOK
  <2>3. QED  BY <2>1, <2>2 DEF LastEnds
<1>7. CASE UNCHANGED vars  BY <1>7 DEF vars, LastEnds
<1>8. QED  BY <1>1, <1>2, <1>3, <1>4, <1>5, <1>6, <1>7 DEF Next

(* An aligned base is a multiple of the size of its region,                *)
LEMMA AlignedMultiple ==
  \A base, s \in Nat : s > 0 /\ base % s = 0 => \E q \in Nat : base = q * s
<1> SUFFICES ASSUME NEW base \in Nat, NEW s \in Nat, s > 0, base % s = 0
             PROVE  \E q \in Nat : base = q * s
  OBVIOUS
<1>1. base \div s \in Nat /\ base = (base \div s) * s  BY Z3
<1>2. QED  BY <1>1

(* and a multiple is aligned.                                              *)
LEMMA MultipleAligned ==
  \A q, r \in Nat : r > 0 => (q * r) % r = 0
<1> SUFFICES ASSUME NEW q \in Nat, NEW r \in Nat, r > 0 PROVE (q * r) % r = 0
  OBVIOUS
<1>1. PICK w \in Nat : w = q * r  OBVIOUS
<1>2. w \div r = q  BY <1>1, QuotientUnique
<1>3. \A x \in Nat, m \in Nat : m > 0 => x % m = x - (x \div m) * m  BY Z3
<1>4. w % r = w - (w \div r) * r  BY <1>3
<1>5. w % r = 0  BY <1>1, <1>2, <1>4
<1>6. QED  BY <1>1, <1>5

(* So the layout that assign_addresses leaves on every bus of two slaves   *)
(* or more is one that the generated reply logic is made for.              *)
THEOREM PlacedForReplies == WideBuses => (Spec => [](WithinReach => PlacedInWords))
<1> SUFFICES ASSUME WideBuses PROVE Spec => [](WithinReach => PlacedInWords)
  OBVIOUS
<1>1. Init => LastEnds  BY DEF Init, LastEnds
<1>2. TypeOK /\ LayoutInv /\ LastEnds /\ [Next]_vars => LastEnds'  BY LastKept
<1>3. TypeOK /\ LayoutInv /\ EndedWell /\ LastEnds => (WithinReach => PlacedInWords)
  <2> SUFFICES ASSUME TypeOK, LayoutInv, EndedWell, LastEnds, WithinReach,
                      Finished, Len(place) >= 2
               PROVE  /\ \A i \in 1..Len(place) :
                           /\ WordRegion(i).base \in Nat /\ WordRegion(i).bits \in Nat
                           /\ WordRegion(i).base % 2^WordRegion(i).bits = 0
                      /\ \A i, j \in 1..Len(place) :
                           i < j => WordsEnd(i) <= WordRegion(j).base
                      /\ m_address_width = NextLg(WordsEnd(Len(place)))
    BY DEF PlacedInWords
  <2>1. PICK n \in Nat : n = Len(place) /\ n >= 2  BY DEF TypeOK
  <2>2. EndedTrimmed  BY <2>1 DEF EndedWell, Finished, EndedEmpty, EndedAlone
  <2>3. PICK d \in Nat : d = DAddrABits  BY WidthType DEF TypeOK
  <2>4. PICK p \in Nat : p = 2^d /\ p > 0  BY PowerPositive
  <2>5. ASSUME NEW i \in 1..n
        PROVE  /\ WordRegion(i).base \in Nat /\ WordRegion(i).bits \in Nat
               /\ WordRegion(i).base % 2^WordRegion(i).bits = 0
               /\ place[i].base = WordRegion(i).base * p
               /\ place[i].base + 2^place[i].bits = WordsEnd(i) * p
               /\ WordsEnd(i) \in Nat /\ WordsEnd(i) > 0
    <3>1. PICK base \in Nat : base = place[i].base  BY <2>1, <2>2, TrimmedFacts
    <3>2. PICK bits \in Nat : bits = place[i].bits  BY <2>1, <2>2, TrimmedFacts
    <3>3. d <= bits /\ base % 2^bits = 0  BY <2>1, <2>2, <2>3, <3>1, <3>2, TrimmedFacts
    <3>4. PICK b \in Nat : bits = b + d /\ b = bits - d
      <4>1. bits - d \in Nat /\ bits = (bits - d) + d  BY <3>3
      <4>2. QED  BY <4>1
    <3>5. PICK r \in Nat : r = 2^b /\ r > 0  BY PowerPositive
    <3>6. PICK s \in Nat : s = 2^bits /\ s = r * p
      <4>1. 2^(b + d) = 2^b * 2^d  BY PowerSum
      <4>2. QED  BY <2>4, <3>4, <3>5, <4>1
    <3>7. PICK w \in Nat : /\ w = base \div p /\ w % r = 0
                          /\ base = w * p /\ base + s = (w + r) * p
      <4>1. base % s = 0  BY <3>3, <3>6
      <4>2. s > 0
        <5>1. 0 * p < r * p  BY <2>4, <3>5, TimesKeepsOrder
        <5>2. QED  BY <3>6, <5>1
      <4>3. PICK q \in Nat : base = q * s  BY <4>1, <4>2, AlignedMultiple
      <4>4. PICK w \in Nat : w = q * r  OBVIOUS
      <4>5. w % r = 0
        <5>1. (q * r) % r = 0  BY <3>5, MultipleAligned
        <5>2. QED  BY <4>4, <5>1
      <4>6. base = w * p
        <5>1. (q * r) * p = q * (r * p)  BY Z3
        <5>2. QED  BY <3>6, <4>3, <4>4, <5>1
      <4>7. base \div p = w  BY <2>4, <4>6, QuotientUnique
      <4>8. base + s = (w + r) * p
        <5>1. (w + r) * p = w * p + r * p  BY Z3
        <5>2. QED  BY <3>6, <4>6, <5>1
      <4>9. QED  BY <4>5, <4>6, <4>7, <4>8
    <3>8. WordRegion(i).base = w /\ WordRegion(i).bits = b
      BY <2>3, <2>4, <3>1, <3>2, <3>4, <3>7 DEF WordRegion
    <3>9. WordsEnd(i) = w + r  BY <3>5, <3>8 DEF WordsEnd
    <3>10. place[i].base = w * p  BY <3>1, <3>7
    <3>11. place[i].base + 2^place[i].bits = (w + r) * p  BY <3>1, <3>2, <3>6, <3>7
    <3>12. WordRegion(i).base % 2^WordRegion(i).bits = 0  BY <3>5, <3>7, <3>8
    <3>13. QED  BY <3>5, <3>8, <3>9, <3>10, <3>11, <3>12
  <2>6. ASSUME NEW i \in 1..n, NEW j \in 1..n, i < j
        PROVE  WordsEnd(i) <= WordRegion(j).base
    <3>1. place[i].base + 2^place[i].bits <= place[j].base
      BY <2>1, <2>6 DEF LayoutInv, SlavesDisjoint
    <3>2. WordsEnd(i) * p <= WordRegion(j).base * p  BY <2>5, <3>1
    <3>3. WordsEnd(i) \in Int /\ WordRegion(j).base \in Int  BY <2>5
    <3>4. QED  BY <2>4, <3>2, <3>3, TimesKeepsOrder
  <2>7. m_address_width = NextLg(WordsEnd(n))
    <3>1. n \in 1..n  BY <2>1
    <3>2. PICK x \in Nat : x = WordsEnd(n) /\ x > 0  BY <2>5, <3>1
    <3>3. start_address = x * 2^d
      BY <2>1, <2>4, <2>5, <3>1, <3>2 DEF LastEnds, Finished
    <3>4. NextLg(start_address) = NextLg(x) + d
      BY <3>2, <3>3, NextLgShift DEF WithinReach
    <3>5. NextLg(x) \in Nat  BY NextLgNat
    <3>6. QED  BY <2>2, <2>3, <3>2, <3>4, <3>5 DEF EndedTrimmed
  <2>8. QED  BY <2>1, <2>5, <2>6, <2>7
<1>4. QED  BY <1>1, <1>2, <1>3, TypeCorrect, LayoutSound, EndedCorrect, PTL DEF Spec
-----------------------------------------------------------------------------
(* The tree of buses.                                                      *)

(* The lines that count the octets of a bus.                               *)
TreeWidth(b) == width[b] + WordBits(b)

(* What the theorems about the tree take for granted.  No bus has more     *)
(* lines than nextlg() counts, and none has fewer than a word of the bus   *)
(* above it takes (SUBBUS would shift by a negative number).               *)
LinesFit ==
  \A b \in assigned :
    /\ TreeWidth(b) <= MaxLg
    /\ \A c \in Comps : Below(c) = b => design.buses[design.comps[c].bus].lgdw <= TreeWidth(b)

(* A memory masters no bus.                                                *)
MemoriesAreLeaves ==
  \A d \in Designs : \A c \in DOMAIN d.comps : d.comps[c].memory => d.comps[c].below = 0

(* When the linker script is written, every memory of the CPU that the     *)
(* host can reach is seen at one address by both.                          *)
OneView ==
  stage = "ld" =>
    \A g \in Gather(design.regbus) :
      design.comps[g.comp].memory /\ (\E f \in Gather(design.cpubus) : f.comp = g.comp)
        => g \in Gather(design.cpubus)

(* The address lines of the slave of a bus: those that its decoder leaves  *)
(* out, all of them if it compares none.                                   *)
SlaveLines(b, s) ==
  IF s.mask.lo = s.mask.hi THEN TreeWidth(b) ELSE s.mask.lo + WordBits(b)

SlaveEnd(b, s) == s.base + 2^SlaveLines(b, s)

SlaveSound(b, s) ==
  /\ s.comp \in Comps /\ design.comps[s.comp].bus = b
  /\ s.base \in Nat /\ SlaveLines(b, s) \in Nat
  /\ s.base % 2^SlaveLines(b, s) = 0
  /\ SlaveEnd(b, s) <= 2^TreeWidth(b)
  /\ IF Below(s.comp) = 0 THEN Length(s.comp) <= 2^SlaveLines(b, s)
     ELSE Below(s.comp) \in assigned /\ TreeWidth(Below(s.comp)) <= SlaveLines(b, s)
  /\ MaskBits(b, s.mask) = SlaveLines(b, s)..(TreeWidth(b) - 1)
  /\ \A a \in 0..(2^TreeWidth(b) - 1) :
       Answer(s, b, a) <=> (s.base <= a /\ a < SlaveEnd(b, s))

LaidOut(b) ==
  /\ \A i \in DOMAIN layout[b] : SlaveSound(b, layout[b][i])
  /\ \A i, j \in DOMAIN layout[b] :
       i < j => SlaveEnd(b, layout[b][i]) <= layout[b][j].base

(* The width of the bus is within the reach of nextlg() when it is         *)
(* computed to be.                                                         *)
LEMMA ReachFromWidth ==
  ASSUME TypeOK, EndedTrimmed, m_address_width + DAddrABits <= MaxLg
  PROVE  WithinReach
<1>1. start_address \in Nat /\ DAddrABits \in Nat  BY WidthType DEF TypeOK
<1>2. NextLg(start_address) \in Nat  BY NextLgNat
<1>3. NextLg(start_address) <= MaxLg  BY <1>1, <1>2 DEF EndedTrimmed
<1>4. MaxLg \in Nat /\ MaxLg + 1 \in 0..(MaxLg + 1)  BY DEF MaxLg
<1>5. ~(2^(MaxLg + 1) <= start_address)
  <2> SUFFICES ASSUME 2^(MaxLg + 1) <= start_address PROVE FALSE  OBVIOUS
  <2>1. MaxLg + 1 <= NextLg(start_address)  BY <1>1, <1>4, NextLgAtLeast
  <2>2. QED  BY <2>1, <1>2, <1>3, <1>4
<1>6. 2^(MaxLg + 1) \in Nat  BY <1>4, PowerPositive
<1>7. QED  BY <1>1, <1>5, <1>6 DEF WithinReach

(* What an assignment that has ended says of one slave, in octets.         *)
LEMMA EndedSound ==
  ASSUME WideBuses, TypeOK, LayoutInv, EndedWell, pc = "done", Len(list) > 0,
         m_address_width + DAddrABits <= MaxLg,
         NEW i \in 1..Len(list)
  PROVE  /\ Len(place) = Len(list)
         /\ place[i].base \in Nat /\ place[i].bits \in Nat
         /\ m_address_width \in Nat /\ DAddrABits \in Nat
         /\ place[i].base % 2^place[i].bits = 0
         /\ place[i].base + 2^place[i].bits <= 2^(m_address_width + DAddrABits)
         /\ DAddrABits <= place[i].bits /\ place[i].bits <= m_address_width + DAddrABits
         /\ place[i].bits >= AddressWidth(list[i]) + DAddrABits
         /\ \/ mask[i] = [lo |-> place[i].bits - DAddrABits, hi |-> m_address_width]
            \/ mask[i] = [lo |-> 0, hi |-> 0] /\ place[i].bits = m_address_width + DAddrABits
<1>1. EndedAlone \/ EndedTrimmed  BY DEF EndedWell, EndedEmpty
<1>2. DAddrABits \in Nat /\ AddressWidth(list[i]) \in Nat  BY WidthType DEF TypeOK
<1>3. CASE EndedAlone
  <2>1. i = 1 /\ Len(place) = 1  BY <1>3 DEF EndedAlone
  <2>2. /\ m_address_width \in Nat /\ m_address_width + DAddrABits \in Nat
        /\ place[1].base = 0 /\ place[1].bits = m_address_width + DAddrABits
    BY <1>3, AloneFacts
  <2>3. PICK s \in Nat : s = 2^place[1].bits /\ s > 0  BY <2>2, PowerPositive
  <2>4. 0 % s = 0  BY <2>3, Z3
  <2>5. m_address_width = AddressWidth(list[1]) /\ mask[1] = [lo |-> 0, hi |-> 0]
    BY <1>3 DEF EndedAlone
  <2>6. DAddrABits <= place[1].bits  BY <1>2, <2>2
  <2>7. place[1].base + 2^place[1].bits <= 2^(m_address_width + DAddrABits)
    BY <2>2, <2>3
  <2>8. QED  BY <1>2, <1>3, <2>1, <2>2, <2>3, <2>4, <2>5, <2>6, <2>7 DEF EndedAlone
<1>4. CASE EndedTrimmed
  <2>1. Len(place) = Len(list) /\ WithinReach  BY <1>4, ReachFromWidth DEF EndedTrimmed
  <2>2. /\ place[i].base \in Nat /\ place[i].bits \in Nat
        /\ place[i].base % 2^place[i].bits = 0
        /\ DAddrABits <= place[i].bits /\ place[i].bits > 0
        /\ place[i].base + 2^place[i].bits <= 2^(m_address_width + DAddrABits)
        /\ m_address_width + DAddrABits \in Nat
        /\ m_address_width \in Nat
    BY <1>4, <2>1, TrimmedFacts
  <2>3. RegionSound(i)  BY <2>1 DEF LayoutInv
  <2>4. place[i].bits <= m_address_width + DAddrABits
    <3>1. PICK w \in Nat, n \in Nat, base \in Nat :
            w = m_address_width + DAddrABits /\ n = place[i].bits /\ base = place[i].base
      BY <2>2
    <3>2. base + 2^n <= 2^w  BY <2>2, <3>1
    <3>3. n <= w  BY <3>2, FitsPower
    <3>4. QED  BY <3>1, <3>3
  <2>5. QED  BY <1>2, <1>4, <2>1, <2>2, <2>3, <2>4 DEF EndedTrimmed, RegionSound
<1>5. QED  BY <1>1, <1>3, <1>4

(* Its decoder, asked about an octet.                                      *)
LEMMA EndedDecodes ==
  ASSUME WideBuses, TypeOK, LayoutInv, EndedWell, pc = "done", Len(list) > 0,
         m_address_width + DAddrABits <= MaxLg,
         NEW i \in 1..Len(list), NEW a \in 0..(2^(m_address_width + DAddrABits) - 1)
  PROVE  Selects(i, a \div 2^DAddrABits)
           <=> (place[i].base <= a /\ a < place[i].base + 2^place[i].bits)
<1> DEFINE D == DAddrABits
           m == m_address_width
           n == place[i].bits
<1>1. /\ Len(place) = Len(list) /\ place[i].base \in Nat /\ n \in Nat
      /\ m \in Nat /\ D \in Nat /\ place[i].base % 2^n = 0 /\ D <= n
  BY EndedSound
<1>2. PICK p \in Nat : p = 2^D /\ p > 0  BY <1>1, PowerPositive
<1>3. PICK M \in Nat : M = 2^m /\ M > 0 /\ 2^(m + D) = M * p
  BY <1>1, <1>2, PowerPositive, PowerSum
<1>4. PICK b \in Nat : n = b + D
  <2>1. n - D \in Nat /\ n = (n - D) + D  BY <1>1
  <2>2. QED  BY <2>1
<1>5. PICK r \in Nat : r = 2^b /\ r > 0  BY PowerPositive
<1>6. PICK s \in Nat : s = 2^n /\ s > 0 /\ s = r * p
  <2>1. 2^n \in Nat /\ 2^n > 0  BY <1>1, PowerPositive
  <2>2. 2^(b + D) = 2^b * 2^D  BY <1>1, PowerSum
  <2>3. QED  BY <1>2, <1>4, <1>5, <2>1, <2>2
<1>7. PICK q \in Nat : place[i].base = q * p /\ place[i].base + s = (q + r) * p
  <2>1. place[i].base \in Nat /\ s > 0 /\ place[i].base % s = 0
    <3> HIDE DEF n
    <3>1. QED  BY <1>1, <1>6
  <2>2. PICK x \in Nat : place[i].base = x * s  BY <2>1, AlignedMultiple
  <2>3. PICK q \in Nat : q = x * r  OBVIOUS
  <2>4. (x * r) * p = x * (r * p)  BY Z3
  <2>5. (q + r) * p = q * p + r * p  BY Z3
  <2>6. QED  BY <1>6, <2>2, <2>3, <2>4, <2>5
<1>8. a \in Nat /\ a < M * p  BY <1>3
<1>9. PICK w \in Nat : w = a \div p
  <2>1. a \div p \in Nat  BY <1>2, <1>8, WordsKeepOrder
  <2>2. QED  BY <2>1
<1>10. w < M
  <2>1. w * p <= a
    <3>1. a \div p = w /\ w \in Int  BY <1>9
    <3>2. \A k \in Int : a \div p = k => k * p <= a  BY <1>2, <1>8, QuotientUnique
    <3>3. QED  BY <3>1, <3>2
  <2>2. w * p < M * p  BY <1>8, <2>1
  <2>3. QED  BY <1>2, <2>2, TimesKeepsOrder
<1>11. w \in 0..(2^m - 1)  BY <1>3, <1>10
<1>12. EndedTrimmed => WithinReach  BY ReachFromWidth
<1>13. Selects(i, w) <=> (place[i].base <= w * p /\ w * p < place[i].base + s)
  <2>1. DecodesOwner  BY <1>12, DecodersOfEnded
  <2>2. QED  BY <2>1, <1>1, <1>2, <1>6, <1>11 DEF DecodesOwner, Finished
<1>14. q * p <= a <=> q * p <= w * p  BY <1>2, <1>8, <1>9, WordsKeepOrder
<1>15. (q + r) * p <= a <=> (q + r) * p <= w * p
  <2>1. q + r \in Nat  OBVIOUS
  <2>2. QED  BY <1>2, <1>8, <1>9, <2>1, WordsKeepOrder
<1>16. PICK x \in Nat, y \in Nat, z \in Nat : x = q * p /\ y = w * p /\ z = (q + r) * p
  OBVIOUS
<1>17. (x <= a <=> x <= y) /\ (z <= a <=> z <= y)  BY <1>14, <1>15, <1>16
<1>18. place[i].base = x /\ place[i].base + 2^place[i].bits = z  BY <1>6, <1>7, <1>16
<1>19. Selects(i, w) <=> (x <= y /\ y < z)
  <2>1. place[i].base + s = z  BY <1>7, <1>16
  <2>2. QED  BY <2>1, <1>13, <1>16, <1>18
<1>20. Selects(i, w) <=> (x <= a /\ a < z)  BY <1>8, <1>17, <1>19
<1>21. QED  BY <1>2, <1>9, <1>18, <1>20

(* What the walks of the tree rest on.                                     *)
TreeSound ==
  /\ design \in Designs
  /\ width \in [TreeBuses -> Nat]
  /\ assigned \subseteq TreeBuses
  /\ DOMAIN layout = TreeBuses
  /\ \A b \in TreeBuses : layout[b] # <<>> => b \in assigned
  /\ \A b \in TreeBuses : DOMAIN layout[b] \subseteq Nat /\ LaidOut(b)

(* What DesignAssumption says of one design.                               *)
LEMMA DesignFacts ==
  ASSUME design \in Designs
  PROVE  /\ Len(design.buses) \in Nat /\ TreeBuses = 1..Len(design.buses)
         /\ \A b \in TreeBuses : design.buses[b] \in Buses /\ design.buses[b] \in Bus
         /\ \A b \in TreeBuses : WordBits(b) \in Nat
         /\ Comps \subseteq Nat
         /\ \A c \in Comps :
              /\ design.comps[c] \in Comp /\ design.comps[c].bus \in TreeBuses
              /\ Below(c) = 0 => design.comps[c].naddr > 0
              /\ Below(c) # 0 => Below(c) \in TreeBuses /\ Below(c) > design.comps[c].bus
         /\ \A i \in TreeBuses : design.order[i] \in TreeBuses
         /\ design.regbus \in TreeBuses /\ design.cpubus \in TreeBuses
<1>1. /\ design.buses \in Seq(Buses) /\ design.comps \in Seq(Comp)
      /\ \A c \in Comps :
           /\ design.comps[c].bus \in TreeBuses
           /\ Below(c) # 0 => Below(c) \in TreeBuses /\ Below(c) > design.comps[c].bus
           /\ Below(c) = 0 => design.comps[c].naddr > 0
      /\ Len(design.order) = Len(design.buses) /\ design.order \in Seq(TreeBuses)
      /\ {design.regbus, design.cpubus} \subseteq TreeBuses
  BY DesignAssumption DEF Comps, Below, TreeBuses
<1>2. Len(design.buses) \in Nat /\ TreeBuses = 1..Len(design.buses)
  BY <1>1 DEF TreeBuses
<1>3. \A b \in TreeBuses : design.buses[b] \in Buses /\ design.buses[b] \in Bus
  BY <1>1, <1>2, BusesAssumption DEF TreeBuses
<1>4. \A b \in TreeBuses : WordBits(b) \in Nat  BY <1>3 DEF WordBits, Bus
<1>5. Comps \subseteq Nat /\ \A c \in Comps : design.comps[c] \in Comp
  BY <1>1 DEF Comps
<1>6. \A i \in TreeBuses : design.order[i] \in TreeBuses
  <2>1. PICK o \in Seq(TreeBuses) : o = design.order  BY <1>1
  <2>2. \A i \in 1..Len(o) : o[i] \in TreeBuses  BY <2>1
  <2>3. Len(o) = Len(design.buses)  BY <1>1, <2>1
  <2>4. QED  BY <1>2, <2>1, <2>2, <2>3
<1>7. design.regbus \in TreeBuses /\ design.cpubus \in TreeBuses  BY <1>1
<1>8. QED  BY <1>1, <1>2, <1>3, <1>4, <1>5, <1>6, <1>7

LEMMA TreeFacts ==
  ASSUME TreeSound
  PROVE  /\ Len(design.buses) \in Nat /\ TreeBuses = 1..Len(design.buses)
         /\ \A b \in TreeBuses : WordBits(b) \in Nat /\ TreeWidth(b) \in Nat
         /\ \A b \in TreeBuses : design.buses[b] \in Bus
         /\ \A c \in Comps : Below(c) # 0 =>
              Below(c) \in TreeBuses /\ Below(c) > design.comps[c].bus
<1>1. /\ Len(design.buses) \in Nat /\ TreeBuses = 1..Len(design.buses)
      /\ \A b \in TreeBuses : design.buses[b] \in Bus /\ WordBits(b) \in Nat
      /\ \A c \in Comps : Below(c) # 0 =>
           Below(c) \in TreeBuses /\ Below(c) > design.comps[c].bus
  BY DesignFacts DEF TreeSound
<1>2. \A b \in TreeBuses : width[b] \in Nat  BY DEF TreeSound
<1>3. \A b \in TreeBuses : TreeWidth(b) \in Nat  BY <1>1, <1>2 DEF TreeWidth
<1>4. QED  BY <1>1, <1>3

(* The slaves of a bus, and the buses below them.                          *)
LEMMA SlaveFacts ==
  ASSUME TreeSound, NEW b \in TreeBuses, NEW i \in DOMAIN layout[b]
  PROVE  /\ layout[b][i].comp \in Comps /\ layout[b][i].base \in Nat
         /\ design.comps[layout[b][i].comp].bus = b
         /\ Below(layout[b][i].comp) # 0 =>
              Below(layout[b][i].comp) \in TreeBuses /\ Below(layout[b][i].comp) > b
<1>1. SlaveSound(b, layout[b][i])  BY DEF TreeSound, LaidOut
<1>2. QED  BY <1>1, TreeFacts DEF SlaveSound

(* gather_peripherals(), bus by bus.                                       *)
Found == [comp : Comps, addr : Nat]

GatherSet(f, b, base) ==
  UNION {LET s == layout[b][i]
             addr == s.base + base
         IN  {[comp |-> s.comp, addr |-> addr]}
             \cup (IF Below(s.comp) # 0 THEN f[Below(s.comp)][addr] ELSE {}) :
         i \in DOMAIN layout[b]}

LEMMA GatherSetIs ==
  ASSUME NEW f, NEW b, NEW base, NEW x
  PROVE  x \in GatherSet(f, b, base) <=>
           \E i \in DOMAIN layout[b] :
             \/ x = [comp |-> layout[b][i].comp, addr |-> layout[b][i].base + base]
             \/ /\ Below(layout[b][i].comp) # 0
                /\ x \in f[Below(layout[b][i].comp)][layout[b][i].base + base]
BY DEF GatherSet

LEMMA GatherRuns ==
  ASSUME TreeSound
  PROVE  \E f : /\ \A b \in TreeBuses, base \in Nat : f[b][base] = GatherSet(f, b, base)
                /\ \A b \in TreeBuses : Gather(b) = f[b][0]
<1> DEFINE N == Len(design.buses)
           Y == [Nat -> SUBSET Found]
           row(f, b) == [base \in Nat |-> GatherSet(f, b, base)]
           B == [p \in (1..N) \X [1..N -> Y] |-> row(p[2], p[1])]
           P(f) == f = [b \in TreeBuses |-> row(f, b)]
           h == CHOOSE f : P(f)
<1>1. N \in Nat /\ TreeBuses = 1..N  BY TreeFacts
<1>2. ASSUME NEW b \in 1..N, NEW t \in [1..N -> Y]
      PROVE  row(t, b) \in Y
  <2> SUFFICES ASSUME NEW base \in Nat, NEW x \in GatherSet(t, b, base)
               PROVE  x \in Found
    OBVIOUS
  <2>1. PICK i \in DOMAIN layout[b] :
          \/ x = [comp |-> layout[b][i].comp, addr |-> layout[b][i].base + base]
          \/ /\ Below(layout[b][i].comp) # 0
             /\ x \in t[Below(layout[b][i].comp)][layout[b][i].base + base]
    BY GatherSetIs
  <2>2. /\ layout[b][i].comp \in Comps /\ layout[b][i].base + base \in Nat
        /\ Below(layout[b][i].comp) # 0 => Below(layout[b][i].comp) \in 1..N
    BY <1>1, SlaveFacts
  <2>3. QED  BY <2>1, <2>2 DEF Found
<1>3. B \in Descents(N, Y)
  <2> HIDE DEF Y, row, N
  <2>1. \A p \in (1..N) \X [1..N -> Y] : p[1] \in 1..N /\ p[2] \in [1..N -> Y]  OBVIOUS
  <2>2. QED  BY <1>2, <2>1 DEF Descents
<1>4. \A b \in 1..N, t \in [1..N -> Y] : B[<<b, t>>] = row(t, b)
  <2> HIDE DEF Y, row, N
  <2>1. QED  OBVIOUS
<1>5. LooksBelow(N, Y, B)
  <2> HIDE DEF Y, B
  <2>1. ASSUME NEW b \in 1..N, NEW t \in [1..N -> Y], NEW u \in [1..N -> Y],
               \A c \in 1..N : c > b => t[c] = u[c]
        PROVE  B[<<b, t>>] = B[<<b, u>>]
    <3>1. ASSUME NEW base \in Nat, NEW x
          PROVE  x \in GatherSet(t, b, base) <=> x \in GatherSet(u, b, base)
      <4>1. \A i \in DOMAIN layout[b] : Below(layout[b][i].comp) # 0 =>
              t[Below(layout[b][i].comp)] = u[Below(layout[b][i].comp)]
        <5> HIDE DEF N
        <5>1. \A i \in DOMAIN layout[b] : Below(layout[b][i].comp) # 0 =>
                Below(layout[b][i].comp) \in 1..N /\ Below(layout[b][i].comp) > b
          BY <1>1, SlaveFacts
        <5>2. QED  BY <2>1, <5>1
      <4>2. QED  BY <4>1, GatherSetIs
    <3>2. \A base \in Nat : GatherSet(t, b, base) = GatherSet(u, b, base)
      <4> TAKE base \in Nat
      <4>1. \A x : x \in GatherSet(t, b, base) <=> x \in GatherSet(u, b, base)  BY <3>1
      <4>2. QED  BY <4>1
    <3>3. row(t, b) = row(u, b)  BY <3>2
    <3>4. QED
      <4> HIDE DEF row, N
      <4>1. QED  BY <1>4, <3>3
  <2>2. QED
    <3> HIDE DEF N
    <3>1. QED  BY <2>1 DEF LooksBelow
<1>6. Y # {}
  <2>1. [base \in Nat |-> {}] \in Y  OBVIOUS
  <2>2. QED  BY <2>1
<1>7. PICK f \in [1..N -> Y] : \A b \in 1..N : f[b] = B[<<b, f>>]
  <2> HIDE DEF Y, B, N
  <2>1. PICK f : IsDescent(f, N, Y, B)  BY <1>1, <1>3, <1>5, <1>6, DescentExists
  <2>2. QED  BY <2>1 DEF IsDescent
<1>8. P(f)
  <2> HIDE DEF Y, B, N, row
  <2>1. \A b \in 1..N : f[b] = row(f, b)  BY <1>4, <1>7
  <2>2. f = [b \in 1..N |-> f[b]]  OBVIOUS
  <2>3. QED  BY <1>1, <2>1, <2>2
<1>9. P(h)
  <2> HIDE DEF P
  <2>1. QED  BY <1>8
<1>10. \A b \in TreeBuses : Gather(b) = h[b][0]  BY DEF Gather, GatherSet
<1> HIDE DEF h
<1>11. \A b \in TreeBuses : h[b] = row(h, b)
  <2> HIDE DEF row
  <2>1. QED  BY <1>9
<1>12. \A b \in TreeBuses, base \in Nat : h[b][base] = GatherSet(h, b, base)  BY <1>11
<1> HIDE DEF row, P
<1>13. QED  BY <1>10, <1>12

(* The components that an octet address of a bus selects.                  *)
AtSet(f, b, a) ==
  UNION {LET m == Below(s.comp) IN
         IF m # 0 THEN f[m][a % 2^(width[m] + WordBits(m))] ELSE {s.comp} :
         s \in {x \in Range(layout[b]) : Answer(x, b, a)}}

LEMMA AtSetIs ==
  ASSUME NEW f, NEW b, NEW a, NEW x
  PROVE  x \in AtSet(f, b, a) <=>
           \E i \in DOMAIN layout[b] :
             /\ Answer(layout[b][i], b, a)
             /\ LET m == Below(layout[b][i].comp) IN
                IF m # 0 THEN x \in f[m][a % 2^(width[m] + WordBits(m))]
                ELSE x = layout[b][i].comp
BY DEF AtSet, Range

LEMMA ReachedRuns ==
  ASSUME TreeSound
  PROVE  \E f : /\ \A b \in TreeBuses, a \in Nat : f[b][a] = AtSet(f, b, a)
                /\ \A b \in TreeBuses, a \in Nat : Reached(b, a) = f[b][a]
<1> DEFINE N == Len(design.buses)
           Y == [Nat -> SUBSET Comps]
           row(f, b) == [a \in Nat |-> AtSet(f, b, a)]
           B == [p \in (1..N) \X [1..N -> Y] |-> row(p[2], p[1])]
           P(f) == f = [b \in TreeBuses |-> row(f, b)]
           h == CHOOSE f : P(f)
<1>1. N \in Nat /\ TreeBuses = 1..N  BY TreeFacts
<1>2. ASSUME NEW b \in 1..N, NEW t \in [1..N -> Y]
      PROVE  row(t, b) \in Y
  <2> SUFFICES ASSUME NEW a \in Nat, NEW x \in AtSet(t, b, a)
               PROVE  x \in Comps
    OBVIOUS
  <2>1. PICK i \in DOMAIN layout[b] :
          LET m == Below(layout[b][i].comp) IN
          IF m # 0 THEN x \in t[m][a % 2^(width[m] + WordBits(m))]
          ELSE x = layout[b][i].comp
    BY AtSetIs
  <2>2. /\ layout[b][i].comp \in Comps
        /\ Below(layout[b][i].comp) # 0 => Below(layout[b][i].comp) \in 1..N
    BY <1>1, SlaveFacts
  <2>3. ASSUME NEW m \in 1..N PROVE a % 2^(width[m] + WordBits(m)) \in Nat
    <3>1. width[m] + WordBits(m) \in Nat  BY <1>1, TreeFacts DEF TreeWidth
    <3>2. PICK z \in Nat : z = 2^(width[m] + WordBits(m)) /\ z > 0  BY <3>1, PowerPositive
    <3>3. a % z \in Nat  BY <3>2
    <3>4. QED  BY <3>2, <3>3
  <2>4. QED  BY <2>1, <2>2, <2>3
<1>3. B \in Descents(N, Y)
  <2> HIDE DEF Y, row, N
  <2>1. \A p \in (1..N) \X [1..N -> Y] : p[1] \in 1..N /\ p[2] \in [1..N -> Y]  OBVIOUS
  <2>2. QED  BY <1>2, <2>1 DEF Descents
<1>4. \A b \in 1..N, t \in [1..N -> Y] : B[<<b, t>>] = row(t, b)
  <2> HIDE DEF Y, row, N
  <2>1. QED  OBVIOUS
<1>5. LooksBelow(N, Y, B)
  <2> HIDE DEF Y, B
  <2>1. ASSUME NEW b \in 1..N, NEW t \in [1..N -> Y], NEW u \in [1..N -> Y],
               \A c \in 1..N : c > b => t[c] = u[c]
        PROVE  B[<<b, t>>] = B[<<b, u>>]
    <3>1. ASSUME NEW a \in Nat, NEW x
          PROVE  x \in AtSet(t, b, a) <=> x \in AtSet(u, b, a)
      <4>1. \A i \in DOMAIN layout[b] : Below(layout[b][i].comp) # 0 =>
              t[Below(layout[b][i].comp)] = u[Below(layout[b][i].comp)]
        <5> HIDE DEF N
        <5>1. \A i \in DOMAIN layout[b] : Below(layout[b][i].comp) # 0 =>
                Below(layout[b][i].comp) \in 1..N /\ Below(layout[b][i].comp) > b
          BY <1>1, SlaveFacts
        <5>2. QED  BY <2>1, <5>1
      <4>2. QED  BY <4>1, AtSetIs
    <3>2. \A a \in Nat : AtSet(t, b, a) = AtSet(u, b, a)
      <4> TAKE a \in Nat
      <4>1. \A x : x \in AtSet(t, b, a) <=> x \in AtSet(u, b, a)  BY <3>1
      <4>2. QED  BY <4>1
    <3>3. row(t, b) = row(u, b)  BY <3>2
    <3>4. QED
      <4> HIDE DEF row, N
      <4>1. QED  BY <1>4, <3>3
  <2>2. QED
    <3> HIDE DEF N
    <3>1. QED  BY <2>1 DEF LooksBelow
<1>6. Y # {}
  <2>1. [a \in Nat |-> {}] \in Y  OBVIOUS
  <2>2. QED  BY <2>1
<1>7. PICK f \in [1..N -> Y] : \A b \in 1..N : f[b] = B[<<b, f>>]
  <2> HIDE DEF Y, B, N
  <2>1. PICK f : IsDescent(f, N, Y, B)  BY <1>1, <1>3, <1>5, <1>6, DescentExists
  <2>2. QED  BY <2>1 DEF IsDescent
<1>8. P(f)
  <2> HIDE DEF Y, B, N, row
  <2>1. \A b \in 1..N : f[b] = row(f, b)  BY <1>4, <1>7
  <2>2. f = [b \in 1..N |-> f[b]]  OBVIOUS
  <2>3. QED  BY <1>1, <2>1, <2>2
<1>9. P(h)
  <2> HIDE DEF P
  <2>1. QED  BY <1>8
<1>10. \A b \in TreeBuses, a \in Nat : Reached(b, a) = h[b][a]  BY DEF Reached, AtSet
<1> HIDE DEF h
<1>11. \A b \in TreeBuses : h[b] = row(h, b)
  <2> HIDE DEF row
  <2>1. QED  BY <1>9
<1>12. \A b \in TreeBuses, a \in Nat : h[b][a] = AtSet(h, b, a)  BY <1>11
<1> HIDE DEF row, P
<1>13. QED  BY <1>10, <1>12

(* An octet is in the region of one slave at most, which is the only one   *)
(* that answers.                                                           *)
Within(b, i, a) == layout[b][i].base <= a /\ a < SlaveEnd(b, layout[b][i])

LEMMA AnswerWithin ==
  ASSUME TreeSound, NEW b \in TreeBuses, NEW i \in DOMAIN layout[b],
         NEW a \in 0..(2^TreeWidth(b) - 1)
  PROVE  Answer(layout[b][i], b, a) <=> Within(b, i, a)
<1>1. SlaveSound(b, layout[b][i])  BY DEF TreeSound, LaidOut
<1>2. QED  BY <1>1 DEF SlaveSound, Within

LEMMA OneWithin ==
  ASSUME TreeSound, NEW b \in TreeBuses, NEW i \in DOMAIN layout[b],
         NEW j \in DOMAIN layout[b], NEW a \in Nat, Within(b, i, a), Within(b, j, a)
  PROVE  i = j
<1>1. /\ i < j => SlaveEnd(b, layout[b][i]) <= layout[b][j].base
      /\ j < i => SlaveEnd(b, layout[b][j]) <= layout[b][i].base
      /\ i \in Nat /\ j \in Nat
  BY DEF TreeSound, LaidOut
<1>2. ASSUME NEW k \in {i, j}
      PROVE  layout[b][k].base \in Nat /\ SlaveEnd(b, layout[b][k]) \in Nat
  <2>1. SlaveSound(b, layout[b][k])  BY DEF TreeSound, LaidOut
  <2>2. 2^SlaveLines(b, layout[b][k]) \in Nat  BY <2>1, PowerPositive DEF SlaveSound
  <2>3. QED  BY <2>1, <2>2 DEF SlaveSound, SlaveEnd
<1>3. QED  BY <1>1, <1>2 DEF Within

LEMMA ReachedWithin ==
  ASSUME TreeSound, NEW b \in TreeBuses, NEW a \in 0..(2^TreeWidth(b) - 1),
         NEW i \in DOMAIN layout[b], Within(b, i, a)
  PROVE  Reached(b, a) = LET m == Below(layout[b][i].comp) IN
                         IF m # 0 THEN Reached(m, a % 2^TreeWidth(m))
                         ELSE {layout[b][i].comp}
<1> DEFINE m == Below(layout[b][i].comp)
<1>1. PICK f : /\ \A c \in TreeBuses, z \in Nat : f[c][z] = AtSet(f, c, z)
               /\ \A c \in TreeBuses, z \in Nat : Reached(c, z) = f[c][z]
  BY ReachedRuns
<1>2. a \in Nat  OBVIOUS
<1>3. \A j \in DOMAIN layout[b] : Answer(layout[b][j], b, a) <=> j = i
  <2> TAKE j \in DOMAIN layout[b]
  <2>1. Answer(layout[b][j], b, a) <=> Within(b, j, a)  BY AnswerWithin
  <2>2. QED  BY <1>2, <2>1, OneWithin
<1>4. \A x : x \in AtSet(f, b, a) <=>
        IF m # 0 THEN x \in f[m][a % 2^(width[m] + WordBits(m))]
        ELSE x = layout[b][i].comp
  BY <1>3, AtSetIs
<1>5. CASE m = 0
  <2>1. AtSet(f, b, a) = {layout[b][i].comp}  BY <1>4, <1>5
  <2>2. QED  BY <1>1, <1>2, <1>5, <2>1
<1>6. CASE m # 0
  <2>1. AtSet(f, b, a) = f[m][a % 2^TreeWidth(m)]  BY <1>4, <1>6 DEF TreeWidth
  <2>2. m \in TreeBuses  BY <1>6, SlaveFacts
  <2>3. a % 2^TreeWidth(m) \in Nat
    <3>1. TreeWidth(m) \in Nat  BY <2>2, TreeFacts
    <3>2. PICK z \in Nat : z = 2^TreeWidth(m) /\ z > 0  BY <3>1, PowerPositive
    <3>3. a % z \in Nat  BY <3>2
    <3>4. QED  BY <3>2, <3>3
  <2>4. Reached(m, a % 2^TreeWidth(m)) = f[m][a % 2^TreeWidth(m)]  BY <1>1, <2>2, <2>3
  <2>5. Reached(b, a) = f[b][a] /\ f[b][a] = AtSet(f, b, a)  BY <1>1, <1>2
  <2>6. QED  BY <1>6, <2>1, <2>4, <2>5
<1>7. QED  BY <1>5, <1>6

LEMMA ReachedNothing ==
  ASSUME TreeSound, NEW b \in TreeBuses, NEW a \in 0..(2^TreeWidth(b) - 1),
         \A i \in DOMAIN layout[b] : ~Within(b, i, a)
  PROVE  Reached(b, a) = {}
<1>1. PICK f : /\ \A c \in TreeBuses, z \in Nat : f[c][z] = AtSet(f, c, z)
               /\ \A c \in TreeBuses, z \in Nat : Reached(c, z) = f[c][z]
  BY ReachedRuns
<1>2. a \in Nat  OBVIOUS
<1>3. \A j \in DOMAIN layout[b] : ~Answer(layout[b][j], b, a)  BY AnswerWithin
<1>4. \A x : x \notin AtSet(f, b, a)  BY <1>3, AtSetIs
<1>5. AtSet(f, b, a) = {}  BY <1>4
<1>6. Reached(b, a) = f[b][a] /\ f[b][a] = AtSet(f, b, a)  BY <1>1, <1>2
<1>7. QED  BY <1>5, <1>6

(* A component that gather_peripherals() finds x.addr - base octets into a *)
(* bus is selected by all the octets that it takes from there on.          *)
Leads(b, x, base) ==
  /\ x.comp \in Comps /\ x.addr \in Nat /\ base <= x.addr
  /\ Below(x.comp) = 0 =>
       /\ (x.addr - base) + Length(x.comp) <= 2^TreeWidth(b)
       /\ \A off \in 0..(Length(x.comp) - 1) : Reached(b, (x.addr - base) + off) = {x.comp}

LEMMA LengthType ==
  ASSUME TreeSound, NEW c \in Comps
  PROVE  Length(c) \in Nat
<1>1. design.comps[c] \in Comp /\ design.comps[c].bus \in TreeBuses
  BY DesignFacts DEF TreeSound
<1>2. design.comps[c].naddr \in Nat  BY <1>1 DEF Comp
<1>3. design.buses[design.comps[c].bus].lgdw \in Nat  BY <1>1, TreeFacts DEF Bus
<1>4. 2^design.buses[design.comps[c].bus].lgdw \in Nat  BY <1>3, PowerPositive
<1>5. QED  BY <1>2, <1>4 DEF Length

LEMMA GatheredLead ==
  ASSUME TreeSound, NEW f,
         \A b \in TreeBuses, base \in Nat : f[b][base] = GatherSet(f, b, base)
  PROVE  \A b \in TreeBuses : \A base \in Nat : \A x \in f[b][base] : Leads(b, x, base)
<1> DEFINE N == Len(design.buses)
           Good(b) == \A base \in Nat : \A x \in f[b][base] : Leads(b, x, base)
           S == {b \in TreeBuses : Good(b)}
<1>1. N \in Nat /\ TreeBuses = 1..N  BY TreeFacts
<1>2. ASSUME NEW b \in TreeBuses, \A c \in TreeBuses : c > b => Good(c)
      PROVE  Good(b)
  <2> SUFFICES ASSUME NEW base \in Nat, NEW x \in f[b][base] PROVE Leads(b, x, base)
    OBVIOUS
  <2>1. PICK i \in DOMAIN layout[b] :
          \/ x = [comp |-> layout[b][i].comp, addr |-> layout[b][i].base + base]
          \/ /\ Below(layout[b][i].comp) # 0
             /\ x \in f[Below(layout[b][i].comp)][layout[b][i].base + base]
    <3>1. x \in GatherSet(f, b, base)  OBVIOUS
    <3>2. QED  BY <3>1, GatherSetIs
  <2> DEFINE s == layout[b][i]
             n == SlaveLines(b, s)
  <2>2. /\ s.comp \in Comps /\ s.base \in Nat /\ n \in Nat
        /\ s.base % 2^n = 0 /\ SlaveEnd(b, s) <= 2^TreeWidth(b)
        /\ IF Below(s.comp) = 0 THEN Length(s.comp) <= 2^n
           ELSE TreeWidth(Below(s.comp)) <= n
    <3>1. SlaveSound(b, layout[b][i])  BY DEF TreeSound, LaidOut
    <3>2. QED  BY <3>1 DEF SlaveSound
  <2>3. PICK p \in Nat : p = 2^n /\ SlaveEnd(b, s) = s.base + p
    BY <2>2, PowerPositive DEF SlaveEnd
  <2>4. TreeWidth(b) \in Nat  BY TreeFacts
  <2>5. PICK top \in Nat : top = 2^TreeWidth(b)  BY <2>4, PowerPositive
  <2>6. \A a \in Nat : s.base <= a /\ a < s.base + p =>
          a \in 0..(2^TreeWidth(b) - 1) /\ Within(b, i, a)
    <3> HIDE DEF n
    <3>1. s.base + p <= top  BY <2>2, <2>3, <2>5
    <3>2. QED  BY <2>2, <2>3, <2>5, <3>1 DEF Within
  <2>7. CASE x = [comp |-> s.comp, addr |-> s.base + base]
    <3>1. /\ x.comp = s.comp /\ x.addr = s.base + base /\ x.addr - base = s.base
          /\ x.addr \in Nat /\ base <= x.addr
      BY <2>2, <2>7
    <3>2. PICK len \in Nat : len = Length(s.comp)  BY <2>2, LengthType
    <3>3. SUFFICES ASSUME Below(s.comp) = 0
                   PROVE  /\ s.base + len <= top
                          /\ \A off \in 0..(len - 1) : Reached(b, s.base + off) = {s.comp}
      <4> HIDE DEF s
      <4>1. QED  BY <2>2, <2>5, <3>1, <3>2 DEF Leads
    <3>4. len <= p /\ s.base + p <= top  BY <2>2, <2>3, <2>5, <3>2, <3>3
    <3>5. ASSUME NEW off \in 0..(len - 1) PROVE Reached(b, s.base + off) = {s.comp}
      <4>1. PICK a \in Nat : a = s.base + off  BY <2>2
      <4>2. a \in 0..(2^TreeWidth(b) - 1) /\ Within(b, i, a)
        <5>1. s.base <= a /\ a < s.base + p  BY <2>2, <3>4, <4>1
        <5>2. QED  BY <2>6, <5>1
      <4>3. QED  BY <3>3, <4>1, <4>2, ReachedWithin
    <3>6. s.base + len <= top
      <4>1. s.base \in Nat  BY <2>2
      <4> HIDE DEF s, n
      <4>2. QED  BY <4>1, <3>4
    <3>7. QED  BY <3>5, <3>6
  <2>8. CASE /\ Below(s.comp) # 0
             /\ x \in f[Below(s.comp)][s.base + base]
    <3>1. PICK m \in TreeBuses : m = Below(s.comp) /\ m > b  BY <2>8, SlaveFacts
    <3>2. PICK base2 \in Nat : base2 = s.base + base  BY <2>2
    <3>3. Leads(m, x, base2)  BY <1>2, <2>8, <3>1, <3>2
    <3>4. PICK r \in Nat : r = x.addr - base2 /\ x.addr - base = s.base + r
      <4>1. x.addr \in Nat /\ base2 <= x.addr  BY <3>3 DEF Leads
      <4>2. x.addr - base2 \in Nat /\ x.addr - base = s.base + (x.addr - base2)
        BY <2>2, <3>2, <4>1
      <4>3. QED  BY <4>2
    <3>5. x.comp \in Comps /\ x.addr \in Nat /\ base <= x.addr
      BY <2>2, <3>2, <3>3 DEF Leads
    <3>6. PICK len \in Nat : len = Length(x.comp)  BY <3>5, LengthType
    <3>7. SUFFICES ASSUME Below(x.comp) = 0
                   PROVE  /\ (s.base + r) + len <= top
                          /\ \A off \in 0..(len - 1) : Reached(b, (s.base + r) + off) = {x.comp}
      BY <2>5, <3>4, <3>5, <3>6 DEF Leads
    <3>8. /\ r + len <= 2^TreeWidth(m)
          /\ \A off \in 0..(len - 1) : Reached(m, r + off) = {x.comp}
      BY <3>3, <3>4, <3>6, <3>7 DEF Leads
    <3>9. TreeWidth(m) \in Nat /\ TreeWidth(m) <= n  BY <2>2, <2>8, <3>1, TreeFacts
    <3>10. PICK q \in Nat : q = 2^TreeWidth(m) /\ q <= p /\ r + len <= q
      BY <2>2, <2>3, <3>8, <3>9, PowerPositive, PowerMonotonic
    <3>11. s.base + p <= top  BY <2>2, <2>3, <2>5
    <3>12. ASSUME NEW off \in 0..(len - 1) PROVE Reached(b, (s.base + r) + off) = {x.comp}
      <4>1. PICK a \in Nat : a = (s.base + r) + off /\ a - s.base = r + off  BY <2>2
      <4>2. s.base <= a /\ a < s.base + p /\ a - s.base < q
        BY <2>2, <3>10, <4>1
      <4>3. a \in 0..(2^TreeWidth(b) - 1) /\ Within(b, i, a)  BY <2>6, <4>2
      <4>4. a % 2^TreeWidth(m) = r + off
        <5>1. a - s.base < 2^TreeWidth(m)  BY <3>10, <4>2
        <5>2. s.base \in Nat /\ n \in Nat /\ s.base % 2^n = 0  BY <2>2
        <5>3. a % 2^TreeWidth(m) = a - s.base
          <6> HIDE DEF s, n
          <6>1. QED  BY <3>9, <4>2, <5>1, <5>2, OffsetBits
        <5>4. QED  BY <4>1, <5>3
      <4>5. Reached(b, a) = Reached(m, a % 2^TreeWidth(m))
        BY <2>8, <3>1, <4>3, ReachedWithin
      <4>6. QED  BY <3>8, <4>1, <4>4, <4>5
    <3>13. QED  BY <2>2, <3>10, <3>11, <3>12
  <2>9. QED  BY <2>1, <2>7, <2>8
<1>3. \A b \in TreeBuses : (\A c \in TreeBuses : c > b => c \in S) => b \in S
  <2> HIDE DEF Good
  <2>1. QED  BY <1>2
<1>4. \A b \in TreeBuses : b \in S
  <2> HIDE DEF S, N
  <2>1. QED  BY <1>1, <1>3, DescentInduction
<1>5. QED  BY <1>4

(* So what gather_peripherals() calls the address of a component leads to  *)
(* the component.                                                          *)
LEMMA GatherLeads ==
  ASSUME TreeSound, NEW b \in TreeBuses, NEW x \in Gather(b)
  PROVE  /\ x.comp \in Comps /\ x.addr \in Nat
         /\ Below(x.comp) = 0 => \A off \in 0..(Length(x.comp) - 1) :
              Reached(b, x.addr + off) = {x.comp}
<1>1. PICK f : /\ \A c \in TreeBuses, base \in Nat : f[c][base] = GatherSet(f, c, base)
               /\ \A c \in TreeBuses : Gather(c) = f[c][0]
  BY GatherRuns
<1>2. \A c \in TreeBuses : \A base \in Nat : \A y \in f[c][base] : Leads(c, y, base)
  BY <1>1, GatheredLead
<1>3. Leads(b, x, 0)  BY <1>1, <1>2
<1>4. x.addr \in Nat /\ x.addr - 0 = x.addr  BY <1>3 DEF Leads
<1>5. QED  BY <1>3, <1>4 DEF Leads

(* The slave list that PLIST::assign_addresses() is given for a bus.       *)
SlaveAsked(s) ==
  /\ s.name \in Comps /\ design.comps[s.name].bus = Top
  /\ s.naddr = NAddr(Top, s.name)
  /\ Below(s.name) # 0 => Below(s.name) \in assigned

PlistSound ==
  /\ TypeOK /\ LayoutInv /\ EndedWell
  /\ Top \in TreeBuses /\ Top \notin assigned /\ bus = design.buses[Top]
  /\ \A i \in 1..Len(list) : SlaveAsked(list[i])

(* The room that a component is given is as much as it asked for.          *)
LEMMA RoomAsked ==
  ASSUME TreeSound, LinesFit, PlistSound, NEW i \in 1..Len(list), NEW n \in Nat,
         n >= AddressWidth(list[i]) + DAddrABits, n <= MaxLg
  PROVE  LET c == list[i].name IN
         IF Below(c) = 0 THEN Length(c) <= 2^n
         ELSE TreeWidth(Below(c)) <= n
<1> DEFINE c == list[i].name
<1>1. /\ c \in Comps /\ design.comps[c].bus = Top
      /\ list[i].naddr = NAddr(Top, c)
      /\ Below(c) # 0 => Below(c) \in assigned
  BY DEF PlistSound, SlaveAsked
<1>2. PICK lg \in Nat : lg = bus.lgdw /\ lg = design.buses[Top].lgdw
  BY TreeFacts DEF PlistSound, TypeOK, Bus
<1>3. PICK v \in Nat : v = NextLg(list[i].naddr)
  <2>1. NextLg(list[i].naddr) \in Nat  BY NextLgNat
  <2>2. QED  BY <2>1
<1>4. AddressWidth(list[i]) + DAddrABits = v + lg
  BY <1>2, <1>3 DEF AddressWidth, DAddrABits
<1>5. v + lg <= n  BY <1>4
<1>6. CASE Below(c) = 0
  <2>1. list[i].naddr = design.comps[c].naddr  BY <1>1, <1>6 DEF NAddr
  <2>2. PICK x \in Nat : x = list[i].naddr
    <3>1. design.comps[c] \in Comp  BY <1>1, DesignFacts DEF TreeSound
    <3>2. QED  BY <2>1, <3>1 DEF Comp
  <2>3. v <= MaxLg  BY <1>5 DEF MaxLg
  <2>4. x <= 2^v  BY <1>3, <2>2, <2>3, NextLgRoom
  <2>5. PICK p \in Nat, r \in Nat : p = 2^lg /\ p > 0 /\ r = 2^v /\ 2^(v + lg) = r * p
    BY PowerPositive, PowerSum
  <2>6. x * p <= r * p  BY <2>4, <2>5, TimesKeepsOrder
  <2>7. 2^(v + lg) <= 2^n  BY <1>5, PowerMonotonic
  <2>8. Length(c) = x * p  BY <1>1, <1>2, <2>1, <2>2, <2>5 DEF Length
  <2>9. Length(c) <= 2^n
    <3>1. PICK y \in Nat, z \in Nat : y = x * p /\ z = r * p  OBVIOUS
    <3>2. 2^n \in Nat  BY PowerPositive
    <3>3. QED  BY <2>5, <2>6, <2>7, <2>8, <3>1, <3>2
  <2>10. QED  BY <1>6, <2>9
<1>7. CASE Below(c) # 0
  <2>1. PICK m \in assigned : m = Below(c)  BY <1>1, <1>7
  <2>2. m \in TreeBuses /\ TreeWidth(m) \in Nat /\ TreeWidth(m) <= MaxLg /\ lg <= TreeWidth(m)
    BY <1>1, <1>2, <2>1, TreeFacts DEF LinesFit, TreeSound
  <2>3. PICK t \in Nat : t = TreeWidth(m) /\ t <= MaxLg /\ lg <= t  BY <2>2
  <2>4. PICK e \in Nat : e = t - lg /\ e + lg = t
    <3>1. t - lg \in Nat /\ (t - lg) + lg = t  BY <2>3
    <3>2. QED  BY <3>1
  <2>5. list[i].naddr = 2^e
    <3>1. NAddr(Top, c) = SubbusNAddr(Top, c)  BY <1>7 DEF NAddr
    <3>2. SubbusNAddr(Top, c) = 2^(t - lg)
      <4>1. SubbusNAddr(Top, c) = 2^(width[m] + WordBits(m) - lg)
        BY <1>2, <2>1 DEF SubbusNAddr
      <4>2. width[m] \in Nat /\ WordBits(m) \in Nat  BY <2>2, TreeFacts DEF TreeSound
      <4>3. width[m] + WordBits(m) - lg = t - lg  BY <2>3, <4>2 DEF TreeWidth
      <4>4. QED  BY <4>1, <4>3
    <3>3. QED  BY <1>1, <2>4, <3>1, <3>2
  <2>6. e \in 0..(MaxLg + 1)
    <3>1. MaxLg \in Nat  BY DEF MaxLg
    <3>2. QED  BY <2>3, <2>4, <3>1
  <2>7. v = e  BY <1>3, <2>5, <2>6, NextLgOfPower
  <2>8. QED  BY <1>5, <1>7, <2>1, <2>3, <2>4, <2>7
<1>8. QED  BY <1>6, <1>7

(* The bus that assign_addresses() has ended with is laid out.             *)
LEMMA EndPlistWrites ==
  ASSUME TreeSound, PlistSound, EndPlist, NEW t, t = Top
  PROVE  /\ design' = design /\ t \in TreeBuses /\ list # <<>> /\ pc = "done"
         /\ assigned' = assigned \cup {t} /\ stack' = Front(stack) /\ list' = <<>>
         /\ \A b \in TreeBuses : width'[b] = IF b = t THEN m_address_width ELSE width[b]
         /\ width' = [b \in TreeBuses |-> width'[b]]
         /\ \A b \in TreeBuses : b # t => layout'[b] = layout[b] /\ slaves'[b] = slaves[b]
         /\ DOMAIN layout' = TreeBuses /\ DOMAIN layout'[t] = 1..Len(list)
         /\ \A i \in 1..Len(list) :
              layout'[t][i] = [comp |-> list[i].name, base |-> place[i].base, mask |-> mask[i]]
<1>1. t \in TreeBuses /\ DOMAIN layout = TreeBuses /\ width \in [TreeBuses -> Nat]
  BY DEF PlistSound, TreeSound
<1>2. list \in Seq(Slave)  BY DEF PlistSound, TypeOK
<1>3. DOMAIN list = 1..Len(list)  BY <1>2
<1>4. /\ layout' = [layout EXCEPT ![t] =
            [i \in DOMAIN list |-> [comp |-> list[i].name, base |-> place[i].base,
                                    mask |-> mask[i]]]]
      /\ width' = [width EXCEPT ![t] = m_address_width]
      /\ slaves' = [slaves EXCEPT ![t] = [i \in DOMAIN list |-> list[i].name]]
      /\ assigned' = assigned \cup {t} /\ stack' = Front(stack) /\ list' = <<>>
      /\ design' = design /\ list # <<>> /\ pc = "done"
  BY DEF EndPlist
<1>5. layout'[t] = [i \in 1..Len(list) |-> [comp |-> list[i].name, base |-> place[i].base,
                                            mask |-> mask[i]]]
  BY <1>1, <1>3, <1>4
<1>6. \A b \in TreeBuses : b # t => layout'[b] = layout[b] /\ slaves'[b] = slaves[b]
  BY <1>1, <1>4
<1>7. \A b \in TreeBuses : width'[b] = IF b = t THEN m_address_width ELSE width[b]
  BY <1>1, <1>4
<1>8. width' = [b \in TreeBuses |-> width'[b]] /\ DOMAIN layout' = TreeBuses
  BY <1>1, <1>4
<1>9. QED  BY <1>1, <1>4, <1>5, <1>6, <1>7, <1>8

LEMMA EndedLaidOut ==
  ASSUME WideBuses, TreeSound, LinesFit, LinesFit', PlistSound, EndPlist, NEW t, t = Top
  PROVE  m_address_width \in Nat /\ LaidOut(t)'
<1>1. PICK D, m : D = DAddrABits /\ m = m_address_width  OBVIOUS
<1>2. /\ design' = design /\ t \in TreeBuses /\ list # <<>> /\ pc = "done"
      /\ assigned' = assigned \cup {t}
      /\ \A b \in TreeBuses : width'[b] = IF b = t THEN m ELSE width[b]
      /\ DOMAIN layout'[t] = 1..Len(list)
      /\ \A i \in 1..Len(list) :
           layout'[t][i] = [comp |-> list[i].name, base |-> place[i].base, mask |-> mask[i]]
  BY <1>1, EndPlistWrites
<1>3. TypeOK /\ LayoutInv /\ EndedWell /\ bus = design.buses[t] /\ t \notin assigned
  BY DEF PlistSound
<1>4. WordBits(t) = D /\ WordBits(t)' = D
  BY <1>1, <1>2, <1>3 DEF WordBits, DAddrABits
<1>5. TreeWidth(t)' = m + D  BY <1>2, <1>4 DEF TreeWidth
<1>6. m + D <= MaxLg
  <2>1. TreeWidth(t)' <= MaxLg  BY <1>2 DEF LinesFit
  <2>2. QED  BY <1>5, <2>1
<1>7. Len(list) > 0  BY <1>2, <1>3 DEF TypeOK
<1>8. 1 \in 1..Len(list)  BY <1>3, <1>7 DEF TypeOK
<1>9. m \in Nat /\ D \in Nat  BY <1>2, <1>3, <1>6, <1>7, <1>8, <1>1, EndedSound
<1>10. \A b \in assigned : TreeWidth(b)' = TreeWidth(b)
  <2>1. \A b \in assigned : b # t /\ b \in TreeBuses  BY <1>3 DEF TreeSound
  <2>2. QED  BY <1>2, <2>1 DEF TreeWidth, WordBits
<1>11. ASSUME NEW i \in 1..Len(list)
       PROVE  /\ place[i].base \in Nat /\ place[i].bits \in Nat
              /\ layout'[t][i].base = place[i].base
              /\ SlaveEnd(t, layout[t][i])' = place[i].base + 2^place[i].bits
              /\ SlaveSound(t, layout[t][i])'
  <2>1. PICK c, n : c = list[i].name /\ n = place[i].bits  OBVIOUS
  <2>2. PICK s : /\ s = layout'[t][i] /\ s.comp = c
                 /\ s.base = place[i].base /\ s.mask = mask[i]
    <3>1. layout'[t][i] = [comp |-> c, base |-> place[i].base, mask |-> mask[i]]
      BY <1>2, <2>1
    <3>2. QED  BY <3>1
  <2>3. /\ place[i].base \in Nat /\ n \in Nat
        /\ place[i].base % 2^n = 0 /\ place[i].base + 2^n <= 2^(m + D)
        /\ n <= m + D /\ n >= AddressWidth(list[i]) + D
        /\ \/ mask[i] = [lo |-> n - D, hi |-> m]
           \/ mask[i] = [lo |-> 0, hi |-> 0] /\ n = m + D
    BY <1>2, <1>3, <1>6, <1>7, <1>1, <2>1, EndedSound
  <2>4. c \in Comps /\ design.comps[c].bus = t /\ (Below(c) # 0 => Below(c) \in assigned)
    BY <2>1 DEF PlistSound, SlaveAsked
  <2>5. SlaveLines(t, s)' = n
    <3>1. CASE mask[i] = [lo |-> n - D, hi |-> m]
      <4>1. mask[i].lo = n - D /\ mask[i].hi = m  BY <3>1
      <4>2. mask[i].lo = mask[i].hi => n = m + D  BY <1>9, <2>3, <4>1
      <4>3. mask[i].lo + D = n  BY <1>9, <2>3, <4>1
      <4>4. QED  BY <1>4, <1>5, <2>2, <4>2, <4>3 DEF SlaveLines
    <3>2. CASE mask[i] = [lo |-> 0, hi |-> 0] /\ n = m + D
      <4>1. mask[i].lo = mask[i].hi  BY <3>2
      <4>2. QED  BY <1>5, <2>2, <3>2, <4>1 DEF SlaveLines
    <3>3. QED  BY <2>3, <3>1, <3>2
  <2>6. SlaveEnd(t, s)' = place[i].base + 2^n
    BY <2>2, <2>5 DEF SlaveEnd
  <2>7. MaskBits(t, s.mask)' = n..(m + D - 1)
    <3>1. MaskBits(t, s.mask)' = {j + D : j \in mask[i].lo..(mask[i].hi - 1)}
      BY <1>4, <2>2 DEF MaskBits
    <3>2. CASE mask[i] = [lo |-> n - D, hi |-> m]
      <4>1. mask[i].lo = n - D /\ mask[i].hi = m /\ n - D \in Int /\ (n - D) + D = n
        BY <1>9, <2>3, <3>2
      <4>2. PICK lo \in Int : lo = n - D  BY <4>1
      <4>3. {j + D : j \in lo..(m - 1)} = (lo + D)..(m + D - 1)
        <5>1. ASSUME NEW x \in (lo + D)..(m + D - 1) PROVE x \in {j + D : j \in lo..(m - 1)}
          <6>1. x - D \in lo..(m - 1) /\ x = (x - D) + D  BY <1>9
          <6>2. QED  BY <6>1
        <5>2. ASSUME NEW j \in lo..(m - 1) PROVE j + D \in (lo + D)..(m + D - 1)
          BY <1>9
        <5>3. QED  BY <5>1, <5>2
      <4>4. QED  BY <3>1, <4>1, <4>2, <4>3
    <3>3. CASE mask[i] = [lo |-> 0, hi |-> 0] /\ n = m + D
      <4>1. mask[i].lo = 0 /\ mask[i].hi = 0  BY <3>3
      <4>2. 0..(0 - 1) = {}  OBVIOUS
      <4>3. {j + D : j \in 0..(0 - 1)} = {}  BY <4>2
      <4>4. (m + D)..(m + D - 1) = {}  BY <1>9
      <4>5. QED  BY <3>1, <3>3, <4>1, <4>3, <4>4
    <3>4. QED  BY <2>3, <3>2, <3>3
  <2>8. ASSUME NEW a \in 0..(2^(m + D) - 1)
        PROVE  Answer(s, t, a)' <=> (place[i].base <= a /\ a < place[i].base + 2^n)
    <3>1. Answer(s, t, a)' <=> Selects(i, a \div 2^D)
      BY <1>1, <1>4, <2>2 DEF Answer, Selects, Bits
    <3>2. QED  BY <1>2, <1>3, <1>6, <1>7, <2>1, <3>1, <1>1, EndedDecodes
  <2>9. IF Below(c) = 0 THEN Length(c) <= 2^n ELSE TreeWidth(Below(c)) <= n
    <3>1. MaxLg \in Nat  BY DEF MaxLg
    <3>2. n <= MaxLg  BY <1>6, <1>9, <2>3, <3>1
    <3>3. QED  BY <1>1, <2>1, <2>3, <3>2, RoomAsked
  <2>10. Below(c)' = Below(c) /\ Length(c)' = Length(c) /\ Comps' = Comps
    BY <1>2 DEF Below, Length, Comps
  <2>11. IF Below(c)' = 0 THEN Length(c)' <= 2^n
         ELSE Below(c)' \in assigned' /\ TreeWidth(Below(c))' <= n
    BY <1>2, <1>10, <2>4, <2>9, <2>10
  <2>12. design'.comps[c].bus = t /\ c \in Comps'  BY <1>2, <2>4, <2>10
  <2>13. \A a \in 0..(2^(m + D) - 1) : Answer(s, t, a)' <=>
           (place[i].base <= a /\ a < place[i].base + 2^n)
    BY <2>8
  <2>14. SlaveSound(t, s)'
    <3>1. s.comp \in Comps' /\ design'.comps[s.comp].bus = t  BY <2>2, <2>12
    <3>2. /\ s.base \in Nat /\ SlaveLines(t, s)' \in Nat
          /\ s.base % 2^SlaveLines(t, s)' = 0
      BY <2>2, <2>3, <2>5
    <3>3. SlaveEnd(t, s)' <= 2^TreeWidth(t)'  BY <1>5, <2>3, <2>6
    <3>4. IF Below(s.comp)' = 0 THEN Length(s.comp)' <= 2^SlaveLines(t, s)'
          ELSE Below(s.comp)' \in assigned' /\ TreeWidth(Below(s.comp))' <= SlaveLines(t, s)'
      BY <2>2, <2>5, <2>11
    <3>5. MaskBits(t, s.mask)' = SlaveLines(t, s)'..(TreeWidth(t)' - 1)
      <4>1. m + D - 1 = (m + D) - 1  BY <1>9
      <4>2. QED  BY <1>5, <2>5, <2>7, <4>1
    <3>6. \A a \in 0..(2^TreeWidth(t)' - 1) :
            Answer(s, t, a)' <=> (s.base <= a /\ a < SlaveEnd(t, s)')
      BY <1>5, <2>2, <2>6, <2>13
    <3>7. QED  BY <3>1, <3>2, <3>3, <3>4, <3>5, <3>6 DEF SlaveSound
  <2>15. SlaveSound(t, layout[t][i])' /\ SlaveEnd(t, layout[t][i])' = SlaveEnd(t, s)'
    BY <2>2, <2>14
  <2>16. QED  BY <2>1, <2>2, <2>3, <2>6, <2>15
<1>12. ASSUME NEW i \in 1..Len(list), NEW j \in 1..Len(list), i < j
       PROVE  SlaveEnd(t, layout[t][i])' <= layout'[t][j].base
  <2>1. SlavesDisjoint /\ Len(place) = Len(list)
    BY <1>2, <1>3, <1>6, <1>7, <1>8, <1>1, EndedSound DEF LayoutInv
  <2>2. place[i].base + 2^place[i].bits <= place[j].base
    BY <1>12, <2>1 DEF SlavesDisjoint
  <2>3. QED  BY <1>11, <2>2
<1>13. LaidOut(t)'  BY <1>2, <1>11, <1>12 DEF LaidOut
<1>14. QED  BY <1>1, <1>9, <1>13

(* What the recursion over the buses keeps: the slaves of a bus are those  *)
(* that name it, every bus waits for one that comes after it, no bus that  *)
(* is being assigned has been assigned, and one bus is laid out at a time, *)
(* with slaves whose own buses have their addresses.                       *)
TreeSlaves ==
  /\ slaves \in [TreeBuses -> Seq(Comps)]
  /\ \A b \in TreeBuses : \A i \in 1..Len(slaves[b]) : design.comps[slaves[b][i]].bus = b

TreeStack ==
  /\ stack \in Seq(TreeBuses)
  /\ \A i \in 1..Len(stack) : stack[i] \notin assigned
  /\ \A i, j \in 1..Len(stack) : i < j => stack[i] < stack[j]

TreeControl ==
  /\ stage # "assign" => stack = <<>>
  /\ list = <<>> => pc = "done"
  /\ list # <<>> => stack # <<>> /\ PlistSound

TreeInv == TreeSound /\ TreeSlaves /\ TreeStack /\ TreeControl

(* The layout of a bus is not disturbed by what happens on the others.     *)
LEMMA LaidOutKept ==
  ASSUME TreeSound, design' = design, assigned \subseteq assigned',
         NEW b \in TreeBuses, layout'[b] = layout[b], width'[b] = width[b],
         \A c \in assigned : width'[c] = width[c]
  PROVE  LaidOut(b)'
<1>1. /\ Comps' = Comps /\ TreeBuses' = TreeBuses
      /\ \A c : Below(c)' = Below(c) /\ Length(c)' = Length(c) /\ WordBits(c)' = WordBits(c)
  BY DEF Comps, TreeBuses, Below, Length, WordBits
<1>2. \A c \in assigned : TreeWidth(c)' = TreeWidth(c)  BY <1>1 DEF TreeWidth
<1>3. TreeWidth(b)' = TreeWidth(b)  BY <1>1 DEF TreeWidth
<1>4. ASSUME NEW i \in DOMAIN layout[b]
      PROVE  SlaveSound(b, layout[b][i])' /\ SlaveEnd(b, layout[b][i])' = SlaveEnd(b, layout[b][i])
  <2>1. PICK s : s = layout[b][i] /\ s = layout'[b][i]  OBVIOUS
  <2>2. SlaveSound(b, s)  BY <2>1 DEF TreeSound, LaidOut
  <2>3. SlaveLines(b, s)' = SlaveLines(b, s)  BY <1>1, <1>3 DEF SlaveLines
  <2>4. SlaveEnd(b, s)' = SlaveEnd(b, s)  BY <2>3 DEF SlaveEnd
  <2>5. MaskBits(b, s.mask)' = MaskBits(b, s.mask)  BY <1>1 DEF MaskBits
  <2>6. \A a : Answer(s, b, a)' <=> Answer(s, b, a)  BY <1>1 DEF Answer, Bits
  <2>7. s.comp \in Comps' /\ design'.comps[s.comp].bus = b
    BY <1>1, <2>2 DEF SlaveSound
  <2>8. IF Below(s.comp)' = 0 THEN Length(s.comp)' <= 2^SlaveLines(b, s)'
        ELSE Below(s.comp)' \in assigned' /\ TreeWidth(Below(s.comp))' <= SlaveLines(b, s)'
    <3>1. IF Below(s.comp) = 0 THEN Length(s.comp) <= 2^SlaveLines(b, s)
          ELSE Below(s.comp) \in assigned /\ TreeWidth(Below(s.comp)) <= SlaveLines(b, s)
      BY <2>2 DEF SlaveSound
    <3>2. PICK m : m = Below(s.comp) /\ m = Below(s.comp)'  BY <1>1
    <3>3. m \in assigned => TreeWidth(m)' = TreeWidth(m)  BY <1>2
    <3>4. QED  BY <1>1, <2>3, <3>1, <3>2, <3>3
  <2>9. SlaveSound(b, s)'
    <3>1. s.base \in Nat /\ SlaveLines(b, s)' \in Nat /\ s.base % 2^SlaveLines(b, s)' = 0
      BY <2>2, <2>3 DEF SlaveSound
    <3>2. SlaveEnd(b, s)' <= 2^TreeWidth(b)'  BY <1>3, <2>2, <2>4 DEF SlaveSound
    <3>3. MaskBits(b, s.mask)' = SlaveLines(b, s)'..(TreeWidth(b)' - 1)
      BY <1>3, <2>2, <2>3, <2>5 DEF SlaveSound
    <3>4. \A a \in 0..(2^TreeWidth(b)' - 1) :
            Answer(s, b, a)' <=> (s.base <= a /\ a < SlaveEnd(b, s)')
      BY <1>3, <2>2, <2>4, <2>6 DEF SlaveSound
    <3>5. QED  BY <2>7, <2>8, <3>1, <3>2, <3>3, <3>4 DEF SlaveSound
  <2>10. QED  BY <2>1, <2>4, <2>9
<1>5. \A i, j \in DOMAIN layout[b] :
        i < j => SlaveEnd(b, layout[b][i]) <= layout[b][j].base
  BY DEF TreeSound, LaidOut
<1>6. QED  BY <1>4, <1>5 DEF LaidOut

LEMMA TreeSoundKept ==
  ASSUME TreeSound, UNCHANGED <<design, width, layout>>,
         assigned \subseteq assigned', assigned' \subseteq TreeBuses
  PROVE  TreeSound'
<1>1. TreeBuses' = TreeBuses  BY DEF TreeBuses
<1>2. \A b \in TreeBuses : LaidOut(b)'  BY LaidOutKept
<1>3. QED  BY <1>1, <1>2 DEF TreeSound

(* At first nothing has been added, and nothing is assigned.               *)
LEMMA TreeInvInit ==
  ASSUME TreeInit
  PROVE  TreeInv
<1> USE DEF TreeInit, Idle
<1>1. DOMAIN layout = TreeBuses  OBVIOUS
<1>2. TreeSound  BY DEF TreeSound, LaidOut
<1>3. TreeSlaves  BY DEF TreeSlaves
<1>4. TreeStack  BY DEF TreeStack
<1>5. QED  BY <1>2, <1>3, <1>4 DEF TreeInv, TreeControl

(* A step that leaves buses, slaves and addresses alone.                   *)
LEMMA TreeQuiet ==
  ASSUME TreeInv, UNCHANGED <<design, slaves, assigned, width, layout, stack, vars>>,
         stage' # "assign" => stack = <<>>
  PROVE  TreeInv'
<1>1. TreeBuses' = TreeBuses /\ Comps' = Comps  BY DEF TreeBuses, Comps
<1>2. TreeSound'
  <2>1. TreeSound /\ assigned' \subseteq TreeBuses  BY DEF TreeInv, TreeSound
  <2>2. QED  BY <2>1, TreeSoundKept
<1>3. TreeSlaves'  BY <1>1 DEF TreeInv, TreeSlaves
<1>4. TreeStack'  BY <1>1 DEF TreeInv, TreeStack
<1>5. PlistSound => PlistSound'
  <2>1. UNCHANGED vars /\ Top' = Top  BY DEF Top
  <2>2. TypeOK => TypeOK'  BY <2>1 DEF TypeOK, vars
  <2>3. LayoutInv => LayoutInv'
    BY <2>1 DEF LayoutInv, NothingPlaced, RegionSound, BelowStart, SlavesDisjoint,
                AddressWidth, DAddrABits, vars
  <2>4. EndedWell => EndedWell'
    BY <2>1 DEF EndedWell, EndedEmpty, EndedAlone, EndedTrimmed, AddressWidth, DAddrABits, vars
  <2>5. \A s : SlaveAsked(s) => SlaveAsked(s)'
    BY <1>1, <2>1 DEF SlaveAsked, NAddr, Below, SubbusNAddr, WordBits
  <2>6. QED  BY <1>1, <2>1, <2>2, <2>3, <2>4, <2>5 DEF PlistSound, vars
<1>6. TreeControl'  BY <1>5 DEF TreeInv, TreeControl, vars
<1>7. QED  BY <1>2, <1>3, <1>4, <1>6 DEF TreeInv

LEMMA AddSlaveKeeps ==
  ASSUME TreeInv, AddSlave
  PROVE  TreeInv'
<1>1. /\ stage = "add" /\ stack = <<>> /\ item \in Comps /\ stage' = stage
      /\ UNCHANGED <<design, stack, width, layout, vars>>
      /\ assigned' = IF Asks THEN assigned \cup {Below(item)} ELSE assigned
  BY DEF AddSlave
<1>2. TreeSound /\ TreeSlaves /\ design \in Designs  BY DEF TreeInv, TreeSound
<1>3. TreeBuses' = TreeBuses /\ Comps' = Comps  BY <1>1 DEF TreeBuses, Comps
<1>4. TreeSound'
  <2>1. Below(item) # 0 => Below(item) \in TreeBuses  BY <1>1, <1>2, DesignFacts
  <2>2. assigned \subseteq assigned' /\ assigned' \subseteq TreeBuses
    BY <1>1, <1>2, <2>1 DEF TreeSound, Asks
  <2>3. QED  BY <1>1, <1>2, <2>2, TreeSoundKept
<1>5. PICK b \in TreeBuses : b = design.comps[item].bus  BY <1>1, <1>2, DesignFacts
<1>6. slaves' = [slaves EXCEPT ![b] = Append(slaves[b], item)]
  BY <1>5 DEF AddSlave
<1>7. TreeSlaves'
  <2>1. ASSUME NEW a \in TreeBuses
        PROVE  /\ slaves'[a] \in Seq(Comps)
               /\ \A i \in 1..Len(slaves'[a]) : design.comps[slaves'[a][i]].bus = a
    <3>1. PICK l \in Seq(Comps) : l = slaves[a]  BY <1>2 DEF TreeSlaves
    <3>2. \A i \in 1..Len(l) : design.comps[l[i]].bus = a  BY <1>2, <3>1 DEF TreeSlaves
    <3>3. CASE a # b
      <4>1. slaves'[a] = l  BY <1>2, <1>6, <3>1, <3>3 DEF TreeSlaves
      <4>2. QED  BY <3>2, <4>1
    <3>4. CASE a = b
      <4>1. slaves'[a] = Append(l, item)  BY <1>2, <1>5, <1>6, <3>1, <3>4 DEF TreeSlaves
      <4>2. Append(l, item) \in Seq(Comps) /\ Len(Append(l, item)) = Len(l) + 1
        BY <1>1
      <4>3. \A i \in 1..(Len(l) + 1) : Append(l, item)[i] = IF i <= Len(l) THEN l[i] ELSE item
        BY <1>1
      <4>4. design.comps[item].bus = a  BY <1>5, <3>4
      <4>5. \A i \in 1..(Len(l) + 1) : design.comps[Append(l, item)[i]].bus = a
        BY <3>2, <4>3, <4>4
      <4>6. QED  BY <4>1, <4>2, <4>5
    <3>5. QED  BY <3>3, <3>4
  <2>2. slaves' = [a \in TreeBuses |-> slaves'[a]]  BY <1>2, <1>6 DEF TreeSlaves
  <2>3. slaves' \in [TreeBuses -> Seq(Comps)]  BY <2>1, <2>2
  <2>4. QED  BY <1>1, <1>3, <2>1, <2>3 DEF TreeSlaves
<1>8. TreeStack'  BY <1>1 DEF TreeStack
<1>9. TreeControl'  BY <1>1 DEF TreeInv, TreeControl, vars
<1>10. QED  BY <1>4, <1>7, <1>8, <1>9 DEF TreeInv

LEMMA AssignBusKeeps ==
  ASSUME TreeInv, AssignBus
  PROVE  TreeInv'
<1>1. /\ stage = "assign" /\ stack = <<>> /\ item \in TreeBuses /\ stage' = stage
      /\ UNCHANGED <<design, slaves, width, layout, assigned, vars>>
      /\ stack' = IF design.order[item] \in assigned THEN <<>> ELSE <<design.order[item]>>
  BY DEF AssignBus, tree
<1>2. TreeSound /\ TreeSlaves /\ design \in Designs  BY DEF TreeInv, TreeSound
<1>3. TreeBuses' = TreeBuses /\ Comps' = Comps  BY <1>1 DEF TreeBuses, Comps
<1>4. TreeSound'
  <2>1. assigned' = assigned /\ assigned \subseteq TreeBuses  BY <1>1, <1>2 DEF TreeSound
  <2>2. QED  BY <1>1, <1>2, <2>1, TreeSoundKept
<1>5. TreeSlaves'  BY <1>1, <1>2, <1>3 DEF TreeSlaves
<1>6. TreeStack'
  <2>1. design.order[item] \in TreeBuses  BY <1>1, <1>2, DesignFacts
  <2>2. QED  BY <1>1, <1>3, <2>1 DEF TreeStack
<1>7. TreeControl'  BY <1>1 DEF TreeInv, TreeControl, vars
<1>8. QED  BY <1>4, <1>5, <1>6, <1>7 DEF TreeInv

(* A bus waits only for one that comes after it, and is not assigned.      *)
LEMMA WaitingBelow ==
  ASSUME TreeInv, stack # <<>>, Waiting # {},
         NEW m, m = Below(slaves[Top][Min(Waiting)])
  PROVE  m \in TreeBuses /\ m \notin assigned /\ m > Top
<1>1. Top \in TreeBuses /\ design \in Designs
  <2>1. stack \in Seq(TreeBuses)  BY DEF TreeInv, TreeStack
  <2>2. Len(stack) \in 1..Len(stack)  BY <2>1
  <2>3. QED  BY <2>1, <2>2 DEF Top, Last, TreeInv, TreeSound
<1>2. PICK t \in TreeBuses : t = Top  BY <1>1
<1>3. PICK l \in Seq(Comps) : l = slaves[t]  BY DEF TreeInv, TreeSlaves
<1>4. \A i \in 1..Len(l) : design.comps[l[i]].bus = t  BY <1>3 DEF TreeInv, TreeSlaves
<1>5. Waiting = {i \in 1..Len(l) : Below(l[i]) # 0 /\ Below(l[i]) \notin assigned}
  BY <1>2, <1>3 DEF Waiting
<1>6. PICK k : k = Min(Waiting)  OBVIOUS
<1>7. k \in Waiting
  <2>1. Waiting \subseteq Nat  BY <1>5
  <2>2. \E n \in Waiting : \A j \in Waiting : n <= j  BY <2>1, LeastNatural
  <2>3. QED  BY <1>6, <2>2 DEF Min
<1>8. k \in 1..Len(l) /\ m = Below(l[k]) /\ m # 0 /\ m \notin assigned
  BY <1>2, <1>3, <1>5, <1>6, <1>7
<1>9. l[k] \in Comps /\ design.comps[l[k]].bus = t  BY <1>4, <1>8
<1>10. QED  BY <1>1, <1>2, <1>8, <1>9, DesignFacts

LEMMA CallSubbusKeeps ==
  ASSUME TreeInv, CallSubbus
  PROVE  TreeInv'
<1> DEFINE m == Below(slaves[Top][Min(Waiting)])
<1>1. /\ stack # <<>> /\ list = <<>> /\ Waiting # {}
      /\ UNCHANGED <<design, stage, slaves, width, layout, assigned, vars>>
      /\ stack' = Append(stack, m)
  BY DEF CallSubbus, Working, tree
<1>2. m \in TreeBuses /\ m \notin assigned /\ m > Top  BY <1>1, WaitingBelow
<1> HIDE DEF m
<1>3. TreeSound /\ TreeSlaves /\ TreeStack /\ design \in Designs  BY DEF TreeInv, TreeSound
<1>4. TreeBuses' = TreeBuses /\ Comps' = Comps  BY <1>1 DEF TreeBuses, Comps
<1>5. TreeSound'
  <2>1. assigned' = assigned /\ assigned \subseteq TreeBuses  BY <1>1, <1>3 DEF TreeSound
  <2>2. QED  BY <1>1, <1>3, <2>1, TreeSoundKept
<1>6. TreeSlaves'  BY <1>1, <1>3, <1>4 DEF TreeSlaves
<1>7. TreeStack'
  <2>1. stack \in Seq(TreeBuses) /\ stack' \in Seq(TreeBuses) /\ Len(stack') = Len(stack) + 1
    BY <1>1, <1>2, <1>3 DEF TreeStack
  <2>2. \A i \in 1..(Len(stack) + 1) :
          stack'[i] = IF i <= Len(stack) THEN stack[i] ELSE m
    BY <1>1, <1>2, <2>1
  <2>3. \A i \in 1..(Len(stack) + 1) : stack'[i] \notin assigned'
    BY <1>1, <1>2, <1>3, <2>1, <2>2 DEF TreeStack
  <2>4. ASSUME NEW i \in 1..(Len(stack) + 1), NEW j \in 1..(Len(stack) + 1), i < j
        PROVE  stack'[i] < stack'[j]
    <3>1. TreeBuses \subseteq Nat  BY <1>3, DesignFacts
    <3>2. \A x \in 1..Len(stack) : stack[x] \in Nat
      <4>1. \A x \in 1..Len(stack) : stack[x] \in TreeBuses  BY <2>1
      <4>2. QED  BY <3>1, <4>1
    <3>3. Top = stack[Len(stack)] /\ Len(stack) \in 1..Len(stack)
      BY <1>1, <2>1 DEF Top, Last
    <3>4. Top \in Nat /\ m \in Nat /\ \A x \in 1..Len(stack) : stack[x] <= Top
      <4>1. Top \in Nat /\ m \in Nat  BY <1>2, <3>1, <3>2, <3>3
      <4>2. ASSUME NEW x \in 1..Len(stack) PROVE stack[x] <= Top
        <5>1. x < Len(stack) => stack[x] < stack[Len(stack)]
          BY <1>3, <3>3 DEF TreeStack
        <5>2. stack[x] \in Nat  BY <3>2
        <5>3. QED  BY <2>1, <3>3, <4>1, <5>1, <5>2
      <4>3. QED  BY <4>1, <4>2
    <3>5. CASE j <= Len(stack)
      <4>1. i \in 1..Len(stack) /\ j \in 1..Len(stack)  BY <2>1, <2>4, <3>5
      <4>2. stack[i] < stack[j]  BY <1>3, <2>4, <4>1 DEF TreeStack
      <4>3. QED  BY <2>2, <4>1, <4>2
    <3>6. CASE ~(j <= Len(stack))
      <4>1. i \in 1..Len(stack)  BY <2>1, <2>4, <3>6
      <4>2. stack'[i] = stack[i] /\ stack'[j] = m  BY <2>2, <3>6, <4>1
      <4>3. QED  BY <1>2, <3>2, <3>4, <4>1, <4>2
    <3>7. QED  BY <3>5, <3>6
  <2>5. QED  BY <1>4, <2>1, <2>3, <2>4 DEF TreeStack
<1>8. TreeControl'
  <2>1. stage = "assign" /\ list' = <<>> /\ pc' = "done"
    BY <1>1 DEF TreeInv, TreeControl, vars
  <2>2. QED  BY <1>1, <2>1 DEF TreeControl
<1>9. QED  BY <1>5, <1>6, <1>7, <1>8 DEF TreeInv

(* The bus on top of the stack is assigned, and popped.                    *)
LEMMA TopType ==
  ASSUME TreeInv, stack # <<>>
  PROVE  /\ Top \in TreeBuses /\ Top \notin assigned /\ layout[Top] = <<>>
         /\ Len(stack) \in 1..Len(stack) /\ Top = stack[Len(stack)]
<1>1. stack \in Seq(TreeBuses)  BY DEF TreeInv, TreeStack
<1>2. Len(stack) \in 1..Len(stack) /\ Top = stack[Len(stack)]  BY <1>1 DEF Top, Last
<1>3. Top \in TreeBuses /\ Top \notin assigned  BY <1>1, <1>2 DEF TreeInv, TreeStack
<1>4. QED  BY <1>2, <1>3 DEF TreeInv, TreeSound

LEMMA PoppedStack ==
  ASSUME TreeInv, stack # <<>>, design' = design, stack' = Front(stack),
         assigned' = assigned \cup {Top}
  PROVE  TreeStack'
<1>1. stack \in Seq(TreeBuses) /\ Len(stack) \in 1..Len(stack) /\ Top = stack[Len(stack)]
  BY TopType DEF TreeInv, TreeStack
<1>2. stack' \in Seq(TreeBuses) /\ Len(stack') = Len(stack) - 1
  <2>1. PICK n \in Nat : n = Len(stack) - 1 /\ n <= Len(stack)
    <3>1. Len(stack) - 1 \in Nat  BY <1>1
    <3>2. QED  BY <1>1, <3>1
  <2>2. stack' = SubSeq(stack, 1, n)  BY <2>1 DEF Front
  <2>3. SubSeq(stack, 1, n) \in Seq(TreeBuses) /\ Len(SubSeq(stack, 1, n)) = n
    BY <1>1, <2>1
  <2>4. QED  BY <2>1, <2>2, <2>3
<1>3. \A i \in 1..(Len(stack) - 1) : stack'[i] = stack[i]  BY <1>1 DEF Front
<1>4. TreeBuses \subseteq Nat  BY DesignFacts DEF TreeInv, TreeSound
<1>5. ASSUME NEW i \in 1..(Len(stack) - 1) PROVE stack'[i] \notin assigned'
  <2>1. i \in 1..Len(stack) /\ i < Len(stack)  BY <1>1
  <2>2. stack[i] \notin assigned /\ stack[i] < Top  BY <1>1, <2>1 DEF TreeInv, TreeStack
  <2>3. stack[i] \in Nat /\ Top \in Nat
    <3>1. stack[i] \in TreeBuses /\ Top \in TreeBuses  BY <1>1, <2>1
    <3>2. QED  BY <1>4, <3>1
  <2>4. QED  BY <1>3, <2>2, <2>3
<1>6. ASSUME NEW i \in 1..(Len(stack) - 1), NEW j \in 1..(Len(stack) - 1), i < j
      PROVE  stack'[i] < stack'[j]
  <2>1. i \in 1..Len(stack) /\ j \in 1..Len(stack)  BY <1>1
  <2>2. QED  BY <1>3, <1>6, <2>1 DEF TreeInv, TreeStack
<1>7. QED  BY <1>2, <1>5, <1>6 DEF TreeStack, TreeBuses

LEMMA AssignEmptyKeeps ==
  ASSUME TreeInv, AssignEmpty
  PROVE  TreeInv'
<1>1. /\ stack # <<>> /\ list = <<>> /\ pc = "done" /\ assigned' = assigned \cup {Top}
      /\ stack' = Front(stack)
      /\ UNCHANGED <<design, stage, slaves, width, layout, vars>>
  BY DEF AssignEmpty, Working
<1>2. TreeBuses' = TreeBuses /\ Comps' = Comps  BY <1>1 DEF TreeBuses, Comps
<1>3. TreeSound'
  <2>1. TreeSound /\ assigned \subseteq assigned' /\ assigned' \subseteq TreeBuses
    BY <1>1, TopType DEF TreeInv, TreeSound
  <2>2. QED  BY <1>1, <2>1, TreeSoundKept
<1>4. TreeSlaves'  BY <1>1, <1>2 DEF TreeInv, TreeSlaves
<1>5. TreeStack'  BY <1>1, PoppedStack
<1>6. TreeControl'
  <2>1. stage = "assign" /\ list' = <<>> /\ pc' = "done"
    BY <1>1 DEF TreeInv, TreeControl, vars
  <2>2. QED  BY <1>1, <2>1 DEF TreeControl
<1>7. QED  BY <1>3, <1>4, <1>5, <1>6 DEF TreeInv

(* Asked for its width, a component gives address lines: its own NADDR, or *)
(* what the bus below it has been found to need.                           *)
LEMMA NAddrPositive ==
  ASSUME TreeInv, LinesFit, NEW c \in Comps,
         Below(c) # 0 => Below(c) \in assigned
  PROVE  NAddr(design.comps[c].bus, c) \in Nat \ {0}
<1>1. TreeSound /\ design \in Designs  BY DEF TreeInv, TreeSound
<1>2. /\ design.comps[c] \in Comp /\ design.comps[c].bus \in TreeBuses
      /\ Below(c) = 0 => design.comps[c].naddr > 0
      /\ Below(c) # 0 => Below(c) \in TreeBuses
  BY <1>1, DesignFacts
<1>3. CASE Below(c) = 0  BY <1>2, <1>3 DEF NAddr, Comp
<1>4. CASE Below(c) # 0
  <2>1. PICK lg \in Nat : lg = design.buses[design.comps[c].bus].lgdw
    BY <1>1, <1>2, TreeFacts DEF Bus
  <2>2. PICK w \in Nat : w = width[Below(c)] + WordBits(Below(c)) /\ w = TreeWidth(Below(c))
    BY <1>1, <1>2, <1>4, TreeFacts DEF TreeWidth
  <2>3. lg <= w  BY <1>4, <2>1, <2>2 DEF LinesFit
  <2>4. w - lg \in Nat  BY <2>3
  <2>5. 2^(w - lg) \in Nat /\ 2^(w - lg) > 0  BY <2>4, PowerPositive
  <2>6. NAddr(design.comps[c].bus, c) = 2^(w - lg)
    <3>1. width[Below(c)] \in Nat /\ WordBits(Below(c)) \in Nat
      BY <1>1, <1>2, <1>4, TreeFacts DEF TreeSound
    <3>2. width[Below(c)] + WordBits(Below(c)) - design.buses[design.comps[c].bus].lgdw = w - lg
      BY <2>1, <2>2, <3>1
    <3>3. QED  BY <1>4, <3>2 DEF NAddr, SubbusNAddr
  <2>7. QED  BY <2>5, <2>6
<1>5. QED  BY <1>3, <1>4

LEMMA StartPlistKeeps ==
  ASSUME TreeInv, LinesFit, StartPlist
  PROVE  TreeInv'
<1>1. PICK t : t = Top  OBVIOUS
<1>2. /\ stack # <<>> /\ Waiting = {} /\ slaves[t] # <<>>
      /\ UNCHANGED <<design, stage, stack, slaves, width, layout, assigned>>
      /\ bus' = design.buses[t] /\ pc' = "start"
      /\ list' = [i \in DOMAIN slaves[t] |->
                    [name |-> slaves[t][i], naddr |-> NAddr(t, slaves[t][i]),
                     ordered |-> FALSE, order |-> 0]]
      /\ mina' = 0 /\ min_awd' = 0 /\ min_asz' = 0 /\ min_relevant' = 0
      /\ start_address' = 0 /\ place' = <<>> /\ mask' = <<>> /\ m_address_width' = 0
  BY <1>1 DEF StartPlist, Working, control, tree
<1>3. TreeBuses' = TreeBuses /\ Comps' = Comps  BY <1>2 DEF TreeBuses, Comps
<1>4. TreeSound'
  <2>1. TreeSound /\ assigned' = assigned /\ assigned \subseteq TreeBuses
    BY <1>2 DEF TreeInv, TreeSound
  <2>2. QED  BY <1>2, <2>1, TreeSoundKept
<1>5. TreeSlaves'  BY <1>2, <1>3 DEF TreeInv, TreeSlaves
<1>6. TreeStack'  BY <1>2, <1>3 DEF TreeInv, TreeStack
<1>7. t \in TreeBuses /\ t \notin assigned /\ design \in Designs
  BY <1>1, <1>2, TopType DEF TreeInv, TreeSound
<1>8. PICK l \in Seq(Comps) : l = slaves[t]  BY <1>7 DEF TreeInv, TreeSlaves
<1>9. /\ Len(l) \in Nat /\ Len(l) > 0 /\ DOMAIN l = 1..Len(l)
      /\ \A i \in 1..Len(l) : l[i] \in Comps
  BY <1>2, <1>8
<1>10. \A i \in 1..Len(l) : design.comps[l[i]].bus = t
  BY <1>7, <1>8 DEF TreeInv, TreeSlaves
<1>11. \A i \in 1..Len(l) : Below(l[i]) # 0 => Below(l[i]) \in assigned
  BY <1>1, <1>2, <1>8, <1>9 DEF Waiting
<1>12. \A i \in 1..Len(l) : NAddr(t, l[i]) \in Nat \ {0}
  BY <1>9, <1>10, <1>11, NAddrPositive
<1>13. list' = [i \in 1..Len(l) |-> [name |-> l[i], naddr |-> NAddr(t, l[i]),
                                     ordered |-> FALSE, order |-> 0]]
  BY <1>2, <1>8, <1>9
<1>14. list' \in Seq(Slave) /\ Len(list') = Len(l) /\ list' # <<>>
  <2>1. Comps \subseteq Nat  BY <1>7, DesignFacts
  <2>2. \A i \in 1..Len(l) : [name |-> l[i], naddr |-> NAddr(t, l[i]),
                              ordered |-> FALSE, order |-> 0] \in Slave
    <3> TAKE i \in 1..Len(l)
    <3>1. PICK n \in Nat \ {0} : n = NAddr(t, l[i])  BY <1>12
    <3>2. l[i] \in Nat  BY <1>9, <2>1
    <3>3. QED  BY <3>1, <3>2 DEF Slave
  <2>3. QED  BY <1>9, <1>13, <2>2
<1>15. TypeOK'
  <2>1. bus' \in Bus  BY <1>2, <1>7, DesignFacts
  <2>2. QED  BY <1>2, <1>14, <2>1 DEF TypeOK
<1>16. LayoutInv'
  <2>1. bus' \in Buses  BY <1>2, <1>7, DesignFacts
  <2>2. QED  BY <1>2, <2>1 DEF LayoutInv, NothingPlaced, BelowStart, SlavesDisjoint
<1>17. EndedWell'  BY <1>2 DEF EndedWell
<1>18. Top' = t  BY <1>1, <1>2 DEF Top
<1>19. ASSUME NEW i \in 1..Len(l) PROVE SlaveAsked(list[i])'
  <2>1. list'[i].name = l[i] /\ list'[i].naddr = NAddr(t, l[i])  BY <1>13
  <2>2. \A c : NAddr(t, c)' = NAddr(t, c) /\ Below(c)' = Below(c)
    BY <1>2 DEF NAddr, Below, SubbusNAddr, WordBits
  <2>3. QED  BY <1>2, <1>3, <1>9, <1>10, <1>11, <1>18, <2>1, <2>2 DEF SlaveAsked
<1>20. PlistSound'
  BY <1>2, <1>3, <1>7, <1>14, <1>15, <1>16, <1>17, <1>18, <1>19 DEF PlistSound
<1>21. TreeControl'
  <2>1. stage' = "assign" /\ stack' # <<>>
    BY <1>2 DEF TreeInv, TreeControl
  <2>2. QED  BY <1>14, <1>20, <2>1 DEF TreeControl
<1>22. QED  BY <1>4, <1>5, <1>6, <1>21 DEF TreeInv

(* A step of assign_addresses() on the bus that is laid out.               *)
LEMMA PlistStepKeeps ==
  ASSUME WideBuses, TreeInv, PlistStep
  PROVE  TreeInv'
<1>1. Next /\ UNCHANGED <<design, stage, stack, slaves, width, layout, assigned>>
  BY DEF PlistStep, control, tree
<1>2. list # <<>>
  <2>1. pc # "done"
    BY <1>1 DEF Next, AssignNone, AssignOnly, SortSlaves, Search, SearchDone, Assign, Trim
  <2>2. QED  BY <2>1 DEF TreeInv, TreeControl
<1>3. PlistSound /\ TypeOK /\ LayoutInv /\ EndedWell
  BY <1>2 DEF TreeInv, TreeControl, PlistSound
<1>4. TreeBuses' = TreeBuses /\ Comps' = Comps /\ Top' = Top
  BY <1>1 DEF TreeBuses, Comps, Top
<1>5. TreeSound'
  <2>1. TreeSound /\ assigned' = assigned /\ assigned \subseteq TreeBuses
    BY <1>1 DEF TreeInv, TreeSound
  <2>2. QED  BY <1>1, <2>1, TreeSoundKept
<1>6. TreeSlaves'  BY <1>1, <1>4 DEF TreeInv, TreeSlaves
<1>7. TreeStack'  BY <1>1, <1>4 DEF TreeInv, TreeStack
<1>8. TypeOK'  BY <1>1, <1>3, TypeStep
<1>9. LayoutInv'  BY <1>1, <1>3, <1>8, LayoutStep
<1>10. EndedWell'  BY <1>1, <1>3, EndedKept
<1>11. bus' = bus
  BY <1>1 DEF Next, AssignNone, AssignOnly, SortSlaves, Search, SearchDone, Assign, Trim
<1>12. SlavesOf(list') = SlavesOf(list) /\ Len(list') = Len(list)
  <2>1. list' = list \/ list' \in Sortings(list)
    BY <1>1 DEF Next, AssignNone, AssignOnly, SortSlaves, Search, SearchDone, Assign, Trim
  <2>2. list \in Seq(Slave)  BY <1>3 DEF TypeOK
  <2>3. QED  BY <2>1, <2>2, SortingPermutes
<1>13. ASSUME NEW i \in 1..Len(list') PROVE SlaveAsked(list[i])'
  <2>1. PICK s : s = list'[i]  OBVIOUS
  <2>2. s \in SlavesOf(list)  BY <1>12, <2>1 DEF SlavesOf
  <2>3. SlaveAsked(s)  BY <1>3, <2>2 DEF SlavesOf, PlistSound
  <2>4. \A b, c : NAddr(b, c)' = NAddr(b, c) /\ Below(c)' = Below(c)
    BY <1>1 DEF NAddr, Below, SubbusNAddr, WordBits
  <2>5. QED  BY <1>1, <1>4, <2>1, <2>3, <2>4 DEF SlaveAsked
<1>14. PlistSound'
  BY <1>1, <1>3, <1>4, <1>8, <1>9, <1>10, <1>11, <1>13 DEF PlistSound
<1>15. list' # <<>>
  <2>1. list \in Seq(Slave) /\ list' \in Seq(Slave)  BY <1>3, <1>8 DEF TypeOK
  <2>2. Len(list) # 0  BY <1>2, <2>1
  <2>3. QED  BY <1>12, <2>1, <2>2
<1>16. stage' = "assign" /\ stack' # <<>>
  BY <1>1, <1>2 DEF TreeInv, TreeControl
<1>17. TreeControl'  BY <1>14, <1>15, <1>16 DEF TreeControl
<1>18. QED  BY <1>5, <1>6, <1>7, <1>17 DEF TreeInv

LEMMA EndPlistKeeps ==
  ASSUME WideBuses, TreeInv, LinesFit, LinesFit', EndPlist
  PROVE  TreeInv'
<1>1. stack # <<>> /\ list # <<>> /\ pc' = pc /\ stage' = stage  BY DEF EndPlist
<1>2. TreeSound /\ PlistSound /\ TypeOK  BY <1>1 DEF TreeInv, TreeControl, PlistSound
<1>3. PICK t, w : t = Top /\ w = m_address_width  OBVIOUS
<1>4. /\ design' = design /\ t \in TreeBuses /\ pc = "done"
      /\ assigned' = assigned \cup {t} /\ stack' = Front(stack) /\ list' = <<>>
      /\ \A b \in TreeBuses : width'[b] = IF b = t THEN w ELSE width[b]
      /\ width' = [b \in TreeBuses |-> width'[b]]
      /\ \A b \in TreeBuses : b # t => layout'[b] = layout[b] /\ slaves'[b] = slaves[b]
      /\ DOMAIN layout' = TreeBuses /\ DOMAIN layout'[t] = 1..Len(list)
  BY <1>2, <1>3, EndPlistWrites
<1>5. w \in Nat /\ LaidOut(t)'  BY <1>2, <1>3, EndedLaidOut
<1>6. t \notin assigned /\ assigned \subseteq TreeBuses  BY <1>1, <1>2, <1>3, TopType DEF TreeSound
<1>7. TreeBuses' = TreeBuses /\ Comps' = Comps  BY <1>4 DEF TreeBuses, Comps
<1>8. TreeSound'
  <2>1. width' \in [TreeBuses -> Nat]
    <3>1. \A b \in TreeBuses : width'[b] \in Nat  BY <1>2, <1>4, <1>5 DEF TreeSound
    <3>2. QED  BY <1>4, <3>1
  <2>2. ASSUME NEW b \in TreeBuses PROVE DOMAIN layout'[b] \subseteq Nat /\ LaidOut(b)'
    <3>1. CASE b = t  BY <1>4, <1>5, <3>1
    <3>2. CASE b # t
      <4>1. \A c \in assigned : width'[c] = width[c]  BY <1>4, <1>6
      <4>2. layout'[b] = layout[b] /\ width'[b] = width[b]  BY <1>4, <3>2
      <4>3. LaidOut(b)'  BY <1>2, <1>4, <4>1, <4>2, LaidOutKept
      <4>4. QED  BY <1>2, <4>2, <4>3 DEF TreeSound
    <3>3. QED  BY <3>1, <3>2
  <2>3. \A b \in TreeBuses : layout'[b] # <<>> => b \in assigned'
    BY <1>2, <1>4 DEF TreeSound
  <2>4. QED  BY <1>2, <1>4, <1>6, <1>7, <2>1, <2>2, <2>3 DEF TreeSound
<1>9. TreeSlaves'
  <2>1. DOMAIN slaves = TreeBuses  BY DEF TreeInv, TreeSlaves
  <2>2. slaves' = [slaves EXCEPT ![t] = [i \in DOMAIN list |-> list[i].name]]
    BY <1>3 DEF EndPlist
  <2>3. PICK l \in Seq(Slave) : l = list  BY <1>2 DEF TypeOK
  <2>4. \A i \in 1..Len(l) : l[i].name \in Comps /\ design.comps[l[i].name].bus = t
    BY <1>2, <1>3, <2>3 DEF PlistSound, SlaveAsked
  <2>5. slaves'[t] = [i \in 1..Len(l) |-> l[i].name]  BY <1>4, <2>1, <2>2, <2>3
  <2>6. /\ slaves'[t] \in Seq(Comps) /\ Len(slaves'[t]) = Len(l)
        /\ \A i \in 1..Len(l) : slaves'[t][i] = l[i].name
    BY <2>4, <2>5
  <2>7. ASSUME NEW b \in TreeBuses
        PROVE  /\ slaves'[b] \in Seq(Comps)
               /\ \A i \in 1..Len(slaves'[b]) : design.comps[slaves'[b][i]].bus = b
    <3>1. CASE b = t
      <4>1. \A i \in 1..Len(l) : design.comps[slaves'[t][i]].bus = t  BY <2>4, <2>6
      <4>2. QED  BY <2>6, <3>1, <4>1
    <3>2. CASE b # t
      <4>1. slaves'[b] = slaves[b]  BY <1>4, <3>2
      <4>2. QED  BY <4>1 DEF TreeInv, TreeSlaves
    <3>3. QED  BY <3>1, <3>2
  <2>8. slaves' = [b \in TreeBuses |-> slaves'[b]]  BY <2>2 DEF TreeInv, TreeSlaves
  <2>9. slaves' \in [TreeBuses -> Seq(Comps)]  BY <2>7, <2>8
  <2>10. QED  BY <1>4, <1>7, <2>7, <2>9 DEF TreeSlaves
<1>10. TreeStack'  BY <1>1, <1>3, <1>4, PoppedStack
<1>11. TreeControl'
  <2>1. stage' = "assign"  BY <1>1 DEF TreeInv, TreeControl
  <2>2. QED  BY <1>1, <1>4, <2>1 DEF TreeControl
<1>12. QED  BY <1>8, <1>9, <1>10, <1>11 DEF TreeInv

LEMMA TreeStep ==
  ASSUME WideBuses, TreeInv, LinesFit, LinesFit', [TreeNext]_treevars
  PROVE  TreeInv'
<1>1. CASE AddSlave  BY <1>1, AddSlaveKeeps
<1>2. CASE AssignBus  BY <1>2, AssignBusKeeps
<1>3. CASE CallSubbus  BY <1>3, CallSubbusKeeps
<1>4. CASE AssignEmpty  BY <1>4, AssignEmptyKeeps
<1>5. CASE StartPlist  BY <1>5, StartPlistKeeps
<1>6. CASE PlistStep  BY <1>6, PlistStepKeeps
<1>7. CASE EndPlist  BY <1>7, EndPlistKeeps
<1>8. CASE EndAdd  BY <1>8, TreeQuiet DEF EndAdd, tree
<1>9. CASE EndAssign  BY <1>9, TreeQuiet DEF EndAssign, tree
<1>10. CASE RegDefs \/ LdFile \/ Cachable
  <2>1. stage \in {"regdefs", "ld", "cachable"} /\ UNCHANGED <<design, stack, tree, vars>>
    BY <1>10 DEF RegDefs, LdFile, Cachable
  <2>2. stack = <<>>  BY <2>1 DEF TreeInv, TreeControl
  <2>3. QED  BY <2>1, <2>2, TreeQuiet DEF tree
<1>11. CASE UNCHANGED treevars
  <2>1. UNCHANGED <<design, stage, stack, tree, vars>>  BY <1>11 DEF treevars, control
  <2>2. stage' # "assign" => stack = <<>>  BY <2>1 DEF TreeInv, TreeControl
  <2>3. QED  BY <2>1, <2>2, TreeQuiet DEF tree
<1>12. CASE AddAborts  BY <1>12, TreeQuiet DEF AddAborts, tree
<1>13. QED
  BY <1>1, <1>2, <1>3, <1>4, <1>5, <1>6, <1>7, <1>8, <1>9, <1>10, <1>11, <1>12 DEF TreeNext

(* Every bus that has been assigned is laid out soundly, whatever order    *)
(* components and buses have and however the recursion went.               *)
THEOREM TreeLaidOut == WideBuses => (TreeSpec /\ []LinesFit => []TreeInv)
<1> SUFFICES ASSUME WideBuses PROVE TreeSpec /\ []LinesFit => []TreeInv  OBVIOUS
<1>1. TreeInit => TreeInv  BY TreeInvInit
<1>2. TreeInv /\ LinesFit /\ LinesFit' /\ [TreeNext]_treevars => TreeInv'  BY TreeStep
<1>3. QED  BY <1>1, <1>2, PTL DEF TreeSpec

(* What the walks of the tree find depends on the design and the layout    *)
(* alone, which the outputs leave as they are.                             *)
GatherOf(d, lay, bus0) ==
  LET found[b \in DOMAIN d.buses] == [base \in Nat |->
        UNION {LET s == lay[b][i]
                   addr == s.base + base
               IN  {[comp |-> s.comp, addr |-> addr]}
                   \cup (IF d.comps[s.comp].below # 0
                           THEN found[d.comps[s.comp].below][addr] ELSE {}) :
               i \in DOMAIN lay[b]}]
  IN  found[bus0][0]

LEMMA GatherKept ==
  ASSUME design' = design, layout' = layout, NEW b
  PROVE  Gather(b)' = Gather(b)
<1>1. Gather(b) = GatherOf(design, layout, b)  BY DEF Gather, GatherOf, TreeBuses, Below
<1>2. Gather(b)' = GatherOf(design', layout', b)  BY DEF Gather, GatherOf, TreeBuses, Below
<1>3. GatherOf(design', layout', b) = GatherOf(design, layout, b)  OBVIOUS
<1>4. QED  BY <1>1, <1>2, <1>3

RegionsOf(d, lay, bus0) ==
  LET bits(b) == IF d.buses[b].word THEN d.buses[b].lgdw ELSE 0
      below[b \in DOMAIN d.buses] == [r8 \in Region8 |->
        UNION {LET s == lay[b][i]
                   submask == {j + bits(b) : j \in s.mask.lo..(s.mask.hi - 1)} \cup r8.mask
                   sub == [mask |-> submask, addr |-> (BitSet(s.base) \cup r8.addr) \cap submask]
               IN  IF d.comps[s.comp].below # 0 THEN below[d.comps[s.comp].below][sub]
                   ELSE IF d.comps[s.comp].memory THEN {sub} ELSE {} :
               i \in DOMAIN lay[b]}]
  IN  below[bus0][[mask |-> {}, addr |-> {}]]

LEMMA RegionsKept ==
  ASSUME design' = design, layout' = layout, NEW b
  PROVE  Regions(b)' = Regions(b)
<1>1. Regions(b) = RegionsOf(design, layout, b)
  BY DEF Regions, RegionsOf, TreeBuses, Below, MaskBits, WordBits
<1>2. Regions(b)' = RegionsOf(design', layout', b)
  BY DEF Regions, RegionsOf, TreeBuses, Below, MaskBits, WordBits
<1>3. RegionsOf(design', layout', b) = RegionsOf(design, layout, b)  OBVIOUS
<1>4. QED  BY <1>1, <1>2, <1>3

(* Every address that is written is one that the walk of its bus found.    *)
FoundAt(c, a, b) == \E g \in Gather(b) : g.comp = c /\ g.addr = a

RegsFound ==
  \A r \in out.regs : FoundAt(r.comp, r.base, design.regbus)

RangesFound ==
  \A m \in out.ranges :
    /\ design.comps[m.comp].memory /\ m.length = Length(m.comp)
    /\ FoundAt(m.comp, m.origin, design.cpubus)

BasesFound ==
  stage = "ld" => \A c \in Comps : regbase[c] # 0 => FoundAt(c, regbase[c], design.regbus)

RegionsFound ==
  stage = "done" => out.cachable = Regions(design.cpubus)

OutInv ==
  /\ stage \in {"add", "assign", "regdefs"} => regbase = [c \in Comps |-> 0] /\ out.regs = {}
  /\ stage \in {"add", "assign", "regdefs", "ld"} => out.ranges = {}
  /\ out = [regs |-> out.regs, ranges |-> out.ranges, cachable |-> out.cachable]
  /\ DOMAIN regbase = Comps
  /\ RegsFound /\ BasesFound /\ RegionsFound

(* The steps that assign addresses write nothing yet.                      *)
LEMMA OutWaits ==
  ASSUME OutInv, UNCHANGED <<design, regbase, out>>,
         \/ /\ stage \in {"add", "assign"}
            /\ stage' \in {"add", "assign", "aborted", "lost", "regdefs"}
         \/ stage' = stage /\ layout' = layout
  PROVE  OutInv' /\ (RangesFound => RangesFound')
<1>1. Comps' = Comps /\ \A c : Length(c)' = Length(c)  BY DEF Comps, Length
<1>2. CASE stage' = stage /\ layout' = layout
  <2>1. \A c, a, b : FoundAt(c, a, b)' <=> FoundAt(c, a, b)
    <3> TAKE c, a, b
    <3>1. Gather(b)' = Gather(b)  BY <1>2, GatherKept
    <3>2. QED  BY <3>1 DEF FoundAt
  <2>2. RegsFound' /\ BasesFound' /\ (RangesFound => RangesFound')
    BY <1>1, <1>2, <2>1 DEF OutInv, RegsFound, RangesFound, BasesFound
  <2>3. \A b : Regions(b)' = Regions(b)  BY <1>2, RegionsKept
  <2>4. RegionsFound'  BY <1>2, <2>3 DEF OutInv, RegionsFound
  <2>5. QED  BY <1>1, <1>2, <2>2, <2>4 DEF OutInv
<1>3. CASE /\ stage \in {"add", "assign"}
           /\ stage' \in {"add", "assign", "aborted", "lost", "regdefs"}
  <2>1. out.regs = {} /\ out.ranges = {}  BY <1>3 DEF OutInv
  <2>2. RegsFound' /\ RangesFound' /\ BasesFound' /\ RegionsFound'
    BY <1>3, <2>1 DEF RegsFound, RangesFound, BasesFound, RegionsFound
  <2>3. QED  BY <1>1, <1>3, <2>2 DEF OutInv
<1>4. QED  BY <1>2, <1>3

(* A component that the walk has found is given an address it was found    *)
(* at, unless it has one.                                                  *)
LEMMA RebasedFound ==
  ASSUME NEW found, NEW f \in found, f.comp \in Comps
  PROVE  /\ Rebased(found) = [c \in Comps |-> Rebased(found)[c]]
         /\ \/ Rebased(found)[f.comp] = regbase[f.comp] /\ regbase[f.comp] # 0
            \/ \E g \in found : g.comp = f.comp /\ g.addr = Rebased(found)[f.comp]
<1>1. PICK c \in Comps : c = f.comp  OBVIOUS
<1>2. c \in {x.comp : x \in found}  BY <1>1
<1>3. PICK g \in found : g.comp = c /\ g = CHOOSE x \in found : x.comp = c
  <2>1. \E x \in found : x.comp = c  BY <1>1
  <2>2. (CHOOSE x \in found : x.comp = c) \in found
        /\ (CHOOSE x \in found : x.comp = c).comp = c
    BY <2>1
  <2>3. QED  BY <2>2
<1>4. Rebased(found)[c] = IF regbase[c] # 0 THEN regbase[c] ELSE g.addr
  BY <1>2, <1>3 DEF Rebased
<1>5. Rebased(found) = [x \in Comps |-> Rebased(found)[x]]  BY DEF Rebased
<1>6. QED  BY <1>1, <1>3, <1>4, <1>5

LEMMA RegDefsFound ==
  ASSUME TreeInv, OutInv, RegDefs
  PROVE  OutInv' /\ RangesFound'
<1>1. PICK found : found = Gather(design.regbus)  OBVIOUS
<1>2. PICK based : based = Rebased(found)  OBVIOUS
<1>3. /\ stage = "regdefs" /\ stage' = "ld" /\ regbase' = based
      /\ out' = [out EXCEPT !.regs = {[comp |-> f.comp, base |-> based[f.comp]] : f \in found}]
      /\ UNCHANGED <<design, layout>>
  BY <1>1, <1>2 DEF RegDefs, tree
<1>4. PICK ranges, cachable : ranges = {} /\ out' =
        [regs |-> {[comp |-> f.comp, base |-> based[f.comp]] : f \in found},
         ranges |-> ranges, cachable |-> cachable]
  BY <1>3 DEF OutInv
<1>5. Comps' = Comps /\ Gather(design.regbus)' = found
  BY <1>1, <1>3, GatherKept DEF Comps
<1>6. regbase = [c \in Comps |-> 0]  BY <1>3 DEF OutInv
<1>7. \A f \in found : f.comp \in Comps
  BY <1>1, DesignFacts, GatherLeads DEF TreeInv, TreeSound
<1>8. ASSUME NEW f \in found
      PROVE  FoundAt(f.comp, based[f.comp], design.regbus)'
  <2>1. \E g \in found : g.comp = f.comp /\ g.addr = based[f.comp]
    BY <1>2, <1>6, <1>7, RebasedFound
  <2>2. QED  BY <1>3, <1>5, <2>1 DEF FoundAt
<1>9. ASSUME NEW c \in Comps, based[c] # 0 PROVE FoundAt(c, based[c], design.regbus)'
  <2>1. c \in {f.comp : f \in found}  BY <1>2, <1>6, <1>9 DEF Rebased
  <2>2. PICK f \in found : f.comp = c  BY <2>1
  <2>3. QED  BY <1>8, <2>2
<1>10. DOMAIN regbase' = Comps  BY <1>2, <1>3 DEF Rebased
<1>11. RegsFound'  BY <1>4, <1>8 DEF RegsFound
<1>12. RangesFound'  BY <1>4 DEF RangesFound
<1>13. BasesFound' /\ RegionsFound'  BY <1>3, <1>5, <1>9 DEF BasesFound, RegionsFound
<1>14. QED  BY <1>3, <1>4, <1>5, <1>10, <1>11, <1>12, <1>13 DEF OutInv

LEMMA LdFileFound ==
  ASSUME TreeInv, OutInv, LdFile
  PROVE  OutInv' /\ (OneView => RangesFound')
<1>1. PICK found : found = Gather(design.cpubus)  OBVIOUS
<1>2. PICK based : based = Rebased(found)  OBVIOUS
<1>3. PICK mems : mems = {f.comp : f \in {x \in found : design.comps[x.comp].memory}}
  OBVIOUS
<1>4. /\ stage = "ld" /\ stage' = "cachable" /\ regbase' = based
      /\ out' = [out EXCEPT !.ranges =
           {[comp |-> c, origin |-> based[c], length |-> Length(c)] : c \in mems}]
      /\ UNCHANGED <<design, layout>>
  BY <1>1, <1>2, <1>3 DEF LdFile, tree
<1>5. PICK regs, cachable : regs = out.regs /\ out' =
        [regs |-> regs,
         ranges |-> {[comp |-> c, origin |-> based[c], length |-> Length(c)] : c \in mems},
         cachable |-> cachable]
  BY <1>4 DEF OutInv
<1>6. /\ Comps' = Comps /\ \A b : Gather(b)' = Gather(b)
      /\ \A c : Length(c)' = Length(c)
  BY <1>4, GatherKept DEF Comps, Length
<1>7. \A c, a, b : FoundAt(c, a, b)' <=> FoundAt(c, a, b)  BY <1>6 DEF FoundAt
<1>8. ASSUME OneView, NEW c \in mems
      PROVE  design.comps[c].memory /\ FoundAt(c, based[c], design.cpubus)
  <2>1. PICK f \in found : f.comp = c /\ design.comps[c].memory  BY <1>3
  <2>2. c \in Comps  BY <1>1, <2>1, DesignFacts, GatherLeads DEF TreeInv, TreeSound
  <2>3. CASE based[c] = regbase[c] /\ regbase[c] # 0
    <3>1. PICK g \in Gather(design.regbus) : g.comp = c /\ g.addr = based[c]
      BY <1>4, <2>2, <2>3 DEF OutInv, BasesFound, FoundAt
    <3>2. g \in Gather(design.cpubus)  BY <1>1, <1>4, <1>8, <2>1, <3>1 DEF OneView
    <3>3. QED  BY <2>1, <3>1, <3>2 DEF FoundAt
  <2>4. CASE \E g \in found : g.comp = c /\ g.addr = based[c]
    BY <1>1, <2>1, <2>4 DEF FoundAt
  <2>5. QED  BY <1>2, <2>1, <2>2, <2>3, <2>4, RebasedFound
<1>9. DOMAIN regbase' = Comps  BY <1>2, <1>4 DEF Rebased
<1>10. RegsFound'  BY <1>4, <1>5, <1>7 DEF OutInv, RegsFound
<1>11. OneView => RangesFound'
  BY <1>4, <1>5, <1>6, <1>7, <1>8 DEF RangesFound
<1>12. BasesFound' /\ RegionsFound'  BY <1>4 DEF BasesFound, RegionsFound
<1>13. QED  BY <1>4, <1>5, <1>6, <1>9, <1>10, <1>11, <1>12 DEF OutInv

LEMMA CachableFound ==
  ASSUME OutInv, Cachable
  PROVE  OutInv' /\ (RangesFound => RangesFound')
<1>1. /\ stage' = "done" /\ UNCHANGED <<design, layout, regbase>>
      /\ out' = [out EXCEPT !.cachable = Regions(design.cpubus)]
  BY DEF Cachable, tree
<1>2. PICK cachable : /\ cachable = Regions(design.cpubus)
                      /\ out' = [regs |-> out.regs, ranges |-> out.ranges, cachable |-> cachable]
  BY <1>1 DEF OutInv
<1>3. Comps' = Comps /\ \A b : Gather(b)' = Gather(b) /\ \A c : Length(c)' = Length(c)
  BY <1>1, GatherKept DEF Comps, Length
<1>4. \A c, a, b : FoundAt(c, a, b)' <=> FoundAt(c, a, b)  BY <1>3 DEF FoundAt
<1>5. RegsFound'  BY <1>1, <1>2, <1>4 DEF OutInv, RegsFound
<1>6. RangesFound => RangesFound'  BY <1>1, <1>2, <1>3, <1>4 DEF RangesFound
<1>7. BasesFound' /\ RegionsFound'
  <2>1. Regions(design.cpubus)' = Regions(design.cpubus)  BY <1>1, RegionsKept
  <2>2. QED  BY <1>1, <1>2, <2>1 DEF BasesFound, RegionsFound
<1>8. QED  BY <1>1, <1>2, <1>3, <1>5, <1>6, <1>7 DEF OutInv

LEMMA OutStep ==
  ASSUME TreeInv, OutInv, [TreeNext]_treevars
  PROVE  OutInv' /\ (RangesFound /\ OneView => RangesFound')
<1>1. CASE AddSlave \/ AddAborts  BY <1>1, OutWaits DEF AddSlave, AddAborts
<1>2. CASE EndAdd  BY <1>2, OutWaits DEF EndAdd
<1>3. CASE AssignBus  BY <1>3, OutWaits DEF AssignBus
<1>4. CASE EndAssign  BY <1>4, OutWaits DEF EndAssign
<1>5. CASE CallSubbus  BY <1>5, OutWaits DEF CallSubbus, tree
<1>6. CASE AssignEmpty  BY <1>6, OutWaits DEF AssignEmpty
<1>7. CASE StartPlist  BY <1>7, OutWaits DEF StartPlist, control, tree
<1>8. CASE PlistStep  BY <1>8, OutWaits DEF PlistStep, control, tree
<1>9. CASE EndPlist
  <2>1. stage = "assign"  BY <1>9 DEF EndPlist, TreeInv, TreeControl
  <2>2. QED  BY <1>9, <2>1, OutWaits DEF EndPlist
<1>10. CASE RegDefs  BY <1>10, RegDefsFound
<1>11. CASE LdFile  BY <1>11, LdFileFound
<1>12. CASE Cachable  BY <1>12, CachableFound
<1>13. CASE UNCHANGED treevars  BY <1>13, OutWaits DEF treevars, control, tree
<1>14. QED
  BY <1>1, <1>2, <1>3, <1>4, <1>5, <1>6, <1>7, <1>8, <1>9, <1>10, <1>11, <1>12, <1>13
     DEF TreeNext

LEMMA OutInit ==
  ASSUME TreeInit
  PROVE  OutInv /\ RangesFound
BY DEF TreeInit, OutInv, RegsFound, RangesFound, BasesFound, RegionsFound

(* regdefs.h (build_regdefs_h()): the address that a register has there    *)
(* leads to its component alone, down every chain of bridges, in designs   *)
(* of any size and shape.                                                  *)
THEOREM RegistersReached ==
  WideBuses => (TreeSpec /\ []LinesFit => []RegsReachTheirSlave)
<1> SUFFICES ASSUME WideBuses
             PROVE  TreeSpec /\ []LinesFit => []RegsReachTheirSlave
  OBVIOUS
<1>1. TreeInit => OutInv  BY OutInit
<1>2. TreeInv /\ OutInv /\ [TreeNext]_treevars => OutInv'  BY OutStep
<1>3. ASSUME TreeInv, OutInv PROVE RegsReachTheirSlave
  <2> SUFFICES ASSUME NEW r \in out.regs, Below(r.comp) = 0,
                      NEW off \in 0..(Length(r.comp) - 1)
               PROVE  Reached(design.regbus, r.base + off) = {r.comp}
    BY DEF RegsReachTheirSlave
  <2>1. PICK g \in Gather(design.regbus) : g.comp = r.comp /\ g.addr = r.base
    BY <1>3 DEF OutInv, RegsFound, FoundAt
  <2>2. TreeSound /\ design.regbus \in TreeBuses
    BY <1>3, DesignFacts DEF TreeInv, TreeSound
  <2>3. \A o \in 0..(Length(g.comp) - 1) : Reached(design.regbus, g.addr + o) = {g.comp}
    BY <2>1, <2>2, GatherLeads
  <2>4. QED  BY <2>1, <2>3
<1>4. QED  BY <1>1, <1>2, <1>3, TreeLaidOut, PTL DEF TreeSpec

(* The linker script (build_script_ld()): every octet from ORIGIN on, for  *)
(* LENGTH, leads on the bus of the CPU to the memory the range is for.     *)
THEOREM RangesReached ==
  WideBuses /\ MemoriesAreLeaves
    => (TreeSpec /\ []LinesFit /\ []OneView => []RangesReachMemory)
<1> SUFFICES ASSUME WideBuses, MemoriesAreLeaves
             PROVE  TreeSpec /\ []LinesFit /\ []OneView => []RangesReachMemory
  OBVIOUS
<1>1. TreeInit => OutInv /\ RangesFound  BY OutInit
<1>2. TreeInv /\ OutInv /\ RangesFound /\ OneView /\ [TreeNext]_treevars
        => OutInv' /\ RangesFound'
  BY OutStep
<1>3. ASSUME TreeInv, RangesFound PROVE RangesReachMemory
  <2> SUFFICES ASSUME NEW m \in out.ranges, NEW off \in 0..(m.length - 1)
               PROVE  Reached(design.cpubus, m.origin + off) = {m.comp}
    BY DEF RangesReachMemory
  <2>1. PICK g \in Gather(design.cpubus) : g.comp = m.comp /\ g.addr = m.origin
    BY <1>3 DEF RangesFound, FoundAt
  <2>2. design.comps[m.comp].memory /\ m.length = Length(m.comp)  BY <1>3 DEF RangesFound
  <2>3. design \in Designs /\ TreeSound /\ design.cpubus \in TreeBuses
    BY <1>3, DesignFacts DEF TreeInv, TreeSound
  <2>4. g.comp \in Comps  BY <2>1, <2>3, GatherLeads
  <2>5. Below(g.comp) = 0  BY <2>1, <2>2, <2>3, <2>4 DEF MemoriesAreLeaves, Below, Comps
  <2>6. \A o \in 0..(Length(g.comp) - 1) : Reached(design.cpubus, g.addr + o) = {g.comp}
    BY <2>3, <2>5, GatherLeads
  <2>7. QED  BY <2>1, <2>2, <2>6
<1>4. QED  BY <1>1, <1>2, <1>3, TreeLaidOut, PTL DEF TreeSpec

(* print_cachable(), bus by bus.                                           *)
SubRegion(b, s, r8) ==
  LET submask == MaskBits(b, s.mask) \cup r8.mask
  IN  [mask |-> submask, addr |-> (BitSet(s.base) \cup r8.addr) \cap submask]

RegionSet(f, b, r8) ==
  UNION {LET s == layout[b][i]
             sub == SubRegion(b, s, r8)
         IN  IF Below(s.comp) # 0 THEN f[Below(s.comp)][sub]
             ELSE IF design.comps[s.comp].memory THEN {sub} ELSE {} :
         i \in DOMAIN layout[b]}

LEMMA RegionSetIs ==
  ASSUME NEW f, NEW b, NEW r8, NEW x
  PROVE  x \in RegionSet(f, b, r8) <=>
           \E i \in DOMAIN layout[b] :
             LET m == Below(layout[b][i].comp)
                 sub == SubRegion(b, layout[b][i], r8)
             IN  IF m # 0 THEN x \in f[m][sub]
                 ELSE design.comps[layout[b][i].comp].memory /\ x = sub
BY DEF RegionSet

(* The masks of a bus with no more lines than nextlg() counts are bits of  *)
(* an address.                                                             *)
LEMMA SubRegionType ==
  ASSUME TreeSound, LinesFit, NEW b \in TreeBuses, NEW i \in DOMAIN layout[b],
         NEW r8 \in Region8
  PROVE  SubRegion(b, layout[b][i], r8) \in Region8
<1>1. PICK s : s = layout[b][i] /\ SlaveSound(b, s)  BY DEF TreeSound, LaidOut
<1>2. b \in assigned  BY DEF TreeSound
<1>3. PICK t \in Nat, n \in Nat : t = TreeWidth(b) /\ n = SlaveLines(b, s)
  BY <1>1, TreeFacts DEF SlaveSound
<1>4. t <= MaxLg /\ MaxLg \in Nat  BY <1>2, <1>3 DEF LinesFit, MaxLg
<1>5. MaskBits(b, s.mask) = n..(t - 1)  BY <1>1, <1>3 DEF SlaveSound
<1>6. MaskBits(b, s.mask) \subseteq 0..MaxLg  BY <1>4, <1>5
<1>7. BitSet(s.base) \subseteq 0..MaxLg  BY DEF BitSet
<1>8. r8.mask \subseteq 0..MaxLg /\ r8.addr \subseteq 0..MaxLg  BY DEF Region8
<1>9. QED  BY <1>1, <1>6, <1>7, <1>8 DEF SubRegion, Region8

LEMMA RegionRuns ==
  ASSUME TreeSound, LinesFit
  PROVE  \E f : /\ \A b \in TreeBuses, r8 \in Region8 : f[b][r8] = RegionSet(f, b, r8)
                /\ \A b \in TreeBuses : Regions(b) = f[b][[mask |-> {}, addr |-> {}]]
<1> DEFINE N == Len(design.buses)
           Y == [Region8 -> SUBSET Region8]
           row(f, b) == [r8 \in Region8 |-> RegionSet(f, b, r8)]
           B == [p \in (1..N) \X [1..N -> Y] |-> row(p[2], p[1])]
           P(f) == f = [b \in TreeBuses |-> row(f, b)]
           h == CHOOSE f : P(f)
<1>1. N \in Nat /\ TreeBuses = 1..N  BY TreeFacts
<1>2. ASSUME NEW b \in 1..N, NEW t \in [1..N -> Y]
      PROVE  row(t, b) \in Y
  <2> SUFFICES ASSUME NEW r8 \in Region8, NEW x \in RegionSet(t, b, r8)
               PROVE  x \in Region8
    OBVIOUS
  <2>1. PICK i \in DOMAIN layout[b] :
          LET m == Below(layout[b][i].comp)
              sub == SubRegion(b, layout[b][i], r8)
          IN  IF m # 0 THEN x \in t[m][sub]
              ELSE design.comps[layout[b][i].comp].memory /\ x = sub
    BY RegionSetIs
  <2>2. Below(layout[b][i].comp) # 0 => Below(layout[b][i].comp) \in 1..N
    BY <1>1, SlaveFacts
  <2>3. SubRegion(b, layout[b][i], r8) \in Region8  BY <1>1, SubRegionType
  <2>4. QED  BY <2>1, <2>2, <2>3
<1>3. B \in Descents(N, Y)
  <2> HIDE DEF Y, row, N
  <2>1. \A p \in (1..N) \X [1..N -> Y] : p[1] \in 1..N /\ p[2] \in [1..N -> Y]  OBVIOUS
  <2>2. QED  BY <1>2, <2>1 DEF Descents
<1>4. \A b \in 1..N, t \in [1..N -> Y] : B[<<b, t>>] = row(t, b)
  <2> HIDE DEF Y, row, N
  <2>1. QED  OBVIOUS
<1>5. LooksBelow(N, Y, B)
  <2> HIDE DEF Y, B
  <2>1. ASSUME NEW b \in 1..N, NEW t \in [1..N -> Y], NEW u \in [1..N -> Y],
               \A c \in 1..N : c > b => t[c] = u[c]
        PROVE  B[<<b, t>>] = B[<<b, u>>]
    <3>1. ASSUME NEW r8 \in Region8, NEW x
          PROVE  x \in RegionSet(t, b, r8) <=> x \in RegionSet(u, b, r8)
      <4>1. \A i \in DOMAIN layout[b] : Below(layout[b][i].comp) # 0 =>
              t[Below(layout[b][i].comp)] = u[Below(layout[b][i].comp)]
        <5> HIDE DEF N
        <5>1. \A i \in DOMAIN layout[b] : Below(layout[b][i].comp) # 0 =>
                Below(layout[b][i].comp) \in 1..N /\ Below(layout[b][i].comp) > b
          BY <1>1, SlaveFacts
        <5>2. QED  BY <2>1, <5>1
      <4>2. QED  BY <4>1, RegionSetIs
    <3>2. \A r8 \in Region8 : RegionSet(t, b, r8) = RegionSet(u, b, r8)
      <4> TAKE r8 \in Region8
      <4>1. \A x : x \in RegionSet(t, b, r8) <=> x \in RegionSet(u, b, r8)  BY <3>1
      <4>2. QED  BY <4>1
    <3>3. row(t, b) = row(u, b)  BY <3>2
    <3>4. QED
      <4> HIDE DEF row, N
      <4>1. QED  BY <1>4, <3>3
  <2>2. QED
    <3> HIDE DEF N
    <3>1. QED  BY <2>1 DEF LooksBelow
<1>6. Y # {}
  <2>1. [r8 \in Region8 |-> {}] \in Y  OBVIOUS
  <2>2. QED  BY <2>1
<1>7. PICK f \in [1..N -> Y] : \A b \in 1..N : f[b] = B[<<b, f>>]
  <2> HIDE DEF Y, B, N
  <2>1. PICK f : IsDescent(f, N, Y, B)  BY <1>1, <1>3, <1>5, <1>6, DescentExists
  <2>2. QED  BY <2>1 DEF IsDescent
<1>8. P(f)
  <2> HIDE DEF Y, B, N, row
  <2>1. \A b \in 1..N : f[b] = row(f, b)  BY <1>4, <1>7
  <2>2. f = [b \in 1..N |-> f[b]]  OBVIOUS
  <2>3. QED  BY <1>1, <2>1, <2>2
<1>9. P(h)
  <2> HIDE DEF P
  <2>1. QED  BY <1>8
<1>10. \A b \in TreeBuses : Regions(b) = h[b][[mask |-> {}, addr |-> {}]]
  BY DEF Regions, RegionSet, SubRegion
<1> HIDE DEF h
<1>11. \A b \in TreeBuses : h[b] = row(h, b)
  <2> HIDE DEF row
  <2>1. QED  BY <1>9
<1>12. \A b \in TreeBuses, r8 \in Region8 : h[b][r8] = RegionSet(h, b, r8)  BY <1>11
<1> HIDE DEF row, P
<1>13. QED  BY <1>10, <1>12

(* A region is found by the bits that its decoder compares.                *)
LEMMA BitsSelect ==
  ASSUME NEW t \in 0..MaxLg, NEW n \in Nat, n <= t,
         NEW a \in 0..(2^t - 1), NEW base \in 0..(2^t - 1), base % 2^n = 0
  PROVE  BitSet(a) \cap (n..(t - 1)) = BitSet(base) \cap (n..(t - 1))
           <=> (base <= a /\ a < base + 2^n)
<1>1. t \in Nat /\ MaxLg \in Nat /\ t <= MaxLg  BY DEF MaxLg
<1>2. \A x, i : i \in BitSet(x) \cap (n..(t - 1)) <=> i \in n..(t - 1) /\ BitAt(x, i) = 1
  BY <1>1 DEF BitSet, BitAt
<1>3. \A i \in n..(t - 1) : BitAt(a, i) \in {0, 1} /\ BitAt(base, i) \in {0, 1}
  <2> TAKE i \in n..(t - 1)
  <2>1. i \in Nat /\ a \in Nat /\ base \in Nat  BY <1>1
  <2>2. a \div 2^i \in Nat /\ base \div 2^i \in Nat  BY <2>1, QuotientType
  <2>3. QED  BY <2>2, Halves DEF BitAt
<1>4. BitSet(a) \cap (n..(t - 1)) = BitSet(base) \cap (n..(t - 1))
        <=> \A i \in n..(t - 1) : BitAt(a, i) = BitAt(base, i)
  BY <1>2, <1>3
<1>5. PICK p \in Nat : p = 2^n /\ p > 0  BY PowerPositive
<1>6. a \in Nat /\ base \in Nat  BY <1>1, PowerPositive
<1>7. PICK k \in Nat : k = base \div p /\ base = k * p
  <2>1. base \div p \in Nat /\ base = (base \div p) * p + (base % p)  BY <1>5, <1>6, DivMod
  <2>2. (base \div p) * p \in Int  BY <2>1
  <2>3. QED  BY <1>5, <2>1, <2>2
<1>8. a \div p = k <=> (k * p <= a /\ a < k * p + p)  BY <1>5, <1>6, QuotientUnique
<1>9. (\A i \in n..(t - 1) : BitAt(a, i) = BitAt(base, i)) <=> a \div p = k
  <2>1. (\A i \in n..(t - 1) : BitAt(a, i) = BitAt(base, i)) <=> a \div 2^n = base \div 2^n
    BY <1>1, SameBits
  <2>2. QED  BY <1>5, <1>7, <2>1
<1>10. QED  BY <1>4, <1>5, <1>7, <1>8, <1>9

(* An address has the bits of a region; no bit of the region counts octets *)
(* of the bus.                                                             *)
Matches(r, a) == BitSet(a) \cap r.mask = r.addr

Leaves(r, b) == r.addr \subseteq r.mask /\ \A j \in r.mask : j >= TreeWidth(b)

(* The mask that a slave adds to the region of its bus selects the octets  *)
(* that are given to the slave, and leaves out those of the bus below it.  *)
LEMMA SubRegionHolds ==
  ASSUME TreeSound, LinesFit, NEW b \in TreeBuses, NEW i \in DOMAIN layout[b],
         NEW r8 \in Region8, Leaves(r8, b), NEW a \in Nat,
         NEW sub, sub = SubRegion(b, layout[b][i], r8)
  PROVE  /\ Below(layout[b][i].comp) # 0 => Leaves(sub, Below(layout[b][i].comp))
         /\ Matches(sub, a) <=> Matches(r8, a) /\ Within(b, i, a % 2^TreeWidth(b))
<1>1. PICK s : s = layout[b][i] /\ SlaveSound(b, s)  BY DEF TreeSound, LaidOut
<1>2. b \in assigned  BY DEF TreeSound
<1>3. PICK t \in Nat, n \in Nat : t = TreeWidth(b) /\ n = SlaveLines(b, s)
  BY <1>1, TreeFacts DEF SlaveSound
<1>4. t \in 0..MaxLg  BY <1>2, <1>3 DEF LinesFit, MaxLg
<1>5. PICK M, K : M = n..(t - 1) /\ M = MaskBits(b, s.mask) /\ K = r8.mask
  BY <1>1, <1>3 DEF SlaveSound
<1>6. K \subseteq Nat /\ (\A j \in K : j >= t) /\ r8.addr \subseteq K
  BY <1>3, <1>5 DEF Leaves, Region8
<1>7. PICK base \in Nat : base = s.base  BY <1>1 DEF SlaveSound
<1>8. base % 2^n = 0 /\ base + 2^n <= 2^t
  BY <1>1, <1>3, <1>7 DEF SlaveSound, SlaveEnd
<1>9. n <= t
  BY <1>8, FitsPower
<1>10. sub.mask = M \cup K /\ sub.addr = (BitSet(base) \cup r8.addr) \cap (M \cup K)
  BY <1>1, <1>5, <1>7 DEF SubRegion
<1>11. M \cap K = {}  BY <1>5, <1>6
<1>12. base \in 0..(2^t - 1)
  <2>1. 2^t \in Nat /\ 2^n \in Nat /\ 2^n > 0  BY PowerPositive
  <2>2. QED  BY <1>8, <2>1
<1>13. BitSet(base) \cap K = {}
  <2> SUFFICES ASSUME NEW j \in BitSet(base), j \in K PROVE FALSE  OBVIOUS
  <2>1. j \in Nat /\ t <= j  BY <1>6
  <2>2. PICK p \in Nat : p = 2^j /\ p > 0 /\ 2^t <= p  BY <2>1, PowerPositive, PowerMonotonic
  <2>3. base < p
    <3>1. 2^t \in Nat  BY PowerPositive
    <3>2. QED  BY <1>12, <2>2, <3>1
  <2>4. base \div p = 0  BY <2>2, <2>3, QuotientUnique
  <2>5. (base \div 2^j) % 2 = 0  BY <2>2, <2>4
  <2>6. QED  BY <2>5 DEF BitSet
<1>14. PICK x \in 0..(2^t - 1) : x = a % 2^t
  <2>1. PICK p \in Nat : p = 2^t /\ p > 0  BY PowerPositive
  <2>2. a % p \in Nat /\ a % p < p  BY <2>1, DivMod
  <2>3. QED  BY <2>1, <2>2
<1>15. BitSet(a) \cap M = BitSet(x) \cap M
  <2>1. ASSUME NEW j \in M PROVE j \in BitSet(a) <=> j \in BitSet(x)
    <3>1. j \in Nat /\ j < t  BY <1>5
    <3>2. BitAt(a, j) = BitAt(x, j)  BY <1>14, <3>1, LowBits
    <3>3. QED  BY <3>2 DEF BitSet, BitAt
  <2>2. QED  BY <2>1
<1>16. BitSet(x) \cap M = BitSet(base) \cap M <=> Within(b, i, x)
  <2>1. BitSet(x) \cap M = BitSet(base) \cap M <=> (base <= x /\ x < base + 2^n)
    <3>1. BitSet(x) \cap (n..(t - 1)) = BitSet(base) \cap (n..(t - 1))
            <=> (base <= x /\ x < base + 2^n)
      BY <1>4, <1>8, <1>9, <1>12, BitsSelect
    <3>2. QED  BY <1>5, <3>1
  <2>2. Within(b, i, x) <=> (base <= x /\ x < base + 2^n)
    BY <1>1, <1>3, <1>7 DEF Within, SlaveEnd
  <2>3. QED  BY <2>1, <2>2
<1>17. Matches(sub, a) <=> BitSet(a) \cap M = BitSet(base) \cap M /\ BitSet(a) \cap K = r8.addr
  <2>1. Matches(sub, a) <=>
          BitSet(a) \cap (M \cup K) = (BitSet(base) \cup r8.addr) \cap (M \cup K)
    BY <1>10 DEF Matches
  <2>2. QED  BY <1>6, <1>11, <1>13, <2>1
<1>18. Matches(r8, a) <=> BitSet(a) \cap K = r8.addr  BY <1>5 DEF Matches
<1>19. ASSUME Below(s.comp) # 0 PROVE Leaves(sub, Below(s.comp))
  <2>1. PICK w \in Nat : w = TreeWidth(Below(s.comp)) /\ w <= n
    BY <1>1, <1>3, <1>19, SlaveFacts, TreeFacts DEF SlaveSound
  <2>2. \A j \in M \cup K : j >= w  BY <1>5, <1>6, <1>9, <2>1
  <2>3. QED  BY <1>10, <2>1, <2>2 DEF Leaves
<1>20. QED  BY <1>1, <1>3, <1>14, <1>15, <1>16, <1>17, <1>18, <1>19

(* An octet of a bus leads to a memory.                                    *)
MemoryAt(b, x) == \E c \in Reached(b, x) : design.comps[c].memory

LEMMA RegionsMatch ==
  ASSUME TreeSound, LinesFit, NEW f,
         \A b \in TreeBuses, r8 \in Region8 : f[b][r8] = RegionSet(f, b, r8)
  PROVE  \A b \in TreeBuses : \A r8 \in Region8, a \in Nat : Leaves(r8, b) =>
           ((\E r \in f[b][r8] : Matches(r, a))
              <=> Matches(r8, a) /\ MemoryAt(b, a % 2^TreeWidth(b)))
<1> DEFINE N == Len(design.buses)
           Good(b) == \A r8 \in Region8, a \in Nat : Leaves(r8, b) =>
             ((\E r \in f[b][r8] : Matches(r, a))
                <=> Matches(r8, a) /\ MemoryAt(b, a % 2^TreeWidth(b)))
           S == {b \in TreeBuses : Good(b)}
<1>1. N \in Nat /\ TreeBuses = 1..N  BY TreeFacts
<1>2. ASSUME NEW b \in TreeBuses, \A c \in TreeBuses : c > b => Good(c)
      PROVE  Good(b)
  <2> SUFFICES ASSUME NEW r8 \in Region8, NEW a \in Nat, Leaves(r8, b)
               PROVE  (\E r \in f[b][r8] : Matches(r, a))
                        <=> Matches(r8, a) /\ MemoryAt(b, a % 2^TreeWidth(b))
    OBVIOUS
  <2>1. PICK t \in Nat : t = TreeWidth(b)  BY TreeFacts
  <2>2. PICK x \in 0..(2^t - 1) : x = a % 2^t
    <3>1. PICK p \in Nat : p = 2^t /\ p > 0  BY PowerPositive
    <3>2. a % p \in Nat /\ a % p < p  BY <3>1, DivMod
    <3>3. QED  BY <3>1, <3>2
  <2>3. ASSUME NEW i \in DOMAIN layout[b], NEW m, m = Below(layout[b][i].comp),
               NEW sub, sub = SubRegion(b, layout[b][i], r8)
        PROVE  /\ sub \in Region8
               /\ Matches(sub, a) <=> Matches(r8, a) /\ Within(b, i, x)
               /\ m # 0 => /\ m \in TreeBuses
                           /\ (\E r \in f[m][sub] : Matches(r, a))
                                <=> Matches(sub, a) /\ MemoryAt(m, a % 2^TreeWidth(m))
    <3>1. sub \in Region8  BY <2>3, SubRegionType
    <3>2. /\ m # 0 => Leaves(sub, m)
          /\ Matches(sub, a) <=> Matches(r8, a) /\ Within(b, i, x)
      BY <2>1, <2>2, <2>3, SubRegionHolds
    <3>3. m # 0 => m \in TreeBuses /\ m > b  BY <2>3, SlaveFacts
    <3>4. QED  BY <1>2, <3>1, <3>2, <3>3
  <2>4. ASSUME NEW i \in DOMAIN layout[b], Within(b, i, x),
               NEW m, m = Below(layout[b][i].comp)
        PROVE  MemoryAt(b, x) <=> IF m # 0 THEN MemoryAt(m, a % 2^TreeWidth(m))
                                  ELSE design.comps[layout[b][i].comp].memory
    <3>1. Reached(b, x) = IF m # 0 THEN Reached(m, x % 2^TreeWidth(m))
                          ELSE {layout[b][i].comp}
      BY <2>1, <2>2, <2>4, ReachedWithin
    <3>2. CASE m = 0  BY <3>1, <3>2 DEF MemoryAt
    <3>3. CASE m # 0
      <4>1. PICK w \in Nat : w = TreeWidth(m) /\ w <= t
        <5>1. PICK s : s = layout[b][i] /\ SlaveSound(b, s)  BY DEF TreeSound, LaidOut
        <5>2. PICK n \in Nat : n = SlaveLines(b, s) /\ TreeWidth(m) <= n
          BY <2>4, <3>3, <5>1 DEF SlaveSound
        <5>3. m \in TreeBuses  BY <2>4, <3>3, SlaveFacts
        <5>4. PICK w \in Nat : w = TreeWidth(m)  BY <5>3, TreeFacts
        <5>5. n <= t
          <6>1. PICK base \in Nat : base = s.base /\ base + 2^n <= 2^t
            BY <2>1, <5>1, <5>2 DEF SlaveSound, SlaveEnd
          <6>2. QED  BY <6>1, FitsPower
        <5>6. QED  BY <5>2, <5>4, <5>5
      <4>2. x % 2^w = a % 2^w  BY <2>2, <4>1, LowerLines
      <4>3. Reached(b, x) = Reached(m, a % 2^TreeWidth(m))  BY <3>1, <3>3, <4>1, <4>2
      <4>4. QED  BY <3>3, <4>3 DEF MemoryAt
    <3>4. QED  BY <3>2, <3>3
  <2>5. ASSUME NEW r \in f[b][r8], Matches(r, a)
        PROVE  Matches(r8, a) /\ MemoryAt(b, x)
    <3>1. r \in RegionSet(f, b, r8)  BY <2>5
    <3>2. PICK i \in DOMAIN layout[b] :
            LET m == Below(layout[b][i].comp)
                sub == SubRegion(b, layout[b][i], r8)
            IN  IF m # 0 THEN r \in f[m][sub]
                ELSE design.comps[layout[b][i].comp].memory /\ r = sub
      BY <3>1, RegionSetIs
    <3>3. PICK m, sub : m = Below(layout[b][i].comp) /\ sub = SubRegion(b, layout[b][i], r8)
      OBVIOUS
    <3>4. Matches(sub, a) /\ IF m # 0 THEN MemoryAt(m, a % 2^TreeWidth(m))
                             ELSE design.comps[layout[b][i].comp].memory
      BY <2>3, <2>5, <3>2, <3>3
    <3>5. Matches(r8, a) /\ Within(b, i, x)  BY <2>3, <3>3, <3>4
    <3>6. QED  BY <2>4, <3>3, <3>4, <3>5
  <2>6. ASSUME Matches(r8, a), MemoryAt(b, x)
        PROVE  \E r \in f[b][r8] : Matches(r, a)
    <3>1. PICK i \in DOMAIN layout[b] : Within(b, i, x)
      <4>1. Reached(b, x) # {}  BY <2>6 DEF MemoryAt
      <4>2. QED  BY <2>1, <2>2, <4>1, ReachedNothing
    <3>2. PICK m, sub : m = Below(layout[b][i].comp) /\ sub = SubRegion(b, layout[b][i], r8)
      OBVIOUS
    <3>3. Matches(sub, a)  BY <2>3, <2>6, <3>1, <3>2
    <3>4. IF m # 0 THEN MemoryAt(m, a % 2^TreeWidth(m))
          ELSE design.comps[layout[b][i].comp].memory
      BY <2>4, <2>6, <3>1, <3>2
    <3>5. PICK r : Matches(r, a) /\ IF m # 0 THEN r \in f[m][sub]
                                   ELSE design.comps[layout[b][i].comp].memory /\ r = sub
      BY <2>3, <3>2, <3>3, <3>4
    <3>6. r \in RegionSet(f, b, r8)  BY <3>2, <3>5, RegionSetIs
    <3>7. QED  BY <3>5, <3>6
  <2>7. QED  BY <2>1, <2>2, <2>5, <2>6
<1>3. \A b \in 1..N : b \in S
  <2> HIDE DEF Good
  <2>1. \A b \in 1..N : (\A c \in 1..N : c > b => c \in S) => b \in S  BY <1>1, <1>2
  <2> HIDE DEF S, N
  <2>2. QED  BY <1>1, <2>1, DescentInduction
<1>4. QED  BY <1>1, <1>3

(* print_cachable(): the addresses that match a region that is written are *)
(* those that lead to a memory, through however many bridges.              *)
THEOREM CachableRight ==
  WideBuses => (TreeSpec /\ []LinesFit => []CachableIffMemory)
<1> SUFFICES ASSUME WideBuses
             PROVE  TreeSpec /\ []LinesFit => []CachableIffMemory
  OBVIOUS
<1>1. TreeInit => OutInv  BY OutInit
<1>2. TreeInv /\ OutInv /\ [TreeNext]_treevars => OutInv'  BY OutStep
<1>3. ASSUME TreeInv, OutInv, LinesFit PROVE CachableIffMemory
  <2> SUFFICES ASSUME stage = "done", NEW a \in Octets(design.cpubus)
               PROVE  (\E r \in out.cachable : Matches(r, a)) <=> MemoryAt(design.cpubus, a)
    BY DEF CachableIffMemory, Matches, MemoryAt
  <2>1. PICK b \in TreeBuses : b = design.cpubus
    BY <1>3, DesignFacts DEF TreeInv, TreeSound
  <2>2. TreeSound  BY <1>3 DEF TreeInv
  <2>3. PICK p \in Nat : p = 2^TreeWidth(b) /\ p > 0  BY <2>2, TreeFacts, PowerPositive
  <2>4. a \in 0..(p - 1)  BY <2>1, <2>3 DEF Octets, TreeWidth
  <2>5. a \in Nat /\ a % p = a
    <3>1. a \in Nat  BY <2>3, <2>4
    <3>2. a \div p = 0  BY <2>3, <2>4, <3>1, QuotientUnique
    <3>3. a % p \in Nat /\ a = (a \div p) * p + (a % p)  BY <2>3, <3>1, DivMod
    <3>4. QED  BY <2>3, <3>1, <3>2, <3>3
  <2>6. PICK f : /\ \A c \in TreeBuses, r8 \in Region8 : f[c][r8] = RegionSet(f, c, r8)
                 /\ \A c \in TreeBuses : Regions(c) = f[c][[mask |-> {}, addr |-> {}]]
    BY <1>3, <2>2, RegionRuns
  <2>7. PICK r0 \in Region8 : r0 = [mask |-> {}, addr |-> {}]  BY DEF Region8
  <2>8. Leaves(r0, b) /\ Matches(r0, a)  BY <2>7 DEF Leaves, Matches
  <2>9. (\E r \in f[b][r0] : Matches(r, a)) <=> MemoryAt(b, a % p)
    <3>1. \A c \in TreeBuses : \A r8 \in Region8, x \in Nat : Leaves(r8, c) =>
            ((\E r \in f[c][r8] : Matches(r, x))
               <=> Matches(r8, x) /\ MemoryAt(c, x % 2^TreeWidth(c)))
      BY <1>3, <2>2, <2>6, RegionsMatch
    <3>2. QED  BY <2>3, <2>5, <2>8, <3>1
  <2>10. out.cachable = f[b][r0]  BY <1>3, <2>1, <2>6, <2>7 DEF OutInv, RegionsFound
  <2>11. QED  BY <2>1, <2>5, <2>9, <2>10
<1>4. QED  BY <1>1, <1>2, <1>3, TreeLaidOut, PTL DEF TreeSpec

(* The variables that only count and name.                                 *)
Counters ==
  /\ stage \in {"add", "assign", "regdefs", "ld", "cachable", "done", "aborted", "lost"}
  /\ item \in Nat
  /\ regbase \in [Comps -> Nat]

LEMMA RebasedType ==
  ASSUME TreeSound, Counters, NEW b \in TreeBuses
  PROVE  Rebased(Gather(b)) \in [Comps -> Nat]
<1>1. PICK found : found = Gather(b)  OBVIOUS
<1>2. ASSUME NEW c \in Comps, c \in {f.comp : f \in found}
      PROVE  (CHOOSE f \in found : f.comp = c).addr \in Nat
  <2>1. \E f \in found : f.comp = c  BY <1>2
  <2>2. (CHOOSE f \in found : f.comp = c) \in found  BY <2>1
  <2>3. QED  BY <1>1, <2>2, GatherLeads
<1>3. Rebased(found) \in [Comps -> Nat]  BY <1>2 DEF Rebased, Counters
<1>4. QED  BY <1>1, <1>3

LEMMA CountersKept ==
  ASSUME TreeInv, Counters, [TreeNext]_treevars
  PROVE  Counters'
<1>1. design \in Designs /\ TreeSound  BY DEF TreeInv, TreeSound
<1>2. design' = design
  BY DEF TreeNext, treevars, AddSlave, AddAborts, EndAdd, AssignBus, EndAssign, CallSubbus,
         AssignEmpty, StartPlist, PlistStep, EndPlist, RegDefs, LdFile, Cachable
<1>3. Comps' = Comps  BY <1>2 DEF Comps
<1>4. CASE RegDefs \/ LdFile
  <2>1. \E b \in TreeBuses : regbase' = Rebased(Gather(b))
    BY <1>1, <1>4, DesignFacts DEF RegDefs, LdFile
  <2>2. item' = item /\ stage' \in {"ld", "cachable"}  BY <1>4 DEF RegDefs, LdFile
  <2>3. QED  BY <1>1, <1>3, <2>1, <2>2, RebasedType DEF Counters
<1>5. CASE ~(RegDefs \/ LdFile)
  <2>1. regbase' = regbase
    BY <1>5 DEF TreeNext, treevars, AddSlave, AddAborts, EndAdd, AssignBus, EndAssign, CallSubbus,
                AssignEmpty, StartPlist, PlistStep, EndPlist, Cachable
  <2>2. /\ item' \in {item, item + 1, 1}
        /\ stage' \in {stage, "assign", "aborted", "lost", "regdefs", "done"}
    BY <1>5 DEF TreeNext, treevars, control, AddSlave, AddAborts, EndAdd, AssignBus, EndAssign,
                CallSubbus, AssignEmpty, StartPlist, PlistStep, EndPlist, Cachable
  <2>3. QED  BY <1>3, <2>1, <2>2 DEF Counters
<1>6. QED  BY <1>4, <1>5

(* The tree is well formed at any time of the recursion, and no bus is     *)
(* assigned a second time, or while it is being assigned.                  *)
THEOREM TreeTypeCorrect == WideBuses => (TreeSpec /\ []LinesFit => []TreeTypeOK)
<1> SUFFICES ASSUME WideBuses PROVE TreeSpec /\ []LinesFit => []TreeTypeOK  OBVIOUS
<1>1. TreeInit => Counters  BY DEF TreeInit, Counters
<1>2. TreeInv /\ Counters /\ [TreeNext]_treevars => Counters'  BY CountersKept
<1>3. ASSUME TreeInv, Counters PROVE TreeTypeOK
  <2>1. /\ width \in [TreeBuses -> Nat] /\ assigned \subseteq TreeBuses
        /\ stack \in Seq(TreeBuses)
    BY <1>3 DEF TreeInv, TreeSound, TreeStack
  <2>2. slaves \in [TreeBuses -> Seq(Comps)]  BY <1>3 DEF TreeInv, TreeSlaves
  <2>3. TreeBuses \subseteq Nat  BY <1>3, DesignFacts DEF TreeInv, TreeSound
  <2>4. ASSUME NEW i \in 1..Len(stack), NEW j \in 1..Len(stack), stack[i] = stack[j]
        PROVE  i = j
    <3>1. /\ i < j => stack[i] < stack[j]
          /\ j < i => stack[j] < stack[i]
      BY <1>3 DEF TreeInv, TreeStack
    <3>2. stack[i] \in TreeBuses /\ stack[j] \in TreeBuses  BY <2>1
    <3>3. stack[i] \in Nat /\ stack[j] \in Nat  BY <2>3, <3>2
    <3>4. QED  BY <2>4, <3>1, <3>3
  <2>5. IsInjective(stack)  BY <2>1, <2>4 DEF IsInjective
  <2>6. Range(stack) \cap assigned = {}
    BY <1>3, <2>1 DEF TreeInv, TreeStack, Range
  <2>7. QED  BY <1>3, <2>1, <2>2, <2>5, <2>6 DEF TreeTypeOK, Counters
<1>4. QED  BY <1>1, <1>2, <1>3, TreeLaidOut, PTL DEF TreeSpec
=============================================================================
