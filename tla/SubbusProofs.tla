---------------------------- MODULE SubbusProofs ----------------------------
(* Proofs about allocate_subbus, for every bus: the loop that erases from  *)
(* the list it walks loses no slave, moves those it may, and gives no      *)
(* reason to split the buses it creates again; about the logic which is    *)
(* then written (Wiring): it leaves the lists alone, drives every wire     *)
(* that is read, once, and connects every slave to every master; and about *)
(* the replies of that logic on a Wishbone bus (WbReply), to every request *)
(* once, in order, with the data of its slave.                             *)
EXTENDS Wiring, WbReply, Lemmas

(* Slaves are numbered, so that the two buses differ from all of them.     *)
LEMMA SlavesAreNumbers ==
  ASSUME bus \in Bus
  PROVE  /\ Slaves = 1..Len(bus.kinds) /\ Len(bus.kinds) \in Nat
         /\ Sio \notin Slaves /\ Dio \notin Slaves
         /\ \A s \in Slaves : KindOf(s) = bus.kinds[s] /\ KindOf(s) \in Kind
         /\ KindOf(Sio) = "DOUBLE" /\ KindOf(Dio) = "OTHER"
         /\ bus.class \in Class
<1>1. bus.kinds \in Seq(Kind) /\ bus.class \in Class  BY DEF Bus
<1>2. /\ Slaves = 1..Len(bus.kinds) /\ Len(bus.kinds) \in Nat
      /\ \A s \in Slaves : bus.kinds[s] \in Kind
  BY <1>1, LenProperties, ElementOfSeq DEF Slaves
<1>3. Slaves \subseteq Nat  BY <1>2
<1>4. QED  BY <1>1, <1>2, <1>3, SubbusAssumption DEF KindOf

(* The members of a kind; CountOf tallies them.                            *)
OfKind(kind) == {s \in Members : KindOf(s) = kind}

LEMMA CountIsTally ==
  ASSUME NEW q \in Seq(Members), NEW kind
  PROVE  CountOf(kind, q) = Tally(q, OfKind(kind))
<1>1. \A i \in DOMAIN q : q[i] \in Members  BY LenProperties, ElementOfSeq
<1>2. {i \in DOMAIN q : KindOf(q[i]) = kind} = Hits(q, OfKind(kind))
  BY <1>1 DEF Hits, OfKind
<1>3. QED  BY <1>2 DEF CountOf, Tally

(* A list of SINGLE and DOUBLE slaves alone needs no bus below it where    *)
(* the few SINGLE ones are merged, or there is but one kind.               *)
LEMMA NeedsNoBus ==
  ASSUME NEW c \in Class, NEW s \in Nat, NEW d \in Nat,
         c = "axi4" \/ s <= 2 \/ d = 0
  PROVE  ~NeedsSio(Split(c, s, d, s + d)) /\ ~NeedsDio(Split(c, s, d, s + d))
<1> DEFINE sp == Split(c, s, d, s + d)
<1>1. CASE d = 0
  <2>1. s = s + d  BY <1>1
  <2>2. sp.is_single /\ sp.num_single = 0  BY <2>1 DEF Split
  <2>3. sp.num_double = 0  BY <1>1, <2>1 DEF Split
  <2>4. QED  BY <2>2, <2>3 DEF NeedsSio, NeedsDio
<1>2. CASE d > 0
  <2>1. s # s + d /\ 0 + (d + s) = s + d  BY <1>2
  <2>2. sp.is_double  BY <1>2, <2>1 DEF Split
  <2>3. CASE s <= 2
    <3>1. sp.num_single = 0  BY <1>2, <2>1, <2>3 DEF Split
    <3>2. QED  BY <2>2, <3>1 DEF NeedsSio, NeedsDio
  <2>4. CASE c = "axi4"
    <3>1. sp.num_single = 0  BY <1>2, <2>1, <2>4 DEF Split
    <3>2. QED  BY <2>2, <3>1 DEF NeedsSio, NeedsDio
  <2>5. QED  BY <1>2, <2>3, <2>4
<1>3. QED  BY <1>1, <1>2

LEMMA SplitType ==
  ASSUME NEW c \in Class, NEW s \in Nat, NEW d \in Nat, NEW n \in Nat
  PROVE  /\ Split(c, s, d, n) \in [is_single : BOOLEAN, is_double : BOOLEAN,
                                   num_single : Nat, num_double : Nat]
         /\ c = "axil" /\ ~Split(c, s, d, n).is_single
              /\ Split(c, s, d, n).num_single = 0 => s <= 2
<1> DEFINE sp == Split(c, s, d, n)
<1>1. d + s \in Nat  OBVIOUS
<1>2. sp = [is_single |-> sp.is_single, is_double |-> sp.is_double,
            num_single |-> sp.num_single, num_double |-> sp.num_double]
  BY DEF Split
<1>3. sp.is_single \in BOOLEAN /\ sp.is_double \in BOOLEAN  BY DEF Split
<1>4. sp.num_single \in {0, s} /\ sp.num_double \in {0, d, d + s}  BY DEF Split
<1>5. ASSUME c = "axil", ~sp.is_single, sp.num_single = 0 PROVE s <= 2
  <2>1. SUFFICES ASSUME s > 2 PROVE FALSE  OBVIOUS
  <2>2. s # n  BY <1>5 DEF Split
  <2>3. sp.num_single = s  BY <1>5, <2>1, <2>2 DEF Split
  <2>4. QED  BY <1>5, <2>1, <2>3
<1> HIDE DEF sp
<1>6. sp \in [is_single : BOOLEAN, is_double : BOOLEAN, num_single : Nat, num_double : Nat]
  <2>1. sp.num_single \in Nat /\ sp.num_double \in Nat  BY <1>1, <1>4
  <2>2. QED  BY <1>2, <1>3, <2>1
<1>7. QED  BY <1>5, <1>6 DEF sp

-----------------------------------------------------------------------------
Everywhere(K) == Tally(plist, K) + Tally(slist, K) + Tally(dlist, K)

(* Nothing is lost and nothing is doubled.                                 *)
NothingLost ==
  \A s \in Members : Everywhere({s}) = IF s \in Slaves \cup created THEN 1 ELSE 0

(* When the two buses are made, and that the lists below them are empty    *)
(* until the loop runs, which it does for a bus of several kinds only.     *)
InOrder ==
  /\ pc \in {"count", "sio"} => created = {}
  /\ pc = "dio" => Dio \notin created
  /\ pc \in {"dio", "move", "done"} => (Sio \in created <=> NeedsSio(split))
  /\ pc = "move" => ~split.is_single /\ ~split.is_double
  /\ pc \in {"count", "sio", "dio"} \/ split.is_single \/ split.is_double
       => slist = <<>> /\ dlist = <<>> /\ pi = 1

(* Each slave that the loop has seen went where it belongs.                *)
Sorted ==
  /\ \A i \in DOMAIN slist : ToSlist(slist[i])
  /\ \A i \in DOMAIN dlist : ToDlist(dlist[i]) /\ ~ToSlist(dlist[i])
  /\ \A i \in 1..(pi - 1) : ~ToSlist(plist[i]) /\ ~ToDlist(plist[i])
  /\ pc = "done" /\ ~split.is_single /\ ~split.is_double => pi > Len(plist)

(* AXI-lite counts SINGLE slaves as DOUBLE ones only if they are few.      *)
FewSingles ==
  pc # "count" /\ bus.class = "axil" /\ ~split.is_single /\ split.num_single = 0
    => Everywhere(OfKind("SINGLE")) <= 2

SubbusInv == TypeOK /\ NothingLost /\ InOrder /\ Sorted /\ FewSingles

LEMMA SameBus ==
  ASSUME bus' = bus
  PROVE  /\ Slaves' = Slaves /\ Members' = Members
         /\ \A s : KindOf(s)' = KindOf(s)
         /\ OfKind("SINGLE")' = OfKind("SINGLE")
BY DEF Slaves, Members, KindOf, OfKind

(* The list of a bus holds each slave once, and nothing else.              *)
LEMMA NumberedTally ==
  ASSUME NEW n \in Nat, NEW x
  PROVE  Tally([s \in 1..n |-> s], {x}) = IF x \in 1..n THEN 1 ELSE 0
<1> DEFINE q == [s \in 1..n |-> s]
<1>1. DOMAIN q = 1..n /\ \A i \in 1..n : q[i] = i  OBVIOUS
<1>2. CASE x \in 1..n
  <2>1. Hits(q, {x}) = {x}  BY <1>1, <1>2 DEF Hits
  <2>2. QED  BY <2>1, <1>2, FS_Singleton DEF Tally
<1>3. CASE x \notin 1..n
  <2>1. Hits(q, {x}) = {}  BY <1>1, <1>3 DEF Hits
  <2>2. QED  BY <2>1, <1>3, FS_EmptySet DEF Tally
<1>4. QED  BY <1>2, <1>3

LEMMA StartsSorted ==
  ASSUME Init
  PROVE  SubbusInv
<1>1. bus \in Bus  BY BusesAssumption DEF Init
<1>2. PICK n \in Nat : n = Len(bus.kinds)  BY <1>1, SlavesAreNumbers
<1>3. Slaves = 1..n /\ Sio \notin Slaves /\ Dio \notin Slaves
  BY <1>1, <1>2, SlavesAreNumbers
<1>4. plist = [s \in 1..n |-> s]  BY <1>3 DEF Init, Slaves
<1>5. /\ slist = <<>> /\ dlist = <<>> /\ created = {} /\ pi = 1 /\ pc = "count"
      /\ split = [is_single |-> FALSE, is_double |-> FALSE, num_single |-> 0, num_double |-> 0]
  BY DEF Init
<1>6. plist \in Seq(Members) /\ Len(plist) = n
  <2>1. 1..n \subseteq Members  BY <1>3 DEF Members
  <2>2. [s \in 1..n |-> s] \in [1..n -> Members]  BY <2>1
  <2>3. QED  BY <2>2, <1>4
<1>7. TypeOK
  <2>1. split \in [is_single : BOOLEAN, is_double : BOOLEAN, num_single : Nat, num_double : Nat]
    BY <1>5
  <2>2. <<>> \in Seq(Members)  BY EmptySeq
  <2>3. pi \in 1..(Len(plist) + 1)  BY <1>5, <1>6
  <2>4. QED  BY <2>1, <2>2, <2>3, <1>1, <1>5, <1>6 DEF TypeOK
<1>8. NothingLost
  <2> SUFFICES ASSUME NEW s \in Members
               PROVE  Everywhere({s}) = IF s \in Slaves \cup created THEN 1 ELSE 0
    BY DEF NothingLost
  <2>1. Tally(plist, {s}) = IF s \in 1..n THEN 1 ELSE 0  BY <1>4, NumberedTally
  <2>2. Tally(slist, {s}) = 0 /\ Tally(dlist, {s}) = 0  BY <1>5, TallyEmpty
  <2>3. QED  BY <2>1, <2>2, <1>3, <1>5 DEF Everywhere
<1>9. InOrder  BY <1>5 DEF InOrder
<1>10. Sorted
  <2>1. 1..(pi - 1) = {}  BY <1>5
  <2>2. QED  BY <2>1, <1>5 DEF Sorted
<1>11. FewSingles  BY <1>5 DEF FewSingles
<1>12. QED  BY <1>7, <1>8, <1>9, <1>10, <1>11 DEF SubbusInv

(* countsio() counts the list of the bus before anything is moved.         *)
LEMMA CountKeeps ==
  ASSUME SubbusInv, CountSio
  PROVE  SubbusInv'
<1>1. /\ bus' = bus /\ plist' = plist /\ slist' = slist /\ dlist' = dlist
      /\ created' = created /\ pi' = pi /\ pc = "count" /\ pc' = "sio"
      /\ split' = SplitOf(plist)
  BY DEF CountSio
<1>2. /\ Slaves' = Slaves /\ Members' = Members
      /\ OfKind("SINGLE")' = OfKind("SINGLE")
  BY <1>1, SameBus
<1>3. plist \in Seq(Members) /\ bus.class \in Class
  BY SlavesAreNumbers DEF SubbusInv, TypeOK
<1>4. PICK s \in Nat : s = Tally(plist, OfKind("SINGLE")) /\ s = CountOf("SINGLE", plist)
  BY <1>3, CountIsTally, TallyType
<1>5. PICK d \in Nat : d = CountOf("DOUBLE", plist)
  BY <1>3, CountIsTally, TallyType
<1>6. Len(plist) \in Nat  BY <1>3, LenProperties
<1>7. /\ split' \in [is_single : BOOLEAN, is_double : BOOLEAN, num_single : Nat, num_double : Nat]
      /\ bus.class = "axil" /\ ~split'.is_single /\ split'.num_single = 0 => s <= 2
  BY <1>1, <1>3, <1>4, <1>5, <1>6, SplitType DEF SplitOf
<1>8. TypeOK'  BY <1>1, <1>2, <1>7 DEF SubbusInv, TypeOK
<1>9. NothingLost'  BY <1>1, <1>2 DEF SubbusInv, NothingLost, Everywhere
<1>10. slist = <<>> /\ dlist = <<>> /\ created = {} /\ pi = 1
  BY <1>1 DEF SubbusInv, InOrder
<1>11. InOrder'  BY <1>1, <1>10 DEF InOrder
<1>12. Sorted'
  <2>1. 1..(pi' - 1) = {}  BY <1>1, <1>10
  <2>2. QED  BY <2>1, <1>1, <1>10 DEF Sorted
<1>13. FewSingles'
  <2>1. Tally(slist, OfKind("SINGLE")) = 0 /\ Tally(dlist, OfKind("SINGLE")) = 0
    BY <1>10, TallyEmpty
  <2>2. Everywhere(OfKind("SINGLE"))' = s + 0 + 0
    BY <2>1, <1>1, <1>2, <1>4 DEF Everywhere
  <2>3. s <= 2 => s + 0 + 0 <= 2  OBVIOUS
  <2>4. QED  BY <2>2, <2>3, <1>1, <1>7 DEF FewSingles
<1>14. QED  BY <1>8, <1>9, <1>11, <1>12, <1>13 DEF SubbusInv

(* A bus that is made is added to the list of the bus, and counted once.   *)
LEMMA CreatedTally ==
  ASSUME SubbusInv, NEW x \in {Sio, Dio}, x \notin created,
         plist' = Append(plist, x), created' = created \cup {x},
         UNCHANGED <<bus, slist, dlist>>
  PROVE  /\ NothingLost'
         /\ Everywhere(OfKind("SINGLE"))' = Everywhere(OfKind("SINGLE"))
         /\ plist' \in Seq(Members) /\ Len(plist') = Len(plist) + 1
<1>1. /\ Slaves' = Slaves /\ Members' = Members
      /\ OfKind("SINGLE")' = OfKind("SINGLE")
  BY SameBus
<1>2. /\ bus \in Bus /\ plist \in Seq(Members) /\ slist \in Seq(Members)
      /\ dlist \in Seq(Members) /\ x \in Members
  BY DEF SubbusInv, TypeOK, Members
<1>3. x \notin Slaves /\ KindOf(x) # "SINGLE"  BY <1>2, SlavesAreNumbers
<1>4. ASSUME NEW K
      PROVE  /\ Everywhere(K)' = Everywhere(K) + (IF x \in K THEN 1 ELSE 0)
             /\ Everywhere(K) \in Nat
  <2>1. PICK a \in Nat : a = Tally(plist, K)  BY <1>2, TallyType
  <2>2. PICK b \in Nat : b = Tally(slist, K)  BY <1>2, TallyType
  <2>3. PICK c \in Nat : c = Tally(dlist, K)  BY <1>2, TallyType
  <2>4. Tally(plist', K) = a + (IF x \in K THEN 1 ELSE 0)
    BY <1>2, <2>1, AppendTally
  <2>5. Everywhere(K) = a + b + c  BY <2>1, <2>2, <2>3 DEF Everywhere
  <2>6. Everywhere(K)' = Tally(plist', K) + Tally(slist', K) + Tally(dlist', K)
    BY DEF Everywhere
  <2>7. Everywhere(K)' = (a + (IF x \in K THEN 1 ELSE 0)) + b + c
    BY <2>2, <2>3, <2>4, <2>6
  <2>8. (a + (IF x \in K THEN 1 ELSE 0)) + b + c = (a + b + c) + (IF x \in K THEN 1 ELSE 0)
    OBVIOUS
  <2>9. QED  BY <2>5, <2>7, <2>8
<1>5. ASSUME NEW s \in Members
      PROVE  Everywhere({s})' = IF s \in Slaves \cup created' THEN 1 ELSE 0
  <2>1. Everywhere({s}) = IF s \in Slaves \cup created THEN 1 ELSE 0
    BY DEF SubbusInv, NothingLost
  <2>2. Everywhere({s})' = Everywhere({s}) + (IF x = s THEN 1 ELSE 0)
    BY <1>4
  <2>3. CASE x = s
    <3>1. s \notin Slaves \cup created  BY <2>3, <1>3
    <3>2. QED  BY <3>1, <2>1, <2>2, <2>3
  <2>4. CASE x # s
    <3>1. s \in Slaves \cup created' <=> s \in Slaves \cup created  BY <2>4
    <3>2. QED  BY <3>1, <2>1, <2>2, <2>4
  <2>5. QED  BY <2>3, <2>4
<1>6. NothingLost'  BY <1>1, <1>5 DEF NothingLost
<1>7. Everywhere(OfKind("SINGLE"))' = Everywhere(OfKind("SINGLE"))
  <2>1. x \notin OfKind("SINGLE")  BY <1>3 DEF OfKind
  <2>2. PICK n \in Nat : n = Everywhere(OfKind("SINGLE"))  BY <1>4
  <2>3. Everywhere(OfKind("SINGLE"))' = n + (IF x \in OfKind("SINGLE") THEN 1 ELSE 0)
    BY <1>1, <1>4, <2>2
  <2>4. QED  BY <2>1, <2>2, <2>3
<1>8. QED  BY <1>2, <1>6, <1>7, Appended

LEMMA SioKeeps ==
  ASSUME SubbusInv, CreateSio
  PROVE  SubbusInv'
<1>1. /\ bus' = bus /\ slist' = slist /\ dlist' = dlist /\ split' = split
      /\ pi' = pi /\ pc = "sio" /\ pc' = "dio"
  BY DEF CreateSio
<1>2. slist = <<>> /\ dlist = <<>> /\ created = {} /\ pi = 1
  BY <1>1 DEF SubbusInv, InOrder
<1>3. Slaves' = Slaves /\ Members' = Members /\ OfKind("SINGLE")' = OfKind("SINGLE")
  BY <1>1, SameBus
<1>4. /\ NothingLost'
      /\ Everywhere(OfKind("SINGLE"))' = Everywhere(OfKind("SINGLE"))
      /\ plist' \in Seq(Members) /\ Len(plist') >= Len(plist)
      /\ created' \subseteq {Sio, Dio}
  <2>1. plist \in Seq(Members) /\ Len(plist) \in Nat
    BY LenProperties DEF SubbusInv, TypeOK
  <2>2. CASE NeedsSio(split)
    <3>1. plist' = Append(plist, Sio) /\ created' = created \cup {Sio}
      BY <2>2 DEF CreateSio
    <3>2. UNCHANGED <<bus, slist, dlist>> /\ Sio \notin created  BY <1>1, <1>2
    <3>3. QED  BY <3>1, <3>2, <2>1, <1>2, CreatedTally
  <2>3. CASE ~NeedsSio(split)
    <3>1. plist' = plist /\ created' = created  BY <2>3 DEF CreateSio
    <3>2. QED  BY <3>1, <2>1, <1>1, <1>2, <1>3 DEF SubbusInv, NothingLost, Everywhere
  <2>4. QED  BY <2>2, <2>3
<1>5. TypeOK'
  <2>1. Len(plist') \in Nat  BY <1>4, LenProperties
  <2>2. pi' \in 1..(Len(plist') + 1)  BY <2>1, <1>1, <1>2
  <2>3. QED  BY <2>2, <1>1, <1>3, <1>4 DEF SubbusInv, TypeOK
<1>6. InOrder'
  <2>1. Dio \notin created'  BY <1>2, SubbusAssumption DEF CreateSio
  <2>2. Sio \in created' <=> NeedsSio(split')  BY <1>1, <1>2 DEF CreateSio
  <2>3. QED  BY <2>1, <2>2, <1>1, <1>2 DEF InOrder
<1>7. Sorted'
  <2>1. 1..(pi' - 1) = {}  BY <1>1, <1>2
  <2>2. QED  BY <2>1, <1>1, <1>2 DEF Sorted
<1>8. FewSingles'  BY <1>1, <1>4 DEF SubbusInv, FewSingles
<1>9. QED  BY <1>4, <1>5, <1>6, <1>7, <1>8 DEF SubbusInv

LEMMA DioKeeps ==
  ASSUME SubbusInv, CreateDio
  PROVE  SubbusInv'
<1>1. /\ bus' = bus /\ slist' = slist /\ dlist' = dlist /\ split' = split
      /\ pi' = pi /\ pc = "dio"
      /\ pc' = IF split.is_single \/ split.is_double THEN "done" ELSE "move"
  BY DEF CreateDio
<1>2. slist = <<>> /\ dlist = <<>> /\ Dio \notin created /\ pi = 1
  BY <1>1 DEF SubbusInv, InOrder
<1>3. Slaves' = Slaves /\ Members' = Members /\ OfKind("SINGLE")' = OfKind("SINGLE")
  BY <1>1, SameBus
<1>4. /\ NothingLost'
      /\ Everywhere(OfKind("SINGLE"))' = Everywhere(OfKind("SINGLE"))
      /\ plist' \in Seq(Members)
      /\ created' \subseteq {Sio, Dio}
      /\ Sio \in created' <=> Sio \in created
  <2>1. plist \in Seq(Members) /\ created \subseteq {Sio, Dio}
    BY DEF SubbusInv, TypeOK
  <2>2. CASE NeedsDio(split)
    <3>1. plist' = Append(plist, Dio) /\ created' = created \cup {Dio}
      BY <2>2 DEF CreateDio
    <3>2. UNCHANGED <<bus, slist, dlist>>  BY <1>1
    <3>3. /\ NothingLost'
          /\ Everywhere(OfKind("SINGLE"))' = Everywhere(OfKind("SINGLE"))
          /\ plist' \in Seq(Members)
      BY <3>1, <3>2, <1>2, CreatedTally
    <3>4. QED  BY <3>1, <3>3, <2>1, SubbusAssumption
  <2>3. CASE ~NeedsDio(split)
    <3>1. plist' = plist /\ created' = created  BY <2>3 DEF CreateDio
    <3>2. QED  BY <3>1, <2>1, <1>1, <1>2, <1>3 DEF SubbusInv, NothingLost, Everywhere
  <2>4. QED  BY <2>2, <2>3
<1>5. TypeOK'
  <2>1. Len(plist') \in Nat  BY <1>4, LenProperties
  <2>2. pi' \in 1..(Len(plist') + 1)  BY <2>1, <1>1, <1>2
  <2>3. QED  BY <2>2, <1>1, <1>3, <1>4 DEF SubbusInv, TypeOK
<1>6. InOrder'
  <2>1. Sio \in created' <=> NeedsSio(split')
    BY <1>1, <1>4 DEF SubbusInv, InOrder, NeedsSio
  <2>2. QED  BY <2>1, <1>1, <1>2 DEF InOrder
<1>7. Sorted'
  <2>1. 1..(pi' - 1) = {}  BY <1>1, <1>2
  <2>2. QED  BY <2>1, <1>1, <1>2 DEF Sorted
<1>8. FewSingles'  BY <1>1, <1>4 DEF SubbusInv, FewSingles
<1>9. QED  BY <1>4, <1>5, <1>6, <1>7, <1>8 DEF SubbusInv

(* What the loop does to the list it walks, wherever the slave goes.       *)
LEMMA ErasedPlace ==
  ASSUME SubbusInv, pc = "move", pi <= Len(plist), Erase, bus' = bus,
         created' = created
  PROVE  /\ plist \in Seq(Members) /\ pi \in 1..Len(plist)
         /\ plist[pi] \in Members
         /\ plist' = RemoveAt(plist, pi) /\ plist' \in Seq(Members)
         /\ pi' = pi /\ pi' \in 1..(Len(plist') + 1)
         /\ \A i \in 1..(pi' - 1) : ~ToSlist(plist[i])' /\ ~ToDlist(plist[i])'
<1>1. plist \in Seq(Members) /\ pi \in 1..(Len(plist) + 1)
  BY DEF SubbusInv, TypeOK
<1>2. Len(plist) \in Nat  BY <1>1, LenProperties
<1>3. pi \in 1..Len(plist)  BY <1>1, <1>2
<1>4. plist' = RemoveAt(plist, pi) /\ pi' = pi  BY DEF Erase
<1>5. /\ plist' \in Seq(Members) /\ Len(plist') = Len(plist) - 1
      /\ \A j \in 1..(Len(plist) - 1) : plist'[j] = plist[IF j < pi THEN j ELSE j + 1]
  BY <1>1, <1>3, <1>4, Erased
<1>6. pi' \in 1..(Len(plist') + 1)  BY <1>2, <1>3, <1>4, <1>5
<1>7. ASSUME NEW i \in 1..(pi' - 1)
      PROVE  ~ToSlist(plist[i])' /\ ~ToDlist(plist[i])'
  <2>1. i \in 1..(pi - 1) /\ i \in 1..(Len(plist) - 1) /\ i < pi
    BY <1>2, <1>3, <1>4
  <2>2. plist'[i] = plist[i]  BY <2>1, <1>5
  <2>3. ~ToSlist(plist[i]) /\ ~ToDlist(plist[i])  BY <2>1 DEF SubbusInv, Sorted
  <2>4. \A s : KindOf(s)' = KindOf(s)  BY SameBus
  <2>5. QED  BY <2>2, <2>3, <2>4 DEF ToSlist, ToDlist
<1>8. QED  BY <1>1, <1>3, <1>4, <1>5, <1>6, <1>7, ElementOfSeq

LEMMA SlistKeeps ==
  ASSUME SubbusInv, MoveToSlist
  PROVE  SubbusInv'
<1>1. /\ pc = "move" /\ pi <= Len(plist) /\ Erase /\ ToSlist(plist[pi])
      /\ slist' = Append(slist, plist[pi]) /\ bus' = bus /\ pc' = pc
      /\ dlist' = dlist /\ created' = created /\ split' = split
  BY DEF MoveToSlist
<1>2. /\ plist \in Seq(Members) /\ pi \in 1..Len(plist) /\ plist[pi] \in Members
      /\ plist' = RemoveAt(plist, pi) /\ plist' \in Seq(Members)
      /\ pi' = pi /\ pi' \in 1..(Len(plist') + 1)
      /\ \A i \in 1..(pi' - 1) : ~ToSlist(plist[i])' /\ ~ToDlist(plist[i])'
  BY <1>1, ErasedPlace
<1>3. /\ Slaves' = Slaves /\ Members' = Members /\ OfKind("SINGLE")' = OfKind("SINGLE")
      /\ \A s : KindOf(s)' = KindOf(s)
  BY <1>1, SameBus
<1>4. slist \in Seq(Members) /\ dlist \in Seq(Members)  BY DEF SubbusInv, TypeOK
<1>5. /\ slist' \in Seq(Members) /\ DOMAIN slist' = 1..(Len(slist) + 1)
      /\ \A i \in 1..Len(slist) : slist'[i] = slist[i]
      /\ slist'[Len(slist) + 1] = plist[pi]
  BY <1>1, <1>2, <1>4, Appended
<1>6. Len(slist) \in Nat /\ DOMAIN slist = 1..Len(slist)  BY <1>4, LenProperties
<1>7. ASSUME NEW K PROVE Everywhere(K)' = Everywhere(K)
  <2>1. Tally(plist', K) + Tally(slist', K) = Tally(plist, K) + Tally(slist, K)
    BY <1>1, <1>2, <1>4, MovedTally
  <2>2. QED  BY <2>1, <1>1 DEF Everywhere
<1>8. TypeOK'  BY <1>1, <1>2, <1>3, <1>4, <1>5 DEF SubbusInv, TypeOK
<1>9. NothingLost'  BY <1>1, <1>3, <1>7 DEF SubbusInv, NothingLost
<1>10. InOrder'  BY <1>1 DEF SubbusInv, InOrder, NeedsSio
<1>11. Sorted'
  <2>1. ASSUME NEW i \in DOMAIN slist' PROVE ToSlist(slist[i])'
    <3>1. i \in 1..Len(slist) \/ i = Len(slist) + 1  BY <1>5, <1>6
    <3>2. CASE i \in 1..Len(slist)
      <4>1. slist'[i] = slist[i] /\ ToSlist(slist[i])
        BY <3>2, <1>5, <1>6 DEF SubbusInv, Sorted
      <4>2. QED  BY <4>1, <1>1, <1>3 DEF ToSlist
    <3>3. CASE i = Len(slist) + 1
      <4>1. slist'[i] = plist[pi]  BY <3>3, <1>5
      <4>2. QED  BY <4>1, <1>1, <1>3 DEF ToSlist
    <3>4. QED  BY <3>1, <3>2, <3>3
  <2>2. \A i \in DOMAIN dlist' : ToDlist(dlist[i])' /\ ~ToSlist(dlist[i])'
    BY <1>1, <1>3 DEF SubbusInv, Sorted, ToSlist, ToDlist
  <2>3. QED  BY <2>1, <2>2, <1>1, <1>2 DEF Sorted
<1>12. FewSingles'  BY <1>1, <1>3, <1>7 DEF SubbusInv, FewSingles
<1>13. QED  BY <1>8, <1>9, <1>10, <1>11, <1>12 DEF SubbusInv

LEMMA DlistKeeps ==
  ASSUME SubbusInv, MoveToDlist
  PROVE  SubbusInv'
<1>1. /\ pc = "move" /\ pi <= Len(plist) /\ Erase
      /\ ToDlist(plist[pi]) /\ ~ToSlist(plist[pi])
      /\ dlist' = Append(dlist, plist[pi]) /\ bus' = bus /\ pc' = pc
      /\ slist' = slist /\ created' = created /\ split' = split
  BY DEF MoveToDlist
<1>2. /\ plist \in Seq(Members) /\ pi \in 1..Len(plist) /\ plist[pi] \in Members
      /\ plist' = RemoveAt(plist, pi) /\ plist' \in Seq(Members)
      /\ pi' = pi /\ pi' \in 1..(Len(plist') + 1)
      /\ \A i \in 1..(pi' - 1) : ~ToSlist(plist[i])' /\ ~ToDlist(plist[i])'
  BY <1>1, ErasedPlace
<1>3. /\ Slaves' = Slaves /\ Members' = Members /\ OfKind("SINGLE")' = OfKind("SINGLE")
      /\ \A s : KindOf(s)' = KindOf(s)
  BY <1>1, SameBus
<1>4. slist \in Seq(Members) /\ dlist \in Seq(Members)  BY DEF SubbusInv, TypeOK
<1>5. /\ dlist' \in Seq(Members) /\ DOMAIN dlist' = 1..(Len(dlist) + 1)
      /\ \A i \in 1..Len(dlist) : dlist'[i] = dlist[i]
      /\ dlist'[Len(dlist) + 1] = plist[pi]
  BY <1>1, <1>2, <1>4, Appended
<1>6. Len(dlist) \in Nat /\ DOMAIN dlist = 1..Len(dlist)  BY <1>4, LenProperties
<1>7. ASSUME NEW K PROVE Everywhere(K)' = Everywhere(K)
  <2>1. Tally(plist', K) + Tally(dlist', K) = Tally(plist, K) + Tally(dlist, K)
    BY <1>1, <1>2, <1>4, MovedTally
  <2>2. PICK a \in Nat : a = Tally(plist, K)  BY <1>2, TallyType
  <2>3. PICK b \in Nat : b = Tally(slist, K)  BY <1>4, TallyType
  <2>4. PICK c \in Nat : c = Tally(dlist, K)  BY <1>4, TallyType
  <2>5. PICK d \in Nat : d = Tally(plist', K)  BY <1>2, TallyType
  <2>6. PICK e \in Nat : e = Tally(dlist', K)  BY <1>5, TallyType
  <2>7. d + e = a + c  BY <2>1, <2>2, <2>4, <2>5, <2>6
  <2>8. d + b + e = a + b + c  BY <2>7
  <2>9. Everywhere(K) = a + b + c  BY <2>2, <2>3, <2>4 DEF Everywhere
  <2>10. Everywhere(K)' = d + b + e  BY <2>3, <2>5, <2>6, <1>1 DEF Everywhere
  <2>11. QED  BY <2>8, <2>9, <2>10
<1>8. TypeOK'  BY <1>1, <1>2, <1>3, <1>4, <1>5 DEF SubbusInv, TypeOK
<1>9. NothingLost'  BY <1>1, <1>3, <1>7 DEF SubbusInv, NothingLost
<1>10. InOrder'  BY <1>1 DEF SubbusInv, InOrder, NeedsSio
<1>11. Sorted'
  <2>1. ASSUME NEW i \in DOMAIN dlist'
        PROVE  ToDlist(dlist[i])' /\ ~ToSlist(dlist[i])'
    <3>1. i \in 1..Len(dlist) \/ i = Len(dlist) + 1  BY <1>5, <1>6
    <3>2. CASE i \in 1..Len(dlist)
      <4>1. dlist'[i] = dlist[i] /\ ToDlist(dlist[i]) /\ ~ToSlist(dlist[i])
        BY <3>2, <1>5, <1>6 DEF SubbusInv, Sorted
      <4>2. QED  BY <4>1, <1>1, <1>3 DEF ToSlist, ToDlist
    <3>3. CASE i = Len(dlist) + 1
      <4>1. dlist'[i] = plist[pi]  BY <3>3, <1>5
      <4>2. QED  BY <4>1, <1>1, <1>3 DEF ToSlist, ToDlist
    <3>4. QED  BY <3>1, <3>2, <3>3
  <2>2. \A i \in DOMAIN slist' : ToSlist(slist[i])'
    BY <1>1, <1>3 DEF SubbusInv, Sorted, ToSlist
  <2>3. QED  BY <2>1, <2>2, <1>1, <1>2 DEF Sorted
<1>12. FewSingles'  BY <1>1, <1>3, <1>7 DEF SubbusInv, FewSingles
<1>13. QED  BY <1>8, <1>9, <1>10, <1>11, <1>12 DEF SubbusInv

(* The steps that move nothing.                                            *)
LEMMA LoopKeeps ==
  ASSUME SubbusInv, Leave \/ EndMove \/ UNCHANGED vars
  PROVE  SubbusInv'
<1>1. UNCHANGED <<bus, plist, slist, dlist, created, split>>
  BY DEF Leave, EndMove, vars
<1>2. /\ Slaves' = Slaves /\ Members' = Members /\ OfKind("SINGLE")' = OfKind("SINGLE")
      /\ \A s : KindOf(s)' = KindOf(s)
  BY <1>1, SameBus
<1>3. plist \in Seq(Members) /\ Len(plist) \in Nat /\ pi \in 1..(Len(plist) + 1)
  BY LenProperties DEF SubbusInv, TypeOK
<1>4. \A s : ToSlist(s)' = ToSlist(s) /\ ToDlist(s)' = ToDlist(s)
  BY <1>1, <1>2 DEF ToSlist, ToDlist
<1>5. NothingLost'  BY <1>1, <1>2 DEF SubbusInv, NothingLost, Everywhere
<1>6. Everywhere(OfKind("SINGLE"))' = Everywhere(OfKind("SINGLE"))
  BY <1>1, <1>2 DEF Everywhere
<1>7. CASE Leave
  <2>1. /\ pc = "move" /\ pc' = pc /\ pi <= Len(plist) /\ pi' = pi + 1
        /\ ~ToSlist(plist[pi]) /\ ~ToDlist(plist[pi])
    BY <1>7 DEF Leave
  <2>2. pi' \in 1..(Len(plist) + 1)  BY <2>1, <1>3
  <2>3. TypeOK'  BY <2>1, <2>2, <1>1, <1>2 DEF SubbusInv, TypeOK
  <2>4. InOrder'  BY <2>1, <1>1 DEF SubbusInv, InOrder, NeedsSio
  <2>5. \A i \in 1..(pi' - 1) : ~ToSlist(plist[i]) /\ ~ToDlist(plist[i])
    <3>1. \A i \in 1..(pi' - 1) : i \in 1..(pi - 1) \/ i = pi  BY <2>1, <1>3
    <3>2. QED  BY <3>1, <2>1 DEF SubbusInv, Sorted
  <2>6. Sorted'  BY <2>1, <2>5, <1>1, <1>4 DEF SubbusInv, Sorted
  <2>7. FewSingles'  BY <2>1, <1>1, <1>6 DEF SubbusInv, FewSingles
  <2>8. QED  BY <2>3, <2>4, <2>6, <2>7, <1>5 DEF SubbusInv
<1>8. CASE EndMove
  <2>1. pc = "move" /\ pc' = "done" /\ pi > Len(plist) /\ pi' = pi
    BY <1>8 DEF EndMove
  <2>2. TypeOK'  BY <2>1, <1>1, <1>2 DEF SubbusInv, TypeOK
  <2>3. InOrder'  BY <2>1, <1>1 DEF SubbusInv, InOrder, NeedsSio
  <2>4. Sorted'  BY <2>1, <1>1, <1>4 DEF SubbusInv, Sorted
  <2>5. FewSingles'  BY <2>1, <1>1, <1>6 DEF SubbusInv, FewSingles
  <2>6. QED  BY <2>2, <2>3, <2>4, <2>5, <1>5 DEF SubbusInv
<1>9. CASE UNCHANGED vars
  <2>1. pc' = pc /\ pi' = pi  BY <1>9 DEF vars
  <2>2. TypeOK'  BY <2>1, <1>1, <1>2 DEF SubbusInv, TypeOK
  <2>3. InOrder'  BY <2>1, <1>1 DEF SubbusInv, InOrder, NeedsSio
  <2>4. Sorted'  BY <2>1, <1>1, <1>4 DEF SubbusInv, Sorted
  <2>5. FewSingles'  BY <2>1, <1>1, <1>6 DEF SubbusInv, FewSingles
  <2>6. QED  BY <2>2, <2>3, <2>4, <2>5, <1>5 DEF SubbusInv
<1>10. QED  BY <1>7, <1>8, <1>9

LEMMA SubbusInvHolds == Spec => []SubbusInv
<1>1. Init => SubbusInv  BY StartsSorted
<1>2. SubbusInv /\ [Next]_vars => SubbusInv'
  <2> SUFFICES ASSUME SubbusInv, [Next]_vars PROVE SubbusInv'  OBVIOUS
  <2>1. CASE CountSio  BY <2>1, CountKeeps
  <2>2. CASE CreateSio  BY <2>2, SioKeeps
  <2>3. CASE CreateDio  BY <2>3, DioKeeps
  <2>4. CASE MoveToSlist  BY <2>4, SlistKeeps
  <2>5. CASE MoveToDlist  BY <2>5, DlistKeeps
  <2>6. CASE Leave \/ EndMove \/ UNCHANGED vars  BY <2>6, LoopKeeps
  <2>7. QED  BY <2>1, <2>2, <2>3, <2>4, <2>5, <2>6 DEF Next
<1>3. QED  BY <1>1, <1>2, PTL DEF Spec

(* Every variable of allocate_subbus keeps its type; pi never leaves the   *)
(* list.                                                                   *)
THEOREM SubbusTypes == Spec => []TypeOK
<1>1. SubbusInv => TypeOK  BY DEF SubbusInv
<1>2. QED  BY <1>1, SubbusInvHolds, PTL

(* Erasing from the list that the loop walks loses no slave of any bus and *)
(* puts none on two lists, at any time.                                    *)
THEOREM NoSlaveLost == Spec => []OnOneList
<1>1. SubbusInv => OnOneList
  <2> SUFFICES ASSUME SubbusInv, NEW s \in Slaves \cup created PROVE Places(s) = 1
    BY DEF OnOneList
  <2>1. s \in Members  BY DEF SubbusInv, TypeOK, Members
  <2>2. Everywhere({s}) = 1  BY <2>1 DEF SubbusInv, NothingLost
  <2>3. \A q : {i \in DOMAIN q : q[i] = s} = Hits(q, {s})  BY DEF Hits
  <2>4. Places(s) = Everywhere({s})  BY <2>3 DEF Places, Everywhere, Tally
  <2>5. QED  BY <2>2, <2>4
<1>2. QED  BY <1>1, SubbusInvHolds, PTL

(* Below the first bus there are SINGLE slaves alone: they need no other.  *)
LEMMA SlistNeedsNone ==
  ASSUME SubbusInv
  PROVE  ~NeedsSio(SplitOf(slist)) /\ ~NeedsDio(SplitOf(slist))
<1>1. slist \in Seq(Members) /\ bus.class \in Class
  BY SlavesAreNumbers DEF SubbusInv, TypeOK
<1>2. ASSUME NEW i \in DOMAIN slist
      PROVE  slist[i] \in OfKind("SINGLE") /\ slist[i] \notin OfKind("DOUBLE")
  <2>1. slist[i] \in Members  BY <1>1, LenProperties, ElementOfSeq
  <2>2. KindOf(slist[i]) = "SINGLE"  BY DEF SubbusInv, Sorted, ToSlist
  <2>3. QED  BY <2>1, <2>2 DEF OfKind
<1>3. /\ CountOf("SINGLE", slist) = Len(slist) /\ CountOf("DOUBLE", slist) = 0
      /\ Len(slist) \in Nat
  BY <1>1, <1>2, CountIsTally, TallyAll, LenProperties
<1>4. PICK n \in Nat : n = Len(slist)  BY <1>3
<1>5. n + 0 = n  OBVIOUS
<1>6. SplitOf(slist) = Split(bus.class, n, 0, n + 0)
  BY <1>3, <1>4, <1>5 DEF SplitOf
<1>7. 0 \in Nat  OBVIOUS
<1>8. QED  BY <1>1, <1>6, <1>7, NeedsNoBus

(* Below the second one there are SINGLE and DOUBLE slaves, but SINGLE     *)
(* ones only where AXI-lite found no more than two of them.                *)
LEMMA DlistNeedsNone ==
  ASSUME SubbusInv
  PROVE  ~NeedsSio(SplitOf(dlist)) /\ ~NeedsDio(SplitOf(dlist))
<1>1. /\ dlist \in Seq(Members) /\ plist \in Seq(Members) /\ slist \in Seq(Members)
      /\ bus.class \in Class
  BY SlavesAreNumbers DEF SubbusInv, TypeOK
<1> DEFINE S == OfKind("SINGLE")
           D == OfKind("DOUBLE")
<1>2. \A i \in DOMAIN dlist : dlist[i] \in Members
  BY <1>1, LenProperties, ElementOfSeq
<1>3. \A i \in DOMAIN dlist : dlist[i] \in S \cup D
  <2> SUFFICES ASSUME NEW i \in DOMAIN dlist PROVE dlist[i] \in S \cup D  OBVIOUS
  <2>1. KindOf(dlist[i]) \in {"SINGLE", "DOUBLE"}  BY DEF SubbusInv, Sorted, ToDlist
  <2>2. QED  BY <2>1, <1>2 DEF OfKind
<1>4. S \cap D = {}  BY DEF OfKind
<1>5. /\ CountOf("SINGLE", dlist) = Tally(dlist, S)
      /\ CountOf("DOUBLE", dlist) = Tally(dlist, D)
  BY <1>1, CountIsTally
<1> HIDE DEF S, D
<1>6. PICK s \in Nat : s = Tally(dlist, S)  BY <1>1, TallyType
<1>7. PICK d \in Nat : d = Tally(dlist, D)  BY <1>1, TallyType
<1>8. Len(dlist) = s + d
  <2>1. Tally(dlist, S \cup D) = Len(dlist)  BY <1>1, <1>3, TallyAll
  <2>2. Tally(dlist, S \cup D) = s + d  BY <1>1, <1>4, <1>6, <1>7, TallyUnion
  <2>3. QED  BY <2>1, <2>2
<1>9. SplitOf(dlist) = Split(bus.class, s, d, s + d)
  BY <1>5, <1>6, <1>7, <1>8 DEF SplitOf
<1>10. bus.class = "axi4" \/ s <= 2 \/ d = 0
  <2>1. CASE \A i \in DOMAIN dlist : dlist[i] \notin S
    <3>1. s = 0  BY <2>1, <1>1, <1>6, TallyAll
    <3>2. QED  BY <3>1
  <2>2. CASE \E i \in DOMAIN dlist : dlist[i] \in S
    <3>1. PICK i \in DOMAIN dlist : dlist[i] \in S  BY <2>2
    <3>2. KindOf(dlist[i]) = "SINGLE"  BY <3>1 DEF S, OfKind
    <3>3. bus.class = "axil" /\ Sio \notin created
      BY <3>2 DEF SubbusInv, Sorted, ToSlist, ToDlist
    <3>4. dlist # <<>>  BY <3>1
    <3>5. /\ pc \notin {"count", "sio", "dio"} /\ ~split.is_single
          /\ pc \in {"move", "done"}
      BY <3>4 DEF SubbusInv, InOrder, TypeOK
    <3>6. split.num_single = 0
      <4>1. ~NeedsSio(split) /\ split.num_single \in Nat
        BY <3>3, <3>5 DEF SubbusInv, InOrder, TypeOK
      <4>2. QED  BY <4>1, <3>5 DEF NeedsSio
    <3>7. Everywhere(S) <= 2
      BY <3>3, <3>5, <3>6 DEF SubbusInv, FewSingles, S
    <3>8. PICK a \in Nat : a = Tally(plist, S)  BY <1>1, TallyType
    <3>9. PICK b \in Nat : b = Tally(slist, S)  BY <1>1, TallyType
    <3>10. a + b + s <= 2  BY <3>7, <3>8, <3>9, <1>6 DEF Everywhere
    <3>11. s <= 2  BY <3>10
    <3>12. QED  BY <3>11
  <2>3. QED  BY <2>1, <2>2
<1>11. QED  BY <1>1, <1>9, <1>10, NeedsNoBus

(* When allocate_subbus returns, only slaves that never stall have moved,  *)
(* none of a kind that moves is left behind, and the two buses need no     *)
(* buses of their own: the calls for them end.  The loop ends: see the run *)
(* for SlavesCollected.                                                    *)
THEOREM RightlyCollected ==
  Spec => [](Finished => OnlyQuickSlavesMoved /\ NoneLeftBehind /\ NoSubbusOfSubbus)
<1>1. SubbusInv => OnlyQuickSlavesMoved
  BY DEF SubbusInv, Sorted, OnlyQuickSlavesMoved, ToSlist, ToDlist
<1>2. SubbusInv /\ Finished => NoneLeftBehind
  <2> SUFFICES ASSUME SubbusInv, Finished, ~split.is_single, ~split.is_double,
                      NEW i \in DOMAIN plist
               PROVE  /\ Sio \in created => KindOf(plist[i]) # "SINGLE"
                      /\ Dio \in created => KindOf(plist[i]) # "DOUBLE"
    BY DEF NoneLeftBehind
  <2>1. pi > Len(plist)  BY DEF SubbusInv, Sorted, Finished
  <2>2. plist \in Seq(Members) /\ pi \in 1..(Len(plist) + 1)
    BY DEF SubbusInv, TypeOK
  <2>3. Len(plist) \in Nat /\ DOMAIN plist = 1..Len(plist)  BY <2>2, LenProperties
  <2>4. i \in 1..(pi - 1)  BY <2>1, <2>2, <2>3
  <2>5. ~ToSlist(plist[i]) /\ ~ToDlist(plist[i])  BY <2>4 DEF SubbusInv, Sorted
  <2>6. QED  BY <2>5 DEF ToSlist, ToDlist
<1>3. SubbusInv => NoSubbusOfSubbus
  BY SlistNeedsNone, DlistNeedsNone DEF NoSubbusOfSubbus
<1>4. SubbusInv => (Finished => OnlyQuickSlavesMoved /\ NoneLeftBehind /\ NoSubbusOfSubbus)
  BY <1>1, <1>2, <1>3
<1>5. QED  BY <1>4, SubbusInvHolds, PTL
-----------------------------------------------------------------------------
(* Each section of writeout_bus_logic_v only prints: seen through the      *)
(* variables of allocate_subbus the whole is an execution of Subbus.       *)
THEOREM WiringImplementsSubbus == WSpec => Spec
<1>1. WInit => Init  BY DEF WInit
<1>2. [WNext]_allvars => [Next]_vars
  <2> SUFFICES ASSUME [WNext]_allvars PROVE [Next]_vars  OBVIOUS
  <2>1. CASE Next /\ UNCHANGED wvars  BY <2>1
  <2>2. CASE Components \/ NoMasters \/ Direct \/ NotEarly
    BY <2>2 DEF Components, NoMasters, Direct, NotEarly, Write
  <2>3. CASE WbSlist \/ WbDlist \/ WbXbar
    BY <2>3 DEF WbSlist, WbDlist, WbXbar, Write
  <2>4. CASE Single \/ NoSlist
    BY <2>4 DEF Single, NoSlist, Simplifier, Write
  <2>5. CASE Double \/ NoDlist
    BY <2>5 DEF Double, NoDlist, Simplifier, Write
  <2>6. CASE AxiXbar \/ EmptyPorts
    BY <2>6 DEF AxiXbar, EmptyPorts, Write
  <2>7. CASE UNCHANGED allvars  BY <2>7 DEF allvars
  <2>8. QED  BY <2>1, <2>2, <2>3, <2>4, <2>5, <2>6, <2>7 DEF WNext
<1>3. QED  BY <1>1, <1>2, PTL DEF WSpec, Spec

(* No slave is lost or doubled from the first step of allocate_subbus to   *)
(* the last line of the logic.                                             *)
THEOREM NoSlaveLostInLogic == WSpec => []OnOneList
BY WiringImplementsSubbus, NoSlaveLost, PTL
-----------------------------------------------------------------------------
(* The ends of the drivers; that no wire has two different ones, and that  *)
(* no assignment is printed again but those of arprot.                     *)
Ends(D) == {<<d[1], d[2]>> : d \in D}
OneEach(D) ==
  /\ \A d, e \in D : d[1] = e[1] /\ d[2] = e[2] => d[3] = e[3] /\ d[4] = e[4]
  /\ \A d \in D : d[5] = 1 \/ PrintedAgain(d)

LEMMA EndsUnion ==
  ASSUME NEW A, NEW B
  PROVE  /\ Ends(A \cup B) = Ends(A) \cup Ends(B)
         /\ OneEach(A) /\ OneEach(B) /\ Ends(A) \cap Ends(B) = {} => OneEach(A \cup B)
<1>1. Ends(A \cup B) = Ends(A) \cup Ends(B)  BY DEF Ends
<1>2. ASSUME OneEach(A), OneEach(B), Ends(A) \cap Ends(B) = {} PROVE OneEach(A \cup B)
  <2> \A d \in A \cup B : d[5] = 1 \/ PrintedAgain(d)  BY <1>2 DEF OneEach
  <2>1. SUFFICES ASSUME NEW d \in A \cup B, NEW e \in A \cup B, d[1] = e[1], d[2] = e[2]
                 PROVE  d[3] = e[3] /\ d[4] = e[4]
    BY DEF OneEach
  <2>2. CASE d \in A /\ e \in A  BY <1>2, <2>1, <2>2 DEF OneEach
  <2>3. CASE d \in B /\ e \in B  BY <1>2, <2>1, <2>3 DEF OneEach
  <2>4. CASE d \in A /\ e \in B
    <3>1. <<d[1], d[2]>> \in Ends(A) /\ <<e[1], e[2]>> \in Ends(B)  BY <2>4 DEF Ends
    <3>2. QED  BY <1>2, <2>1, <3>1
  <2>5. CASE d \in B /\ e \in A
    <3>1. <<d[1], d[2]>> \in Ends(B) /\ <<e[1], e[2]>> \in Ends(A)  BY <2>5 DEF Ends
    <3>2. QED  BY <1>2, <2>1, <3>1
  <2>6. QED  BY <2>2, <2>3, <2>4, <2>5
<1>3. QED  BY <1>1, <1>2

LEMMA EndsDriven ==
  ASSUME NEW U, NEW W, NEW by
  PROVE  Ends(Driven(U, W, by)) = U \X W /\ OneEach(Driven(U, W, by))
<1> DEFINE D == Driven(U, W, by)
<1>1. ASSUME NEW d \in D PROVE \E u \in U, w \in W : d = <<u, w, by, 0, 1>>  BY DEF Driven
<1>2. ASSUME NEW u \in U, NEW w \in W PROVE <<u, w, by, 0, 1>> \in D  BY DEF Driven
<1> HIDE DEF D
<1>3. ASSUME NEW p \in Ends(D) PROVE p \in U \X W
  <2>1. PICK d \in D : p = <<d[1], d[2]>>  BY DEF Ends
  <2>2. PICK u \in U, w \in W : d = <<u, w, by, 0, 1>>  BY <1>1
  <2>3. QED  BY <2>1, <2>2
<1>4. ASSUME NEW p \in U \X W PROVE p \in Ends(D)
  <2>1. PICK u \in U, w \in W : p = <<u, w>>  OBVIOUS
  <2>2. PICK d \in D : d = <<u, w, by, 0, 1>>  BY <1>2
  <2>3. p = <<d[1], d[2]>>  BY <2>1, <2>2
  <2>4. QED  BY <2>3 DEF Ends
<1>5. OneEach(D)  BY <1>1 DEF OneEach
<1>6. QED  BY <1>3, <1>4, <1>5 DEF D

LEMMA EndsDrivenBy ==
  ASSUME NEW list, NEW W, NEW by
  PROVE  /\ Ends(DrivenBy(list, W, by)) = Range(list) \X W
         /\ IsInjective(list) => OneEach(DrivenBy(list, W, by))
<1> DEFINE D == DrivenBy(list, W, by)
<1>1. ASSUME NEW d \in D PROVE \E k \in DOMAIN list, w \in W : d = <<list[k], w, by, k, 1>>
  BY DEF DrivenBy
<1>2. ASSUME NEW k \in DOMAIN list, NEW w \in W PROVE <<list[k], w, by, k, 1>> \in D
  BY DEF DrivenBy
<1> HIDE DEF D
<1>3. ASSUME NEW p \in Ends(D) PROVE p \in Range(list) \X W
  <2>1. PICK d \in D : p = <<d[1], d[2]>>  BY DEF Ends
  <2>2. PICK k \in DOMAIN list, w \in W : d = <<list[k], w, by, k, 1>>  BY <1>1
  <2>3. list[k] \in Range(list)  BY DEF Range
  <2>4. QED  BY <2>1, <2>2, <2>3
<1>4. ASSUME NEW p \in Range(list) \X W PROVE p \in Ends(D)
  <2>1. PICK u \in Range(list), w \in W : p = <<u, w>>  OBVIOUS
  <2>2. PICK k \in DOMAIN list : list[k] = u  BY DEF Range
  <2>3. PICK d \in D : d = <<list[k], w, by, k, 1>>  BY <1>2
  <2>4. p = <<d[1], d[2]>>  BY <2>1, <2>2, <2>3
  <2>5. QED  BY <2>4 DEF Ends
<1>5. ASSUME IsInjective(list) PROVE OneEach(D)
  <2> \A d \in D : d[5] = 1  BY <1>1
  <2>1. SUFFICES ASSUME NEW d \in D, NEW e \in D, d[1] = e[1], d[2] = e[2]
                 PROVE  d[3] = e[3] /\ d[4] = e[4]
    BY DEF OneEach
  <2>2. PICK k \in DOMAIN list, w \in W : d = <<list[k], w, by, k, 1>>  BY <1>1
  <2>3. PICK j \in DOMAIN list, x \in W : e = <<list[j], x, by, j, 1>>  BY <1>1
  <2>4. list[k] = list[j] /\ w = x  BY <2>1, <2>2, <2>3
  <2>5. k = j  BY <1>5, <2>4 DEF IsInjective
  <2>6. QED  BY <2>2, <2>3, <2>4, <2>5
<1>6. QED  BY <1>3, <1>4, <1>5 DEF D

(* Lines that are printed again add no wire and no other driver.           *)
Copies(D, R) ==
  \A r \in R : /\ PrintedAgain(r)
               /\ \E d \in D : d[1] = r[1] /\ d[2] = r[2] /\ d[3] = r[3] /\ d[4] = r[4]

LEMMA CopiesAddNothing ==
  ASSUME NEW D, NEW R, OneEach(D), Copies(D, R)
  PROVE  OneEach(D \cup R) /\ Ends(D \cup R) = Ends(D)
<1>1. \A x \in D \cup R : \E d \in D : d[1] = x[1] /\ d[2] = x[2] /\ d[3] = x[3] /\ d[4] = x[4]
  BY DEF Copies
<1>2. \A d, e \in D \cup R : d[1] = e[1] /\ d[2] = e[2] => d[3] = e[3] /\ d[4] = e[4]
  <2>1. SUFFICES ASSUME NEW x \in D \cup R, NEW y \in D \cup R, x[1] = y[1], x[2] = y[2]
                 PROVE  x[3] = y[3] /\ x[4] = y[4]
    OBVIOUS
  <2>2. PICK d \in D : d[1] = x[1] /\ d[2] = x[2] /\ d[3] = x[3] /\ d[4] = x[4]  BY <1>1
  <2>3. PICK e \in D : e[1] = y[1] /\ e[2] = y[2] /\ e[3] = y[3] /\ e[4] = y[4]  BY <1>1
  <2>4. d[3] = e[3] /\ d[4] = e[4]  BY <2>1, <2>2, <2>3 DEF OneEach
  <2>5. QED  BY <2>2, <2>3, <2>4
<1>3. \A d \in D \cup R : d[5] = 1 \/ PrintedAgain(d)  BY DEF OneEach, Copies
<1>4. Ends(D \cup R) \subseteq Ends(D)
  <2>1. SUFFICES ASSUME NEW p \in Ends(D \cup R) PROVE p \in Ends(D)  OBVIOUS
  <2>2. PICK x \in D \cup R : p = <<x[1], x[2]>>  BY DEF Ends
  <2>3. PICK d \in D : d[1] = x[1] /\ d[2] = x[2]  BY <1>1
  <2>4. QED  BY <2>2, <2>3 DEF Ends
<1>5. Ends(D) \subseteq Ends(D \cup R)  BY DEF Ends
<1>6. QED  BY <1>2, <1>3, <1>4, <1>5 DEF OneEach

(* No wire has two drivers: there are as many of them as wires driven.     *)
Sources(D) == {<<d[1], d[2], d[3], d[4]>> : d \in D}

LEMMA AsManyAsEnds ==
  ASSUME NEW D, OneEach(D), IsFiniteSet(Ends(D))
  PROVE  Cardinality(Sources(D)) = Cardinality(Ends(D))
<1> DEFINE E == Ends(D)
           T == Sources(D)
           f == [t \in T |-> <<t[1], t[2]>>]
<1>1. \A t \in T : \E d \in D : t = <<d[1], d[2], d[3], d[4]>>  BY DEF Sources
<1>2. \A d \in D : <<d[1], d[2], d[3], d[4]>> \in T /\ <<d[1], d[2]>> \in E
  BY DEF Sources, Ends
<1>3. \A p \in E : \E d \in D : p = <<d[1], d[2]>>  BY DEF Ends
<1> HIDE DEF T, E
<1>4. \A t \in T : f[t] \in E
  <2> SUFFICES ASSUME NEW t \in T PROVE <<t[1], t[2]>> \in E  OBVIOUS
  <2>1. PICK d \in D : t = <<d[1], d[2], d[3], d[4]>>  BY <1>1
  <2>2. t[1] = d[1] /\ t[2] = d[2]  BY <2>1
  <2>3. QED  BY <1>2, <2>2
<1>5. \A t, u \in T : f[t] = f[u] => t = u
  <2> SUFFICES ASSUME NEW t \in T, NEW u \in T, <<t[1], t[2]>> = <<u[1], u[2]>> PROVE t = u
    OBVIOUS
  <2>1. PICK d \in D : t = <<d[1], d[2], d[3], d[4]>>  BY <1>1
  <2>2. PICK e \in D : u = <<e[1], e[2], e[3], e[4]>>  BY <1>1
  <2>3. d[1] = e[1] /\ d[2] = e[2]  BY <2>1, <2>2
  <2>4. d[3] = e[3] /\ d[4] = e[4]  BY <2>3 DEF OneEach
  <2>5. QED  BY <2>1, <2>2, <2>3, <2>4
<1>6. \A p \in E : \E t \in T : f[t] = p
  <2> SUFFICES ASSUME NEW p \in E PROVE \E t \in T : <<t[1], t[2]>> = p  OBVIOUS
  <2>1. PICK d \in D : p = <<d[1], d[2]>>  BY <1>3
  <2>2. PICK t \in T : t = <<d[1], d[2], d[3], d[4]>>  BY <1>2
  <2>3. QED  BY <2>1, <2>2
<1>7. f \in [T -> E]  BY <1>4
<1> HIDE DEF f
<1>8. f \in Bijection(T, E)
  <2>1. f \in Surjection(T, E)  BY <1>6, <1>7 DEF Surjection
  <2>2. f \in Injection(T, E)  BY <1>5, <1>7 DEF Injection, IsInjective
  <2>3. QED  BY <2>1, <2>2 DEF Bijection
<1>9. ExistsBijection(E, T)
  <2>1. ExistsBijection(T, E)  BY <1>8 DEF ExistsBijection
  <2>2. QED  BY <2>1, Fun_ExistsBijSymmetric
<1>10. QED  BY <1>9, FS_Bijection DEF E, T

(* Each set of wires is a list of names.                                   *)
LEMMA ListedIsFinite ==
  ASSUME NEW S, NEW q \in Seq(S), \A x \in S : \E i \in DOMAIN q : q[i] = x
  PROVE  IsFiniteSet(S)
<1>1. DOMAIN q = 1..Len(q)  BY LenProperties
<1>2. QED  BY <1>1 DEF IsFiniteSet

LEMMA WiresAreFinite ==
  ASSUME class \in Class
  PROVE  IsFiniteSet(Wires)
<1>1. IsFiniteSet(WbWires)
  <2> DEFINE q == <<"cyc", "stb", "we", "addr", "data", "sel", "stall", "ack",
                    "idata", "err">>
  <2>1. q \in Seq(WbWires)  BY DEF WbWires
  <2>2. \A x \in WbWires : \E i \in DOMAIN q : q[i] = x  BY DEF WbWires
  <2>3. QED  BY <2>1, <2>2, ListedIsFinite
<1>2. IsFiniteSet(AxilWrite)
  <2> DEFINE q == <<"awvalid", "awready", "awaddr", "awprot", "wvalid",
                    "wready", "wdata", "wstrb", "bvalid", "bready", "bresp">>
  <2>1. q \in Seq(AxilWrite)  BY DEF AxilWrite
  <2>2. \A x \in AxilWrite : \E i \in DOMAIN q : q[i] = x  BY DEF AxilWrite
  <2>3. QED  BY <2>1, <2>2, ListedIsFinite
<1>3. IsFiniteSet(AxilRead)
  <2> DEFINE q == <<"arvalid", "arready", "araddr", "arprot", "rvalid",
                    "rready", "rdata", "rresp">>
  <2>1. q \in Seq(AxilRead)  BY DEF AxilRead
  <2>2. \A x \in AxilRead : \E i \in DOMAIN q : q[i] = x  BY DEF AxilRead
  <2>3. QED  BY <2>1, <2>2, ListedIsFinite
<1> DEFINE W == {"awid", "awlen", "awsize", "awburst", "awlock", "awcache",
                "awqos", "wlast", "bid"}
           R == {"arid", "arlen", "arsize", "arburst", "arlock", "arcache",
                "arqos", "rid", "rlast"}
<1>4. IsFiniteSet(W)
  <2> DEFINE q == <<"awid", "awlen", "awsize", "awburst", "awlock", "awcache",
                    "awqos", "wlast", "bid">>
  <2>1. q \in Seq(W)  OBVIOUS
  <2>2. \A x \in W : \E i \in DOMAIN q : q[i] = x  OBVIOUS
  <2>3. QED  BY <2>1, <2>2, ListedIsFinite
<1>5. IsFiniteSet(R)
  <2> DEFINE q == <<"arid", "arlen", "arsize", "arburst", "arlock", "arcache",
                    "arqos", "rid", "rlast">>
  <2>1. q \in Seq(R)  OBVIOUS
  <2>2. \A x \in R : \E i \in DOMAIN q : q[i] = x  OBVIOUS
  <2>3. QED  BY <2>1, <2>2, ListedIsFinite
<1>6. IsFiniteSet(AxiWrite) /\ IsFiniteSet(AxiRead)
  <2>1. AxiWrite = AxilWrite \cup W /\ AxiRead = AxilRead \cup R  BY DEF AxiWrite, AxiRead
  <2> HIDE DEF W, R
  <2>2. QED  BY <1>2, <1>3, <1>4, <1>5, <2>1, FS_Union
<1>7. IsFiniteSet(AxilWrite \cup AxilRead) /\ IsFiniteSet(AxiWrite \cup AxiRead)
  BY <1>2, <1>3, <1>6, FS_Union
<1>8. QED  BY <1>1, <1>7 DEF Wires, Class
-----------------------------------------------------------------------------
(* Members that are tallied once are in one place.                         *)
LEMMA OnceTally ==
  ASSUME NEW S, NEW q \in Seq(S), NEW x
  PROVE  /\ Tally(q, {x}) \in Nat
         /\ Tally(q, {x}) = 0 <=> x \notin Range(q)
         /\ Tally(q, {x}) <= 1 => \A i, j \in DOMAIN q : q[i] = x /\ q[j] = x => i = j
<1>1. IsFiniteSet(Hits(q, {x})) /\ Tally(q, {x}) \in Nat  BY TallyType
<1>2. (\A i \in DOMAIN q : q[i] \notin {x}) <=> Tally(q, {x}) = 0  BY TallyAll
<1>3. x \notin Range(q) <=> \A i \in DOMAIN q : q[i] \notin {x}  BY DEF Range
<1>4. ASSUME NEW i \in DOMAIN q, NEW j \in DOMAIN q, q[i] = x, q[j] = x, i # j
      PROVE  Tally(q, {x}) >= 2
  <2>1. {i, j} \subseteq Hits(q, {x})  BY <1>4 DEF Hits
  <2>2. IsFiniteSet({i}) /\ Cardinality({i}) = 1  BY FS_Singleton
  <2>3. IsFiniteSet({i} \cup {j}) /\ Cardinality({i} \cup {j}) = 1 + 1
    BY <1>4, <2>2, FS_AddElement
  <2>4. {i} \cup {j} \in SUBSET Hits(q, {x})  BY <2>1
  <2>5. Cardinality({i} \cup {j}) <= Cardinality(Hits(q, {x}))  BY <1>1, <2>4, FS_Subset
  <2>6. PICK n \in Nat : n = Cardinality(Hits(q, {x}))  BY <1>1 DEF Tally
  <2>7. 2 <= n
    <3>1. PICK c : c = Cardinality({i} \cup {j})  OBVIOUS
    <3>2. c = 1 + 1  BY <2>3, <3>1
    <3>3. c <= n  BY <2>5, <2>6, <3>1
    <3>4. QED  BY <3>2, <3>3
  <2>8. QED  BY <2>6, <2>7 DEF Tally
<1>5. ASSUME Tally(q, {x}) <= 1 PROVE \A i, j \in DOMAIN q : q[i] = x /\ q[j] = x => i = j
  <2>1. PICK n \in Nat : n = Tally(q, {x})  BY <1>1
  <2>2. ~(n >= 2)  BY <1>5, <2>1
  <2>3. QED  BY <1>4, <2>1, <2>2
<1>6. QED  BY <1>1, <1>2, <1>3, <1>5

(* The three lists share out the slaves and the buses that were created.   *)
LEMMA ListsApart ==
  ASSUME SubbusInv
  PROVE  /\ IsInjective(plist) /\ IsInjective(slist) /\ IsInjective(dlist)
         /\ Range(plist) \cap Range(slist) = {} /\ Range(plist) \cap Range(dlist) = {}
         /\ Range(slist) \cap Range(dlist) = {}
         /\ Range(plist) \cup Range(slist) \cup Range(dlist) = Slaves \cup created
<1>1. /\ plist \in Seq(Members) /\ slist \in Seq(Members) /\ dlist \in Seq(Members)
      /\ created \subseteq {Sio, Dio}
  BY DEF SubbusInv, TypeOK
<1>2. \A q \in {plist, slist, dlist} : Range(q) \subseteq Members
  BY <1>1, LenProperties, ElementOfSeq DEF Range
<1>3. ASSUME NEW x \in Members
      PROVE  /\ \A q \in {plist, slist, dlist} :
                  \A i, j \in DOMAIN q : q[i] = x /\ q[j] = x => i = j
             /\ ~(x \in Range(plist) /\ x \in Range(slist))
             /\ ~(x \in Range(plist) /\ x \in Range(dlist))
             /\ ~(x \in Range(slist) /\ x \in Range(dlist))
             /\ x \in Slaves \cup created
                  <=> x \in Range(plist) \/ x \in Range(slist) \/ x \in Range(dlist)
  <2>1. PICK a \in Nat : a = Tally(plist, {x})  BY <1>1, OnceTally
  <2>2. PICK b \in Nat : b = Tally(slist, {x})  BY <1>1, OnceTally
  <2>3. PICK c \in Nat : c = Tally(dlist, {x})  BY <1>1, OnceTally
  <2>4. a + b + c = IF x \in Slaves \cup created THEN 1 ELSE 0
    BY <2>1, <2>2, <2>3 DEF SubbusInv, NothingLost, Everywhere
  <2>5. a <= 1 /\ b <= 1 /\ c <= 1  BY <2>4
  <2>6. /\ a = 0 <=> x \notin Range(plist)
        /\ b = 0 <=> x \notin Range(slist)
        /\ c = 0 <=> x \notin Range(dlist)
    BY <1>1, <2>1, <2>2, <2>3, OnceTally
  <2>7. \A i, j \in DOMAIN plist : plist[i] = x /\ plist[j] = x => i = j
    BY <1>1, <2>1, <2>5, OnceTally
  <2>8. \A i, j \in DOMAIN slist : slist[i] = x /\ slist[j] = x => i = j
    BY <1>1, <2>2, <2>5, OnceTally
  <2>9. \A i, j \in DOMAIN dlist : dlist[i] = x /\ dlist[j] = x => i = j
    BY <1>1, <2>3, <2>5, OnceTally
  <2>10. QED  BY <2>4, <2>6, <2>7, <2>8, <2>9
<1>4. ASSUME NEW q \in {plist, slist, dlist} PROVE IsInjective(q)
  <2>1. \A i \in DOMAIN q : q[i] \in Members  BY <1>2 DEF Range
  <2>2. QED  BY <1>3, <2>1 DEF IsInjective
<1>5. Slaves \cup created \subseteq Members  BY <1>1 DEF Members
<1>6. QED  BY <1>2, <1>3, <1>4, <1>5

LEMMA SplitKinds ==
  ASSUME NEW c, NEW s \in Nat, NEW d \in Nat, NEW n \in Nat, s + d <= n
  PROVE  /\ Split(c, s, d, n).is_single <=> s = n
         /\ Split(c, s, d, n).is_double <=> (s # n /\ s + d = n)
         /\ s = n => ~NeedsSio(Split(c, s, d, n)) /\ ~NeedsDio(Split(c, s, d, n))
         /\ n = 1 => ~NeedsSio(Split(c, s, d, n)) /\ ~NeedsDio(Split(c, s, d, n))
<1> DEFINE sp == Split(c, s, d, n)
<1>1. CASE s = n
  <2>1. sp.is_single /\ ~sp.is_double  BY <1>1 DEF Split
  <2>2. d = 0  BY <1>1
  <2>3. sp.num_double = 0  BY <1>1, <2>2 DEF Split
  <2>4. QED  BY <1>1, <2>1, <2>3 DEF NeedsSio, NeedsDio
<1>2. CASE s # n
  <2>1. ~sp.is_single  BY <1>2 DEF Split
  <2>2. CASE s + d = n
    <3>1. 0 + (d + s) = n /\ d + s = n  BY <2>2
    <3>2. sp.is_double  BY <1>2, <2>2, <3>1 DEF Split
    <3>3. n = 1 => s <= 2 /\ d > 0  BY <1>2, <2>2
    <3>4. n = 1 => sp.num_single = 0  BY <1>2, <3>3 DEF Split
    <3>5. QED  BY <1>2, <2>1, <2>2, <3>2, <3>4 DEF NeedsSio, NeedsDio
  <2>3. CASE s + d # n
    <3>1. 0 + (d + s) # n  BY <2>3
    <3>2. ~sp.is_double  BY <1>2, <2>3, <3>1 DEF Split
    <3>3. n = 1 => s = 0 /\ d = 0  BY <1>2, <2>3
    <3>4. n = 1 => sp.num_single = 0 /\ sp.num_double = 0  BY <1>2, <3>3 DEF Split
    <3>5. QED  BY <1>2, <2>1, <2>3, <3>2, <3>4 DEF NeedsSio, NeedsDio
  <2>4. QED  BY <2>2, <2>3
<1>3. QED  BY <1>1, <1>2

(* What countsio() finds out about a bus.                                  *)
LEMMA SplitFacts ==
  ASSUME bus \in Bus
  PROVE  LET sp == SplitOfBus(bus)
         IN  /\ sp.is_single <=> \A s \in Slaves : bus.kinds[s] = "SINGLE"
             /\ sp.is_double => \A s \in Slaves : bus.kinds[s] \in {"SINGLE", "DOUBLE"}
             /\ ~sp.is_single /\ ~sp.is_double => \E s \in Slaves : bus.kinds[s] = "OTHER"
             /\ Len(bus.kinds) = 1 \/ sp.is_single => ~NeedsSio(sp) /\ ~NeedsDio(sp)
<1>1. /\ bus.kinds \in Seq(Kind) /\ Slaves = DOMAIN bus.kinds
      /\ \A s \in Slaves : bus.kinds[s] \in Kind
  BY SlavesAreNumbers DEF Bus, Slaves
<1>2. HowMany(bus, "SINGLE") = Tally(bus.kinds, {"SINGLE"})
  BY DEF HowMany, Tally, Hits
<1>3. HowMany(bus, "DOUBLE") = Tally(bus.kinds, {"DOUBLE"})
  BY DEF HowMany, Tally, Hits
<1>4. PICK s \in Nat : s = Tally(bus.kinds, {"SINGLE"})  BY <1>1, TallyType
<1>5. PICK d \in Nat : d = Tally(bus.kinds, {"DOUBLE"})  BY <1>1, TallyType
<1>6. PICK n \in Nat : n = Len(bus.kinds)  BY <1>1, LenProperties
<1>7. s + d = Tally(bus.kinds, {"SINGLE"} \cup {"DOUBLE"})
  <2>1. {"SINGLE"} \cap {"DOUBLE"} = {}  OBVIOUS
  <2>2. QED  BY <1>1, <1>4, <1>5, <2>1, TallyUnion
<1>8. s + d <= n  BY <1>1, <1>6, <1>7, TallyType
<1>9. s = n <=> \A i \in DOMAIN bus.kinds : bus.kinds[i] \in {"SINGLE"}
  BY <1>1, <1>4, <1>6, TallyAll
<1>10. s + d = n <=> \A i \in DOMAIN bus.kinds : bus.kinds[i] \in {"SINGLE"} \cup {"DOUBLE"}
  BY <1>1, <1>6, <1>7, TallyAll
<1>11. PICK sp : sp = Split(bus.class, s, d, n) /\ sp = SplitOfBus(bus)
  BY <1>2, <1>3, <1>4, <1>5, <1>6 DEF SplitOfBus
<1>12. /\ sp.is_single <=> s = n
       /\ sp.is_double <=> (s # n /\ s + d = n)
       /\ s = n => ~NeedsSio(sp) /\ ~NeedsDio(sp)
       /\ n = 1 => ~NeedsSio(sp) /\ ~NeedsDio(sp)
  <2>1. PICK c : c = bus.class  OBVIOUS
  <2>2. /\ Split(c, s, d, n).is_single <=> s = n
        /\ Split(c, s, d, n).is_double <=> (s # n /\ s + d = n)
        /\ s = n => ~NeedsSio(Split(c, s, d, n)) /\ ~NeedsDio(Split(c, s, d, n))
        /\ n = 1 => ~NeedsSio(Split(c, s, d, n)) /\ ~NeedsDio(Split(c, s, d, n))
    BY <1>8, SplitKinds
  <2>3. sp = Split(c, s, d, n)  BY <1>11, <2>1
  <2>4. QED  BY <2>2, <2>3
<1>13. sp.is_single <=> \A x \in Slaves : bus.kinds[x] = "SINGLE"
  BY <1>1, <1>9, <1>12
<1>14. sp.is_double => \A x \in Slaves : bus.kinds[x] \in {"SINGLE", "DOUBLE"}
  BY <1>1, <1>10, <1>12
<1>15. ~sp.is_single /\ ~sp.is_double => \E x \in Slaves : bus.kinds[x] = "OTHER"
  BY <1>1, <1>10, <1>12 DEF Kind
<1>16. QED  BY <1>6, <1>11, <1>12, <1>13, <1>14, <1>15

(* What the counts were made of, and when the second bus is made.          *)
SplitInv ==
  /\ bus \in Bus
  /\ pc = "count" => plist = [s \in Slaves |-> s]
  /\ pc # "count" => split = SplitOfBus(bus)
  /\ pc \in {"move", "done"} => (Dio \in created <=> NeedsDio(split))

LEMMA SplitInvHolds == Spec => []SplitInv
<1>1. Init => SplitInv  BY BusesAssumption DEF Init, SplitInv, Slaves
<1>2. SubbusInv /\ SplitInv /\ [Next]_vars => SplitInv'
  <2> SUFFICES ASSUME SubbusInv, SplitInv, [Next]_vars PROVE SplitInv'  OBVIOUS
  <2>1. CASE CountSio
    <3>1. /\ bus' = bus /\ pc' = "sio" /\ split' = SplitOf(plist)
          /\ plist = [s \in DOMAIN bus.kinds |-> s]
      BY <2>1 DEF CountSio, SplitInv, Slaves
    <3>2. \A s \in DOMAIN bus.kinds : KindOf(s) = bus.kinds[s]
      BY SlavesAreNumbers DEF SplitInv, Slaves
    <3>3. ASSUME NEW kind PROVE CountOf(kind, plist) = HowMany(bus, kind)
      <4>1. {i \in DOMAIN plist : KindOf(plist[i]) = kind}
              = {i \in DOMAIN bus.kinds : bus.kinds[i] = kind}
        BY <3>1, <3>2
      <4>2. QED  BY <4>1 DEF CountOf, HowMany
    <3>4. Len(plist) = Len(bus.kinds)
      <4>1. bus.kinds \in Seq(Kind)  BY DEF SplitInv, Bus
      <4>2. PICK n \in Nat : n = Len(bus.kinds) /\ DOMAIN bus.kinds = 1..n
        BY <4>1, LenProperties
      <4>3. plist \in Seq(Members)  BY DEF SubbusInv, TypeOK
      <4>4. DOMAIN plist = 1..n  BY <3>1, <4>2
      <4>5. QED  BY <4>2, <4>3, <4>4, LenProperties
    <3>5. SplitOf(plist) = SplitOfBus(bus)  BY <3>3, <3>4 DEF SplitOf, SplitOfBus
    <3>6. QED  BY <3>1, <3>5 DEF SplitInv
  <2>2. CASE CreateSio  BY <2>2 DEF CreateSio, SplitInv, Slaves
  <2>3. CASE CreateDio
    <3>1. /\ bus' = bus /\ split' = split /\ pc = "dio" /\ pc' \in {"move", "done"}
      BY <2>3 DEF CreateDio
    <3>2. Dio \notin created  BY <3>1 DEF SubbusInv, InOrder
    <3>3. Dio \in created' <=> NeedsDio(split)  BY <2>3, <3>2 DEF CreateDio
    <3>4. NeedsDio(split') <=> NeedsDio(split)  BY <3>1
    <3>5. QED  BY <3>1, <3>3, <3>4 DEF SplitInv
  <2>4. CASE MoveToSlist  BY <2>4 DEF MoveToSlist, SplitInv, NeedsDio
  <2>5. CASE MoveToDlist  BY <2>5 DEF MoveToDlist, SplitInv, NeedsDio
  <2>6. CASE Leave \/ EndMove  BY <2>6 DEF Leave, EndMove, SplitInv, NeedsDio
  <2>7. CASE UNCHANGED vars  BY <2>7 DEF vars, SplitInv, Slaves, NeedsDio
  <2>8. QED  BY <2>1, <2>2, <2>3, <2>4, <2>5, <2>6, <2>7 DEF Next
<1>3. QED  BY <1>1, <1>2, SubbusInvHolds, PTL DEF Spec

(* The lists as the logic finds them.                                      *)
LEMMA ListsWhenDone ==
  ASSUME SubbusInv, SplitInv, pc = "done"
  PROVE  /\ Slaves = DOMAIN bus.kinds /\ Sio \notin Slaves /\ Dio \notin Slaves /\ Sio # Dio
         /\ created \subseteq {Sio, Dio}
         /\ split = SplitOfBus(bus)
         /\ Sio \in created <=> NeedsSio(split)
         /\ Dio \in created <=> NeedsDio(split)
         /\ \A s \in Range(slist) : s \in Slaves /\ bus.kinds[s] = "SINGLE" /\ Sio \in created
         /\ \A s \in Range(dlist) :
              /\ Dio \in created
              /\ s = Sio \/ (s \in Slaves /\ bus.kinds[s] \in {"SINGLE", "DOUBLE"})
         /\ Dio \in created => Dio \in Range(plist)
         /\ Sio \in created => Sio \in Range(plist) \/ Sio \in Range(dlist)
         /\ split.is_single \/ split.is_double => Range(slist) = {} /\ Range(dlist) = {}
<1>1. /\ Slaves = DOMAIN bus.kinds /\ Sio \notin Slaves /\ Dio \notin Slaves /\ Sio # Dio
      /\ \A s \in Slaves : KindOf(s) = bus.kinds[s]
      /\ KindOf(Sio) = "DOUBLE" /\ KindOf(Dio) = "OTHER"
  BY SlavesAreNumbers, SubbusAssumption DEF SplitInv, Slaves
<1>2. created \subseteq {Sio, Dio}  BY DEF SubbusInv, TypeOK
<1>3. Range(plist) \cup Range(slist) \cup Range(dlist) = Slaves \cup created
  BY ListsApart
<1>4. \A s \in Range(slist) : ToSlist(s)  BY DEF SubbusInv, Sorted, Range
<1>5. \A s \in Range(dlist) : ToDlist(s)  BY DEF SubbusInv, Sorted, Range
<1>6. ASSUME NEW s \in Range(slist)
      PROVE  s \in Slaves /\ bus.kinds[s] = "SINGLE" /\ Sio \in created
  <2>1. KindOf(s) = "SINGLE" /\ Sio \in created  BY <1>4 DEF ToSlist
  <2>2. s \in Slaves  BY <1>1, <1>2, <1>3, <2>1
  <2>3. QED  BY <1>1, <2>1, <2>2
<1>7. ASSUME NEW s \in Range(dlist)
      PROVE  /\ Dio \in created
             /\ s = Sio \/ (s \in Slaves /\ bus.kinds[s] \in {"SINGLE", "DOUBLE"})
  <2>1. KindOf(s) \in {"SINGLE", "DOUBLE"} /\ Dio \in created  BY <1>5 DEF ToDlist
  <2>2. s \in Slaves \/ s = Sio  BY <1>1, <1>2, <1>3, <2>1
  <2>3. QED  BY <1>1, <2>1, <2>2
<1>8. split = SplitOfBus(bus)  BY DEF SplitInv
<1>9. (Sio \in created <=> NeedsSio(split)) /\ (Dio \in created <=> NeedsDio(split))
  BY DEF SubbusInv, InOrder, SplitInv
<1>10. Dio \in created => Dio \in Range(plist)
  <2>1. Dio \notin Range(slist) /\ Dio \notin Range(dlist)  BY <1>1, <1>6, <1>7
  <2>2. QED  BY <1>3, <2>1
<1>11. Sio \in created => Sio \in Range(plist) \/ Sio \in Range(dlist)
  <2>1. Sio \notin Range(slist)  BY <1>1, <1>6
  <2>2. QED  BY <1>3, <2>1
<1>12. split.is_single \/ split.is_double => Range(slist) = {} /\ Range(dlist) = {}
  <2>1. split.is_single \/ split.is_double => slist = <<>> /\ dlist = <<>>
    BY DEF SubbusInv, InOrder
  <2>2. Range(<<>>) = {}  BY DEF Range
  <2>3. QED  BY <2>1, <2>2
<1>13. QED  BY <1>1, <1>2, <1>6, <1>7, <1>8, <1>9, <1>10, <1>11, <1>12

(* One slave is left in the list if and only if there is one on the bus.   *)
LEMMA OneInPlist ==
  ASSUME SubbusInv, SplitInv, pc = "done", bus.kinds # <<>>
  PROVE  /\ Len(plist) = 1 <=> Len(bus.kinds) = 1
         /\ Len(plist) = 1 => created = {} /\ Range(plist) = Slaves /\ plist[1] \in Slaves
<1>1. bus.kinds \in Seq(Kind) /\ plist \in Seq(Members)  BY DEF SplitInv, Bus, SubbusInv, TypeOK
<1>2. PICK n \in Nat : n = Len(bus.kinds) /\ DOMAIN bus.kinds = 1..n  BY <1>1, LenProperties
<1>3. n # 0  BY <1>1, <1>2, EmptySeq, LenProperties
<1>4. PICK l \in Nat : l = Len(plist) /\ DOMAIN plist = 1..l  BY <1>1, LenProperties
<1>5. Slaves = 1..n  BY <1>2, ListsWhenDone
<1>6. ASSUME n = 1 PROVE l = 1 /\ created = {} /\ Range(plist) = Slaves
  <2>1. ~NeedsSio(split) /\ ~NeedsDio(split)
    BY <1>2, <1>6, SplitFacts, ListsWhenDone DEF SplitInv
  <2>2. created = {}  BY <2>1, ListsWhenDone
  <2>3. Range(slist) = {} /\ Range(dlist) = {}  BY <2>2, ListsWhenDone
  <2>4. Range(plist) = 1..1  BY <1>5, <1>6, <2>2, <2>3, ListsApart
  <2>5. \A i \in 1..l : plist[i] = 1  BY <1>4, <2>4 DEF Range
  <2>6. l <= 1
    <3>1. SUFFICES ASSUME l > 1 PROVE FALSE  OBVIOUS
    <3>2. 1 \in 1..l /\ 2 \in 1..l  BY <3>1
    <3>3. IsInjective(plist)  BY ListsApart
    <3>4. QED  BY <1>4, <2>5, <3>2, <3>3 DEF IsInjective
  <2>7. l # 0
    <3>1. 1 \in Range(plist)  BY <2>4
    <3>2. \E i \in 1..l : plist[i] = 1  BY <1>4, <3>1 DEF Range
    <3>3. QED  BY <3>2
  <2>8. QED  BY <1>5, <1>6, <2>2, <2>4, <2>6, <2>7
<1>7. ASSUME l = 1 PROVE n = 1
  <2>1. Range(plist) = {plist[1]}  BY <1>4, <1>7 DEF Range
  <2>2. CASE split.is_single \/ split.is_double
    <3>1. Range(plist) = Slaves \cup created  BY <2>2, ListsWhenDone, ListsApart
    <3>2. SUFFICES ASSUME n > 1 PROVE FALSE  BY <1>3
    <3>3. 1 \in Slaves /\ 2 \in Slaves  BY <1>5, <3>2
    <3>4. QED  BY <2>1, <3>1, <3>3
  <2>3. CASE ~split.is_single /\ ~split.is_double
    <3>1. PICK s \in Slaves : bus.kinds[s] = "OTHER"
      BY <2>3, SplitFacts, ListsWhenDone DEF SplitInv
    <3>2. s \notin Range(slist) /\ s \notin Range(dlist)  BY <3>1, ListsWhenDone
    <3>3. s \in Range(plist)  BY <3>2, ListsApart
    <3>4. Dio \notin created  BY <2>1, <3>3, ListsWhenDone
    <3>5. Range(dlist) = {}  BY <3>4, ListsWhenDone
    <3>6. Sio \notin created  BY <2>1, <3>3, <3>5, ListsWhenDone
    <3>7. created = {} /\ Range(slist) = {}  BY <3>4, <3>6, ListsWhenDone
    <3>8. Range(plist) = Slaves  BY <3>5, <3>7, ListsApart
    <3>9. SUFFICES ASSUME n > 1 PROVE FALSE  BY <1>3
    <3>10. 1 \in Slaves /\ 2 \in Slaves  BY <1>5, <3>9
    <3>11. QED  BY <2>1, <3>8, <3>10
  <2>4. QED  BY <2>2, <2>3
<1>8. ASSUME l = 1 PROVE created = {} /\ Range(plist) = Slaves /\ plist[1] \in Slaves
  <2>1. created = {} /\ Range(plist) = Slaves  BY <1>6, <1>7, <1>8
  <2>2. plist[1] \in Range(plist)  BY <1>4, <1>8 DEF Range
  <2>3. QED  BY <2>1, <2>2
<1>9. QED  BY <1>2, <1>4, <1>6, <1>7, <1>8
-----------------------------------------------------------------------------
(* What the components drive and read, and what is driven and read by the  *)
(* logic for the two buses that were created.                              *)
SlaveOut == {p \in Slaves \X Replies : p[2] \in SlavePorts(p[1])}
SlaveIn == {p \in Slaves \X Requests : p[2] \in SlavePorts(p[1])}
FromComponents == SlaveOut \cup (Range(masters) \X Requests)
ToComponents == SlaveIn \cup (Range(masters) \X Replies)

SioEnds ==
  IF class = "wb" /\ Sio \in created
    THEN (Range(slist) \X (Requests \ {"addr"})) \cup ({Sio} \X {"stall", "ack", "idata"})
    ELSE {}
SioReads ==
  IF class = "wb" /\ Sio \in created THEN ({Sio} \X Requests) \cup (Range(slist) \X {"idata"}) ELSE {}
DioEnds ==
  IF Dio \in created
    THEN (Range(dlist) \X Requests)
         \cup ({Dio} \X (IF class = "wb" THEN {"stall", "ack", "idata"} ELSE Replies))
    ELSE {}
DioReads ==
  IF Dio \in created
    THEN ({Dio} \X Requests)
         \cup (Range(dlist) \X (IF class = "wb" THEN {"idata"} ELSE {"bresp", "rdata", "rresp"}))
    ELSE {}
XbarEnds == (Range(plist) \X Requests) \cup (Range(masters) \X Replies)
XbarReads == (Range(plist) \X Replies) \cup (Range(masters) \X Requests)

Units == Slaves \cup {Sio, Dio} \cup Range(masters)
Interconnect == masters # <<>> /\ ~(Len(masters) = 1 /\ Len(plist) = 1)

(* What is driven and read when the section at is reached.                 *)
Printed(at, driven, read) ==
  /\ at \in {"early", "slist"} => driven = FromComponents /\ read = ToComponents
  /\ at \in {"slist", "dlist", "main", "empty"} => Interconnect
  /\ at = "dlist" =>
       /\ driven = FromComponents \cup SioEnds /\ read = ToComponents \cup SioReads
       /\ class # "wb" => ~split.is_single
  /\ at = "main" =>
       /\ driven = FromComponents \cup SioEnds \cup DioEnds
       /\ read = ToComponents \cup SioReads \cup DioReads
       /\ class # "wb" => ~split.is_single /\ ~split.is_double
  /\ at = "empty" =>
       /\ class # "wb"
       /\ driven = FromComponents \cup DioEnds \cup XbarEnds
       /\ read = ToComponents \cup DioReads \cup XbarReads
  /\ at = "written" => read \subseteq driven

WireInv ==
  /\ design \in Designs /\ bus = design.bus
  /\ OneEach(drivers) /\ Ends(drivers) \subseteq Units \X Wires
  /\ IF wpc = "ports" THEN drivers = {} /\ reads = {}
                      ELSE pc = "done" /\ Printed(wpc, Ends(drivers), reads)

(* What the sections add is not driven yet.                                *)
LEMMA Writing ==
  ASSUME NEW ds, NEW rs, NEW ls, NEW next, Write(ds, rs, ls, next),
         OneEach(drivers), OneEach(ds), Ends(drivers) \cap Ends(ds) = {}
  PROVE  /\ OneEach(drivers') /\ Ends(drivers') = Ends(drivers) \cup Ends(ds)
         /\ reads' = reads \cup rs /\ wpc' = next
         /\ UNCHANGED <<vars, design>>
<1>1. drivers' = drivers \cup ds  BY DEF Write
<1>2. OneEach(drivers \cup ds) /\ Ends(drivers \cup ds) = Ends(drivers) \cup Ends(ds)
  BY EndsUnion
<1>3. QED  BY <1>1, <1>2 DEF Write

LEMMA WireNames ==
  ASSUME class \in Class
  PROVE  /\ Replies \subseteq Wires /\ Requests \subseteq Wires /\ Replies \cup Requests = Wires
         /\ Replies \cap Requests = {}
         /\ class = "wb" => /\ Replies = {"stall", "ack", "idata", "err"}
                            /\ Requests = {"cyc", "stb", "we", "addr", "data", "sel"}
                            /\ Wires = WbWires
         /\ class # "wb" => {"bresp", "rdata", "rresp"} \subseteq Replies
<1>1. /\ Replies \subseteq Wires /\ Requests \subseteq Wires /\ Replies \cup Requests = Wires
      /\ Replies \cap Requests = {}
  BY DEF Replies, Requests
<1>2. ASSUME class = "wb"
      PROVE  /\ Wires = WbWires /\ Replies = {"stall", "ack", "idata", "err"}
             /\ Requests = {"cyc", "stb", "we", "addr", "data", "sel"}
  <2>1. Wires = WbWires  BY <1>2 DEF Wires
  <2>2. Replies = {"stall", "ack", "idata", "err"}  BY <2>1 DEF Replies, WbWires
  <2>3. QED  BY <2>1, <2>2 DEF Requests, WbWires
<1>3. ASSUME class # "wb" PROVE {"bresp", "rdata", "rresp"} \subseteq Replies
  <2>1. AxilWrite \cup AxilRead \subseteq Wires
    BY <1>3 DEF Wires, Class, AxiWrite, AxiRead
  <2>2. {"bresp", "rdata", "rresp"} \subseteq Wires  BY <2>1 DEF AxilWrite, AxilRead
  <2>3. QED  BY <2>2 DEF Replies
<1>4. QED  BY <1>1, <1>2, <1>3

(* The simplifiers drive all that their slaves read.                       *)
LEMMA SimplifierWires ==
  /\ class = "axil" => AxilSingle.drives \cup AxilSingle.assigns = Requests
  /\ class = "axil" => AxilDouble.drives \cup AxilDouble.assigns = Requests
  /\ class = "axi4" => AxiDouble.drives \cup AxiDouble.assigns = Requests
  /\ AxilSingle.reads = {"bresp", "rdata", "rresp"}
  /\ AxilDouble.reads = {"bresp", "rdata", "rresp"}
  /\ AxiDouble.reads = {"bresp", "rdata", "rresp"}
<1>1. ASSUME class = "axil"
      PROVE  Requests = {"awvalid", "arvalid", "awaddr", "awprot", "wvalid", "wdata", "wstrb",
                         "bready", "araddr", "arprot", "rready"}
  <2>1. Wires = AxilWrite \cup AxilRead  BY <1>1 DEF Wires
  <2>2. QED  BY <2>1 DEF Requests, Replies, AxilWrite, AxilRead
<1>2. ASSUME class = "axi4"
      PROVE  Requests = {"awvalid", "wvalid", "arvalid", "awid", "awaddr", "awlen", "awsize",
                         "awburst", "awlock", "awcache", "awprot", "awqos", "wdata", "wstrb",
                         "wlast", "bready", "arid", "araddr", "arlen", "arsize", "arburst",
                         "arlock", "arcache", "arprot", "arqos", "rready"}
  <2>1. Wires = AxiWrite \cup AxiRead  BY <1>2 DEF Wires
  <2>2. QED  BY <2>1 DEF Requests, Replies, AxiWrite, AxiRead, AxilWrite, AxilRead
<1>3. class = "axil" => AxilSingle.drives \cup AxilSingle.assigns = Requests
  BY <1>1 DEF AxilSingle
<1>4. class = "axi4" => AxiDouble.drives \cup AxiDouble.assigns = Requests
  BY <1>2 DEF AxiDouble
<1>5. QED  BY <1>3, <1>4 DEF AxilDouble, AxilSingle, AxiDouble
-----------------------------------------------------------------------------
LEMMA ProductsApart ==
  ASSUME NEW A, NEW B, NEW V, NEW W, A \cap B = {} \/ V \cap W = {}
  PROVE  (A \X V) \cap (B \X W) = {}
OBVIOUS

LEMMA ProductsWithin ==
  ASSUME NEW A, NEW B, NEW V, NEW W, A \subseteq B, V \subseteq W
  PROVE  A \X V \subseteq B \X W
OBVIOUS

(* One set of wires for each unit.                                         *)
LEMMA EndsEach ==
  ASSUME NEW S, NEW f, NEW by, NEW D, \A d : d \in D <=> \E s \in S : d \in Driven({s}, f[s], by)
  PROVE  /\ OneEach(D)
         /\ \A p \in Ends(D) : p = <<p[1], p[2]>> /\ p[1] \in S /\ p[2] \in f[p[1]]
         /\ \A u \in S : \A w \in f[u] : <<u, w>> \in Ends(D)
<1>1. ASSUME NEW d \in D PROVE \E s \in S : \E w \in f[s] : d = <<s, w, by, 0, 1>>
  BY DEF Driven
<1>2. ASSUME NEW s \in S, NEW w \in f[s] PROVE <<s, w, by, 0, 1>> \in D
  <2>1. <<s, w, by, 0, 1>> \in Driven({s}, f[s], by)  BY DEF Driven
  <2>2. QED  BY <2>1
<1>3. OneEach(D)
  <2> \A d \in D : d[5] = 1  BY <1>1
  <2>1. SUFFICES ASSUME NEW d \in D, NEW e \in D, d[1] = e[1], d[2] = e[2]
                 PROVE  d[3] = e[3] /\ d[4] = e[4]
    BY DEF OneEach
  <2>2. d = <<d[1], d[2], by, 0, 1>> /\ e = <<e[1], e[2], by, 0, 1>>
    <3>1. ASSUME NEW x \in D PROVE x = <<x[1], x[2], by, 0, 1>>
      <4>1. PICK s \in S : \E w \in f[s] : x = <<s, w, by, 0, 1>>  BY <1>1
      <4>2. QED  BY <4>1
    <3>2. QED  BY <3>1
  <2>3. QED  BY <2>1, <2>2
<1>4. ASSUME NEW p \in Ends(D) PROVE p = <<p[1], p[2]>> /\ p[1] \in S /\ p[2] \in f[p[1]]
  <2>1. PICK d \in D : p = <<d[1], d[2]>>  BY DEF Ends
  <2>2. PICK s \in S : \E w \in f[s] : d = <<s, w, by, 0, 1>>  BY <1>1
  <2>3. PICK w \in f[s] : d = <<s, w, by, 0, 1>>  BY <2>2
  <2>4. p = <<s, w>>  BY <2>1, <2>3
  <2>5. QED  BY <2>4
<1>5. ASSUME NEW u \in S, NEW w \in f[u] PROVE <<u, w>> \in Ends(D)
  <2>1. PICK d \in D : d = <<u, w, by, 0, 1>>  BY <1>2
  <2>2. <<u, w>> = <<d[1], d[2]>>  BY <2>1
  <2>3. QED  BY <2>2 DEF Ends
<1>6. QED  BY <1>3, <1>4, <1>5

(* The error wires that are tied off.                                      *)
LEMMA ErrorEnds ==
  ASSUME NEW list, IsInjective(list)
  PROVE  /\ OneEach(ErrorWires(list))
         /\ Ends(ErrorWires(list)) = (Range(list) \ design.err) \X {"err"}
<1> DEFINE D == DrivenBy(list, {"err"}, "tie")
           E == ErrorWires(list)
<1>1. OneEach(D) /\ Ends(D) = Range(list) \X {"err"}  BY EndsDrivenBy
<1>2. \A d : d \in E <=> d \in D /\ d[1] \notin design.err  BY DEF ErrorWires
<1> HIDE DEF D, E
<1>3. OneEach(E)  BY <1>1, <1>2 DEF OneEach
<1>4. ASSUME NEW p \in Ends(E) PROVE p \in (Range(list) \ design.err) \X {"err"}
  <2>1. PICK d \in E : p = <<d[1], d[2]>>  BY DEF Ends
  <2>2. p \in Ends(D) /\ d[1] \notin design.err  BY <1>2, <2>1 DEF Ends
  <2>3. PICK u \in Range(list) : p = <<u, "err">>  BY <1>1, <2>2
  <2>4. u \notin design.err  BY <2>1, <2>2, <2>3
  <2>5. QED  BY <2>3, <2>4
<1>5. ASSUME NEW p \in (Range(list) \ design.err) \X {"err"} PROVE p \in Ends(E)
  <2>1. PICK u \in Range(list) : u \notin design.err /\ p = <<u, "err">>  OBVIOUS
  <2>2. p \in Ends(D)  BY <1>1, <2>1
  <2>3. PICK d \in D : p = <<d[1], d[2]>>  BY <2>2 DEF Ends
  <2>4. d \in E  BY <1>2, <2>1, <2>3
  <2>5. QED  BY <2>3, <2>4 DEF Ends
<1>6. QED  BY <1>3, <1>4, <1>5 DEF E

LEMMA ListIsJoined ==
  ASSUME NEW list, NEW A, NEW B, NEW by
  PROVE  DrivenBy(list, A, by) \cup DrivenBy(list, B, by) = DrivenBy(list, A \cup B, by)
BY DEF DrivenBy

(* A list of units, and one more that is not on it.                        *)
LEMMA LogicEnds ==
  ASSUME NEW list, NEW V, NEW U, NEW W, NEW by, IsInjective(list), U \cap Range(list) = {}
  PROVE  LET D == DrivenBy(list, V, by) \cup Driven(U, W, by)
         IN  OneEach(D) /\ \A p : p \in Ends(D) <=> p \in Range(list) \X V \/ p \in U \X W
<1> DEFINE A == DrivenBy(list, V, by)
           B == Driven(U, W, by)
<1>1. OneEach(A) /\ Ends(A) = Range(list) \X V  BY EndsDrivenBy
<1>2. OneEach(B) /\ Ends(B) = U \X W  BY EndsDriven
<1>3. (Range(list) \X V) \cap (U \X W) = {}  BY ProductsApart
<1> HIDE DEF A, B
<1>4. OneEach(A \cup B) /\ Ends(A \cup B) = Ends(A) \cup Ends(B)
  <2>1. Ends(A) \cap Ends(B) = {}  BY <1>1, <1>2, <1>3
  <2>2. QED  BY <1>1, <1>2, <2>1, EndsUnion
<1>5. QED  BY <1>1, <1>2, <1>4 DEF A, B
-----------------------------------------------------------------------------
LEMMA WbPorts ==
  ASSUME class = "wb", NEW s \in Slaves, design.option[s] \in Option \ {"WO"}
  PROVE  /\ {"stall", "ack", "idata"} \subseteq SlavePorts(s)
         /\ "err" \in SlavePorts(s) <=> s \in design.err
         /\ KindOf(s) = "SINGLE" => "addr" \notin SlavePorts(s)
<1>1. SlavePorts(s) = WbSlavePorts(s)  BY DEF SlavePorts
<1>2. {"stall", "ack", "idata"} \subseteq WbSlavePorts(s)  BY DEF WbSlavePorts, Option
<1>3. "err" \in WbSlavePorts(s) <=> s \in design.err  BY DEF WbSlavePorts
<1>4. KindOf(s) = "SINGLE" => "addr" \notin WbSlavePorts(s)  BY DEF WbSlavePorts
<1>5. QED  BY <1>1, <1>2, <1>3, <1>4

LEMMA AxiPorts ==
  ASSUME class \in {"axil", "axi4"}, NEW s \in Slaves, design.option[s] \in Option
  PROVE  /\ design.option[s] = "RW" => Wires \subseteq SlavePorts(s)
         /\ ~(class = "axi4" /\ design.option[s] = "WO") =>
              /\ EmptyOf(s) \subseteq Replies /\ EmptyOf(s) \cap SlavePorts(s) = {}
              /\ Replies \subseteq SlavePorts(s) \cup EmptyOf(s)
<1>1. CASE class = "axil"
  <2>1. SlavePorts(s) = AxilSlavePorts(design.option[s]) /\ Wires = AxilWrite \cup AxilRead
    BY <1>1 DEF SlavePorts, Wires
  <2>2. design.option[s] = "RW" => Wires \subseteq SlavePorts(s)
    BY <2>1 DEF AxilSlavePorts
  <2>3. EmptyOf(s) = AxilEmpty(design.option[s])  BY <1>1 DEF EmptyOf
  <2>4. Replies = {"awready", "wready", "bvalid", "bresp", "arready", "rvalid", "rdata", "rresp"}
    BY <2>1 DEF Replies, AxilWrite, AxilRead
  <2>5. /\ EmptyOf(s) \subseteq Replies /\ EmptyOf(s) \cap SlavePorts(s) = {}
        /\ Replies \subseteq SlavePorts(s) \cup EmptyOf(s)
    <3>1. CASE design.option[s] = "RW"
      <4>1. EmptyOf(s) = {}  BY <2>3, <3>1 DEF AxilEmpty
      <4>2. QED  BY <2>2, <3>1, <4>1 DEF Replies
    <3>2. CASE design.option[s] = "RO"
      <4>1. EmptyOf(s) = {"awready", "wready", "bvalid", "bresp"}  BY <2>3, <3>2 DEF AxilEmpty
      <4>2. SlavePorts(s) = AxilRead  BY <2>1, <3>2 DEF AxilSlavePorts
      <4>3. QED  BY <2>4, <4>1, <4>2 DEF AxilRead
    <3>3. CASE design.option[s] = "WO"
      <4>1. EmptyOf(s) = {"arready", "rvalid", "rdata", "rresp"}  BY <2>3, <3>3 DEF AxilEmpty
      <4>2. SlavePorts(s) = AxilWrite  BY <2>1, <3>3 DEF AxilSlavePorts
      <4>3. QED  BY <2>4, <4>1, <4>2 DEF AxilWrite
    <3>4. QED  BY <3>1, <3>2, <3>3 DEF Option
  <2>6. QED  BY <2>2, <2>5
<1>2. CASE class = "axi4"
  <2>1. SlavePorts(s) = AxiSlavePorts(design.option[s]) /\ Wires = AxiWrite \cup AxiRead
    BY <1>2 DEF SlavePorts, Wires
  <2>2. design.option[s] = "RW" => Wires \subseteq SlavePorts(s)
    BY <2>1 DEF AxiSlavePorts
  <2>3. EmptyOf(s) = AxiEmpty(design.option[s])  BY <1>2 DEF EmptyOf
  <2>4. Replies = {"awready", "wready", "bvalid", "bid", "bresp", "arready", "rvalid", "rid",
                   "rdata", "rlast", "rresp"}
    BY <2>1 DEF Replies, AxiWrite, AxiRead, AxilWrite, AxilRead
  <2>5. ASSUME design.option[s] # "WO"
        PROVE  /\ EmptyOf(s) \subseteq Replies /\ EmptyOf(s) \cap SlavePorts(s) = {}
               /\ Replies \subseteq SlavePorts(s) \cup EmptyOf(s)
    <3>1. CASE design.option[s] = "RW"
      <4>1. EmptyOf(s) = {}  BY <2>3, <3>1 DEF AxiEmpty
      <4>2. QED  BY <2>2, <3>1, <4>1 DEF Replies
    <3>2. CASE design.option[s] = "RO"
      <4>1. EmptyOf(s) = {"awready", "wready", "bvalid", "bid", "bresp"}
        BY <2>3, <3>2 DEF AxiEmpty
      <4>2. SlavePorts(s) = AxiRead  BY <2>1, <3>2 DEF AxiSlavePorts
      <4>3. QED  BY <2>4, <4>1, <4>2 DEF AxiRead, AxilRead
    <3>3. QED  BY <2>5, <3>1, <3>2 DEF Option
  <2>6. QED  BY <1>2, <2>2, <2>5
<1>3. QED  BY <1>1, <1>2

(* The design, as the logic finds it.                                      *)
ListFacts ==
  /\ Sio \notin Slaves /\ Dio \notin Slaves /\ Sio # Dio /\ created \subseteq {Sio, Dio}
  /\ IsInjective(plist) /\ IsInjective(slist) /\ IsInjective(dlist)
  /\ Range(plist) \cap Range(slist) = {} /\ Range(plist) \cap Range(dlist) = {}
  /\ Range(slist) \cap Range(dlist) = {}
  /\ Range(plist) \cup Range(slist) \cup Range(dlist) = Slaves \cup created
  /\ \A s \in Range(slist) : s \in Slaves /\ KindOf(s) = "SINGLE" /\ Sio \in created
  /\ \A s \in Range(dlist) : Dio \in created /\ (s = Sio \/ s \in Slaves)
  /\ Dio \in created => Dio \in Range(plist)
  /\ Sio \in created => Sio \in Range(plist) \cup Range(dlist)

MasterFacts ==
  /\ IsInjective(masters) /\ Range(masters) \cap (Slaves \cup {Sio, Dio}) = {}
  /\ masters = <<>> => Range(masters) = {}
  /\ Len(masters) = 1 => Range(masters) = {masters[1]}
  /\ \A m \in Range(masters) : Wires \subseteq MasterPorts(m)

(* Slaves that the logic below them takes to have all of the wires.        *)
NeedsBoth(s) ==
  \/ s \in Range(dlist) \/ split.is_single \/ split.is_double
  \/ Len(masters) = 1 /\ Len(plist) = 1
  \/ masters = <<>>

PortFacts ==
  /\ design.err \subseteq Slaves
  /\ class = "wb" => \A s \in Slaves :
       /\ {"stall", "ack", "idata"} \subseteq SlavePorts(s)
       /\ "err" \in SlavePorts(s) <=> s \in design.err
       /\ KindOf(s) = "SINGLE" => "addr" \notin SlavePorts(s)
  /\ class # "wb" => \A s \in Slaves :
       /\ NeedsBoth(s) => Wires \subseteq SlavePorts(s)
       /\ EmptyOf(s) \subseteq Replies /\ EmptyOf(s) \cap SlavePorts(s) = {}
       /\ Replies \subseteq SlavePorts(s) \cup EmptyOf(s)

ShapeFacts ==
  /\ class \in Class
  /\ class # "wb" => Sio \notin created
  /\ ~Interconnect \/ (class # "wb" /\ (split.is_single \/ split.is_double)) =>
       created = {} /\ Range(plist) = Slaves
  /\ Len(plist) = 1 => Range(plist) = {plist[1]}
  /\ Interconnect /\ class # "wb" /\ (split.is_single \/ split.is_double) =>
       Len(masters) = 1 /\ (split.is_single => class = "axil")
  /\ Interconnect /\ class = "axil" /\ split.is_single =>
       CountedFromZero(design) /\ Len(plist) = Len(design.bus.kinds)

(* A list of numbers from 1 to n, each once, has n places.                 *)
LEMMA AsManyPlaces ==
  ASSUME NEW S, NEW q \in Seq(S), IsInjective(q), NEW n \in Nat, Range(q) = 1..n
  PROVE  Len(q) = n
<1>1. PICK l \in Nat : l = Len(q) /\ DOMAIN q = 1..l  BY LenProperties
<1>2. q \in [1..l -> 1..n] /\ \A v \in 1..n : \E i \in 1..l : q[i] = v
  <2>1. q = [i \in 1..l |-> q[i]]  BY <1>1, LenProperties
  <2>2. \A i \in 1..l : q[i] \in 1..n  BY <1>1 DEF Range
  <2>3. \A v \in 1..n : \E i \in 1..l : q[i] = v  BY <1>1 DEF Range
  <2>4. QED  BY <2>1, <2>2, <2>3
<1>3. \A i, j \in 1..l : q[i] = q[j] => i = j  BY <1>1 DEF IsInjective
<1>4. q \in Bijection(1..l, 1..n)
  BY <1>2, <1>3 DEF Bijection, Injection, Surjection, IsInjective
<1>5. ExistsBijection(1..l, 1..n)  BY <1>4 DEF ExistsBijection
<1>6. IsFiniteSet(1..l) /\ Cardinality(1..l) = l /\ Cardinality(1..n) = n  BY FS_Interval
<1>7. Cardinality(1..l) = Cardinality(1..n)  BY <1>5, <1>6, FS_Bijection
<1>8. QED  BY <1>1, <1>6, <1>7

LEMMA FactsOfDesign ==
  ASSUME SubbusInv, SplitInv, design \in Designs, bus = design.bus, Handled(design), pc = "done"
  PROVE  ListFacts /\ MasterFacts /\ PortFacts /\ ShapeFacts
<1> DEFINE direct == Len(bus.kinds) = 1 /\ Len(masters) = 1
<1>1. /\ bus.kinds # <<>>
      /\ masters \in Seq(Range(masters)) /\ IsInjective(masters)
      /\ Range(masters) \cap (DOMAIN bus.kinds \cup {Sio, Dio}) = {}
      /\ \A x \in DOMAIN bus.kinds \cup Range(masters) : design.option[x] \in Option
      /\ design.err \subseteq DOMAIN bus.kinds
  BY DesignsAssumption DEF masters
<1>2. /\ Slaves = DOMAIN bus.kinds /\ Slaves = DOMAIN design.bus.kinds
      /\ class = bus.class /\ class \in Class
  BY SlavesAreNumbers DEF SplitInv, Slaves, class
<1>3. \A s \in Slaves : KindOf(s) = bus.kinds[s] /\ bus.kinds[s] \in Kind
  BY SlavesAreNumbers DEF SplitInv
<1>4. split = SplitOfBus(design.bus)  BY ListsWhenDone
<1>5. /\ masters = <<>> => ~NeedsSio(split) /\ ~NeedsDio(split)
      /\ class # "wb" => ~NeedsSio(split)
      /\ (class = "axil" \/ class = "axi4") /\ ~direct /\ (split.is_single \/ split.is_double) =>
           Len(masters) <= 1 /\ (split.is_single => class = "axil")
  <2>1. masters = <<>> => ~NeedsSio(split) /\ ~NeedsDio(split)
    BY <1>4 DEF Handled, masters
  <2>2. class = "axil" => ~NeedsSio(split)  BY <1>4 DEF Handled, class
  <2>3. class = "axi4" => ~NeedsSio(split)  BY <1>4 DEF Handled, class
  <2>4. class = "axil" /\ ~direct /\ (split.is_single \/ split.is_double) => Len(masters) <= 1
    BY <1>4 DEF Handled, class, masters
  <2>5. class = "axi4" /\ ~direct =>
          ~split.is_single /\ (split.is_double => Len(masters) <= 1)
    BY <1>4 DEF Handled, class, masters
  <2>6. QED  BY <1>2, <2>1, <2>2, <2>3, <2>4, <2>5 DEF Class
<1>6. \A s \in Slaves :
        \/ design.option[s] = "RW"
        \/ class = "wb" /\ design.option[s] = "RO"
        \/ /\ class # "wb" /\ bus.kinds[s] = "OTHER" /\ ~direct /\ masters # <<>>
           /\ ~(class = "axi4" /\ design.option[s] = "WO")
  BY <1>2 DEF Handled, class, masters
<1>7. class # "wb" => \A m \in Range(masters) : design.option[m] = "RW"
  BY DEF Handled, class, masters
<1>8. ListFacts
  <2>1. /\ \A s \in Range(slist) : s \in Slaves /\ KindOf(s) = "SINGLE" /\ Sio \in created
        /\ \A s \in Range(dlist) : Dio \in created /\ (s = Sio \/ s \in Slaves)
    BY <1>3, ListsWhenDone
  <2>2. QED  BY <2>1, ListsApart, ListsWhenDone DEF ListFacts
<1>9. MasterFacts
  <2>1. PICK n \in Nat : n = Len(masters) /\ DOMAIN masters = 1..n
    BY <1>1, LenProperties
  <2>2. masters = <<>> => Range(masters) = {}  BY DEF Range
  <2>3. Len(masters) = 1 => Range(masters) = {masters[1]}
    BY <2>1 DEF Range
  <2>4. ASSUME NEW m \in Range(masters) PROVE Wires \subseteq MasterPorts(m)
    <3>1. CASE class = "wb"  BY <3>1 DEF Wires, MasterPorts
    <3>2. CASE class = "axil"
      <4>1. MasterPorts(m) = AxilMasterPorts("RW")  BY <1>7, <2>4, <3>2 DEF MasterPorts
      <4>2. QED  BY <3>2, <4>1 DEF Wires, AxilMasterPorts
    <3>3. CASE class = "axi4"
      <4>1. MasterPorts(m) = AxiMasterPorts("RW")  BY <1>7, <2>4, <3>3 DEF MasterPorts
      <4>2. QED  BY <3>3, <4>1 DEF Wires, AxiMasterPorts
    <3>4. QED  BY <1>2, <3>1, <3>2, <3>3 DEF Class
  <2>5. QED  BY <1>1, <1>2, <2>2, <2>3, <2>4 DEF MasterFacts
<1>10. ShapeFacts
  <2>1. class # "wb" => Sio \notin created  BY <1>5, ListsWhenDone
  <2>2. ASSUME created = {} PROVE Range(plist) = Slaves
    <3>1. Range(slist) = {} /\ Range(dlist) = {}  BY <2>2, ListsWhenDone
    <3>2. QED  BY <2>2, <3>1, ListsApart
  <2>3. masters = <<>> => created = {}  BY <1>5, ListsWhenDone
  <2>4. Len(plist) = 1 => created = {}  BY <1>1, OneInPlist
  <2>5. ASSUME class # "wb", split.is_single \/ split.is_double PROVE created = {}
    <3>1. ~NeedsSio(split)  BY <1>5, <2>5
    <3>2. ~NeedsDio(split)
      <4>1. CASE split.is_single  BY <4>1, SplitFacts, ListsWhenDone DEF SplitInv
      <4>2. CASE split.is_double  BY <4>2 DEF NeedsDio
      <4>3. QED  BY <2>5, <4>1, <4>2
    <3>3. QED  BY <3>1, <3>2, ListsWhenDone
  <2>6. Len(plist) = 1 => Range(plist) = {plist[1]}
    <3>1. plist \in Seq(Members)  BY DEF SubbusInv, TypeOK
    <3>2. PICK n \in Nat : n = Len(plist) /\ DOMAIN plist = 1..n  BY <3>1, LenProperties
    <3>3. QED  BY <3>2 DEF Range
  <2>7. ASSUME Interconnect, class # "wb", split.is_single \/ split.is_double
        PROVE  Len(masters) = 1 /\ (split.is_single => class = "axil")
    <3>1. ~direct  BY <1>1, <2>7, OneInPlist DEF Interconnect
    <3>2. Len(masters) <= 1 /\ (split.is_single => class = "axil")
      BY <1>2, <1>5, <2>7, <3>1 DEF Class
    <3>3. PICK n \in Nat : n = Len(masters)  BY <1>1, LenProperties
    <3>4. n # 0  BY <1>1, <2>7, <3>3, EmptySeq DEF Interconnect
    <3>5. QED  BY <3>2, <3>3, <3>4
  <2>8. ~Interconnect => created = {}  BY <2>3, <2>4 DEF Interconnect
  <2>9. ASSUME Interconnect, class = "axil", split.is_single
        PROVE  CountedFromZero(design) /\ Len(plist) = Len(design.bus.kinds)
    <3>1. ~direct /\ masters # <<>>  BY <1>1, <2>9, OneInPlist DEF Interconnect
    <3>2. CountedFromZero(design)  BY <1>4, <2>9, <3>1 DEF Handled, class, masters
    <3>3. PICK n \in Nat : n = Len(design.bus.kinds) /\ DOMAIN design.bus.kinds = 1..n
      <4>1. design.bus.kinds \in Seq(Kind)  BY DEF SplitInv, Bus
      <4>2. QED  BY <4>1, LenProperties
    <3>4. Range(plist) = 1..n  BY <1>2, <2>2, <2>5, <2>9, <3>3
    <3>5. plist \in Seq(Members) /\ IsInjective(plist)
      BY <1>8 DEF SubbusInv, TypeOK, ListFacts
    <3>6. QED  BY <3>2, <3>3, <3>4, <3>5, AsManyPlaces
  <2>10. QED  BY <1>2, <2>1, <2>2, <2>5, <2>6, <2>7, <2>8, <2>9 DEF ShapeFacts
<1>11. PortFacts
  <2>1. ASSUME class = "wb", NEW s \in Slaves
        PROVE  /\ {"stall", "ack", "idata"} \subseteq SlavePorts(s)
               /\ "err" \in SlavePorts(s) <=> s \in design.err
               /\ KindOf(s) = "SINGLE" => "addr" \notin SlavePorts(s)
    <3>1. design.option[s] \in Option \ {"WO"}  BY <1>6, <2>1 DEF Option
    <3>2. QED  BY <2>1, <3>1, WbPorts
  <2>2. ASSUME class # "wb", NEW s \in Slaves
        PROVE  /\ NeedsBoth(s) => design.option[s] = "RW"
               /\ ~(class = "axi4" /\ design.option[s] = "WO")
    <3>1. s \in Range(dlist) => bus.kinds[s] # "OTHER"  BY <2>2, ListsWhenDone
    <3>2. split.is_single \/ split.is_double => bus.kinds[s] # "OTHER"
      BY <2>2, SplitFacts, ListsWhenDone DEF SplitInv
    <3>3. Len(masters) = 1 /\ Len(plist) = 1 => direct  BY <1>1, OneInPlist
    <3>4. QED  BY <1>6, <2>2, <3>1, <3>2, <3>3 DEF NeedsBoth
  <2>3. ASSUME class # "wb", NEW s \in Slaves
        PROVE  /\ NeedsBoth(s) => Wires \subseteq SlavePorts(s)
               /\ EmptyOf(s) \subseteq Replies /\ EmptyOf(s) \cap SlavePorts(s) = {}
               /\ Replies \subseteq SlavePorts(s) \cup EmptyOf(s)
    <3>1. class \in {"axil", "axi4"} /\ design.option[s] \in Option
      BY <1>1, <1>2, <2>3 DEF Class
    <3>2. QED  BY <2>2, <2>3, <3>1, AxiPorts
  <2>4. design.err \subseteq Slaves  BY <1>1, <1>2
  <2>5. QED  BY <2>1, <2>3, <2>4 DEF PortFacts
<1>12. QED  BY <1>8, <1>9, <1>10, <1>11
-----------------------------------------------------------------------------
(* What the slaves drive and read.                                         *)
LEMMA SlaveWires ==
  ASSUME ShapeFacts, ListFacts, PortFacts
  PROVE  /\ SlaveOut \subseteq Slaves \X Replies /\ SlaveIn \subseteq Slaves \X Requests
         /\ class = "wb" =>
              /\ Slaves \X {"stall", "ack", "idata"} \subseteq SlaveOut
              /\ design.err \X {"err"} \subseteq SlaveOut
              /\ ((Slaves \ design.err) \X {"err"}) \cap SlaveOut = {}
              /\ SlaveIn \subseteq (Range(slist) \X (Requests \ {"addr"}))
                                     \cup ((Slaves \ Range(slist)) \X Requests)
         /\ \A U \in SUBSET Slaves :
              (\A s \in U : Wires \subseteq SlavePorts(s)) => U \X Replies \subseteq SlaveOut
<1>1. \A p : p \in SlaveOut <=> p \in Slaves \X Replies /\ p[2] \in SlavePorts(p[1])
  BY DEF SlaveOut
<1>2. \A p : p \in SlaveIn <=> p \in Slaves \X Requests /\ p[2] \in SlavePorts(p[1])
  BY DEF SlaveIn
<1>3. SlaveOut \subseteq Slaves \X Replies /\ SlaveIn \subseteq Slaves \X Requests
  BY <1>1, <1>2
<1>4. Replies \subseteq Wires  BY DEF Replies
<1>5. ASSUME NEW U \in SUBSET Slaves, \A s \in U : Wires \subseteq SlavePorts(s)
      PROVE  U \X Replies \subseteq SlaveOut
  <2>1. SUFFICES ASSUME NEW s \in U, NEW w \in Replies PROVE <<s, w>> \in SlaveOut
    OBVIOUS
  <2>2. w \in SlavePorts(s)  BY <1>4, <1>5
  <2>3. QED  BY <1>1, <2>2
<1>6. ASSUME class = "wb"
      PROVE  /\ Slaves \X {"stall", "ack", "idata"} \subseteq SlaveOut
             /\ design.err \X {"err"} \subseteq SlaveOut
             /\ ((Slaves \ design.err) \X {"err"}) \cap SlaveOut = {}
             /\ SlaveIn \subseteq (Range(slist) \X (Requests \ {"addr"}))
                                    \cup ((Slaves \ Range(slist)) \X Requests)
  <2>1. Replies = {"stall", "ack", "idata", "err"}  BY <1>6, WireNames DEF ShapeFacts
  <2>2. \A s \in Slaves :
          /\ {"stall", "ack", "idata"} \subseteq SlavePorts(s)
          /\ "err" \in SlavePorts(s) <=> s \in design.err
          /\ KindOf(s) = "SINGLE" => "addr" \notin SlavePorts(s)
    BY <1>6 DEF PortFacts
  <2>3. design.err \subseteq Slaves  BY DEF PortFacts
  <2>4. ASSUME NEW s \in Slaves, NEW w \in {"stall", "ack", "idata"}
        PROVE  <<s, w>> \in SlaveOut
    <3>1. w \in SlavePorts(s) /\ w \in Replies  BY <2>1, <2>2
    <3>2. QED  BY <1>1, <3>1
  <2>5. ASSUME NEW s \in Slaves PROVE <<s, "err">> \in SlaveOut <=> s \in design.err
    <3>1. "err" \in Replies  BY <2>1
    <3>2. QED  BY <1>1, <2>2, <3>1
  <2>6. ASSUME NEW p \in SlaveIn
        PROVE  p \in (Range(slist) \X (Requests \ {"addr"})) \cup ((Slaves \ Range(slist)) \X Requests)
    <3>1. PICK s \in Slaves, w \in Requests : p = <<s, w>> /\ w \in SlavePorts(s)
      BY <1>2
    <3>2. s \in Range(slist) => w # "addr"  BY <2>2, <3>1 DEF ListFacts
    <3>3. QED  BY <3>1, <3>2
  <2>7. ((Slaves \ design.err) \X {"err"}) \cap SlaveOut = {}
    <3>1. SUFFICES ASSUME NEW p \in (Slaves \ design.err) \X {"err"} PROVE p \notin SlaveOut
      OBVIOUS
    <3>2. PICK s \in Slaves : s \notin design.err /\ p = <<s, "err">>  OBVIOUS
    <3>3. QED  BY <2>5, <3>2
  <2>8. design.err \X {"err"} \subseteq SlaveOut
    <3>1. SUFFICES ASSUME NEW p \in design.err \X {"err"} PROVE p \in SlaveOut
      OBVIOUS
    <3>2. PICK s \in design.err : p = <<s, "err">>  OBVIOUS
    <3>3. QED  BY <2>3, <2>5, <3>2
  <2>9. Slaves \X {"stall", "ack", "idata"} \subseteq SlaveOut
    <3>1. SUFFICES ASSUME NEW p \in Slaves \X {"stall", "ack", "idata"} PROVE p \in SlaveOut
      OBVIOUS
    <3>2. PICK s \in Slaves, w \in {"stall", "ack", "idata"} : p = <<s, w>>  OBVIOUS
    <3>3. QED  BY <2>4, <3>2
  <2>10. QED  BY <2>6, <2>7, <2>8, <2>9
<1>7. QED  BY <1>3, <1>5, <1>6

(* The logic is printed from what it does not change.                      *)
LEMMA SameDesign ==
  ASSUME UNCHANGED <<vars, design>>
  PROVE  /\ SlaveOut' = SlaveOut /\ SlaveIn' = SlaveIn
         /\ FromComponents' = FromComponents /\ ToComponents' = ToComponents
         /\ SioEnds' = SioEnds /\ SioReads' = SioReads
         /\ DioEnds' = DioEnds /\ DioReads' = DioReads
         /\ XbarEnds' = XbarEnds /\ XbarReads' = XbarReads
         /\ Units' = Units /\ Wires' = Wires /\ Interconnect' = Interconnect
         /\ class' = class
<1>1. /\ bus' = bus /\ pc' = pc /\ plist' = plist /\ slist' = slist /\ dlist' = dlist
      /\ created' = created /\ split' = split /\ design' = design
  BY DEF vars
<1>2. class' = class /\ masters' = masters /\ Slaves' = Slaves
  BY <1>1 DEF class, masters, Slaves
<1>3. Wires' = Wires  BY <1>2 DEF Wires
<1>4. Replies' = Replies  BY <1>3 DEF Replies
<1>5. Requests' = Requests  BY <1>3, <1>4 DEF Requests
<1>6. ASSUME NEW s PROVE SlavePorts(s)' = SlavePorts(s)
  BY <1>1, <1>2 DEF SlavePorts, WbSlavePorts, KindOf
<1>7. SlaveOut' = SlaveOut /\ SlaveIn' = SlaveIn
  BY <1>2, <1>4, <1>5, <1>6 DEF SlaveOut, SlaveIn
<1>8. Units' = Units  BY <1>2 DEF Units
<1>9. Interconnect' = Interconnect  BY <1>1, <1>2 DEF Interconnect
<1>10. FromComponents' = FromComponents /\ ToComponents' = ToComponents
  BY <1>2, <1>4, <1>5, <1>7 DEF FromComponents, ToComponents
<1>11. SioEnds' = SioEnds /\ SioReads' = SioReads
  BY <1>1, <1>2, <1>5 DEF SioEnds, SioReads
<1>12. DioEnds' = DioEnds /\ DioReads' = DioReads
  BY <1>1, <1>2, <1>4, <1>5 DEF DioEnds, DioReads
<1>13. XbarEnds' = XbarEnds /\ XbarReads' = XbarReads
  BY <1>1, <1>2, <1>4, <1>5 DEF XbarEnds, XbarReads
<1>14. QED  BY <1>2, <1>3, <1>7, <1>8, <1>9, <1>10, <1>11, <1>12, <1>13

(* A section keeps the invariant if what it drives is not driven yet.      *)
LEMMA SectionKeeps ==
  ASSUME WireInv, pc = "done",
         NEW ds, NEW rs, NEW ls, NEW next, Write(ds, rs, ls, next), next # "ports",
         OneEach(ds), Ends(drivers) \cap Ends(ds) = {}, Ends(ds) \subseteq Units \X Wires,
         Printed(next, Ends(drivers) \cup Ends(ds), reads \cup rs)
  PROVE  WireInv'
<1>1. /\ OneEach(drivers') /\ Ends(drivers') = Ends(drivers) \cup Ends(ds)
      /\ reads' = reads \cup rs /\ wpc' = next
      /\ UNCHANGED <<vars, design>>
  BY Writing DEF WireInv
<1>2. pc' = pc /\ bus' = bus /\ split' = split /\ design' = design  BY <1>1 DEF vars
<1>3. Ends(drivers)' = Ends(drivers) \cup Ends(ds)  BY <1>1 DEF Ends
<1>4. OneEach(drivers)'
  <2>1. class' = class  BY <1>1, SameDesign
  <2>2. QED  BY <1>1, <2>1 DEF OneEach, PrintedAgain
<1>5. Ends(drivers)' \subseteq Units' \X Wires'
  <2>1. Ends(drivers) \cup Ends(ds) \subseteq Units \X Wires  BY DEF WireInv
  <2>2. Units' = Units /\ Wires' = Wires  BY <1>1, SameDesign
  <2>3. QED  BY <1>3, <2>1, <2>2
<1>6. Printed(wpc, Ends(drivers), reads)'
  <2> DEFINE E == Ends(drivers) \cup Ends(ds)
             R == reads \cup rs
  <2>1. Printed(next, E, R)  OBVIOUS
  <2>2. wpc' = next /\ Ends(drivers)' = E /\ reads' = R  BY <1>1, <1>3
  <2> HIDE DEF E, R
  <2>3. /\ FromComponents' = FromComponents /\ ToComponents' = ToComponents
        /\ SioEnds' = SioEnds /\ SioReads' = SioReads
        /\ DioEnds' = DioEnds /\ DioReads' = DioReads
        /\ XbarEnds' = XbarEnds /\ XbarReads' = XbarReads
        /\ Interconnect' = Interconnect /\ class' = class
    BY <1>1, SameDesign
  <2>4. QED  BY <1>2, <2>1, <2>2, <2>3 DEF Printed
<1>7. QED  BY <1>1, <1>2, <1>4, <1>5, <1>6 DEF WireInv
-----------------------------------------------------------------------------
LEMMA ComponentsKeep ==
  ASSUME WireInv, ListFacts, MasterFacts, PortFacts, ShapeFacts, Components
  PROVE  WireInv'
<1> DEFINE out == [s \in Slaves |-> SlavePorts(s) \cap Replies]
           ask == [m \in Range(masters) |-> MasterPorts(m) \cap Requests]
           D1 == UNION {Driven({s}, SlavePorts(s) \cap Replies, "slave") : s \in Slaves}
           D2 == UNION {Driven({m}, MasterPorts(m) \cap Requests, "master") : m \in Range(masters)}
           R1 == UNION {At({s}, SlavePorts(s) \cap Requests) : s \in Slaves}
           R2 == UNION {At({m}, MasterPorts(m) \cap Replies) : m \in Range(masters)}
<1>1. pc = "done" /\ wpc = "ports" /\ Write(D1 \cup D2, R1 \cup R2, {}, "early")
  BY DEF Components
<1>2. drivers = {} /\ reads = {}  BY <1>1 DEF WireInv
<1>3. Ends(drivers) = {}  BY <1>2 DEF Ends
<1>4. Replies \subseteq Wires /\ Requests \subseteq Wires /\ Replies \cap Requests = {}
  BY WireNames DEF ShapeFacts
<1>5. \A m \in Range(masters) : MasterPorts(m) \cap Requests = Requests
                                 /\ MasterPorts(m) \cap Replies = Replies
  BY <1>4 DEF MasterFacts
<1>6. OneEach(D1) /\ Ends(D1) = SlaveOut
  <2>1. \A d : d \in D1 <=> \E s \in Slaves : d \in Driven({s}, out[s], "slave")  OBVIOUS
  <2>2. \A s \in Slaves : out[s] = SlavePorts(s) \cap Replies  OBVIOUS
  <2> HIDE DEF D1, out
  <2>3. OneEach(D1)  BY <2>1, EndsEach
  <2>4. \A p \in Ends(D1) : p = <<p[1], p[2]>> /\ p[1] \in Slaves /\ p[2] \in out[p[1]]
    BY <2>1, EndsEach
  <2>5. \A u \in Slaves : \A w \in out[u] : <<u, w>> \in Ends(D1)
    BY <2>1, EndsEach
  <2>6. ASSUME NEW p \in Ends(D1) PROVE p \in SlaveOut
    <3>1. PICK u \in Slaves : p = <<u, p[2]>> /\ p[2] \in out[u]  BY <2>4
    <3>2. PICK w \in out[u] : p = <<u, w>>  BY <3>1
    <3>3. w \in SlavePorts(u) /\ w \in Replies  BY <2>2
    <3>4. QED  BY <3>2, <3>3 DEF SlaveOut
  <2>7. ASSUME NEW p \in SlaveOut PROVE p \in Ends(D1)
    <3>1. PICK u \in Slaves, w \in Replies : p = <<u, w>> /\ w \in SlavePorts(u)
      BY DEF SlaveOut
    <3>2. w \in out[u]  BY <2>2, <3>1
    <3>3. QED  BY <2>5, <3>1, <3>2
  <2>8. QED  BY <2>3, <2>6, <2>7
<1>7. OneEach(D2) /\ Ends(D2) = Range(masters) \X Requests
  <2>1. \A d : d \in D2 <=> \E m \in Range(masters) : d \in Driven({m}, ask[m], "master")
    OBVIOUS
  <2>2. \A m \in Range(masters) : ask[m] = Requests  BY <1>5
  <2> HIDE DEF D2, ask
  <2>3. OneEach(D2)  BY <2>1, EndsEach
  <2>4. \A p \in Ends(D2) : p = <<p[1], p[2]>> /\ p[1] \in Range(masters) /\ p[2] \in ask[p[1]]
    BY <2>1, EndsEach
  <2>5. \A u \in Range(masters) : \A w \in ask[u] : <<u, w>> \in Ends(D2)
    BY <2>1, EndsEach
  <2>6. ASSUME NEW p \in Ends(D2) PROVE p \in Range(masters) \X Requests
    <3>1. PICK u \in Range(masters) : p = <<u, p[2]>> /\ p[2] \in ask[u]  BY <2>4
    <3>2. PICK w \in Requests : p = <<u, w>>  BY <2>2, <3>1
    <3>3. QED  BY <3>2
  <2>7. ASSUME NEW p \in Range(masters) \X Requests PROVE p \in Ends(D2)
    <3>1. PICK u \in Range(masters), w \in Requests : p = <<u, w>>  OBVIOUS
    <3>2. QED  BY <2>2, <2>5, <3>1
  <2>8. QED  BY <2>3, <2>6, <2>7
<1>8. R1 = SlaveIn
  <2>1. ASSUME NEW p \in R1 PROVE p \in SlaveIn
    <3>1. PICK s \in Slaves : p \in {s} \X (SlavePorts(s) \cap Requests)  BY DEF At
    <3>2. PICK w \in SlavePorts(s) \cap Requests : p = <<s, w>>  BY <3>1
    <3>3. QED  BY <3>2 DEF SlaveIn
  <2>2. ASSUME NEW p \in SlaveIn PROVE p \in R1
    <3>1. PICK s \in Slaves, w \in Requests : p = <<s, w>> /\ w \in SlavePorts(s)
      BY DEF SlaveIn
    <3>2. p \in {s} \X (SlavePorts(s) \cap Requests)  BY <3>1
    <3>3. QED  BY <3>2 DEF At
  <2>3. QED  BY <2>1, <2>2
<1>9. R2 = Range(masters) \X Replies
  <2>1. ASSUME NEW p \in R2 PROVE p \in Range(masters) \X Replies
    <3>1. PICK m \in Range(masters) : p \in {m} \X (MasterPorts(m) \cap Replies)  BY DEF At
    <3>2. PICK w \in Replies : p = <<m, w>>  BY <3>1
    <3>3. QED  BY <3>2
  <2>2. ASSUME NEW p \in Range(masters) \X Replies PROVE p \in R2
    <3>1. PICK m \in Range(masters), w \in Replies : p = <<m, w>>  OBVIOUS
    <3>2. p \in {m} \X (MasterPorts(m) \cap Replies)  BY <1>5, <3>1
    <3>3. QED  BY <3>2 DEF At
  <2>3. QED  BY <2>1, <2>2
<1> HIDE DEF D1, D2, R1, R2
<1>10. OneEach(D1 \cup D2) /\ Ends(D1 \cup D2) = FromComponents
  <2>1. SlaveOut \subseteq Slaves \X Replies  BY DEF SlaveOut
  <2>2. Slaves \X Replies \cap (Range(masters) \X Requests) = {}  BY <1>4, ProductsApart
  <2>3. Ends(D1) \cap Ends(D2) = {}  BY <1>6, <1>7, <2>1, <2>2
  <2>4. OneEach(D1 \cup D2) /\ Ends(D1 \cup D2) = Ends(D1) \cup Ends(D2)
    BY <1>6, <1>7, <2>3, EndsUnion
  <2>5. QED  BY <1>6, <1>7, <2>4 DEF FromComponents
<1>11. FromComponents \subseteq Units \X Wires
  <2>1. SlaveOut \subseteq Slaves \X Replies  BY DEF SlaveOut
  <2>2. Slaves \X Replies \subseteq Units \X Wires  BY <1>4, ProductsWithin DEF Units
  <2>3. Range(masters) \X Requests \subseteq Units \X Wires
    BY <1>4, ProductsWithin DEF Units
  <2>4. QED  BY <2>1, <2>2, <2>3 DEF FromComponents
<1>12. Printed("early", Ends(drivers) \cup Ends(D1 \cup D2), reads \cup (R1 \cup R2))
  BY <1>2, <1>3, <1>8, <1>9, <1>10 DEF Printed, ToComponents
<1>13. QED
  <2>1. Ends(drivers) \cap Ends(D1 \cup D2) = {}  BY <1>3
  <2>2. Ends(D1 \cup D2) \subseteq Units \X Wires  BY <1>10, <1>11
  <2>3. PICK ds : ds = D1 \cup D2  OBVIOUS
  <2>4. PICK rs : rs = R1 \cup R2  OBVIOUS
  <2>5. QED  BY <1>1, <1>10, <1>12, <2>1, <2>2, <2>3, <2>4, SectionKeeps
-----------------------------------------------------------------------------
(* What the components leave to the logic.                                 *)
LEMMA LeftToLogic ==
  ASSUME ListFacts, MasterFacts, PortFacts, ShapeFacts, NEW U, NEW W
  PROVE  /\ W \subseteq Requests /\ U \cap Range(masters) = {} =>
              (U \X W) \cap FromComponents = {}
         /\ W \subseteq Replies /\ U \cap Slaves = {} => (U \X W) \cap FromComponents = {}
         /\ class = "wb" /\ U \cap design.err = {} => (U \X {"err"}) \cap FromComponents = {}
<1>1. Replies \cap Requests = {}  BY WireNames DEF ShapeFacts
<1>2. SlaveOut \subseteq Slaves \X Replies  BY SlaveWires
<1>3. ASSUME W \subseteq Requests, U \cap Range(masters) = {}
      PROVE  (U \X W) \cap FromComponents = {}
  <2>1. (U \X W) \cap (Slaves \X Replies) = {}
    <3>1. W \cap Replies = {}  BY <1>1, <1>3
    <3>2. QED  BY <3>1, ProductsApart
  <2>2. (U \X W) \cap (Range(masters) \X Requests) = {}  BY <1>3, ProductsApart
  <2>3. QED  BY <1>2, <2>1, <2>2 DEF FromComponents
<1>4. ASSUME W \subseteq Replies, U \cap Slaves = {}
      PROVE  (U \X W) \cap FromComponents = {}
  <2>1. (U \X W) \cap (Slaves \X Replies) = {}  BY <1>4, ProductsApart
  <2>2. (U \X W) \cap (Range(masters) \X Requests) = {}
    <3>1. W \cap Requests = {}  BY <1>1, <1>4
    <3>2. QED  BY <3>1, ProductsApart
  <2>3. QED  BY <1>2, <2>1, <2>2 DEF FromComponents
<1>5. ASSUME class = "wb", U \cap design.err = {}
      PROVE  (U \X {"err"}) \cap FromComponents = {}
  <2>1. ((Slaves \ design.err) \X {"err"}) \cap SlaveOut = {}  BY <1>5, SlaveWires
  <2>2. (U \X {"err"}) \cap (Range(masters) \X Requests) = {}
    <3>1. {"err"} \cap Requests = {}  BY <1>5, WireNames DEF ShapeFacts
    <3>2. QED  BY <3>1, ProductsApart
  <2>3. (U \X {"err"}) \cap SlaveOut = {}
    <3>1. SUFFICES ASSUME NEW u \in U, <<u, "err">> \in SlaveOut PROVE FALSE  OBVIOUS
    <3>2. u \in Slaves  BY <1>2, <3>1
    <3>3. u \notin design.err  BY <1>5
    <3>4. <<u, "err">> \in (Slaves \ design.err) \X {"err"}  BY <3>2, <3>3
    <3>5. QED  BY <2>1, <3>1, <3>4
  <2>4. QED  BY <2>2, <2>3 DEF FromComponents
<1>6. QED  BY <1>3, <1>4, <1>5

LEMMA NoMastersKeep ==
  ASSUME WireInv, ListFacts, MasterFacts, PortFacts, ShapeFacts, NoMasters
  PROVE  WireInv'
<1>1. PICK ds : ds = DrivenBy(plist, Requests, "tie")  OBVIOUS
<1> DEFINE rs == IF class = "wb" THEN {} ELSE At(Range(plist), Replies)
<1>2. wpc = "early" /\ masters = <<>> /\ Write(ds, rs, {}, "written")
  BY <1>1 DEF NoMasters
<1>3. pc = "done" /\ Ends(drivers) = FromComponents /\ reads = ToComponents
  BY <1>2 DEF WireInv, Printed
<1>4. Range(plist) = Slaves /\ Range(masters) = {}
  BY <1>2 DEF ShapeFacts, Interconnect, MasterFacts
<1>5. OneEach(ds) /\ Ends(ds) = Slaves \X Requests
  BY <1>1, <1>4, EndsDrivenBy DEF ListFacts
<1>6. Ends(drivers) \cap Ends(ds) = {}
  <2>1. (Slaves \X Requests) \cap FromComponents = {}  BY <1>4, LeftToLogic
  <2>2. QED  BY <1>3, <1>5, <2>1
<1>7. Ends(ds) \subseteq Units \X Wires
  <2>1. Requests \subseteq Wires  BY DEF Requests
  <2>2. QED  BY <1>5, <2>1, ProductsWithin DEF Units
<1>8. reads \cup rs \subseteq Ends(drivers) \cup Ends(ds)
  <2>1. SlaveIn \subseteq Slaves \X Requests  BY SlaveWires
  <2>2. Range(masters) \X Replies = {}  BY <1>4
  <2>3. rs \subseteq FromComponents
    <3>1. CASE class = "wb"  BY <3>1
    <3>2. CASE class # "wb"
      <4>1. \A x \in Slaves : Wires \subseteq SlavePorts(x)  BY <1>2, <3>2 DEF PortFacts, NeedsBoth
      <4>2. Slaves \X Replies \subseteq SlaveOut  BY <4>1, SlaveWires
      <4>3. rs = Slaves \X Replies  BY <1>4, <3>2 DEF At
      <4>4. QED  BY <4>2, <4>3 DEF FromComponents
    <3>3. QED  BY <3>1, <3>2
  <2> HIDE DEF rs
  <2>4. QED  BY <1>3, <1>5, <2>1, <2>2, <2>3 DEF ToComponents
<1> HIDE DEF rs
<1>9. Printed("written", Ends(drivers) \cup Ends(ds), reads \cup rs)  BY <1>8 DEF Printed
<1>10. QED  BY <1>2, <1>3, <1>5, <1>6, <1>7, <1>9, SectionKeeps

LEMMA DirectKeeps ==
  ASSUME WireInv, ListFacts, MasterFacts, PortFacts, ShapeFacts, Direct
  PROVE  WireInv'
<1>1. PICK s : s = plist[1]  OBVIOUS
<1>2. PICK m : m = masters[1]  OBVIOUS
<1>3. PICK D1 : D1 = Driven({s}, Requests, "assign") \cup Driven({m}, Replies, "assign")
  OBVIOUS
<1>4. PICK D2 : D2 = IF class = "wb" THEN ErrorWires(plist) ELSE {}  OBVIOUS
<1>5. PICK rs : rs = At({m}, Requests) \cup At({s}, Replies)  OBVIOUS
<1>6. PICK ls : ls = {[up |-> {m}, selects |-> <<{s}>>, down |-> plist]}  OBVIOUS
<1>7. PICK ds : ds = D1 \cup D2  OBVIOUS
<1>8. wpc = "early" /\ Len(masters) = 1 /\ Len(plist) = 1 /\ Write(ds, rs, ls, "written")
  BY <1>1, <1>2, <1>3, <1>4, <1>5, <1>6, <1>7 DEF Direct
<1>9. pc = "done" /\ Ends(drivers) = FromComponents /\ reads = ToComponents
  BY <1>8 DEF WireInv, Printed
<1>10. Slaves = {s} /\ Range(plist) = {s} /\ Range(masters) = {m} /\ s # m
  <2>1. Range(plist) = Slaves  BY <1>8 DEF ShapeFacts, Interconnect
  <2>2. Range(plist) = {s} /\ Range(masters) = {m}
    BY <1>1, <1>2, <1>8 DEF ShapeFacts, MasterFacts
  <2>3. QED  BY <2>1, <2>2 DEF MasterFacts
<1>11. /\ Replies \subseteq Wires /\ Requests \subseteq Wires /\ Replies \cap Requests = {}
       /\ class = "wb" => Replies = {"stall", "ack", "idata", "err"}
  BY WireNames DEF ShapeFacts
<1>12. OneEach(D1) /\ Ends(D1) = ({s} \X Requests) \cup ({m} \X Replies)
  <2>1. PICK A : A = Driven({s}, Requests, "assign")  OBVIOUS
  <2>2. PICK B : B = Driven({m}, Replies, "assign")  OBVIOUS
  <2>3. OneEach(A) /\ Ends(A) = {s} \X Requests  BY <2>1, EndsDriven
  <2>4. OneEach(B) /\ Ends(B) = {m} \X Replies  BY <2>2, EndsDriven
  <2>5. Ends(A) \cap Ends(B) = {}  BY <1>11, <2>3, <2>4, ProductsApart
  <2>6. OneEach(A \cup B) /\ Ends(A \cup B) = Ends(A) \cup Ends(B)
    BY <2>3, <2>4, <2>5, EndsUnion
  <2>7. D1 = A \cup B  BY <1>3, <2>1, <2>2
  <2>8. QED  BY <2>3, <2>4, <2>6, <2>7
<1>13. OneEach(D2) /\ Ends(D2) = IF class = "wb" THEN ({s} \ design.err) \X {"err"} ELSE {}
  <2>1. CASE class = "wb"  BY <1>4, <1>10, <2>1, ErrorEnds DEF ListFacts
  <2>2. CASE class # "wb"
    <3>1. D2 = {}  BY <1>4, <2>2
    <3>2. QED  BY <2>2, <3>1 DEF OneEach, Ends
  <2>3. QED  BY <2>1, <2>2
<1>14. OneEach(ds) /\ Ends(ds) = Ends(D1) \cup Ends(D2)
  <2>1. class = "wb" => "err" \in Replies /\ "err" \notin Requests  BY <1>11
  <2>2. class = "wb" => (({s} \ design.err) \X {"err"}) \cap ({s} \X Requests) = {}
    BY <2>1, ProductsApart
  <2>3. (({s} \ design.err) \X {"err"}) \cap ({m} \X Replies) = {}  BY <1>10, ProductsApart
  <2>4. Ends(D1) \cap Ends(D2) = {}  BY <1>12, <1>13, <2>2, <2>3
  <2>5. QED  BY <1>7, <1>12, <1>13, <2>4, EndsUnion
<1>15. Ends(drivers) \cap Ends(ds) = {}
  <2>1. ({s} \X Requests) \cap FromComponents = {}  BY <1>10, LeftToLogic
  <2>2. ({m} \X Replies) \cap FromComponents = {}  BY <1>10, LeftToLogic
  <2>3. class = "wb" => (({s} \ design.err) \X {"err"}) \cap FromComponents = {}
    BY LeftToLogic
  <2>4. QED  BY <1>9, <1>12, <1>13, <1>14, <2>1, <2>2, <2>3
<1>16. Ends(ds) \subseteq Units \X Wires
  <2>1. {s} \subseteq Units /\ {m} \subseteq Units  BY <1>10 DEF Units
  <2>2. {s} \X Requests \subseteq Units \X Wires  BY <1>11, <2>1, ProductsWithin
  <2>3. {m} \X Replies \subseteq Units \X Wires  BY <1>11, <2>1, ProductsWithin
  <2>4. class = "wb" => ({s} \ design.err) \X {"err"} \subseteq Units \X Wires
    <3>1. class = "wb" => {"err"} \subseteq Wires  BY <1>11
    <3>2. QED  BY <2>1, <3>1, ProductsWithin
  <2>5. QED  BY <1>12, <1>13, <1>14, <2>2, <2>3, <2>4
<1>17. reads \cup rs \subseteq Ends(drivers) \cup Ends(ds)
  <2>1. SlaveIn \subseteq {s} \X Requests  BY <1>10, SlaveWires
  <2>2. rs = ({m} \X Requests) \cup ({s} \X Replies)  BY <1>5 DEF At
  <2>3. ToComponents = SlaveIn \cup ({m} \X Replies)  BY <1>10 DEF ToComponents
  <2>4. FromComponents = SlaveOut \cup ({m} \X Requests)  BY <1>10 DEF FromComponents
  <2>5. {s} \X Replies \subseteq SlaveOut \cup Ends(D2)
    <3>1. CASE class = "wb"
      <4>1. {s} \X {"stall", "ack", "idata"} \subseteq SlaveOut  BY <1>10, <3>1, SlaveWires
      <4>2. design.err \X {"err"} \subseteq SlaveOut  BY <3>1, SlaveWires
      <4>3. {s} \X {"err"} \subseteq (design.err \X {"err"}) \cup Ends(D2)
        BY <1>13, <3>1
      <4>4. {s} \X Replies = ({s} \X {"stall", "ack", "idata"}) \cup ({s} \X {"err"})
        BY <1>11, <3>1
      <4>5. QED  BY <4>1, <4>2, <4>3, <4>4
    <3>2. CASE class # "wb"
      <4>1. \A x \in Slaves : Wires \subseteq SlavePorts(x)  BY <1>8, <3>2 DEF PortFacts, NeedsBoth
      <4>2. Slaves \X Replies \subseteq SlaveOut  BY <4>1, SlaveWires
      <4>3. QED  BY <1>10, <4>2
    <3>3. QED  BY <3>1, <3>2
  <2>6. QED  BY <1>9, <1>12, <1>14, <2>1, <2>2, <2>3, <2>4, <2>5
<1>18. Printed("written", Ends(drivers) \cup Ends(ds), reads \cup rs)  BY <1>17 DEF Printed
<1>19. QED  BY <1>8, <1>9, <1>14, <1>15, <1>16, <1>18, SectionKeeps
-----------------------------------------------------------------------------
(* Sections that print nothing.                                            *)
LEMMA NothingPrinted ==
  ASSUME WireInv, ListFacts, MasterFacts, PortFacts, ShapeFacts, NotEarly \/ NoSlist \/ NoDlist
  PROVE  WireInv'
<1>1. PICK E : E = Ends(drivers)  OBVIOUS
<1>2. OneEach({}) /\ Ends({}) = {}  BY DEF OneEach, Ends
<1>3. E \cap Ends({}) = {} /\ Ends({}) \subseteq Units \X Wires
      /\ E \cup Ends({}) = E /\ reads \cup {} = reads
  BY <1>2
<1>4. CASE NotEarly
  <2>1. wpc = "early" /\ Write({}, {}, {}, "slist") /\ Interconnect
    BY <1>4 DEF NotEarly, Interconnect
  <2>2. pc = "done" /\ E = FromComponents /\ reads = ToComponents
    BY <1>1, <2>1 DEF WireInv, Printed
  <2>3. Printed("slist", E, reads)  BY <2>1, <2>2 DEF Printed
  <2>4. QED  BY <1>1, <1>2, <1>3, <2>1, <2>2, <2>3, SectionKeeps
<1>5. CASE NoSlist
  <2>1. /\ wpc = "slist" /\ Write({}, {}, {}, "dlist")
        /\ Sio \notin created /\ (class # "wb" => ~split.is_single)
    BY <1>5 DEF NoSlist
  <2>2. pc = "done" /\ E = FromComponents /\ reads = ToComponents /\ Interconnect
    BY <1>1, <2>1 DEF WireInv, Printed
  <2>3. SioEnds = {} /\ SioReads = {}  BY <2>1 DEF SioEnds, SioReads
  <2>4. Printed("dlist", E, reads)  BY <2>1, <2>2, <2>3 DEF Printed
  <2>5. QED  BY <1>1, <1>2, <1>3, <2>1, <2>2, <2>4, SectionKeeps
<1>6. CASE NoDlist
  <2>1. /\ wpc = "dlist" /\ Write({}, {}, {}, "main")
        /\ Dio \notin created /\ (class # "wb" => ~split.is_double)
    BY <1>6 DEF NoDlist
  <2>2. /\ pc = "done" /\ Interconnect
        /\ E = FromComponents \cup SioEnds /\ reads = ToComponents \cup SioReads
        /\ class # "wb" => ~split.is_single
    BY <1>1, <2>1 DEF WireInv, Printed
  <2>3. DioEnds = {} /\ DioReads = {}  BY <2>1 DEF DioEnds, DioReads
  <2>4. Printed("main", E, reads)  BY <2>1, <2>2, <2>3 DEF Printed
  <2>5. QED  BY <1>1, <1>2, <1>3, <2>1, <2>2, <2>4, SectionKeeps
<1>7. QED  BY <1>4, <1>5, <1>6

(* Where the lists and the two buses are.                                  *)
LEMMA WhereListsAre ==
  ASSUME ListFacts, MasterFacts
  PROVE  /\ Range(slist) \subseteq Slaves /\ Range(dlist) \subseteq Slaves \cup {Sio}
         /\ Range(plist) \subseteq Slaves \cup {Sio, Dio}
         /\ Range(slist) \cap Range(masters) = {} /\ Range(dlist) \cap Range(masters) = {}
         /\ Range(plist) \cap Range(masters) = {}
         /\ Sio \notin Range(slist) /\ Dio \notin Range(dlist)
         /\ Range(plist) \subseteq Units /\ Range(slist) \subseteq Units /\ Range(dlist) \subseteq Units
         /\ {Sio} \subseteq Units /\ {Dio} \subseteq Units /\ Range(masters) \subseteq Units
<1>1. Range(slist) \subseteq Slaves /\ Range(dlist) \subseteq Slaves \cup {Sio}
  BY DEF ListFacts
<1>2. Range(plist) \subseteq Slaves \cup {Sio, Dio}  BY DEF ListFacts
<1>3. Range(masters) \cap (Slaves \cup {Sio, Dio}) = {}  BY DEF MasterFacts
<1>4. Sio \notin Slaves /\ Dio \notin Slaves /\ Sio # Dio  BY DEF ListFacts
<1>5. /\ Range(slist) \cap Range(masters) = {} /\ Range(dlist) \cap Range(masters) = {}
      /\ Range(plist) \cap Range(masters) = {}
  BY <1>1, <1>2, <1>3
<1>6. QED  BY <1>1, <1>2, <1>4, <1>5 DEF Units

LEMMA WbSlistKeeps ==
  ASSUME WireInv, ListFacts, MasterFacts, PortFacts, ShapeFacts, WbSlist
  PROVE  WireInv'
<1> DEFINE V == Requests \ {"addr"}
           W == {"stall", "ack", "idata"}
<1>1. PICK ds : ds = DrivenBy(slist, V, "sio") \cup Driven({Sio}, W, "sio")  OBVIOUS
<1>2. PICK rs : rs = At({Sio}, Requests) \cup At(Range(slist), {"idata"})  OBVIOUS
<1>3. PICK ls : ls = {[up |-> {Sio}, selects |-> Strobes(slist), down |-> slist]}  OBVIOUS
<1>4. wpc = "slist" /\ class = "wb" /\ Sio \in created /\ Write(ds, rs, ls, "dlist")
  BY <1>1, <1>2, <1>3 DEF WbSlist
<1>5. pc = "done" /\ Ends(drivers) = FromComponents /\ reads = ToComponents /\ Interconnect
  BY <1>4 DEF WireInv, Printed
<1>6. V \subseteq Requests /\ W \subseteq Replies /\ V \subseteq Wires /\ W \subseteq Wires
  BY <1>4, WireNames DEF ShapeFacts
<1> HIDE DEF V, W
<1>7. OneEach(ds) /\ Ends(ds) = (Range(slist) \X V) \cup ({Sio} \X W)
  <2>1. Sio \notin Range(slist) /\ IsInjective(slist)  BY WhereListsAre DEF ListFacts
  <2>2. PICK q : q = slist  OBVIOUS
  <2>3. ds = DrivenBy(q, V, "sio") \cup Driven({Sio}, W, "sio")  BY <1>1, <2>2
  <2>4. PICK U : U = {Sio}  OBVIOUS
  <2>5. U \cap Range(q) = {} /\ IsInjective(q)  BY <2>1, <2>2, <2>4
  <2>6. OneEach(DrivenBy(q, V, "sio") \cup Driven(U, W, "sio"))  BY <2>5, LogicEnds
  <2>7. \A p : p \in Ends(DrivenBy(q, V, "sio") \cup Driven(U, W, "sio"))
                <=> p \in Range(q) \X V \/ p \in U \X W
    BY <2>5, LogicEnds
  <2>8. QED  BY <2>2, <2>3, <2>4, <2>6, <2>7
<1>8. Ends(ds) = SioEnds  BY <1>4, <1>7 DEF SioEnds, V, W
<1>9. rs = SioReads  BY <1>2, <1>4 DEF SioReads, At
<1>10. Ends(drivers) \cap Ends(ds) = {}
  <2>1. (Range(slist) \X V) \cap FromComponents = {}  BY <1>6, LeftToLogic, WhereListsAre
  <2>2. ({Sio} \X W) \cap FromComponents = {}
    <3>1. {Sio} \cap Slaves = {}  BY DEF ListFacts
    <3>2. QED  BY <1>6, <3>1, LeftToLogic
  <2>3. QED  BY <1>5, <1>7, <2>1, <2>2
<1>11. Ends(ds) \subseteq Units \X Wires
  <2>1. Range(slist) \X V \subseteq Units \X Wires  BY <1>6, ProductsWithin, WhereListsAre
  <2>2. {Sio} \X W \subseteq Units \X Wires  BY <1>6, ProductsWithin, WhereListsAre
  <2>3. QED  BY <1>7, <2>1, <2>2
<1>12. Printed("dlist", Ends(drivers) \cup Ends(ds), reads \cup rs)
  BY <1>4, <1>5, <1>8, <1>9 DEF Printed
<1>13. QED  BY <1>4, <1>5, <1>7, <1>10, <1>11, <1>12, SectionKeeps

(* The wires of the two buses are apart.                                   *)
LEMMA SioWithin ==
  ASSUME ListFacts, MasterFacts, ShapeFacts
  PROVE  /\ SioEnds \subseteq (Range(slist) \X Requests) \cup ({Sio} \X {"stall", "ack", "idata"})
         /\ class # "wb" => SioEnds = {} /\ SioReads = {}
<1>1. Range(slist) \X (Requests \ {"addr"}) \subseteq Range(slist) \X Requests
  BY ProductsWithin
<1>2. QED  BY <1>1 DEF SioEnds, SioReads

LEMMA DioApart ==
  ASSUME ListFacts, MasterFacts, PortFacts, ShapeFacts, NEW W,
         W = (IF class = "wb" THEN {"stall", "ack", "idata"} ELSE Replies)
  PROVE  LET D == (Range(dlist) \X Requests) \cup ({Dio} \X W)
         IN  /\ D \cap (FromComponents \cup SioEnds) = {} /\ D \subseteq Units \X Wires
             /\ Dio \in created => DioEnds = D
<1> DEFINE D == (Range(dlist) \X Requests) \cup ({Dio} \X W)
<1>1. W \subseteq Replies /\ Replies \subseteq Wires /\ Requests \subseteq Wires
      /\ Replies \cap Requests = {}
  BY WireNames DEF ShapeFacts
<1>2. (Range(dlist) \X Requests) \cap FromComponents = {}  BY LeftToLogic, WhereListsAre
<1>3. ({Dio} \X W) \cap FromComponents = {}
  <2>1. {Dio} \cap Slaves = {}  BY DEF ListFacts
  <2>2. QED  BY <1>1, <2>1, LeftToLogic
<1>4. (Range(dlist) \X Requests) \cap SioEnds = {}
  <2>1. CASE class = "wb"
    <3>1. (Range(dlist) \X Requests) \cap (Range(slist) \X Requests) = {}
      <4>1. Range(dlist) \cap Range(slist) = {}  BY DEF ListFacts
      <4>2. QED  BY <4>1, ProductsApart
    <3>2. (Range(dlist) \X Requests) \cap ({Sio} \X {"stall", "ack", "idata"}) = {}
      <4>1. Requests \cap {"stall", "ack", "idata"} = {}  BY <2>1, WireNames DEF ShapeFacts
      <4>2. QED  BY <4>1, ProductsApart
    <3>3. QED  BY <3>1, <3>2, SioWithin
  <2>2. CASE class # "wb"  BY <2>2, SioWithin
  <2>3. QED  BY <2>1, <2>2
<1>5. ({Dio} \X W) \cap SioEnds = {}
  <2>1. ({Dio} \X W) \cap (Range(slist) \X Requests) = {}
    <3>1. W \cap Requests = {}  BY <1>1
    <3>2. QED  BY <3>1, ProductsApart
  <2>2. ({Dio} \X W) \cap ({Sio} \X {"stall", "ack", "idata"}) = {}
    <3>1. {Dio} \cap {Sio} = {}  BY DEF ListFacts
    <3>2. QED  BY <3>1, ProductsApart
  <2>3. QED  BY <2>1, <2>2, SioWithin
<1>6. D \subseteq Units \X Wires
  <2>1. Range(dlist) \X Requests \subseteq Units \X Wires
    <3>1. Range(dlist) \subseteq Units /\ Requests \subseteq Wires  BY <1>1, WhereListsAre
    <3>2. QED  BY <3>1, ProductsWithin
  <2>2. W \subseteq Wires  BY <1>1
  <2>3. {Dio} \X W \subseteq Units \X Wires  BY <2>2, ProductsWithin, WhereListsAre
  <2>4. QED  BY <2>1, <2>3
<1>7. Dio \in created => DioEnds = D  BY DEF DioEnds
<1>8. D \cap (FromComponents \cup SioEnds) = {}  BY <1>2, <1>3, <1>4, <1>5
<1>9. QED  BY <1>6, <1>7, <1>8

LEMMA WbDlistKeeps ==
  ASSUME WireInv, ListFacts, MasterFacts, PortFacts, ShapeFacts, WbDlist
  PROVE  WireInv'
<1> DEFINE W == {"stall", "ack", "idata"}
           D == (Range(dlist) \X Requests) \cup ({Dio} \X W)
<1>1. PICK ds : ds = DrivenBy(dlist, Requests, "dio") \cup Driven({Dio}, W, "dio")  OBVIOUS
<1>2. PICK rs : rs = At({Dio}, Requests) \cup At(Range(dlist), {"idata"})  OBVIOUS
<1>3. PICK ls : ls = {[up |-> {Dio}, selects |-> Strobes(dlist), down |-> dlist]}  OBVIOUS
<1>4. wpc = "dlist" /\ class = "wb" /\ Dio \in created /\ Write(ds, rs, ls, "main")
  BY <1>1, <1>2, <1>3 DEF WbDlist
<1>5. /\ pc = "done" /\ Interconnect
      /\ Ends(drivers) = FromComponents \cup SioEnds /\ reads = ToComponents \cup SioReads
  BY <1>4 DEF WireInv, Printed
<1>6. W = (IF class = "wb" THEN {"stall", "ack", "idata"} ELSE Replies)  BY <1>4
<1> HIDE DEF W
<1>7. OneEach(ds) /\ Ends(ds) = D
  <2>1. Dio \notin Range(dlist) /\ IsInjective(dlist)  BY WhereListsAre DEF ListFacts
  <2>2. PICK q : q = dlist  OBVIOUS
  <2>3. PICK V : V = Requests  OBVIOUS
  <2>4. ds = DrivenBy(q, V, "dio") \cup Driven({Dio}, W, "dio")  BY <1>1, <2>2, <2>3
  <2>5. PICK U : U = {Dio}  OBVIOUS
  <2>6. U \cap Range(q) = {} /\ IsInjective(q)  BY <2>1, <2>2, <2>5
  <2>7. OneEach(DrivenBy(q, V, "dio") \cup Driven(U, W, "dio"))  BY <2>6, LogicEnds
  <2>8. \A p : p \in Ends(DrivenBy(q, V, "dio") \cup Driven(U, W, "dio"))
                <=> p \in Range(q) \X V \/ p \in U \X W
    BY <2>6, LogicEnds
  <2>9. QED  BY <2>2, <2>3, <2>4, <2>5, <2>7, <2>8
<1>8. D \cap (FromComponents \cup SioEnds) = {} /\ D \subseteq Units \X Wires /\ DioEnds = D
  BY <1>4, <1>6, DioApart
<1> HIDE DEF D
<1>9. rs = DioReads  BY <1>2, <1>4 DEF DioReads, At
<1>10. Ends(drivers) \cap Ends(ds) = {} /\ Ends(ds) \subseteq Units \X Wires
  BY <1>5, <1>7, <1>8
<1>11. Printed("main", Ends(drivers) \cup Ends(ds), reads \cup rs)
  BY <1>4, <1>5, <1>7, <1>8, <1>9 DEF Printed
<1>12. QED  BY <1>4, <1>5, <1>7, <1>10, <1>11, SectionKeeps
-----------------------------------------------------------------------------
(* What a simplifier prints again is what it has printed.                  *)
OnlyArprotAgain(wires, by) ==
  \A a \in wires.again : /\ class = "axi4" /\ by = "double"
                         /\ a[1] = "arprot" /\ a[2] \in 2..3 /\ a[1] \in Requests

LEMMA CopiesOfList ==
  ASSUME NEW list, NEW wires, NEW by, NEW D, OnlyArprotAgain(wires, by),
         DrivenBy(list, Requests, by) \subseteq D
  PROVE  Copies(D, Repeated(list, wires.again, by))
<1> SUFFICES ASSUME NEW r \in Repeated(list, wires.again, by)
             PROVE  /\ PrintedAgain(r)
                    /\ \E d \in D : d[1] = r[1] /\ d[2] = r[2] /\ d[3] = r[3] /\ d[4] = r[4]
  BY DEF Copies
<1>1. PICK k \in DOMAIN list, a \in wires.again : r = <<list[k], a[1], by, k, a[2]>>
  BY DEF Repeated
<1>2. r[1] = list[k] /\ r[2] = a[1] /\ r[3] = by /\ r[4] = k /\ r[5] = a[2]  BY <1>1
<1>3. /\ class = "axi4" /\ by = "double"
      /\ a[1] = "arprot" /\ a[2] \in 2..3 /\ a[1] \in Requests
  BY DEF OnlyArprotAgain
<1>4. PrintedAgain(r)  BY <1>2, <1>3 DEF PrintedAgain
<1>5. PICK w \in Requests : w = a[1]  BY <1>3
<1>6. <<list[k], w, by, k, 1>> \in D  BY DEF DrivenBy
<1>7. PICK d \in D : d = <<list[k], w, by, k, 1>>  BY <1>6
<1>8. d[1] = r[1] /\ d[2] = r[2] /\ d[3] = r[3] /\ d[4] = r[4]  BY <1>2, <1>5, <1>7
<1>9. QED  BY <1>4, <1>8

(* What a simplifier drives and reads.                                     *)
LEMMA SimplifierPrints ==
  ASSUME NEW by, NEW up, NEW list, NEW wires, NEW sel, NEW next,
         Simplifier(by, up, list, wires, sel, next),
         IsInjective(list), up \notin Range(list), wires.drives \cup wires.assigns = Requests,
         OnlyArprotAgain(wires, by)
  PROVE  \E ds, rs, ls :
           /\ Write(ds, rs, ls, next) /\ OneEach(ds)
           /\ Ends(ds) = (Range(list) \X Requests) \cup ({up} \X Replies)
           /\ rs = ({up} \X Requests) \cup (Range(list) \X wires.reads)
<1>1. PICK V : V = Requests  OBVIOUS
<1>2. PICK W : W = Replies  OBVIOUS
<1>3. PICK U : U = {up}  OBVIOUS
<1>4. PICK R : R = Repeated(list, wires.again, by)  OBVIOUS
<1>5. PICK ds : ds = DrivenBy(list, wires.drives, by) \cup DrivenBy(list, wires.assigns, by)
                       \cup R \cup Driven(U, W, by)
  OBVIOUS
<1>6. PICK rs : rs = At({up}, Requests) \cup At(Range(list), wires.reads)  OBVIOUS
<1>7. PICK ls : ls = {[up |-> {up}, selects |-> sel, down |-> XbarconSlave(list)]}  OBVIOUS
<1>8. Write(ds, rs, ls, next)  BY <1>2, <1>3, <1>4, <1>5, <1>6, <1>7 DEF Simplifier
<1>9. DrivenBy(list, wires.drives, by) \cup DrivenBy(list, wires.assigns, by)
        = DrivenBy(list, V, by)
  <2>1. PICK A : A = wires.drives  OBVIOUS
  <2>2. PICK B : B = wires.assigns  OBVIOUS
  <2>3. DrivenBy(list, A, by) \cup DrivenBy(list, B, by) = DrivenBy(list, A \cup B, by)
    BY ListIsJoined
  <2>4. A \cup B = V  BY <1>1, <2>1, <2>2
  <2>5. QED  BY <2>1, <2>2, <2>3, <2>4
<1>10. PICK D : D = DrivenBy(list, V, by) \cup Driven(U, W, by)  OBVIOUS
<1>11. ds = D \cup R
  <2>1. PICK A : A = DrivenBy(list, V, by)  OBVIOUS
  <2>2. PICK B : B = Driven(U, W, by)  OBVIOUS
  <2>3. ds = A \cup R \cup B /\ D = A \cup B  BY <1>5, <1>9, <1>10, <2>1, <2>2
  <2>4. QED  BY <2>3
<1>12. U \cap Range(list) = {}  BY <1>3
<1>13. OneEach(D)  BY <1>10, <1>12, LogicEnds
<1>14. \A p : p \in Ends(D) <=> p \in Range(list) \X V \/ p \in U \X W
  BY <1>10, <1>12, LogicEnds
<1>15. OneEach(D \cup R) /\ Ends(D \cup R) = Ends(D)
  <2>1. DrivenBy(list, Requests, by) \subseteq D  BY <1>1, <1>10
  <2>2. Copies(D, Repeated(list, wires.again, by))  BY <2>1, CopiesOfList
  <2>3. Copies(D, R)  BY <1>4, <2>2
  <2>4. QED  BY <1>13, <2>3, CopiesAddNothing
<1>16. OneEach(ds) /\ Ends(ds) = (Range(list) \X V) \cup (U \X W)  BY <1>11, <1>14, <1>15
<1>17. rs = ({up} \X Requests) \cup (Range(list) \X wires.reads)  BY <1>6 DEF At
<1>18. QED  BY <1>1, <1>2, <1>3, <1>8, <1>16, <1>17

(* The slaves of the bus are all below the simplifier.                     *)
LEMMA WholeBusKeeps ==
  ASSUME WireInv, ListFacts, MasterFacts, PortFacts, ShapeFacts,
         Interconnect, class # "wb", split.is_single \/ split.is_double, pc = "done",
         Ends(drivers) = FromComponents, reads = ToComponents,
         NEW by, NEW wires, NEW sel, Simplifier(by, masters[1], plist, wires, sel, "written"),
         wires.drives \cup wires.assigns = Requests, wires.reads = {"bresp", "rdata", "rresp"},
         OnlyArprotAgain(wires, by)
  PROVE  WireInv'
<1>1. PICK m : m = masters[1]  OBVIOUS
<1>2. PICK q : q = plist  OBVIOUS
<1>3. Range(q) = Slaves /\ Range(masters) = {m} /\ m \notin Slaves /\ IsInjective(q)
  <2>1. Range(q) = Slaves /\ Range(masters) = {m}
    BY <1>1, <1>2 DEF ShapeFacts, MasterFacts
  <2>2. QED  BY <1>2, <2>1 DEF MasterFacts, ListFacts
<1>4. Simplifier(by, m, q, wires, sel, "written")  BY <1>1, <1>2
<1>5. m \notin Range(q)  BY <1>3
<1>6. PICK ds, rs, ls :
        /\ Write(ds, rs, ls, "written") /\ OneEach(ds)
        /\ Ends(ds) = (Range(q) \X Requests) \cup ({m} \X Replies)
        /\ rs = ({m} \X Requests) \cup (Range(q) \X wires.reads)
  BY <1>3, <1>4, <1>5, SimplifierPrints
<1>7. Replies \subseteq Wires /\ Requests \subseteq Wires
      /\ {"bresp", "rdata", "rresp"} \subseteq Replies
  BY WireNames DEF ShapeFacts
<1>8. Ends(drivers) \cap Ends(ds) = {}
  <2>1. (Slaves \X Requests) \cap FromComponents = {}  BY <1>3, LeftToLogic
  <2>2. {m} \cap Slaves = {}  BY <1>3
  <2>3. ({m} \X Replies) \cap FromComponents = {}  BY <2>2, LeftToLogic
  <2>4. QED  BY <1>3, <1>6, <2>1, <2>3
<1>9. Ends(ds) \subseteq Units \X Wires
  <2>1. Slaves \subseteq Units /\ {m} \subseteq Units  BY <1>3 DEF Units
  <2>2. Slaves \X Requests \subseteq Units \X Wires  BY <1>7, <2>1, ProductsWithin
  <2>3. {m} \X Replies \subseteq Units \X Wires  BY <1>7, <2>1, ProductsWithin
  <2>4. QED  BY <1>3, <1>6, <2>2, <2>3
<1>10. reads \cup rs \subseteq Ends(drivers) \cup Ends(ds)
  <2>1. SlaveIn \subseteq Slaves \X Requests  BY SlaveWires
  <2>2. ToComponents = SlaveIn \cup ({m} \X Replies)  BY <1>3 DEF ToComponents
  <2>3. FromComponents = SlaveOut \cup ({m} \X Requests)  BY <1>3 DEF FromComponents
  <2>4. Slaves \X Replies \subseteq SlaveOut
    <3>1. \A s \in Slaves : Wires \subseteq SlavePorts(s)  BY DEF PortFacts, NeedsBoth
    <3>2. QED  BY <3>1, SlaveWires
  <2>5. Slaves \X wires.reads \subseteq Slaves \X Replies  BY <1>7, ProductsWithin
  <2>6. QED  BY <1>3, <1>6, <2>1, <2>2, <2>3, <2>4, <2>5
<1>11. Printed("written", Ends(drivers) \cup Ends(ds), reads \cup rs)  BY <1>10 DEF Printed
<1>12. QED  BY <1>6, <1>8, <1>9, <1>11, SectionKeeps

LEMMA SingleKeeps ==
  ASSUME WireInv, ListFacts, MasterFacts, PortFacts, ShapeFacts, Single
  PROVE  WireInv'
<1>1. wpc = "slist" /\ class # "wb" /\ (split.is_single \/ Sio \in created)  BY DEF Single
<1>2. pc = "done" /\ Ends(drivers) = FromComponents /\ reads = ToComponents /\ Interconnect
  BY <1>1 DEF WireInv, Printed
<1>3. split.is_single /\ class = "axil"  BY <1>1, <1>2 DEF ShapeFacts
<1>4. Simplifier("single", masters[1], plist, AxilSingle, ByIndex(plist), "written")
  BY <1>3 DEF Single, SinglesOf
<1>5. /\ AxilSingle.drives \cup AxilSingle.assigns = Requests
      /\ AxilSingle.reads = {"bresp", "rdata", "rresp"}
  BY <1>3, SimplifierWires
<1>6. PICK wires : wires = AxilSingle  OBVIOUS
<1>7. PICK by : by = "single"  OBVIOUS
<1>8. /\ Simplifier(by, masters[1], plist, wires, ByIndex(plist), "written")
      /\ wires.drives \cup wires.assigns = Requests /\ wires.reads = {"bresp", "rdata", "rresp"}
      /\ OnlyArprotAgain(wires, by)
  <2>1. wires.again = {}  BY <1>6 DEF AxilSingle
  <2>2. OnlyArprotAgain(wires, by)  BY <2>1 DEF OnlyArprotAgain
  <2>3. QED  BY <1>4, <1>5, <1>6, <1>7, <2>2
<1>9. QED  BY <1>1, <1>2, <1>3, <1>8, WholeBusKeeps

LEMMA DoubleKeeps ==
  ASSUME WireInv, ListFacts, MasterFacts, PortFacts, ShapeFacts, Double
  PROVE  WireInv'
<1>1. wpc = "dlist" /\ class # "wb" /\ (split.is_double \/ Dio \in created)  BY DEF Double
<1>2. /\ pc = "done" /\ Interconnect /\ ~split.is_single
      /\ Ends(drivers) = FromComponents \cup SioEnds /\ reads = ToComponents \cup SioReads
  BY <1>1 DEF WireInv, Printed
<1>3. SioEnds = {} /\ SioReads = {}  BY <1>1, SioWithin
<1>4. Ends(drivers) = FromComponents /\ reads = ToComponents  BY <1>2, <1>3
<1>5. PICK wires : wires = IF class = "axil" THEN AxilDouble ELSE AxiDouble  OBVIOUS
<1>6. wires.drives \cup wires.assigns = Requests /\ wires.reads = {"bresp", "rdata", "rresp"}
  <2>1. CASE class = "axil"  BY <1>5, <2>1, SimplifierWires
  <2>2. CASE class # "axil"
    <3>1. class = "axi4"  BY <1>1, <2>2 DEF ShapeFacts, Class
    <3>2. QED  BY <1>5, <2>2, <3>1, SimplifierWires
  <2>3. QED  BY <2>1, <2>2
<1>7. PICK by : by = "double"  OBVIOUS
<1> OnlyArprotAgain(wires, by)
  <2>1. CASE class = "axil"
    <3>1. wires.again = {}  BY <1>5, <2>1 DEF AxilDouble, AxilSingle
    <3>2. QED  BY <3>1 DEF OnlyArprotAgain
  <2>2. CASE class # "axil"
    <3>1. class = "axi4" /\ Wires = AxiWrite \cup AxiRead
      BY <1>1, <2>2 DEF ShapeFacts, Class, Wires
    <3>2. wires.again = {<<"arprot", 2>>, <<"arprot", 3>>}  BY <1>5, <2>2 DEF AxiDouble
    <3>3. "arprot" \in Requests  BY <3>1 DEF Requests, Replies, AxiRead, AxilRead
    <3>4. QED  BY <1>7, <3>1, <3>2, <3>3 DEF OnlyArprotAgain
  <2>3. QED  BY <2>1, <2>2
<1>8. CASE split.is_double
  <2>1. Dio \notin created  BY <1>1, <1>8 DEF ShapeFacts
  <2>2. Simplifier(by, masters[1], plist, wires, Table(plist), "written")
    BY <1>5, <1>7, <1>8, <2>1 DEF Double, DoublesOf
  <2>3. QED  BY <1>1, <1>2, <1>4, <1>6, <1>8, <2>2, WholeBusKeeps
<1>9. CASE ~split.is_double
  <2>1. Dio \in created  BY <1>1, <1>9
  <2>2. PICK u : u = Dio  OBVIOUS
  <2>3. PICK q : q = dlist  OBVIOUS
  <2>4. Simplifier(by, u, q, wires, Table(q), "main")
    BY <1>5, <1>7, <1>9, <2>1, <2>2, <2>3 DEF Double, DoublesOf
  <2>5. u \notin Range(q) /\ IsInjective(q)  BY <2>2, <2>3, WhereListsAre DEF ListFacts
  <2>6. PICK ds, rs, ls :
          /\ Write(ds, rs, ls, "main") /\ OneEach(ds)
          /\ Ends(ds) = (Range(q) \X Requests) \cup ({u} \X Replies)
          /\ rs = ({u} \X Requests) \cup (Range(q) \X wires.reads)
    BY <1>6, <2>4, <2>5, SimplifierPrints
  <2>7. PICK W : W = Replies  OBVIOUS
  <2>8. W = (IF class = "wb" THEN {"stall", "ack", "idata"} ELSE Replies)  BY <1>1, <2>7
  <2> DEFINE D == (Range(dlist) \X Requests) \cup ({Dio} \X W)
  <2>9. D \cap (FromComponents \cup SioEnds) = {} /\ D \subseteq Units \X Wires /\ DioEnds = D
    BY <2>1, <2>8, DioApart
  <2>10. Ends(ds) = D  BY <2>2, <2>3, <2>6, <2>7
  <2> HIDE DEF D
  <2>11. rs = DioReads  BY <1>1, <1>6, <2>1, <2>2, <2>3, <2>6 DEF DioReads
  <2>12. Ends(drivers) \cap Ends(ds) = {} /\ Ends(ds) \subseteq Units \X Wires
    BY <1>2, <2>9, <2>10
  <2>13. Printed("main", Ends(drivers) \cup Ends(ds), reads \cup rs)
    BY <1>1, <1>2, <1>9, <2>9, <2>10, <2>11 DEF Printed
  <2>14. QED  BY <1>2, <2>6, <2>12, <2>13, SectionKeeps
<1>10. QED  BY <1>8, <1>9
-----------------------------------------------------------------------------
(* The crossbar drives what the lines before it have left.                 *)
LEMMA XbarApart ==
  ASSUME ListFacts, MasterFacts, PortFacts, ShapeFacts
  PROVE  XbarEnds \cap (FromComponents \cup SioEnds \cup DioEnds) = {} /\ XbarEnds \subseteq Units \X Wires
<1> DEFINE A == Range(plist) \X Requests
           B == Range(masters) \X Replies
           W == IF class = "wb" THEN {"stall", "ack", "idata"} ELSE Replies
<1>1. /\ Replies \subseteq Wires /\ Requests \subseteq Wires /\ Replies \cap Requests = {}
      /\ W \subseteq Replies /\ (class = "wb" => {"stall", "ack", "idata"} \subseteq Replies)
  BY WireNames DEF ShapeFacts
<1>2. DioEnds \subseteq (Range(dlist) \X Requests) \cup ({Dio} \X W)
  <2>1. CASE Dio \in created  BY <2>1 DEF DioEnds
  <2>2. CASE Dio \notin created  BY <2>2 DEF DioEnds
  <2>3. QED  BY <2>1, <2>2
<1> HIDE DEF W
<1>3. A \cap FromComponents = {} /\ B \cap FromComponents = {}
  <2>1. A \cap FromComponents = {}  BY LeftToLogic, WhereListsAre
  <2>2. Range(masters) \cap Slaves = {}  BY DEF MasterFacts
  <2>3. B \cap FromComponents = {}  BY <2>2, LeftToLogic
  <2>4. QED  BY <2>1, <2>3
<1>4. A \cap (Range(dlist) \X Requests) = {} /\ A \cap (Range(slist) \X Requests) = {}
  <2>1. Range(plist) \cap Range(dlist) = {} /\ Range(plist) \cap Range(slist) = {}
    BY DEF ListFacts
  <2>2. QED  BY <2>1, ProductsApart
<1>5. A \cap ({Dio} \X W) = {}
  <2>1. Requests \cap W = {}  BY <1>1
  <2>2. QED  BY <2>1, ProductsApart
<1>6. class = "wb" => A \cap ({Sio} \X {"stall", "ack", "idata"}) = {}
  <2>1. class = "wb" => Requests \cap {"stall", "ack", "idata"} = {}  BY <1>1
  <2>2. QED  BY <2>1, ProductsApart
<1>7. B \cap (Range(dlist) \X Requests) = {} /\ B \cap (Range(slist) \X Requests) = {}
  <2>1. Range(masters) \cap Range(dlist) = {} /\ Range(masters) \cap Range(slist) = {}
    BY WhereListsAre
  <2>2. QED  BY <2>1, ProductsApart
<1>8. B \cap ({Dio} \X W) = {} /\ B \cap ({Sio} \X {"stall", "ack", "idata"}) = {}
  <2>1. Range(masters) \cap {Dio} = {} /\ Range(masters) \cap {Sio} = {}  BY DEF MasterFacts
  <2>2. QED  BY <2>1, ProductsApart
<1>9. A \subseteq Units \X Wires /\ B \subseteq Units \X Wires
  <2>1. Range(plist) \subseteq Units /\ Range(masters) \subseteq Units  BY WhereListsAre
  <2>2. A \subseteq Units \X Wires  BY <1>1, <2>1, ProductsWithin
  <2>3. B \subseteq Units \X Wires  BY <1>1, <2>1, ProductsWithin
  <2>4. QED  BY <2>2, <2>3
<1>10. XbarEnds = A \cup B  BY DEF XbarEnds
<1> HIDE DEF A, B
<1>11. A \cap DioEnds = {} /\ B \cap DioEnds = {}  BY <1>2, <1>4, <1>5, <1>7, <1>8
<1>12. A \cap SioEnds = {} /\ B \cap SioEnds = {}
  <2>1. CASE class = "wb"  BY <1>4, <1>6, <1>7, <1>8, <2>1, SioWithin
  <2>2. CASE class # "wb"  BY <2>2, SioWithin
  <2>3. QED  BY <2>1, <2>2
<1>13. QED  BY <1>3, <1>9, <1>10, <1>11, <1>12

LEMMA XbarPrints ==
  ASSUME ListFacts, MasterFacts, ShapeFacts, NEW D,
         D = DrivenBy(plist, Requests, "xbar") \cup DrivenBy(masters, Replies, "xbar")
  PROVE  OneEach(D) /\ Ends(D) = XbarEnds
<1>1. PICK A : A = DrivenBy(plist, Requests, "xbar")  OBVIOUS
<1>2. PICK B : B = DrivenBy(masters, Replies, "xbar")  OBVIOUS
<1>3. IsInjective(plist) /\ IsInjective(masters)  BY DEF ListFacts, MasterFacts
<1>4. OneEach(A) /\ Ends(A) = Range(plist) \X Requests  BY <1>1, <1>3, EndsDrivenBy
<1>5. OneEach(B) /\ Ends(B) = Range(masters) \X Replies  BY <1>2, <1>3, EndsDrivenBy
<1>6. Ends(A) \cap Ends(B) = {}
  <2>1. Range(plist) \cap Range(masters) = {}  BY WhereListsAre
  <2>2. (Range(plist) \X Requests) \cap (Range(masters) \X Replies) = {}
    BY <2>1, ProductsApart
  <2>3. QED  BY <1>4, <1>5, <2>2
<1>7. OneEach(A \cup B) /\ Ends(A \cup B) = Ends(A) \cup Ends(B)
  BY <1>4, <1>5, <1>6, EndsUnion
<1>8. D = A \cup B  BY <1>1, <1>2
<1>9. QED  BY <1>4, <1>5, <1>7, <1>8 DEF XbarEnds

(* Wishbone: what is read of a slave, of the two buses and of the masters. *)
LEMMA WbCovered ==
  ASSUME ListFacts, MasterFacts, PortFacts, ShapeFacts, class = "wb"
  PROVE  ToComponents \cup SioReads \cup DioReads \cup XbarReads
           \subseteq FromComponents \cup SioEnds \cup DioEnds \cup XbarEnds
                       \cup ((Range(plist) \ design.err) \X {"err"})
<1> DEFINE W == {"stall", "ack", "idata"}
           All == FromComponents \cup SioEnds \cup DioEnds \cup XbarEnds
                    \cup ((Range(plist) \ design.err) \X {"err"})
<1>1. Replies = W \cup {"err"} /\ {"idata"} \subseteq W  BY WireNames DEF ShapeFacts
<1> HIDE DEF W
<1>2. Slaves \X W \subseteq FromComponents /\ design.err \X {"err"} \subseteq FromComponents
  BY SlaveWires DEF FromComponents, W
<1>3. Sio \in created => {Sio} \X W \subseteq SioEnds
                         /\ Range(slist) \X (Requests \ {"addr"}) \subseteq SioEnds
  BY DEF SioEnds, W
<1>4. Dio \in created => {Dio} \X W \subseteq DioEnds /\ Range(dlist) \X Requests \subseteq DioEnds
  BY DEF DioEnds, W
<1>5. Range(plist) \X Requests \subseteq XbarEnds /\ Range(masters) \X Replies \subseteq XbarEnds
  BY DEF XbarEnds
<1>6. Range(masters) \X Requests \subseteq FromComponents  BY DEF FromComponents
<1>7. \A s \in Slaves \cup created : s \in Range(plist) \/ s \in Range(slist) \/ s \in Range(dlist)
  BY DEF ListFacts
<1>8. /\ \A s \in Range(slist) : s \in Slaves /\ Sio \in created
      /\ \A s \in Range(dlist) : Dio \in created /\ (s \in Slaves \/ (s = Sio /\ Sio \in created))
      /\ \A s \in Range(plist) : s \in Slaves \/ s \in created
      /\ created \subseteq {Sio, Dio}
      /\ Dio \in created => Dio \in Range(plist)
      /\ Sio \in created => Sio \in Range(plist) \/ Sio \in Range(dlist)
  BY DEF ListFacts
<1>9. \A s \in Slaves \cup created : {s} \X W \subseteq All
  <2> SUFFICES ASSUME NEW s \in Slaves \cup created, NEW w \in W PROVE <<s, w>> \in All
    OBVIOUS
  <2>1. CASE s \in Slaves
    <3>1. <<s, w>> \in Slaves \X W  BY <2>1
    <3>2. QED  BY <1>2, <3>1
  <2>2. CASE s = Sio /\ Sio \in created
    <3>1. <<s, w>> \in {Sio} \X W  BY <2>2
    <3>2. QED  BY <1>3, <2>2, <3>1
  <2>3. CASE s = Dio /\ Dio \in created
    <3>1. <<s, w>> \in {Dio} \X W  BY <2>3
    <3>2. QED  BY <1>4, <2>3, <3>1
  <2>4. QED  BY <1>8, <2>1, <2>2, <2>3
<1>10. SlaveIn \subseteq All
  <2>1. SUFFICES ASSUME NEW p \in SlaveIn PROVE p \in All  OBVIOUS
  <2>2. p \in (Range(slist) \X (Requests \ {"addr"})) \cup ((Slaves \ Range(slist)) \X Requests)
    BY <2>1, SlaveWires
  <2>3. CASE p \in Range(slist) \X (Requests \ {"addr"})
    <3>1. PICK s \in Range(slist), w \in Requests \ {"addr"} : p = <<s, w>>  BY <2>3
    <3>2. QED  BY <1>3, <1>8, <2>3, <3>1
  <2>4. CASE p \in (Slaves \ Range(slist)) \X Requests
    <3>1. PICK s \in Slaves, w \in Requests : p = <<s, w>> /\ s \notin Range(slist)  BY <2>4
    <3>2. CASE s \in Range(plist)
      <4>1. p \in Range(plist) \X Requests  BY <3>1, <3>2
      <4>2. QED  BY <1>5, <4>1
    <3>3. CASE s \in Range(dlist)
      <4>1. p \in Range(dlist) \X Requests  BY <3>1, <3>3
      <4>2. QED  BY <1>4, <1>8, <3>3, <4>1
    <3>4. QED  BY <1>7, <3>1, <3>2, <3>3
  <2>5. QED  BY <2>2, <2>3, <2>4
<1>11. ToComponents \subseteq All  BY <1>5, <1>10 DEF ToComponents
<1>12. \A s \in created : {s} \X Requests \subseteq All
  <2> SUFFICES ASSUME NEW s \in created, NEW w \in Requests PROVE <<s, w>> \in All
    OBVIOUS
  <2>1. CASE s \in Range(plist)
    <3>1. <<s, w>> \in Range(plist) \X Requests  BY <2>1
    <3>2. QED  BY <1>5, <3>1
  <2>2. CASE s \in Range(dlist)
    <3>1. <<s, w>> \in Range(dlist) \X Requests  BY <2>2
    <3>2. QED  BY <1>4, <1>8, <2>2, <3>1
  <2>3. QED  BY <1>8, <2>1, <2>2
<1>13. \A s \in Slaves \cup created : {s} \X {"idata"} \subseteq All
  <2> SUFFICES ASSUME NEW s \in Slaves \cup created PROVE <<s, "idata">> \in All  OBVIOUS
  <2>1. <<s, "idata">> \in {s} \X W  BY <1>1
  <2>2. QED  BY <1>9, <2>1
<1>14. Range(plist) \X Replies \subseteq All
  <2> SUFFICES ASSUME NEW s \in Range(plist), NEW w \in Replies PROVE <<s, w>> \in All
    OBVIOUS
  <2>1. CASE w \in W
    <3>1. <<s, w>> \in {s} \X W  BY <2>1
    <3>2. QED  BY <1>8, <1>9, <3>1
  <2>2. CASE w = "err" /\ s \in design.err
    <3>1. <<s, w>> \in design.err \X {"err"}  BY <2>2
    <3>2. QED  BY <1>2, <3>1
  <2>3. CASE w = "err" /\ s \notin design.err
    <3>1. <<s, w>> \in (Range(plist) \ design.err) \X {"err"}  BY <2>3
    <3>2. QED  BY <3>1
  <2>4. QED  BY <1>1, <2>1, <2>2, <2>3
<1>15. SioReads \subseteq All
  <2>1. CASE Sio \in created
    <3>1. {Sio} \X Requests \subseteq All  BY <1>12, <2>1
    <3>2. Range(slist) \X {"idata"} \subseteq All  BY <1>8, <1>13
    <3>3. SioReads = ({Sio} \X Requests) \cup (Range(slist) \X {"idata"})
      BY <2>1 DEF SioReads
    <3>4. QED  BY <3>1, <3>2, <3>3
  <2>2. CASE Sio \notin created  BY <2>2 DEF SioReads
  <2>3. QED  BY <2>1, <2>2
<1>16. DioReads \subseteq All
  <2>1. CASE Dio \in created
    <3>1. {Dio} \X Requests \subseteq All  BY <1>12, <2>1
    <3>2. Range(dlist) \X {"idata"} \subseteq All  BY <1>8, <1>13
    <3>3. DioReads = ({Dio} \X Requests) \cup (Range(dlist) \X {"idata"})
      BY <2>1 DEF DioReads
    <3>4. QED  BY <3>1, <3>2, <3>3
  <2>2. CASE Dio \notin created  BY <2>2 DEF DioReads
  <2>3. QED  BY <2>1, <2>2
<1>17. XbarReads \subseteq All  BY <1>6, <1>14 DEF XbarReads
<1>18. QED  BY <1>11, <1>15, <1>16, <1>17

LEMMA WbXbarKeeps ==
  ASSUME WireInv, ListFacts, MasterFacts, PortFacts, ShapeFacts, WbXbar
  PROVE  WireInv'
<1>1. PICK E : E = ErrorWires(plist)  OBVIOUS
<1>2. PICK D : D = DrivenBy(plist, Requests, "xbar") \cup DrivenBy(masters, Replies, "xbar")
  OBVIOUS
<1>3. PICK ds : ds = E \cup D  OBVIOUS
<1>4. PICK rs : rs = At(Range(plist), Replies) \cup At(Range(masters), Requests)  OBVIOUS
<1>5. PICK ls : ls = {[up |-> Range(masters), selects |-> Table(plist),
                     down |-> XbarconSlave(plist)]}
  OBVIOUS
<1>6. wpc = "main" /\ class = "wb" /\ Write(ds, rs, ls, "written")
  <2>1. ds = ErrorWires(plist) \cup DrivenBy(plist, Requests, "xbar")
               \cup DrivenBy(masters, Replies, "xbar")
    BY <1>1, <1>2, <1>3
  <2>2. QED  BY <1>4, <1>5, <2>1 DEF WbXbar
<1>7. /\ pc = "done"
      /\ Ends(drivers) = FromComponents \cup SioEnds \cup DioEnds
      /\ reads = ToComponents \cup SioReads \cup DioReads
  BY <1>6 DEF WireInv, Printed
<1> DEFINE F == (Range(plist) \ design.err) \X {"err"}
<1>8. OneEach(E) /\ Ends(E) = F
  <2>1. IsInjective(plist)  BY DEF ListFacts
  <2>2. QED  BY <1>1, <2>1, ErrorEnds
<1>9. OneEach(D) /\ Ends(D) = XbarEnds  BY <1>2, XbarPrints
<1>10. rs = XbarReads  BY <1>4 DEF XbarReads, At
<1>11. {"err"} \subseteq Replies /\ Replies \subseteq Wires /\ {"err"} \cap Requests = {}
  BY <1>6, WireNames DEF ShapeFacts
<1>12. F \cap XbarEnds = {}
  <2>1. F \cap (Range(plist) \X Requests) = {}  BY <1>11, ProductsApart
  <2>2. F \cap (Range(masters) \X Replies) = {}
    <3>1. (Range(plist) \ design.err) \cap Range(masters) = {}  BY WhereListsAre
    <3>2. QED  BY <3>1, ProductsApart
  <2>3. QED  BY <2>1, <2>2 DEF XbarEnds
<1>13. F \cap (FromComponents \cup SioEnds \cup DioEnds) = {}
  <2>1. F \cap FromComponents = {}
    <3>1. (Range(plist) \ design.err) \cap design.err = {}  OBVIOUS
    <3>2. QED  BY <1>6, <3>1, LeftToLogic
  <2>2. F \cap (Range(slist) \X Requests) = {} /\ F \cap (Range(dlist) \X Requests) = {}
    BY <1>11, ProductsApart
  <2>3. /\ F \cap ({Sio} \X {"stall", "ack", "idata"}) = {}
        /\ F \cap ({Dio} \X {"stall", "ack", "idata"}) = {}
    <3>1. {"err"} \cap {"stall", "ack", "idata"} = {}  OBVIOUS
    <3>2. QED  BY <3>1, ProductsApart
  <2>4. SioEnds \subseteq (Range(slist) \X Requests) \cup ({Sio} \X {"stall", "ack", "idata"})
    BY SioWithin
  <2>5. DioEnds \subseteq (Range(dlist) \X Requests) \cup ({Dio} \X {"stall", "ack", "idata"})
    BY <1>6 DEF DioEnds
  <2> HIDE DEF F
  <2>6. QED  BY <2>1, <2>2, <2>3, <2>4, <2>5
<1>14. F \subseteq Units \X Wires
  <2>1. Range(plist) \ design.err \subseteq Units  BY WhereListsAre
  <2>2. {"err"} \subseteq Wires  BY <1>11
  <2>3. QED  BY <2>1, <2>2, ProductsWithin
<1>15. /\ XbarEnds \cap (FromComponents \cup SioEnds \cup DioEnds) = {}
       /\ XbarEnds \subseteq Units \X Wires
  BY XbarApart
<1>16. reads \cup rs \subseteq Ends(drivers) \cup (F \cup XbarEnds)
  BY <1>6, <1>7, <1>10, WbCovered
<1> HIDE DEF F
<1>17. OneEach(ds) /\ Ends(ds) = F \cup XbarEnds
  <2>1. Ends(E) \cap Ends(D) = {}  BY <1>8, <1>9, <1>12
  <2>2. OneEach(E \cup D) /\ Ends(E \cup D) = Ends(E) \cup Ends(D)
    BY <1>8, <1>9, <2>1, EndsUnion
  <2>3. QED  BY <1>3, <1>8, <1>9, <2>2
<1>18. Ends(drivers) \cap Ends(ds) = {} /\ Ends(ds) \subseteq Units \X Wires
  BY <1>7, <1>13, <1>14, <1>15, <1>17
<1>19. Printed("written", Ends(drivers) \cup Ends(ds), reads \cup rs)
  BY <1>16, <1>17 DEF Printed
<1>20. QED  BY <1>6, <1>7, <1>17, <1>18, <1>19, SectionKeeps
-----------------------------------------------------------------------------
LEMMA AxiXbarKeeps ==
  ASSUME WireInv, ListFacts, MasterFacts, PortFacts, ShapeFacts, AxiXbar
  PROVE  WireInv'
<1>1. PICK ds : ds = DrivenBy(plist, Requests, "xbar") \cup DrivenBy(masters, Replies, "xbar")
  OBVIOUS
<1>2. PICK rs : rs = At(Range(plist), Replies) \cup At(Range(masters), Requests)  OBVIOUS
<1>3. PICK ls : ls = {[up |-> Range(masters), selects |-> Table(plist),
                     down |-> XbarconSlave(plist)]}
  OBVIOUS
<1>4. wpc = "main" /\ class # "wb" /\ Write(ds, rs, ls, "empty")
  BY <1>1, <1>2, <1>3 DEF AxiXbar
<1>5. /\ pc = "done" /\ Interconnect
      /\ Ends(drivers) = FromComponents \cup SioEnds \cup DioEnds
      /\ reads = ToComponents \cup SioReads \cup DioReads
  BY <1>4 DEF WireInv, Printed
<1>6. SioEnds = {} /\ SioReads = {}  BY <1>4, SioWithin
<1>7. OneEach(ds) /\ Ends(ds) = XbarEnds  BY <1>1, XbarPrints
<1>8. rs = XbarReads  BY <1>2 DEF XbarReads, At
<1>9. Ends(drivers) \cap Ends(ds) = {} /\ Ends(ds) \subseteq Units \X Wires
  BY <1>5, <1>7, XbarApart
<1>10. Printed("empty", Ends(drivers) \cup Ends(ds), reads \cup rs)
  BY <1>4, <1>5, <1>6, <1>7, <1>8 DEF Printed
<1>11. QED  BY <1>4, <1>5, <1>7, <1>9, <1>10, SectionKeeps

(* AXI: what is read of a slave, of the second bus and of the masters, if  *)
(* F is what the logic for the missing ports drives.                       *)
LEMMA AxiCovered ==
  ASSUME ListFacts, MasterFacts, PortFacts, ShapeFacts, class # "wb", NEW F,
         \A u \in Range(plist) \cap Slaves : \A w \in EmptyOf(u) : <<u, w>> \in F
  PROVE  ToComponents \cup DioReads \cup XbarReads
           \subseteq FromComponents \cup DioEnds \cup XbarEnds \cup F
<1> DEFINE All == FromComponents \cup DioEnds \cup XbarEnds \cup F
<1>1. {"bresp", "rdata", "rresp"} \subseteq Replies  BY WireNames DEF ShapeFacts
<1>2. /\ Range(slist) = {} /\ Range(dlist) \subseteq Slaves
      /\ \A s \in Slaves : s \in Range(plist) \/ s \in Range(dlist)
      /\ \A s \in Range(dlist) : Dio \in created
      /\ \A s \in Range(plist) : s \in Slaves \/ (s = Dio /\ Dio \in created)
      /\ Dio \in created => Dio \in Range(plist)
  <2>1. Sio \notin created  BY DEF ShapeFacts
  <2>2. created \subseteq {Dio}  BY <2>1 DEF ListFacts
  <2>3. /\ Range(slist) = {} /\ \A s \in Range(dlist) : Dio \in created
        /\ Dio \in created => Dio \in Range(plist)
    BY <2>1 DEF ListFacts
  <2>4. Range(plist) \cup Range(dlist) = Slaves \cup created  BY <2>3 DEF ListFacts
  <2>5. Range(dlist) \subseteq Slaves
    <3>1. Sio \notin Range(dlist)
      <4>1. Sio \notin Slaves \cup created  BY <2>1 DEF ListFacts
      <4>2. QED  BY <2>4, <4>1
    <3>2. QED  BY <3>1 DEF ListFacts
  <2>6. \A s \in Range(plist) : s \in Slaves \/ (s = Dio /\ Dio \in created)
    BY <2>2, <2>4
  <2>7. QED  BY <2>3, <2>4, <2>5, <2>6, WhereListsAre
<1>3. Dio \in created => Range(dlist) \X Requests \subseteq DioEnds
                         /\ {Dio} \X Replies \subseteq DioEnds
  BY DEF DioEnds
<1>4. Range(plist) \X Requests \subseteq XbarEnds /\ Range(masters) \X Replies \subseteq XbarEnds
  BY DEF XbarEnds
<1>5. Range(masters) \X Requests \subseteq FromComponents  BY DEF FromComponents
<1>6. SlaveIn \subseteq All
  <2>1. SUFFICES ASSUME NEW s \in Slaves, NEW w \in Requests PROVE <<s, w>> \in All
    BY SlaveWires
  <2>2. CASE s \in Range(plist)
    <3>1. <<s, w>> \in Range(plist) \X Requests  BY <2>2
    <3>2. QED  BY <1>4, <3>1
  <2>3. CASE s \in Range(dlist)
    <3>1. <<s, w>> \in Range(dlist) \X Requests  BY <2>3
    <3>2. QED  BY <1>2, <1>3, <2>3, <3>1
  <2>4. QED  BY <1>2, <2>2, <2>3
<1>7. ToComponents \subseteq All  BY <1>4, <1>6 DEF ToComponents
<1>8. DioReads \subseteq All
  <2>1. CASE Dio \in created
    <3>1. {Dio} \X Requests \subseteq XbarEnds
      <4>1. {Dio} \subseteq Range(plist)  BY <1>2, <2>1
      <4>2. {Dio} \X Requests \subseteq Range(plist) \X Requests  BY <4>1, ProductsWithin
      <4>3. QED  BY <1>4, <4>2
    <3>2. Range(dlist) \X {"bresp", "rdata", "rresp"} \subseteq FromComponents
      <4>1. \A s \in Range(dlist) : Wires \subseteq SlavePorts(s)  BY <1>2 DEF PortFacts, NeedsBoth
      <4>2. Range(dlist) \X Replies \subseteq SlaveOut  BY <1>2, <4>1, SlaveWires
      <4>3. Range(dlist) \X {"bresp", "rdata", "rresp"} \subseteq Range(dlist) \X Replies
        BY <1>1, ProductsWithin
      <4>4. QED  BY <4>2, <4>3 DEF FromComponents
    <3>3. DioReads = ({Dio} \X Requests) \cup (Range(dlist) \X {"bresp", "rdata", "rresp"})
      BY <2>1 DEF DioReads
    <3>4. QED  BY <3>1, <3>2, <3>3
  <2>2. CASE Dio \notin created  BY <2>2 DEF DioReads
  <2>3. QED  BY <2>1, <2>2
<1>9. Range(plist) \X Replies \subseteq All
  <2> SUFFICES ASSUME NEW s \in Range(plist), NEW w \in Replies PROVE <<s, w>> \in All
    OBVIOUS
  <2>1. CASE s \in Slaves /\ w \in SlavePorts(s)
    <3>1. <<s, w>> \in SlaveOut  BY <2>1 DEF SlaveOut
    <3>2. QED  BY <3>1 DEF FromComponents
  <2>2. CASE s \in Slaves /\ w \notin SlavePorts(s)
    <3>1. w \in EmptyOf(s)  BY <2>2 DEF PortFacts
    <3>2. QED  BY <2>2, <3>1
  <2>3. CASE s = Dio /\ Dio \in created
    <3>1. <<s, w>> \in {Dio} \X Replies  BY <2>3
    <3>2. QED  BY <1>3, <2>3, <3>1
  <2>4. QED  BY <1>2, <2>1, <2>2, <2>3
<1>10. XbarReads \subseteq All  BY <1>5, <1>9 DEF XbarReads
<1>11. QED  BY <1>7, <1>8, <1>10

LEMMA EmptyPortsKeep ==
  ASSUME WireInv, ListFacts, MasterFacts, PortFacts, ShapeFacts, EmptyPorts
  PROVE  WireInv'
<1> DEFINE S == Range(plist) \ {Sio, Dio}
           f == [s \in S |-> EmptyOf(s)]
           D == UNION {Driven({s}, EmptyOf(s), "empty") : s \in S}
<1>1. wpc = "empty" /\ Write(D, {}, {}, "written")  BY DEF EmptyPorts
<1>2. /\ pc = "done" /\ Interconnect /\ class # "wb"
      /\ Ends(drivers) = FromComponents \cup DioEnds \cup XbarEnds
      /\ reads = ToComponents \cup DioReads \cup XbarReads
  BY <1>1 DEF WireInv, Printed
<1>3. \A s \in S : f[s] = EmptyOf(s)  OBVIOUS
<1>4. \A d : d \in D <=> \E s \in S : d \in Driven({s}, f[s], "empty")  OBVIOUS
<1>5. S \subseteq Slaves /\ S \subseteq Range(plist) /\ Range(plist) \cap Slaves \subseteq S
  BY WhereListsAre DEF ListFacts
<1> HIDE DEF f, D, S
<1>6. OneEach(D)  BY <1>4, EndsEach
<1>7. \A p \in Ends(D) : p = <<p[1], p[2]>> /\ p[1] \in S /\ p[2] \in f[p[1]]
  BY <1>4, EndsEach
<1>8. ASSUME NEW p \in Ends(D)
      PROVE  p \in Slaves \X Replies /\ p[2] \notin SlavePorts(p[1])
  <2>1. p[1] \in Slaves /\ p[2] \in EmptyOf(p[1])  BY <1>3, <1>5, <1>7
  <2>2. p[2] \in Replies /\ p[2] \notin SlavePorts(p[1])  BY <1>2, <2>1 DEF PortFacts
  <2>3. QED  BY <1>7, <2>1, <2>2
<1>9. \A u \in Range(plist) \cap Slaves : \A w \in EmptyOf(u) : <<u, w>> \in Ends(D)
  <2>1. \A u \in S : \A w \in f[u] : <<u, w>> \in Ends(D)  BY <1>4, EndsEach
  <2>2. QED  BY <1>3, <1>5, <2>1
<1>10. Replies \subseteq Wires /\ Replies \cap Requests = {}  BY WireNames DEF ShapeFacts
<1>11. Ends(D) \subseteq Units \X Wires
  <2>1. Slaves \X Replies \subseteq Units \X Wires  BY <1>10, ProductsWithin DEF Units
  <2>2. QED  BY <1>8, <2>1
<1>12. Ends(drivers) \cap Ends(D) = {}
  <2>1. SUFFICES ASSUME NEW p \in Ends(D) PROVE p \notin FromComponents \cup DioEnds \cup XbarEnds
    BY <1>2
  <2>2. PICK s \in Slaves, w \in Replies : p = <<s, w>>  BY <1>8
  <2>3. w \notin SlavePorts(s) /\ w \notin Requests  BY <1>8, <1>10, <2>2
  <2>4. s \notin Range(masters) /\ s # Dio  BY DEF MasterFacts, ListFacts
  <2>5. p \notin FromComponents  BY <2>2, <2>3, <2>4 DEF FromComponents, SlaveOut
  <2>6. p \notin DioEnds  BY <2>2, <2>3, <2>4 DEF DioEnds
  <2>7. p \notin XbarEnds  BY <2>2, <2>3, <2>4 DEF XbarEnds
  <2>8. QED  BY <2>5, <2>6, <2>7
<1>13. PICK ds : ds = D  OBVIOUS
<1>14. reads \cup {} \subseteq Ends(drivers) \cup Ends(ds)
  <2>1. PICK F : F = Ends(D)  OBVIOUS
  <2>2. \A u \in Range(plist) \cap Slaves : \A w \in EmptyOf(u) : <<u, w>> \in F
    BY <1>9, <2>1
  <2>3. ToComponents \cup DioReads \cup XbarReads
          \subseteq FromComponents \cup DioEnds \cup XbarEnds \cup F
    BY <1>2, <2>2, AxiCovered
  <2>4. QED  BY <1>2, <1>13, <2>1, <2>3
<1>15. Printed("written", Ends(drivers) \cup Ends(ds), reads \cup {})  BY <1>14 DEF Printed
<1>16. QED  BY <1>1, <1>2, <1>6, <1>11, <1>12, <1>13, <1>15, SectionKeeps

(* Once allocate_subbus has returned the lists stay as they are.           *)
LEMMA LogicKeeps ==
  ASSUME SubbusInv, SplitInv, WireInv, Handled(design), [WNext]_allvars
  PROVE  WireInv'
<1>1. CASE Next /\ UNCHANGED wvars
  <2>1. pc # "done"
    BY <1>1 DEF Next, CountSio, CreateSio, CreateDio, MoveToSlist, MoveToDlist, Leave, EndMove
  <2>2. wpc = "ports" /\ drivers = {} /\ reads = {}  BY <2>1 DEF WireInv
  <2>3. bus' = bus
    BY <1>1 DEF Next, CountSio, CreateSio, CreateDio, MoveToSlist, MoveToDlist, Leave, EndMove
  <2>4. design' = design /\ wpc' = wpc /\ drivers' = drivers /\ reads' = reads
    BY <1>1 DEF wvars
  <2>5. OneEach(drivers)'  BY <2>2, <2>4 DEF OneEach
  <2>6. (Ends(drivers) \subseteq Units \X Wires)'
    <3>1. Ends(drivers)' = {}  BY <2>2, <2>4 DEF Ends
    <3>2. QED  BY <3>1
  <2>7. QED  BY <2>2, <2>3, <2>4, <2>5, <2>6 DEF WireInv
<1>2. CASE UNCHANGED allvars
  <2>1. /\ UNCHANGED <<vars, design>>
        /\ wpc' = wpc /\ drivers' = drivers /\ reads' = reads
    BY <1>2 DEF allvars, wvars
  <2>2. bus' = bus /\ pc' = pc /\ split' = split  BY <2>1 DEF vars
  <2>3. OneEach(drivers)' /\ Ends(drivers)' = Ends(drivers)
    <3>1. class' = class  BY <2>1, SameDesign
    <3>2. QED  BY <2>1, <3>1 DEF OneEach, PrintedAgain, Ends, WireInv
  <2>4. /\ FromComponents' = FromComponents /\ ToComponents' = ToComponents
        /\ SioEnds' = SioEnds /\ SioReads' = SioReads
        /\ DioEnds' = DioEnds /\ DioReads' = DioReads
        /\ XbarEnds' = XbarEnds /\ XbarReads' = XbarReads
        /\ Units' = Units /\ Wires' = Wires
        /\ Interconnect' = Interconnect /\ class' = class
    BY <2>1, SameDesign
  <2>5. (Ends(drivers) \subseteq Units \X Wires)'  BY <2>3, <2>4 DEF WireInv
  <2>6. ASSUME Printed(wpc, Ends(drivers), reads)
        PROVE  Printed(wpc, Ends(drivers), reads)'
    <3>1. PICK E : E = Ends(drivers) /\ E = Ends(drivers)'  BY <2>3
    <3>2. Printed(wpc, E, reads)  BY <2>6, <3>1
    <3>3. QED  BY <2>1, <2>2, <2>4, <3>1, <3>2 DEF Printed
  <2>7. QED  BY <2>1, <2>2, <2>3, <2>5, <2>6 DEF WireInv
<1>3. ASSUME pc = "done"
      PROVE  ListFacts /\ MasterFacts /\ PortFacts /\ ShapeFacts
  BY <1>3, FactsOfDesign DEF WireInv
<1>4. ASSUME \/ Components \/ NoMasters \/ Direct \/ NotEarly \/ WbSlist \/ WbDlist \/ WbXbar
             \/ Single \/ NoSlist \/ Double \/ NoDlist \/ AxiXbar \/ EmptyPorts
      PROVE  pc = "done"
  BY <1>4 DEF WireInv, Components, NoMasters, Direct, NotEarly, WbSlist, WbDlist, WbXbar,
              Single, NoSlist, Double, NoDlist, AxiXbar, EmptyPorts
<1>5. CASE Components  BY <1>3, <1>4, <1>5, ComponentsKeep
<1>6. CASE NoMasters  BY <1>3, <1>4, <1>6, NoMastersKeep
<1>7. CASE Direct  BY <1>3, <1>4, <1>7, DirectKeeps
<1>8. CASE NotEarly \/ NoSlist \/ NoDlist  BY <1>3, <1>4, <1>8, NothingPrinted
<1>9. CASE WbSlist  BY <1>3, <1>4, <1>9, WbSlistKeeps
<1>10. CASE WbDlist  BY <1>3, <1>4, <1>10, WbDlistKeeps
<1>11. CASE WbXbar  BY <1>3, <1>4, <1>11, WbXbarKeeps
<1>12. CASE Single  BY <1>3, <1>4, <1>12, SingleKeeps
<1>13. CASE Double  BY <1>3, <1>4, <1>13, DoubleKeeps
<1>14. CASE AxiXbar  BY <1>3, <1>4, <1>14, AxiXbarKeeps
<1>15. CASE EmptyPorts  BY <1>3, <1>4, <1>15, EmptyPortsKeep
<1>16. QED
  BY <1>1, <1>2, <1>5, <1>6, <1>7, <1>8, <1>9, <1>10, <1>11, <1>12, <1>13, <1>14, <1>15
  DEF WNext

(* Every design is one that the logic is complete for.                     *)
AllHandled == \A d \in Designs : Handled(d)

(* So the invariants of the lists and of the wires hold together.          *)
LEMMA WireInvHolds == AllHandled => (WSpec => [](SubbusInv /\ SplitInv /\ WireInv))
<1> SUFFICES ASSUME AllHandled PROVE WSpec => [](SubbusInv /\ SplitInv /\ WireInv)
  OBVIOUS
<1>1. WInit => WireInv
  <2> SUFFICES ASSUME WInit PROVE WireInv  OBVIOUS
  <2>1. design \in Designs /\ bus = design.bus /\ wpc = "ports" /\ drivers = {} /\ reads = {}
    BY DEF WInit
  <2>2. OneEach(drivers) /\ Ends(drivers) = {}  BY <2>1 DEF OneEach, Ends
  <2>3. QED  BY <2>1, <2>2 DEF WireInv
<1>2. SubbusInv /\ SplitInv /\ WireInv /\ [WNext]_allvars => WireInv'
  BY LogicKeeps DEF WireInv, AllHandled
<1>3. WSpec => [](SubbusInv /\ SplitInv)
  BY WiringImplementsSubbus, SubbusInvHolds, SplitInvHolds, PTL
<1>4. QED  BY <1>1, <1>2, <1>3, PTL DEF WSpec

(* The logic that is printed for these designs leaves no wire that is read *)
(* without a driver, gives none two different drivers, and prints no       *)
(* assignment again but that of arprot to the DOUBLE slaves of AXI4.       *)
THEOREM WiresRight == AllHandled => (WSpec => []WiresDriven)
<1> SUFFICES ASSUME AllHandled PROVE WSpec => []WiresDriven
  OBVIOUS
<1>1. SubbusInv /\ SplitInv /\ WireInv => WiresDriven
  <2> SUFFICES ASSUME SplitInv, WireInv, Written PROVE WiresDriven
    BY DEF WiresDriven
  <2>1. OneEach(drivers) /\ Ends(drivers) \subseteq Units \X Wires /\ reads \subseteq Ends(drivers)
    BY DEF WireInv, Printed, Written
  <2>2. class \in Class  BY SlavesAreNumbers DEF SplitInv, WireInv, class
  <2>3. IsFiniteSet(Wires)  BY <2>2, WiresAreFinite
  <2>4. IsFiniteSet(Units)
    <3>1. bus.kinds \in Seq(Kind) /\ masters \in Seq(Range(masters))
      BY DesignsAssumption DEF SplitInv, Bus, WireInv, masters
    <3>2. IsFiniteSet(Slaves)
      <4>1. Slaves = 1..Len(bus.kinds) /\ Len(bus.kinds) \in Nat
        BY <3>1, LenProperties DEF Slaves
      <4>2. QED  BY <4>1, FS_Interval
    <3>3. IsFiniteSet(Range(masters))
      <4>1. \A m \in Range(masters) : \E i \in DOMAIN masters : masters[i] = m  BY DEF Range
      <4>2. PICK q : q = masters  OBVIOUS
      <4>3. PICK M : M = Range(masters)  OBVIOUS
      <4>4. q \in Seq(M) /\ \A m \in M : \E i \in DOMAIN q : q[i] = m
        BY <3>1, <4>1, <4>2, <4>3
      <4>5. IsFiniteSet(M)  BY <4>4, ListedIsFinite
      <4>6. QED  BY <4>3, <4>5
    <3>4. IsFiniteSet({Sio}) /\ IsFiniteSet({Dio})  BY FS_Singleton
    <3>5. IsFiniteSet({Sio} \cup {Dio})  BY <3>4, FS_Union
    <3>6. IsFiniteSet(Slaves \cup ({Sio} \cup {Dio}))  BY <3>2, <3>5, FS_Union
    <3>7. IsFiniteSet((Slaves \cup ({Sio} \cup {Dio})) \cup Range(masters))
      BY <3>3, <3>6, FS_Union
    <3>8. Units = (Slaves \cup ({Sio} \cup {Dio})) \cup Range(masters)  BY DEF Units
    <3>9. QED  BY <3>7, <3>8
  <2>5. IsFiniteSet(Units \X Wires)  BY <2>3, <2>4, FS_Product
  <2>6. IsFiniteSet(Ends(drivers))  BY <2>1, <2>5, FS_Subset
  <2>7. Cardinality(Sources(drivers)) = Cardinality(Ends(drivers))  BY <2>1, <2>6, AsManyAsEnds
  <2>8. \A d \in drivers : d[5] = 1 \/ PrintedAgain(d)  BY <2>1 DEF OneEach
  <2>9. QED  BY <2>1, <2>7, <2>8 DEF WiresDriven, Ends, Sources
<1>2. WSpec => [](SubbusInv /\ SplitInv /\ WireInv)  BY WireInvHolds
<1>3. QED  BY <1>1, <1>2, PTL
-----------------------------------------------------------------------------
(* What a piece of logic connects: the requests of up go to each slave of  *)
(* the list, to the port it is connected to.                               *)
Connects(l, up, list) ==
  l.up = up /\ SentTo(l) = Range(list) /\ Range(l.down) = Range(list)

(* Two lists of the same slaves.                                           *)
SameMembers(q, list, n) ==
  /\ DOMAIN q = 1..n /\ DOMAIN list = 1..n
  /\ \A k \in 1..n : \E i \in 1..n : q[k] = list[i]
  /\ \A i \in 1..n : \E k \in 1..n : q[k] = list[i]

LEMMA ConnectsEach ==
  ASSUME NEW q, NEW list, NEW n \in Nat, SameMembers(q, list, n),
         NEW up, NEW l, l.up = up, l.down = q, \A k \in 1..n : l.selects[k] = {q[k]}
  PROVE  Connects(l, up, list)
<1>1. Range(q) = Range(list)
  <2>1. ASSUME NEW v \in Range(q) PROVE v \in Range(list)
    <3>1. PICK k \in 1..n : v = q[k]  BY DEF Range, SameMembers
    <3>2. PICK i \in 1..n : q[k] = list[i]  BY DEF SameMembers
    <3>3. QED  BY <3>1, <3>2 DEF Range, SameMembers
  <2>2. ASSUME NEW v \in Range(list) PROVE v \in Range(q)
    <3>1. PICK i \in 1..n : v = list[i]  BY DEF Range, SameMembers
    <3>2. PICK k \in 1..n : q[k] = list[i]  BY DEF SameMembers
    <3>3. QED  BY <3>1, <3>2 DEF Range, SameMembers
  <2>3. QED  BY <2>1, <2>2
<1>2. SentTo(l) = Range(q)
  <2>1. DOMAIN q = 1..n  BY DEF SameMembers
  <2>2. {i \in DOMAIN l.down : l.selects[i] = {l.down[i]}} = 1..n  BY <2>1
  <2>3. QED  BY <2>1, <2>2 DEF SentTo, Range
<1>3. QED  BY <1>1, <1>2 DEF Connects

LEMMA SameList ==
  ASSUME NEW list, NEW n \in Nat, DOMAIN list = 1..n
  PROVE  SameMembers(list, list, n)
BY DEF SameMembers

(* A list that is printed from its last slave.                             *)
Backwards(r, list, n) == \A k \in 1..n : n - k + 1 \in 1..n /\ r[k] = list[n - k + 1]

LEMMA Reversed ==
  ASSUME NEW S, NEW list \in Seq(S), NEW n \in Nat, n = Len(list), NEW r, r = Reverse(list)
  PROVE  SameMembers(r, list, n) /\ Backwards(r, list, n)
<1>1. DOMAIN list = 1..n  BY LenProperties
<1>2. r = [i \in 1..n |-> list[(n - i) + 1]]  BY DEF Reverse
<1>3. DOMAIN r = 1..n  BY <1>2
<1>4. ASSUME NEW k \in 1..n PROVE n - k + 1 \in 1..n /\ r[k] = list[n - k + 1]
  <2>1. n - k + 1 \in 1..n  OBVIOUS
  <2>2. r[k] = list[n - k + 1]  BY <1>2
  <2>3. QED  BY <2>1, <2>2
<1>5. ASSUME NEW i \in 1..n PROVE \E k \in 1..n : r[k] = list[i]
  <2>1. n - i + 1 \in 1..n /\ n - (n - i + 1) + 1 = i  OBVIOUS
  <2>2. r[n - i + 1] = list[i]  BY <1>4, <2>1
  <2>3. QED  BY <2>1, <2>2
<1>6. \A k \in 1..n : \E i \in 1..n : r[k] = list[i]  BY <1>4
<1>7. QED  BY <1>1, <1>3, <1>4, <1>5, <1>6 DEF SameMembers, Backwards

(* An address table, and the ports in the order of its entries.            *)
LEMMA TableConnects ==
  ASSUME NEW S, NEW list \in Seq(S), NEW up, NEW l,
         l = [up |-> up, selects |-> Table(list), down |-> XbarconSlave(list)]
  PROVE  Connects(l, up, list)
<1>1. PICK n \in Nat : n = Len(list) /\ DOMAIN list = 1..n  BY LenProperties
<1>2. PICK r : r = Reverse(list)  OBVIOUS
<1>3. SameMembers(r, list, n)  BY <1>1, <1>2, Reversed
<1>4. l.up = up /\ l.down = r /\ l.selects = Table(list)  BY <1>2 DEF XbarconSlave
<1>5. Table(list) = [k \in DOMAIN list |-> {r[k]} \cap {r[k]}]
  BY <1>2 DEF Table, SlaveAddr, SlaveMask
<1>6. \A k \in 1..n : l.selects[k] = {r[k]}  BY <1>1, <1>4, <1>5
<1>7. QED  BY <1>3, <1>4, <1>6, ConnectsEach

(* The comparisons of Wishbone, unless the list has one slave.             *)
LEMMA StrobesConnect ==
  ASSUME NEW S, NEW list \in Seq(S), Len(list) # 1, NEW up, NEW l,
         l = [up |-> up, selects |-> Strobes(list), down |-> list]
  PROVE  Connects(l, up, list)
<1>1. PICK n \in Nat : n = Len(list) /\ DOMAIN list = 1..n  BY LenProperties
<1>2. l.up = up /\ l.down = list /\ l.selects = Strobes(list)  OBVIOUS
<1>3. \A k \in 1..n : l.selects[k] = {list[k]}  BY <1>1, <1>2 DEF Strobes
<1>4. QED  BY <1>1, <1>2, <1>3, SameList, ConnectsEach

(* One master and one slave.                                               *)
LEMMA DirectConnects ==
  ASSUME NEW S, NEW list \in Seq(S), Len(list) = 1, NEW up, NEW l, NEW s, s = list[1],
         l = [up |-> up, selects |-> <<{s}>>, down |-> list]
  PROVE  Connects(l, up, list)
<1>1. DOMAIN list = 1..1  BY LenProperties
<1>2. SameMembers(list, list, 1)  BY <1>1, SameList
<1>3. l.up = up /\ l.down = list /\ l.selects = <<{s}>>  OBVIOUS
<1>4. \A k \in 1..1 : l.selects[k] = {list[k]}  BY <1>3
<1>5. QED  BY <1>2, <1>3, <1>4, ConnectsEach

(* A word whose address has the bits of its number below those of the      *)
(* first.                                                                  *)
LEMMA LowWords ==
  ASSUME NEW first \in Nat, NEW M \in Nat, M > 0, first % M = 0, NEW x \in Nat, x < M
  PROVE  (first + x) % M = x
<1>1. PICK q \in Nat : first = q * M
  <2>1. first \div M \in Nat /\ first = (first \div M) * M + (first % M)  BY DivMod
  <2>2. QED  BY <2>1
<1>2. PICK a \in Nat : a = first + x  OBVIOUS
<1>3. q * M <= a /\ a < q * M + M  BY <1>1, <1>2
<1>4. a \div M = q  BY <1>2, <1>3, QuotientUnique
<1>5. a % M \in Nat /\ a = (a \div M) * M + (a % M)  BY DivMod
<1>6. a % M = x  BY <1>1, <1>2, <1>4, <1>5
<1>7. QED  BY <1>2, <1>6

(* axilsingle, of slaves that lie where it looks for them.                 *)
LEMMA ByIndexConnects ==
  ASSUME NEW S, NEW list \in Seq(S), NEW up, NEW l,
         l = [up |-> up, selects |-> ByIndex(list), down |-> XbarconSlave(list)],
         design \in Designs, CountedFromZero(design), Len(list) = Len(design.bus.kinds)
  PROVE  Connects(l, up, list)
<1>1. PICK n \in Nat : n = Len(list) /\ DOMAIN list = 1..n  BY LenProperties
<1>2. PICK r : r = Reverse(list)  OBVIOUS
<1>3. SameMembers(r, list, n) /\ Backwards(r, list, n)  BY <1>1, <1>2, Reversed
<1>4. l.up = up /\ l.down = r /\ l.selects = ByIndex(list)  BY <1>2 DEF XbarconSlave
<1>5. PICK M \in Nat : M = 2^NextLg(n) /\ M > 0 /\ n <= M
  <2>1. n < 2^MaxLg  BY <1>1, DesignsAssumption
  <2>2. MaxLg \in Nat  BY DEF MaxLg
  <2>3. 2^MaxLg \in Nat /\ 2^(MaxLg + 1) = 2 * 2^MaxLg  BY <2>2, PowerPositive, PowerSucc
  <2>4. n <= 2^(MaxLg + 1)  BY <2>1, <2>3
  <2>5. NextLg(n) \in Nat /\ n <= 2^NextLg(n)  BY <2>4, NextLgReaches, NextLgNat
  <2>6. QED  BY <2>5, PowerPositive
<1>6. PICK first \in Nat : first = design.first  BY DesignsAssumption
<1>7. design.step = 1 /\ first % M = 0  BY <1>1, <1>5, <1>6 DEF CountedFromZero
<1>8. ASSUME NEW i \in 1..n PROVE Word(i) % M = i - 1
  <2>1. Word(i) = first + (i - 1)  BY <1>6, <1>7 DEF Word
  <2>2. i - 1 \in Nat /\ i - 1 < M  BY <1>5
  <2>3. QED  BY <1>5, <1>7, <2>1, <2>2, LowWords
<1>9. ASSUME NEW k \in 1..n PROVE l.selects[k] = {r[k]}
  <2>1. PICK j \in 1..n : j = n - k + 1 /\ r[k] = list[j]
    <3>1. n - k + 1 \in 1..n /\ r[k] = list[n - k + 1]  BY <1>3 DEF Backwards
    <3>2. QED  BY <3>1
  <2>2. \A i \in 1..n : Word(i) % M = n - k <=> i = j
    <3>1. \A i \in 1..n : i - 1 = n - k <=> i = j  BY <2>1
    <3>2. QED  BY <1>8, <3>1
  <2>3. {i \in 1..n : Word(i) % M = n - k} = {j}  BY <2>2
  <2>4. l.selects[k] = {list[u] : u \in {i \in 1..n : Word(i) % M = n - k}}
    BY <1>1, <1>4, <1>5 DEF ByIndex
  <2>5. QED  BY <2>1, <2>3, <2>4
<1>10. QED  BY <1>3, <1>4, <1>9, ConnectsEach

(* The logic that each list is connected by.                               *)
SioLinks ==
  IF class = "wb" /\ Sio \in created
    THEN {[up |-> {Sio}, selects |-> Strobes(slist), down |-> slist]} ELSE {}
DioLinks ==
  IF Dio \notin created THEN {}
    ELSE IF class = "wb" THEN {[up |-> {Dio}, selects |-> Strobes(dlist), down |-> dlist]}
                         ELSE {[up |-> {Dio}, selects |-> Table(dlist), down |-> XbarconSlave(dlist)]}

AllLinks ==
  \E l : Connects(l, Range(masters), plist) /\ links = SioLinks \cup DioLinks \cup {l}

LinkInv ==
  /\ wpc \in {"ports", "early", "slist"} => links = {}
  /\ wpc = "dlist" => links = SioLinks
  /\ wpc = "main" => links = SioLinks \cup DioLinks
  /\ wpc = "empty" => AllLinks
  /\ wpc = "written" /\ masters # <<>> => AllLinks
  /\ wpc \in {"ports", "early", "slist", "dlist", "main", "empty", "written"}

LEMMA SameLinks ==
  ASSUME UNCHANGED <<vars, design>>
  PROVE  /\ SioLinks' = SioLinks /\ DioLinks' = DioLinks
         /\ masters' = masters /\ plist' = plist
<1>1. plist' = plist /\ slist' = slist /\ dlist' = dlist /\ created' = created /\ design' = design
      /\ bus' = bus
  BY DEF vars
<1>2. class' = class /\ masters' = masters  BY <1>1 DEF class, masters
<1>3. SioLinks' = SioLinks  BY <1>1, <1>2 DEF SioLinks, Strobes
<1>4. DioLinks' = DioLinks
  BY <1>1, <1>2 DEF DioLinks, Strobes, Table, SlaveAddr, SlaveMask, XbarconSlave
<1>5. QED  BY <1>1, <1>2, <1>3, <1>4

(* The logic below the masters comes last.                                 *)
LEMMA LastLink ==
  ASSUME UNCHANGED <<vars, design>>, NEW l, Connects(l, Range(masters), plist),
         links' = SioLinks \cup DioLinks \cup {l}
  PROVE  AllLinks'
<1>1. SioLinks' = SioLinks /\ DioLinks' = DioLinks /\ masters' = masters /\ plist' = plist
  BY SameLinks
<1>2. QED  BY <1>1 DEF AllLinks, Connects, SentTo

(* If the whole bus is below one piece of logic there is nothing else.     *)
LEMMA NoOtherLinks ==
  ASSUME created = {}
  PROVE  SioLinks = {} /\ DioLinks = {}
BY DEF SioLinks, DioLinks

LEMMA SimplifierLinks ==
  ASSUME NEW by, NEW up, NEW list, NEW wires, NEW sel, NEW next,
         Simplifier(by, up, list, wires, sel, next)
  PROVE  /\ links' = links \cup {[up |-> {up}, selects |-> sel, down |-> XbarconSlave(list)]}
         /\ wpc' = next /\ UNCHANGED <<vars, design>>
BY DEF Simplifier, Write

LEMMA LinksKept ==
  ASSUME SubbusInv, SplitInv, WireInv, LinkInv, Handled(design), [WNext]_allvars
  PROVE  LinkInv'
<1>1. CASE Next /\ UNCHANGED wvars
  <2>1. pc # "done"
    BY <1>1 DEF Next, CountSio, CreateSio, CreateDio, MoveToSlist, MoveToDlist, Leave, EndMove
  <2>2. wpc = "ports" /\ links = {}  BY <2>1 DEF WireInv, LinkInv
  <2>3. wpc' = wpc /\ links' = links  BY <1>1 DEF wvars
  <2>4. QED  BY <2>2, <2>3 DEF LinkInv
<1>2. CASE UNCHANGED allvars
  <2>1. UNCHANGED <<vars, design>> /\ wpc' = wpc /\ links' = links
    BY <1>2 DEF allvars, wvars
  <2>2. SioLinks' = SioLinks /\ DioLinks' = DioLinks /\ masters' = masters /\ plist' = plist
    BY <2>1, SameLinks
  <2>3. AllLinks => AllLinks'  BY <2>1, <2>2 DEF AllLinks, Connects, SentTo
  <2>4. QED  BY <2>1, <2>2, <2>3 DEF LinkInv
<1>3. ASSUME pc = "done"
      PROVE  ListFacts /\ MasterFacts /\ PortFacts /\ ShapeFacts
  BY <1>3, FactsOfDesign DEF WireInv
<1>4. ASSUME wpc # "ports" PROVE pc = "done"  BY <1>4 DEF WireInv
<1>5. plist \in Seq(Members)  BY DEF SubbusInv, TypeOK
<1>6. CASE Components \/ NoMasters \/ NotEarly
  <2>1. CASE Components
    <3>1. wpc = "ports" /\ links' = links \cup {} /\ wpc' = "early"
      BY <2>1 DEF Components, Write
    <3>2. QED  BY <3>1 DEF LinkInv
  <2>2. CASE NoMasters
    <3>1. wpc' = "written" /\ masters' = <<>>  BY <2>2 DEF NoMasters, Write, masters
    <3>2. QED  BY <3>1 DEF LinkInv
  <2>3. CASE NotEarly
    <3>1. wpc = "early" /\ links' = links \cup {} /\ wpc' = "slist"
      BY <2>3 DEF NotEarly, Write
    <3>2. QED  BY <3>1 DEF LinkInv
  <2>4. QED  BY <1>6, <2>1, <2>2, <2>3
<1>7. CASE Direct
  <2>1. PICK s : s = plist[1]  OBVIOUS
  <2>2. PICK l : l = [up |-> {masters[1]}, selects |-> <<{s}>>, down |-> plist]  OBVIOUS
  <2>3. /\ wpc = "early" /\ Len(masters) = 1 /\ Len(plist) = 1 /\ wpc' = "written"
        /\ links' = links \cup {l} /\ UNCHANGED <<vars, design>>
    BY <1>7, <2>1, <2>2 DEF Direct, Write
  <2>4. created = {} /\ Range(masters) = {masters[1]} /\ links = {}
    BY <1>3, <1>4, <2>3 DEF ShapeFacts, MasterFacts, Interconnect, LinkInv
  <2>5. Connects(l, Range(masters), plist)  BY <1>5, <2>1, <2>2, <2>3, <2>4, DirectConnects
  <2>6. links' = SioLinks \cup DioLinks \cup {l}  BY <2>3, <2>4, NoOtherLinks
  <2>7. AllLinks'  BY <2>3, <2>5, <2>6, LastLink
  <2>8. QED  BY <2>3, <2>7 DEF LinkInv
<1>8. CASE WbSlist
  <2>1. /\ wpc = "slist" /\ wpc' = "dlist" /\ UNCHANGED <<vars, design>>
        /\ links' = links \cup {[up |-> {Sio}, selects |-> Strobes(slist), down |-> slist]}
        /\ class = "wb" /\ Sio \in created
    BY <1>8 DEF WbSlist, Write
  <2>2. links' = SioLinks  BY <2>1 DEF LinkInv, SioLinks
  <2>3. QED  BY <2>1, <2>2, SameLinks DEF LinkInv
<1>9. CASE NoSlist
  <2>1. /\ wpc = "slist" /\ wpc' = "dlist" /\ UNCHANGED <<vars, design>>
        /\ links' = links \cup {} /\ Sio \notin created
    BY <1>9 DEF NoSlist, Write
  <2>2. links' = SioLinks  BY <2>1 DEF LinkInv, SioLinks
  <2>3. QED  BY <2>1, <2>2, SameLinks DEF LinkInv
<1>10. CASE WbDlist
  <2>1. /\ wpc = "dlist" /\ wpc' = "main" /\ UNCHANGED <<vars, design>>
        /\ links' = links \cup {[up |-> {Dio}, selects |-> Strobes(dlist), down |-> dlist]}
        /\ class = "wb" /\ Dio \in created
    BY <1>10 DEF WbDlist, Write
  <2>2. links' = SioLinks \cup DioLinks  BY <2>1 DEF LinkInv, DioLinks
  <2>3. QED  BY <2>1, <2>2, SameLinks DEF LinkInv
<1>11. CASE NoDlist
  <2>1. /\ wpc = "dlist" /\ wpc' = "main" /\ UNCHANGED <<vars, design>>
        /\ links' = links \cup {} /\ Dio \notin created
    BY <1>11 DEF NoDlist, Write
  <2>2. links' = SioLinks \cup DioLinks  BY <2>1 DEF LinkInv, DioLinks
  <2>3. QED  BY <2>1, <2>2, SameLinks DEF LinkInv
<1>12. CASE WbXbar \/ AxiXbar
  <2>1. PICK l : l = [up |-> Range(masters), selects |-> Table(plist),
                      down |-> XbarconSlave(plist)]
    OBVIOUS
  <2>2. /\ wpc = "main" /\ wpc' \in {"written", "empty"} /\ UNCHANGED <<vars, design>>
        /\ links' = links \cup {l}
    BY <1>12, <2>1 DEF WbXbar, AxiXbar, Write
  <2>3. Connects(l, Range(masters), plist)  BY <1>5, <2>1, TableConnects
  <2>4. links' = SioLinks \cup DioLinks \cup {l}  BY <2>2 DEF LinkInv
  <2>5. AllLinks'  BY <2>2, <2>3, <2>4, LastLink
  <2>6. QED  BY <2>2, <2>5 DEF LinkInv
<1>13. CASE Single
  <2>1. /\ wpc = "slist" /\ class # "wb" /\ (split.is_single \/ Sio \in created)
        /\ Len(masters) = 1
    BY <1>13 DEF Single
  <2>2. /\ created = {} /\ split.is_single /\ Range(masters) = {masters[1]} /\ links = {}
        /\ Interconnect
    BY <1>3, <1>4, <2>1 DEF ShapeFacts, MasterFacts, LinkInv, WireInv, Printed
  <2>3. PICK up : up = masters[1]  OBVIOUS
  <2>4. PICK list : list = plist  OBVIOUS
  <2>5. PICK wires : wires = IF class = "axil" THEN AxilSingle ELSE AxiSingle  OBVIOUS
  <2>6. PICK sel : sel = ByIndex(list)  OBVIOUS
  <2>7. Simplifier("single", up, list, wires, sel, "written")
    BY <1>13, <2>2, <2>3, <2>4, <2>5, <2>6 DEF Single, SinglesOf
  <2>8. PICK l : l = [up |-> {up}, selects |-> sel, down |-> XbarconSlave(list)]  OBVIOUS
  <2>9. links' = links \cup {l} /\ wpc' = "written" /\ UNCHANGED <<vars, design>>
    BY <2>7, <2>8, SimplifierLinks
  <2>10. CountedFromZero(design) /\ Len(list) = Len(design.bus.kinds) /\ design \in Designs
    BY <1>3, <1>4, <2>1, <2>2, <2>4 DEF ShapeFacts, WireInv
  <2>11. Connects(l, Range(masters), plist)
    <3>1. Connects(l, {up}, list)  BY <1>5, <2>4, <2>6, <2>8, <2>10, ByIndexConnects
    <3>2. QED  BY <2>2, <2>3, <2>4, <3>1
  <2>12. links' = SioLinks \cup DioLinks \cup {l}  BY <2>2, <2>9, NoOtherLinks
  <2>13. AllLinks'  BY <2>9, <2>11, <2>12, LastLink
  <2>14. QED  BY <2>9, <2>13 DEF LinkInv
<1>14. CASE Double
  <2>1. wpc = "dlist" /\ class # "wb" /\ (split.is_double \/ Dio \in created)
    BY <1>14 DEF Double
  <2>2. links = SioLinks /\ SioLinks = {} /\ Interconnect
    BY <2>1 DEF LinkInv, SioLinks, WireInv, Printed
  <2>3. PICK wires : wires = IF class = "axil" THEN AxilDouble ELSE AxiDouble  OBVIOUS
  <2>4. CASE split.is_double
    <3>1. created = {} /\ Len(masters) = 1  BY <1>3, <1>4, <2>1, <2>2, <2>4 DEF ShapeFacts
    <3>2. Range(masters) = {masters[1]}  BY <1>3, <1>4, <2>1, <3>1 DEF MasterFacts
    <3>3. PICK up : up = masters[1]  OBVIOUS
    <3>4. PICK list : list = plist  OBVIOUS
    <3>5. PICK sel : sel = Table(list)  OBVIOUS
    <3>6. Simplifier("double", up, list, wires, sel, "written")
      BY <1>14, <2>3, <2>4, <3>1, <3>3, <3>4, <3>5 DEF Double, DoublesOf
    <3>7. PICK l : l = [up |-> {up}, selects |-> sel, down |-> XbarconSlave(list)]  OBVIOUS
    <3>8. links' = links \cup {l} /\ wpc' = "written" /\ UNCHANGED <<vars, design>>
      BY <3>6, <3>7, SimplifierLinks
    <3>9. Connects(l, Range(masters), plist)
      <4>1. Connects(l, {up}, list)  BY <1>5, <3>4, <3>5, <3>7, TableConnects
      <4>2. QED  BY <3>2, <3>3, <3>4, <4>1
    <3>10. links' = SioLinks \cup DioLinks \cup {l}  BY <2>2, <3>1, <3>8, NoOtherLinks
    <3>11. AllLinks'  BY <3>8, <3>9, <3>10, LastLink
    <3>12. QED  BY <3>8, <3>11 DEF LinkInv
  <2>5. CASE ~split.is_double
    <3>1. Dio \in created  BY <2>1, <2>5
    <3>2. PICK up : up = Dio  OBVIOUS
    <3>3. PICK list : list = dlist  OBVIOUS
    <3>4. PICK sel : sel = Table(list)  OBVIOUS
    <3>5. Simplifier("double", up, list, wires, sel, "main")
      BY <1>14, <2>3, <2>5, <3>1, <3>2, <3>3, <3>4 DEF Double, DoublesOf
    <3>6. /\ links' = links \cup {[up |-> {up}, selects |-> sel, down |-> XbarconSlave(list)]}
          /\ wpc' = "main" /\ UNCHANGED <<vars, design>>
      BY <3>5, SimplifierLinks
    <3>7. links' = SioLinks \cup DioLinks
      BY <2>1, <2>2, <3>1, <3>2, <3>3, <3>4, <3>6 DEF DioLinks
    <3>8. QED  BY <3>6, <3>7, SameLinks DEF LinkInv
  <2>6. QED  BY <2>4, <2>5
<1>15. CASE EmptyPorts
  <2>1. /\ wpc = "empty" /\ wpc' = "written" /\ UNCHANGED <<vars, design>>
        /\ links' = links \cup {}
    BY <1>15 DEF EmptyPorts, Write
  <2>2. PICK l : Connects(l, Range(masters), plist) /\ links = SioLinks \cup DioLinks \cup {l}
    BY <2>1 DEF LinkInv, AllLinks
  <2>3. AllLinks'  BY <2>1, <2>2, LastLink
  <2>4. QED  BY <2>1, <2>3 DEF LinkInv
<1>16. QED
  BY <1>1, <1>2, <1>6, <1>7, <1>8, <1>9, <1>10, <1>11, <1>12, <1>13, <1>14, <1>15 DEF WNext

(* What the two counts of countsio() may be.                               *)
LEMMA SplitCounts ==
  ASSUME NEW c, NEW s \in Nat, NEW d \in Nat, NEW n \in Nat
  PROVE  /\ Split(c, s, d, n).num_single \in {0, s}
         /\ Split(c, s, d, n).num_single > 0 => Split(c, s, d, n).num_double \in {0, d}
<1> DEFINE all_single == s = n
           merged == ~all_single /\ s <= 2 /\ d > 0
<1>1. Split(c, s, d, n).num_single \in {0, s}  BY DEF Split
<1>2. ASSUME Split(c, s, d, n).num_single > 0 PROVE Split(c, s, d, n).num_double \in {0, d}
  <2>1. ~merged
    <3>1. SUFFICES ASSUME merged PROVE FALSE  OBVIOUS
    <3>2. Split(c, s, d, n).num_single = 0  BY <3>1 DEF Split
    <3>3. QED  BY <1>2, <3>2
  <2>2. QED  BY <2>1 DEF Split
<1>3. QED  BY <1>1, <1>2

(* A bus of several kinds keeps no slave that belongs below another bus.   *)
LEMMA KindsOnLists ==
  ASSUME SubbusInv, SplitInv, pc = "done", ~split.is_single, ~split.is_double
  PROVE  /\ Sio \in created =>
              \A s \in Slaves : bus.kinds[s] = "SINGLE" <=> s \in Range(slist)
         /\ Dio \in created /\ Sio \in created => Sio \in Range(dlist)
         /\ Dio \in created /\ bus.class = "wb" =>
              \A s \in Slaves : bus.kinds[s] = "DOUBLE" <=> s \in Range(dlist)
<1>1. /\ \A s \in Range(slist) : ToSlist(s)
      /\ \A s \in Range(dlist) : ToDlist(s) /\ ~ToSlist(s)
  BY DEF SubbusInv, Sorted, Range
<1>2. ASSUME NEW s \in Range(plist) PROVE ~ToSlist(s) /\ ~ToDlist(s)
  <2>1. plist \in Seq(Members) /\ pi \in 1..(Len(plist) + 1) /\ pi > Len(plist)
    BY DEF SubbusInv, TypeOK, Sorted
  <2>2. PICK n \in Nat : n = Len(plist) /\ DOMAIN plist = 1..n  BY <2>1, LenProperties
  <2>3. PICK i \in 1..n : plist[i] = s  BY <1>2, <2>2 DEF Range
  <2>4. i \in 1..(pi - 1)  BY <2>1, <2>2
  <2>5. QED  BY <2>3, <2>4 DEF SubbusInv, Sorted
<1>3. /\ \A s \in Slaves : KindOf(s) = bus.kinds[s]
      /\ KindOf(Sio) = "DOUBLE"
  BY SlavesAreNumbers DEF SplitInv
<1>4. \A s \in Slaves \cup created :
        s \in Range(plist) \/ s \in Range(slist) \/ s \in Range(dlist)
  BY ListsApart
<1>5. ASSUME Sio \in created, NEW s \in Slaves
      PROVE  bus.kinds[s] = "SINGLE" <=> s \in Range(slist)
  <2>1. ToSlist(s) <=> bus.kinds[s] = "SINGLE"  BY <1>3, <1>5 DEF ToSlist
  <2>2. QED  BY <1>1, <1>2, <1>4, <2>1
<1>6. ASSUME Dio \in created, Sio \in created PROVE Sio \in Range(dlist)
  <2>1. ToDlist(Sio) /\ ~ToSlist(Sio)  BY <1>3, <1>6 DEF ToDlist, ToSlist
  <2>2. QED  BY <1>1, <1>2, <1>4, <1>6, <2>1
<1>7. ASSUME Dio \in created, bus.class = "wb", NEW s \in Slaves
      PROVE  bus.kinds[s] = "DOUBLE" <=> s \in Range(dlist)
  <2>1. ToDlist(s) <=> bus.kinds[s] = "DOUBLE"  BY <1>3, <1>7 DEF ToDlist
  <2>2. bus.kinds[s] = "DOUBLE" => ~ToSlist(s)  BY <1>3 DEF ToSlist
  <2>3. QED  BY <1>1, <1>2, <1>4, <2>1, <2>2
<1>8. QED  BY <1>5, <1>6, <1>7

(* A list of one holds nothing else.                                       *)
LEMMA ListOfOne ==
  ASSUME NEW S, NEW q \in Seq(S), Len(q) = 1
  PROVE  Range(q) = {q[1]}
BY LenProperties DEF Range

(* The lists of Wishbone whose slaves the logic strobes: not those of one. *)
LEMMA ListsAreStrobed ==
  ASSUME SubbusInv, SplitInv, design \in Designs, bus = design.bus, Handled(design),
         pc = "done", class = "wb"
  PROVE  /\ Sio \in created => Len(slist) # 1
         /\ Dio \in created => Len(dlist) # 1
<1>1. /\ NeedsSio(split) => ~split.is_double /\ split.num_single # 1
      /\ NeedsDio(split) /\ ~NeedsSio(split) => HowMany(bus, "DOUBLE") # 1
  <2>1. split = SplitOfBus(design.bus)  BY ListsWhenDone
  <2>2. QED  BY <2>1 DEF Handled, class
<1>2. /\ Sio \in created <=> NeedsSio(split)
      /\ Dio \in created <=> NeedsDio(split)
      /\ Slaves = DOMAIN bus.kinds /\ Sio \notin Slaves /\ bus.class = "wb"
      /\ split = SplitOfBus(bus)
  BY ListsWhenDone DEF class
<1>3. slist \in Seq(Members) /\ dlist \in Seq(Members)  BY DEF SubbusInv, TypeOK
<1>4. bus.kinds \in Seq(Kind)  BY DEF SplitInv, Bus
<1>5. PICK s \in Nat : s = HowMany(bus, "SINGLE")
  <2>1. HowMany(bus, "SINGLE") = Tally(bus.kinds, {"SINGLE"})  BY DEF HowMany, Tally, Hits
  <2>2. QED  BY <1>4, <2>1, TallyType
<1>6. PICK d \in Nat : d = HowMany(bus, "DOUBLE")
  <2>1. HowMany(bus, "DOUBLE") = Tally(bus.kinds, {"DOUBLE"})  BY DEF HowMany, Tally, Hits
  <2>2. QED  BY <1>4, <2>1, TallyType
<1>7. PICK n \in Nat : n = Len(bus.kinds)  BY <1>4, LenProperties
<1>8. split.num_single \in {0, s} /\ (split.num_single > 0 => split.num_double \in {0, d})
  <2>1. split = Split(bus.class, s, d, n)  BY <1>2, <1>5, <1>6, <1>7 DEF SplitOfBus
  <2>2. QED  BY <2>1, SplitCounts
<1>9. ASSUME Sio \in created PROVE ~split.is_single /\ ~split.is_double
  BY <1>1, <1>2, <1>9 DEF NeedsSio
<1>10. ASSUME Dio \in created PROVE ~split.is_single /\ ~split.is_double
  <2>1. ~split.is_double  BY <1>2, <1>10 DEF NeedsDio
  <2>2. ~split.is_single  BY <1>2, <1>10, SplitFacts DEF SplitInv
  <2>3. QED  BY <2>1, <2>2
<1>11. ASSUME Sio \in created, Len(slist) = 1 PROVE FALSE
  <2>1. Range(slist) = {slist[1]}  BY <1>3, <1>11, ListOfOne
  <2>2. \A x \in Range(slist) : x \in Slaves  BY ListsWhenDone
  <2>3. \A x \in Slaves : bus.kinds[x] = "SINGLE" <=> x \in Range(slist)
    BY <1>9, <1>11, KindsOnLists
  <2>4. {i \in DOMAIN bus.kinds : bus.kinds[i] = "SINGLE"} = {slist[1]}
    BY <1>2, <2>1, <2>2, <2>3
  <2>5. s = 1  BY <1>5, <2>4, FS_Singleton DEF HowMany
  <2>6. QED  BY <1>1, <1>2, <1>8, <1>11, <2>5 DEF NeedsSio
<1>12. ASSUME Dio \in created, Sio \notin created, Len(dlist) = 1 PROVE FALSE
  <2>1. Range(dlist) = {dlist[1]}  BY <1>3, <1>12, ListOfOne
  <2>2. \A x \in Range(dlist) : x \in Slaves
    <3>1. Range(dlist) \subseteq Slaves \cup created  BY ListsApart
    <3>2. \A x \in Range(dlist) : x = Sio \/ x \in Slaves  BY ListsWhenDone
    <3>3. QED  BY <1>12, <3>1, <3>2
  <2>3. \A x \in Slaves : bus.kinds[x] = "DOUBLE" <=> x \in Range(dlist)
    BY <1>2, <1>10, <1>12, KindsOnLists
  <2>4. {i \in DOMAIN bus.kinds : bus.kinds[i] = "DOUBLE"} = {dlist[1]}
    BY <1>2, <2>1, <2>2, <2>3
  <2>5. HowMany(bus, "DOUBLE") = 1  BY <2>4, FS_Singleton DEF HowMany
  <2>6. QED  BY <1>1, <1>2, <1>12, <2>5
<1>13. ASSUME Dio \in created, Sio \in created, Len(dlist) = 1 PROVE FALSE
  <2>1. Range(dlist) = {dlist[1]}  BY <1>3, <1>13, ListOfOne
  <2>2. Sio \in Range(dlist)  BY <1>10, <1>13, KindsOnLists
  <2>3. \A x \in Slaves : bus.kinds[x] = "DOUBLE" <=> x \in Range(dlist)
    BY <1>2, <1>10, <1>13, KindsOnLists
  <2>4. {i \in DOMAIN bus.kinds : bus.kinds[i] = "DOUBLE"} = {}
    BY <1>2, <2>1, <2>2, <2>3
  <2>5. d = 0  BY <1>6, <2>4, FS_EmptySet DEF HowMany
  <2>6. QED  BY <1>2, <1>8, <1>13, <2>5 DEF NeedsSio, NeedsDio
<1>14. QED  BY <1>11, <1>12, <1>13

(* One step goes from the units to the slaves of the logic they reach.     *)
LEMMA StepReaches ==
  ASSUME NEW units, NEW l \in links, NEW u \in units, u \in l.up
  PROVE  SentTo(l) \subseteq OneStep(units)
BY DEF OneStep

LEMMA StepKeeps ==
  ASSUME NEW units
  PROVE  units \subseteq OneStep(units)
BY DEF OneStep

(* What the lists are connected by, once all of the logic is printed: x is *)
(* below the masters, y and z below the two buses that may be created.     *)
ThreeLinks(x, y, z) ==
  /\ Connects(x, Range(masters), plist)
  /\ Sio \in created => Connects(y, {Sio}, slist)
  /\ Dio \in created => Connects(z, {Dio}, dlist)
  /\ \A l : l \in links <=> \/ l = x
                            \/ l = y /\ Sio \in created
                            \/ l = z /\ Dio \in created

LEMMA LinksOfLists ==
  ASSUME SubbusInv, SplitInv, WireInv, LinkInv, Handled(design), Written, masters # <<>>
  PROVE  ListFacts /\ MasterFacts /\ \E x, y, z : ThreeLinks(x, y, z)
<1>1. wpc = "written" /\ pc = "done"  BY DEF Written, WireInv
<1>2. PICK x : Connects(x, Range(masters), plist) /\ links = SioLinks \cup DioLinks \cup {x}
  BY <1>1 DEF LinkInv, AllLinks
<1>3. ListFacts /\ MasterFacts /\ ShapeFacts  BY <1>1, FactsOfDesign DEF WireInv
<1>4. class = "wb" => (Sio \in created => Len(slist) # 1) /\ (Dio \in created => Len(dlist) # 1)
  BY <1>1, ListsAreStrobed DEF WireInv
<1>5. slist \in Seq(Members) /\ dlist \in Seq(Members)  BY DEF SubbusInv, TypeOK
<1>6. PICK y : y = [up |-> {Sio}, selects |-> Strobes(slist), down |-> slist]  OBVIOUS
<1>7. SioLinks = IF Sio \in created THEN {y} ELSE {}
  BY <1>3, <1>6 DEF SioLinks, ShapeFacts
<1>8. ASSUME Sio \in created PROVE Connects(y, {Sio}, slist)
  <2>1. Len(slist) # 1  BY <1>3, <1>4, <1>8 DEF ShapeFacts
  <2>2. QED  BY <1>5, <1>6, <2>1, StrobesConnect
<1>9. \E z : /\ DioLinks = IF Dio \in created THEN {z} ELSE {}
             /\ Dio \in created => Connects(z, {Dio}, dlist)
  <2>1. CASE class = "wb"
    <3>1. PICK z : z = [up |-> {Dio}, selects |-> Strobes(dlist), down |-> dlist]  OBVIOUS
    <3>2. DioLinks = IF Dio \in created THEN {z} ELSE {}  BY <2>1, <3>1 DEF DioLinks
    <3>3. Dio \in created => Connects(z, {Dio}, dlist)
      BY <1>4, <1>5, <2>1, <3>1, StrobesConnect
    <3>4. QED  BY <3>2, <3>3
  <2>2. CASE class # "wb"
    <3>1. PICK z : z = [up |-> {Dio}, selects |-> Table(dlist), down |-> XbarconSlave(dlist)]
      OBVIOUS
    <3>2. DioLinks = IF Dio \in created THEN {z} ELSE {}  BY <2>2, <3>1 DEF DioLinks
    <3>3. Connects(z, {Dio}, dlist)  BY <1>5, <3>1, TableConnects
    <3>4. QED  BY <3>2, <3>3
  <2>3. QED  BY <2>1, <2>2
<1>10. PICK z : /\ DioLinks = IF Dio \in created THEN {z} ELSE {}
                /\ Dio \in created => Connects(z, {Dio}, dlist)
  BY <1>9
<1>11. \A l : l \in links <=> \/ l = x
                              \/ l = y /\ Sio \in created
                              \/ l = z /\ Dio \in created
  BY <1>2, <1>7, <1>10
<1>12. ThreeLinks(x, y, z)  BY <1>2, <1>8, <1>10, <1>11 DEF ThreeLinks
<1>13. QED  BY <1>3, <1>12

LEMMA MastersReach ==
  ASSUME SubbusInv, SplitInv, WireInv, LinkInv, Handled(design), Written, masters # <<>>,
         NEW m \in Range(masters)
  PROVE  Slaves \subseteq OneStep(OneStep(OneStep({m})))
<1>1. PICK A : A = OneStep({m})  OBVIOUS
<1>2. PICK B : B = OneStep(A)  OBVIOUS
<1>3. PICK C : C = OneStep(B)  OBVIOUS
<1>4. A \subseteq B /\ B \subseteq C  BY <1>2, <1>3, StepKeeps
<1>5. ListFacts  BY LinksOfLists
<1>6. PICK x, y, z : ThreeLinks(x, y, z)  BY LinksOfLists
<1>7. Range(plist) \subseteq A
  <2>1. x \in links /\ SentTo(x) = Range(plist) /\ x.up = Range(masters)
    BY <1>6 DEF ThreeLinks, Connects
  <2>2. QED  BY <1>1, <2>1, StepReaches
<1>8. Range(dlist) \subseteq B
  <2>1. CASE Dio \in created
    <3>1. Dio \in A  BY <1>5, <1>7, <2>1 DEF ListFacts
    <3>2. z \in links /\ SentTo(z) = Range(dlist) /\ z.up = {Dio}
      BY <1>6, <2>1 DEF ThreeLinks, Connects
    <3>3. QED  BY <1>2, <3>1, <3>2, StepReaches
  <2>2. CASE Dio \notin created  BY <1>5, <2>2 DEF ListFacts
  <2>3. QED  BY <2>1, <2>2
<1>9. Range(slist) \subseteq C
  <2>1. CASE Sio \in created
    <3>1. Sio \in B  BY <1>4, <1>5, <1>7, <1>8, <2>1 DEF ListFacts
    <3>2. y \in links /\ SentTo(y) = Range(slist) /\ y.up = {Sio}
      BY <1>6, <2>1 DEF ThreeLinks, Connects
    <3>3. QED  BY <1>3, <3>1, <3>2, StepReaches
  <2>2. CASE Sio \notin created  BY <1>5, <2>2 DEF ListFacts
  <2>3. QED  BY <2>1, <2>2
<1>10. Slaves \subseteq Range(plist) \cup Range(slist) \cup Range(dlist)
  BY <1>5 DEF ListFacts
<1>11. Slaves \subseteq C  BY <1>4, <1>7, <1>8, <1>9, <1>10
<1>12. QED  BY <1>1, <1>2, <1>3, <1>11

(* A slave is in one list, and each list is connected by one piece of logic. *)
LEMMA ConnectedOnce ==
  ASSUME SubbusInv, SplitInv, WireInv, LinkInv, Handled(design), Written, masters # <<>>,
         NEW s \in Slaves
  PROVE  Cardinality({l \in links : s \in Range(l.down)}) = 1
<1> DEFINE Below == {l \in links : s \in Range(l.down)}
<1>1. /\ Range(plist) \cap Range(slist) = {} /\ Range(plist) \cap Range(dlist) = {}
      /\ Range(slist) \cap Range(dlist) = {}
      /\ s \in Range(plist) \/ s \in Range(slist) \/ s \in Range(dlist)
      /\ s \in Range(slist) => Sio \in created
      /\ s \in Range(dlist) => Dio \in created
  BY LinksOfLists DEF ListFacts
<1>2. PICK x, y, z : ThreeLinks(x, y, z)  BY LinksOfLists
<1>3. \A l : l \in links <=> \/ l = x
                             \/ l = y /\ Sio \in created
                             \/ l = z /\ Dio \in created
  BY <1>2 DEF ThreeLinks
<1>4. /\ Range(x.down) = Range(plist)
      /\ Sio \in created => Range(y.down) = Range(slist)
      /\ Dio \in created => Range(z.down) = Range(dlist)
  BY <1>2 DEF ThreeLinks, Connects
<1>5. \E l : Below = {l}
  <2>1. CASE s \in Range(plist)
    <3>1. Below = {x}  BY <1>1, <1>3, <1>4, <2>1
    <3>2. QED  BY <3>1
  <2>2. CASE s \in Range(slist)
    <3>1. Below = {y}  BY <1>1, <1>3, <1>4, <2>2
    <3>2. QED  BY <3>1
  <2>3. CASE s \in Range(dlist)
    <3>1. Below = {z}  BY <1>1, <1>3, <1>4, <2>3
    <3>2. QED  BY <3>1
  <2>4. QED  BY <1>1, <2>1, <2>2, <2>3
<1>6. QED  BY <1>5, FS_Singleton

(* There is a way from each master of such a design to each of its slaves, *)
(* and one place where the slave is connected.                             *)
THEOREM SlavesReached == AllHandled => (WSpec => []EverySlaveReached)
<1> SUFFICES ASSUME AllHandled PROVE WSpec => []EverySlaveReached
  OBVIOUS
<1>1. WInit => LinkInv  BY DEF WInit, LinkInv
<1>2. SubbusInv /\ SplitInv /\ WireInv /\ LinkInv /\ [WNext]_allvars => LinkInv'
  BY LinksKept DEF WireInv, AllHandled
<1>3. SubbusInv /\ SplitInv /\ WireInv /\ LinkInv => EverySlaveReached
  <2> SUFFICES ASSUME SubbusInv, SplitInv, WireInv, LinkInv, Written PROVE EverySlaveReached
    BY DEF EverySlaveReached
  <2>1. Handled(design)  BY DEF WireInv, AllHandled
  <2>2. masters = <<>> => Range(masters) = {}  BY DEF Range
  <2>3. \A m \in Range(masters) : Slaves \subseteq OneStep(OneStep(OneStep({m})))
    BY <2>1, <2>2, MastersReach
  <2>4. masters # <<>> => \A s \in Slaves : Cardinality({l \in links : s \in Range(l.down)}) = 1
    BY <2>1, ConnectedOnce
  <2>5. QED  BY <2>3, <2>4 DEF EverySlaveReached
<1>4. WSpec => [](SubbusInv /\ SplitInv /\ WireInv)  BY WireInvHolds
<1>5. QED  BY <1>1, <1>2, <1>3, <1>4, PTL DEF WSpec
-----------------------------------------------------------------------------
(* The replies of the logic written for a Wishbone bus (WbReply), for      *)
(* every bus and whatever the crossbar asks for: requests and              *)
(* acknowledgements stay in step, a request strobes its slave and no       *)
(* other, and the data of an answer are those of the oldest request.       *)

(* The types of the registers that count.                                  *)
CountersOK ==
  /\ reset \in BOOLEAN /\ cyc \in BOOLEAN /\ stb \in BOOLEAN
  /\ sio_ack \in BOOLEAN
  /\ dio_ack \in [1..2 -> BOOLEAN]
  /\ addr \in wbus.asks
  /\ asked \in Seq(wbus.asks)

(* OneAnswerEach is not inductive alone: while the cycle line is low only  *)
(* the absence of a strobe keeps an answer from being on its way.          *)
AnswerInv ==
  /\ CountersOK
  /\ stb => cyc
  /\ OneAnswerEach

LEMMA ShortSequences ==
  ASSUME NEW S
  PROVE  <<>> \in Seq(S) /\ \A x \in S : <<x>> \in Seq(S)
<1>1. <<>> \in Seq(S)  OBVIOUS
<1>2. ASSUME NEW x \in S PROVE <<x>> \in Seq(S)
  <2>1. <<x>> = [i \in 1..1 |-> x]  OBVIOUS
  <2>2. [i \in 1..1 |-> x] \in [1..1 -> S]  OBVIOUS
  <2>3. QED  BY <2>1, <2>2
<1>3. QED  BY <1>1, <1>2

LEMMA TwoStages ==
  ASSUME NEW a \in BOOLEAN, NEW b \in BOOLEAN
  PROVE  <<a, b>> \in [1..2 -> BOOLEAN]
<1>1. DOMAIN <<a, b>> = 1..2  OBVIOUS
<1>2. \A i \in 1..2 : <<a, b>>[i] \in BOOLEAN  OBVIOUS
<1>3. QED  BY <1>1, <1>2

LEMMA OneType ==
  ASSUME NEW b
  PROVE  One(b) \in {0, 1}
BY DEF One

(* A clock in which the cycle is over forgets the requests and clears the  *)
(* acknowledgements; with reset the next clock is outside of any cycle.    *)
LEMMA IdleKeeps ==
  ASSUME AnswerInv, ReplyNext, reset \/ ~cyc
  PROVE  AnswerInv'
<1>1. CountersOK'
  <2>1. asked' = <<>> /\ wbus' = wbus  BY DEF ReplyNext, Ask
  <2>2. dio_ack' = <<FALSE, FALSE>>  BY DEF ReplyNext, DioAck
  <2>3. sio_ack' \in BOOLEAN
    BY DEF ReplyNext, SioAck, SioStb, AnswerInv, CountersOK
  <2>4. /\ reset' \in BOOLEAN /\ cyc' \in BOOLEAN /\ stb' \in BOOLEAN
        /\ addr' \in wbus.asks
    BY DEF ReplyNext, Drive
  <2>5. dio_ack' \in [1..2 -> BOOLEAN]  BY <2>2, TwoStages
  <2>6. asked' \in Seq(wbus.asks)  BY <2>1, ShortSequences
  <2>7. QED  BY <2>1, <2>3, <2>4, <2>5, <2>6 DEF CountersOK
<1>2. stb' => cyc'  BY DEF ReplyNext, Drive
<1>3. OneAnswerEach'
  <2>1. CASE reset
    BY <2>1 DEF ReplyNext, Drive, OneAnswerEach
  <2>2. CASE ~cyc
    <3>1. ~stb  BY <2>2 DEF AnswerInv
    <3>2. wbus' = wbus /\ asked' = <<>> /\ dio_ack' = <<FALSE, FALSE>>
      BY <2>2 DEF ReplyNext, Ask, DioAck
    <3>3. sio_ack' = FALSE
      BY <3>1 DEF ReplyNext, SioAck, SioStb, AnswerInv, CountersOK
    <3>4. QED  BY <3>2, <3>3 DEF OneAnswerEach, One
  <2>3. QED  BY <2>1, <2>2
<1>4. QED  BY <1>1, <1>2, <1>3 DEF AnswerInv

(* Within a cycle: one answer leaves the queue when it is acknowledged,    *)
(* one request enters it when there is a strobe.                           *)
LEMMA BusyKeeps ==
  ASSUME AnswerInv, ReplyNext, ~reset, cyc
  PROVE  AnswerInv'
<1> USE DEF AnswerInv
<1> DEFINE left == IF Ack /\ asked # <<>> THEN Tail(asked) ELSE asked
           new  == IF stb THEN <<addr>> ELSE <<>>
<1>1. wbus' = wbus /\ asked' = left \o new  BY DEF ReplyNext, Ask
<1>2. left \in Seq(wbus.asks) /\ new \in Seq(wbus.asks)
  <2>1. asked \in Seq(wbus.asks) /\ addr \in wbus.asks  BY DEF CountersOK
  <2>2. asked # <<>> => Tail(asked) \in Seq(wbus.asks)  BY <2>1
  <2>3. <<addr>> \in Seq(wbus.asks) /\ <<>> \in Seq(wbus.asks)
    BY <2>1, ShortSequences
  <2>4. QED  BY <2>1, <2>2, <2>3
<1>3. Len(asked') = Len(left) + One(stb)
  <2>1. Len(new) = One(stb)  BY DEF One, CountersOK
  <2>2. Len(left \o new) = Len(left) + Len(new)  BY <1>2
  <2>3. QED  BY <1>1, <2>1, <2>2
<1>4. Len(left) = IF wbus.dlist = <<>> THEN 0 ELSE One(dio_ack[1])
  <2>1. asked \in Seq(wbus.asks) /\ Len(asked) \in Nat  BY DEF CountersOK
  <2>2. asked # <<>> => Len(Tail(asked)) = Len(asked) - 1  BY <2>1
  <2>3. asked = <<>> <=> Len(asked) = 0  BY <2>1
  <2>4. CASE wbus.dlist = <<>>
    BY <2>2, <2>3, <2>4 DEF OneAnswerEach, One, Ack, CountersOK
  <2>5. CASE wbus.dlist # <<>>
    <3>1. dio_ack[1] \in BOOLEAN /\ dio_ack[2] \in BOOLEAN  BY DEF CountersOK
    <3>2. Len(asked) = One(dio_ack[1]) + One(dio_ack[2])
      BY <2>5 DEF OneAnswerEach
    <3>3. Ack = dio_ack[2]  BY <2>5 DEF Ack
    <3>4. QED  BY <2>2, <2>3, <2>5, <3>1, <3>2, <3>3 DEF One
  <2>6. QED  BY <2>4, <2>5
<1>5. dio_ack' = <<stb /\ wbus.dlist # <<>>, dio_ack[1]>>
  BY DEF ReplyNext, DioAck
<1>6. wbus.dlist = <<>> => sio_ack' = stb
  BY DEF ReplyNext, SioAck, SioStb
<1>7. CountersOK'
  <2> HIDE DEF left, new
  <2>1. asked' \in Seq(wbus'.asks)  BY <1>1, <1>2
  <2>2. sio_ack' \in BOOLEAN  BY DEF ReplyNext, SioAck, SioStb, CountersOK
  <2>3. dio_ack' \in [1..2 -> BOOLEAN]
    <3>1. dio_ack[1] \in BOOLEAN /\ (stb /\ wbus.dlist # <<>>) \in BOOLEAN
      BY DEF CountersOK
    <3>2. QED  BY <1>5, <3>1, TwoStages
  <2>4. /\ reset' \in BOOLEAN /\ cyc' \in BOOLEAN /\ stb' \in BOOLEAN
        /\ addr' \in wbus'.asks
    BY <1>1 DEF ReplyNext, Drive
  <2>5. QED  BY <2>1, <2>2, <2>3, <2>4 DEF CountersOK
<1>8. OneAnswerEach'
  <2>1. CASE wbus.dlist = <<>>
    <3>1. Len(asked') = One(stb)
      <4>1. Len(left) = 0  BY <1>4, <2>1, Zenon
      <4>2. Len(asked') = 0 + One(stb)  BY <1>3, <4>1, Zenon
      <4>3. One(stb) \in {0, 1}  BY OneType, Zenon
      <4>4. QED  BY <4>2, <4>3
    <3>2. One(sio_ack') = One(stb)  BY <1>6, <2>1, Zenon
    <3>3. QED  BY <1>1, <2>1, <3>1, <3>2 DEF OneAnswerEach
  <2>2. CASE wbus.dlist # <<>>
    <3>1. dio_ack'[1] = stb /\ dio_ack'[2] = dio_ack[1]
      BY <1>5, <2>2 DEF CountersOK
    <3>2. Len(asked') = One(dio_ack'[1]) + One(dio_ack'[2])
      BY <1>3, <1>4, <2>2, <3>1, OneType
    <3>3. QED  BY <1>1, <2>2, <3>2 DEF OneAnswerEach
  <2>3. QED  BY <2>1, <2>2
<1>9. QED  BY <1>7, <1>8 DEF ReplyNext, Drive

LEMMA AnswerInvariant == ReplySpec => []AnswerInv
<1>1. ReplyInit => AnswerInv
  <2> SUFFICES ASSUME ReplyInit PROVE AnswerInv  OBVIOUS
  <2>1. cyc = FALSE /\ stb = FALSE  BY DEF ReplyInit
  <2>2. <<FALSE, FALSE>> \in [1..2 -> BOOLEAN] /\ <<>> \in Seq(wbus.asks)
    BY ShortSequences, TwoStages
  <2>3. CountersOK  BY <2>2 DEF ReplyInit, CountersOK
  <2>4. QED  BY <2>1, <2>3 DEF AnswerInv, OneAnswerEach
<1>2. AnswerInv /\ [ReplyNext]_replyvars => AnswerInv'
  <2> SUFFICES ASSUME AnswerInv, [ReplyNext]_replyvars PROVE AnswerInv'
    OBVIOUS
  <2>1. CASE ReplyNext
    BY <2>1, IdleKeeps, BusyKeeps DEF AnswerInv, CountersOK
  <2>2. CASE UNCHANGED replyvars
    BY <2>2 DEF replyvars, AnswerInv, CountersOK, OneAnswerEach
  <2>3. QED  BY <2>1, <2>2
<1>3. QED  BY <1>1, <1>2, PTL DEF ReplySpec

(* On every bus, and whatever cycles the crossbar begins, ends and aborts, *)
(* the acknowledgements on their way (wb.cpp:1054-1067 and 890-896) are as *)
(* many as the requests of the cycle that wait for one.                    *)
THEOREM AnswersMatchRequests == ReplySpec => []OneAnswerEach
BY AnswerInvariant, PTL DEF AnswerInv

(* No acknowledgement reaches a cycle that has asked for nothing: an       *)
(* aborted cycle leaves none behind.                                       *)
NoStrayAnswer == cyc /\ Ack => asked # <<>>

THEOREM NoAnswerWithoutRequest == ReplySpec => []NoStrayAnswer
<1>1. AnswerInv => NoStrayAnswer
  <2> SUFFICES ASSUME AnswerInv, cyc, Ack PROVE asked # <<>>
    BY DEF NoStrayAnswer
  <2>1. Len(asked) >= 1
    <3>1. CASE wbus.dlist = <<>>
      <4>1. sio_ack /\ Len(asked) = One(sio_ack)
        BY <3>1 DEF AnswerInv, OneAnswerEach, Ack
      <4>2. QED  BY <4>1 DEF One
    <3>2. CASE wbus.dlist # <<>>
      <4>1. Len(asked) = One(dio_ack[1]) + One(dio_ack[2])
        BY <3>2 DEF AnswerInv, OneAnswerEach
      <4>2. One(dio_ack[2]) = 1  BY <3>2 DEF One, Ack
      <4>3. One(dio_ack[1]) \in {0, 1}  BY OneType
      <4>4. QED  BY <4>1, <4>2, <4>3
    <3>3. QED  BY <3>1, <3>2
  <2>2. QED  BY <2>1
<1>2. QED  BY <1>1, AnswerInvariant, PTL
-----------------------------------------------------------------------------
(* Every slave of a list lies below the last address line of the bus, at a *)
(* multiple of its size.                                                   *)
LEMMA PlacedFacts ==
  ASSUME NEW list \in Seq(Slave), Placed(list), NEW i \in DOMAIN list
  PROVE  /\ list[i].base \in Nat /\ list[i].bits \in Nat /\ Sbaw(list) \in Nat
         /\ list[i].base % 2^list[i].bits = 0
         /\ list[i].base + 2^list[i].bits <= 2^Sbaw(list)
<1>1. /\ Len(list) \in Nat /\ Len(list) >= 2 /\ DOMAIN list = 1..Len(list)
      /\ list[i] \in Slave /\ list[Len(list)] \in Slave
  BY DEF Placed
<1> DEFINE last == list[Len(list)]
<1>2. /\ list[i].base \in Nat /\ list[i].bits \in Nat
      /\ last.base \in Nat /\ last.bits \in Nat
  BY <1>1 DEF Slave
<1>3. 2^list[i].bits \in Nat /\ 2^last.bits \in Nat
  BY <1>2, PowerPositive
<1>4. End(list) \in Nat /\ End(list) = last.base + 2^last.bits
  BY <1>2, <1>3 DEF End
<1>5. list[i].base + 2^list[i].bits <= End(list)
  <2>1. CASE i = Len(list)
    <3> DEFINE e == list[i].base + 2^list[i].bits
    <3>1. e = End(list)  BY <1>4, <2>1
    <3> HIDE DEF e
    <3>2. e <= End(list)  BY <3>1, <1>4
    <3>3. QED  BY <3>2 DEF e
  <2>2. CASE i # Len(list)
    <3>1. i < Len(list) /\ Len(list) \in DOMAIN list  BY <2>2, <1>1
    <3>2. list[i].base + 2^list[i].bits <= last.base  BY <3>1, <1>1 DEF Placed
    <3>3. last.base <= End(list)  BY <1>2, <1>3, <1>4
    <3>4. list[i].base + 2^list[i].bits \in Nat  BY <1>2, <1>3
    <3> HIDE DEF last
    <3>5. QED  BY <3>2, <3>3, <3>4, <1>2, <1>4
  <2>3. QED  BY <2>1, <2>2
<1>6. End(list) <= 2^NextLg(End(list))
  <2>1. MaxLg \in Nat /\ MaxLg + 1 \in Nat /\ MaxLg <= MaxLg + 1  BY DEF MaxLg
  <2>2. 2^MaxLg <= 2^(MaxLg + 1) /\ 2^MaxLg \in Nat /\ 2^(MaxLg + 1) \in Nat
    BY <2>1, PowerMonotonic, PowerPositive
  <2>3. End(list) <= 2^MaxLg  BY DEF Placed
  <2>4. End(list) <= 2^(MaxLg + 1)  BY <1>4, <2>2, <2>3
  <2>5. QED  BY <1>4, <2>4, NextLgReaches
<1>7. Sbaw(list) \in Nat /\ 2^Sbaw(list) \in Nat
  BY NextLgNat, PowerPositive DEF Sbaw
<1>8. list[i].base + 2^list[i].bits <= 2^Sbaw(list)
  BY <1>2, <1>3, <1>4, <1>5, <1>6, <1>7 DEF Sbaw
<1>9. QED  BY <1>1, <1>2, <1>7, <1>8 DEF Placed

(* The address bits that the slaves of a list do not decode themselves     *)
(* match the base of one of them if and only if the address, as far as the *)
(* bus has lines for it, is one of this slave.                             *)
LEMMA FieldMatches ==
  ASSUME NEW list \in Seq(Slave), Placed(list), NEW i \in DOMAIN list, NEW a \in Nat
  PROVE  Field(a, Sbaw(list), list[i].bits) = Field(list[i].base, Sbaw(list), list[i].bits)
           <=> Within(list[i], a % 2^Sbaw(list))
BY PlacedFacts, FieldSelects DEF Field, Within

(* No address is one of two slaves.                                        *)
LEMMA OneWithin ==
  ASSUME NEW list \in Seq(Slave), Placed(list), NEW i \in DOMAIN list,
         NEW j \in DOMAIN list, NEW a \in Nat, Within(list[i], a), Within(list[j], a)
  PROVE  i = j
<1>1. i \in Nat /\ j \in Nat  OBVIOUS
<1>2. /\ list[i].base \in Nat /\ list[i].bits \in Nat
      /\ list[j].base \in Nat /\ list[j].bits \in Nat
  BY PlacedFacts
<1>3. 2^list[i].bits \in Nat /\ 2^list[j].bits \in Nat
  BY <1>2, PowerPositive
<1>4. ~(i < j)  BY <1>2, <1>3 DEF Placed, Within
<1>5. ~(j < i)  BY <1>2, <1>3 DEF Placed, Within
<1>6. QED  BY <1>1, <1>4, <1>5

(* What the buses give: lists that have been laid out, and SINGLE slaves   *)
(* of one size.                                                            *)
LEMMA BusFacts ==
  ASSUME wbus \in WbBuses
  PROVE  /\ wbus \in WbBus /\ wbus.slist \in Seq(Slave) /\ wbus.dlist \in Seq(Slave)
         /\ wbus.slist # <<>> => Placed(wbus.slist)
         /\ wbus.dlist # <<>> => Placed(wbus.dlist)
         /\ wbus.asks \subseteq Nat
         /\ \A i \in DOMAIN wbus.slist : wbus.slist[i].bits = UnusedLsbs(wbus.slist)
         /\ \A i \in DOMAIN wbus.dlist :
              wbus.dlist[i].name = SioName => wbus.dlist[i].bits >= Sbaw(wbus.slist)
<1>1. wbus \in WbBus /\ wbus.slist \in Seq(Slave) /\ wbus.dlist \in Seq(Slave)
      /\ wbus.asks \subseteq Nat
  BY WbBusesAssumption DEF WbBus
<1>2. ASSUME NEW i \in DOMAIN wbus.slist
      PROVE  wbus.slist[i].bits = UnusedLsbs(wbus.slist)
  <2>1. \A j \in DOMAIN wbus.slist : wbus.slist[j].bits = wbus.slist[i].bits
    BY WbBusesAssumption
  <2>2. {wbus.slist[j].bits : j \in DOMAIN wbus.slist} = {wbus.slist[i].bits}
    BY <2>1
  <2>3. wbus.slist[i].bits \in Nat
    <3>1. wbus.slist[i] \in Slave  BY <1>1
    <3>2. QED  BY <3>1 DEF Slave
  <2>4. Min({wbus.slist[i].bits}) = wbus.slist[i].bits
    <3> DEFINE n == wbus.slist[i].bits
    <3>1. \A x \in {n} : (\A y \in {n} : x <= y) <=> x = n  BY <2>3
    <3> HIDE DEF n
    <3>2. Min({n}) = n  BY <3>1 DEF Min
    <3>3. QED  BY <3>2 DEF n
  <2>5. QED  BY <2>2, <2>4 DEF UnusedLsbs
<1>3. QED  BY <1>1, <1>2, WbBusesAssumption

(* A DOUBLE slave is strobed at its own addresses ...                      *)
LEMMA DioOwner ==
  ASSUME wbus \in WbBuses, NEW i \in DOMAIN wbus.dlist, NEW a \in Nat
  PROVE  DioMatches(wbus.dlist[i], a) <=> Within(wbus.dlist[i], a % 2^Sbaw(wbus.dlist))
<1>1. wbus.dlist \in Seq(Slave) /\ Placed(wbus.dlist)  BY BusFacts
<1>2. QED  BY <1>1, FieldMatches DEF DioMatches

(* ... and a SINGLE slave at its own.                                      *)
LEMMA SioOwner ==
  ASSUME wbus \in WbBuses, NEW i \in DOMAIN wbus.slist, NEW a \in Nat
  PROVE  SioMatches(wbus.slist[i], a) <=> Within(wbus.slist[i], a % 2^Sbaw(wbus.slist))
<1>1. /\ wbus.slist \in Seq(Slave) /\ Placed(wbus.slist)
      /\ wbus.slist[i].bits = UnusedLsbs(wbus.slist)
  BY BusFacts
<1>2. PICK base, t : /\ base = wbus.slist[i].base /\ t = Sbaw(wbus.slist)
                     /\ base \in Nat /\ base % 2^t = base
  <2>1. PICK base, n, t : /\ base = wbus.slist[i].base /\ n = wbus.slist[i].bits
                          /\ t = Sbaw(wbus.slist) /\ base \in Nat /\ n \in Nat
                          /\ t \in Nat /\ base + 2^n <= 2^t
    BY <1>1, PlacedFacts
  <2>2. 2^n \in Nat /\ 2^n > 0 /\ 2^t \in Nat  BY <2>1, PowerPositive
  <2>3. base < 2^t  BY <2>1, <2>2
  <2>4. base % 2^t = base  BY <2>1, <2>2, <2>3
  <2>5. QED  BY <2>1, <2>4
<1>3. QED  BY <1>1, <1>2, FieldMatches DEF SioMatches, Field

(* The places of m_slist whose slave matches an address.                   *)
SioMatching(a) == {i \in DOMAIN wbus.slist : SioMatches(wbus.slist[i], a)}

LEMMA LowAddress ==
  ASSUME NEW t \in Nat, NEW a \in Nat
  PROVE  a % 2^t \in Nat /\ (a < 2^t => a % 2^t = a)
<1>1. 2^t \in Nat /\ 2^t > 0  BY PowerPositive
<1>2. \A T \in Nat : T > 0 => a % T \in Nat  BY Z3
<1>3. \A T \in Nat : a < T => a % T = a  BY Z3
<1>4. QED  BY <1>1, <1>2, <1>3

(* One slave of a list matches an address at most, and the slave whose     *)
(* address it is does.                                                     *)
LEMMA DioHits ==
  ASSUME wbus \in WbBuses, NEW a \in Nat
  PROVE  /\ \A i, j \in DioItems(a) : i = j
         /\ \A i \in DOMAIN wbus.dlist : Within(wbus.dlist[i], a) => DioItems(a) = {i}
<1> DEFINE t == Sbaw(wbus.dlist)
<1>1. \A i \in DOMAIN wbus.dlist : wbus.dlist \in Seq(Slave) /\ Placed(wbus.dlist)
  BY BusFacts
<1>2. \A i \in DOMAIN wbus.dlist : a % 2^t \in Nat /\ (a < 2^t => a % 2^t = a)
  BY <1>1, PlacedFacts, LowAddress
<1>3. \A i, j \in DioItems(a) : i = j
  <2> SUFFICES ASSUME NEW i \in DioItems(a), NEW j \in DioItems(a) PROVE i = j
    OBVIOUS
  <2>1. i \in DOMAIN wbus.dlist /\ j \in DOMAIN wbus.dlist  BY DEF DioItems
  <2>2. Within(wbus.dlist[i], a % 2^t) /\ Within(wbus.dlist[j], a % 2^t)
    BY <2>1, DioOwner DEF DioItems
  <2> HIDE DEF t
  <2>3. QED  BY <1>1, <1>2, <2>1, <2>2, OneWithin
<1>4. ASSUME NEW i \in DOMAIN wbus.dlist, Within(wbus.dlist[i], a)
      PROVE  DioItems(a) = {i}
  <2>1. /\ wbus.dlist[i].base + 2^wbus.dlist[i].bits <= 2^t
        /\ wbus.dlist[i].base \in Nat /\ wbus.dlist[i].bits \in Nat /\ t \in Nat
    BY <1>1, PlacedFacts
  <2>2. 2^wbus.dlist[i].bits \in Nat /\ 2^t \in Nat  BY <2>1, PowerPositive
  <2>3. a < 2^t
    <3> HIDE DEF t
    <3>1. QED  BY <1>4, <2>1, <2>2 DEF Within
  <2>4. a % 2^t = a  BY <1>2, <2>3
  <2>5. i \in DioItems(a)  BY <1>4, <2>4, DioOwner DEF DioItems
  <2>6. QED  BY <1>3, <2>5
<1>5. QED  BY <1>3, <1>4

LEMMA SioHits ==
  ASSUME wbus \in WbBuses, NEW a \in Nat
  PROVE  /\ \A i, j \in SioMatching(a) : i = j
         /\ \A i \in DOMAIN wbus.slist : \A off \in Nat :
              Within(wbus.slist[i], off) /\ a % 2^Sbaw(wbus.slist) = off
                => SioMatching(a) = {i}
<1> DEFINE t == Sbaw(wbus.slist)
<1>1. \A i \in DOMAIN wbus.slist : wbus.slist \in Seq(Slave) /\ Placed(wbus.slist)
  BY BusFacts
<1>2. \A i \in DOMAIN wbus.slist : a % 2^t \in Nat
  BY <1>1, PlacedFacts, LowAddress
<1>3. \A i, j \in SioMatching(a) : i = j
  <2> SUFFICES ASSUME NEW i \in SioMatching(a), NEW j \in SioMatching(a) PROVE i = j
    OBVIOUS
  <2>1. i \in DOMAIN wbus.slist /\ j \in DOMAIN wbus.slist  BY DEF SioMatching
  <2>2. Within(wbus.slist[i], a % 2^t) /\ Within(wbus.slist[j], a % 2^t)
    BY <2>1, SioOwner DEF SioMatching
  <2> HIDE DEF t
  <2>3. QED  BY <1>1, <1>2, <2>1, <2>2, OneWithin
<1>4. ASSUME NEW i \in DOMAIN wbus.slist, NEW off \in Nat, Within(wbus.slist[i], off),
             a % 2^t = off
      PROVE  SioMatching(a) = {i}
  <2>1. i \in SioMatching(a)  BY <1>4, SioOwner DEF SioMatching
  <2>2. QED  BY <1>3, <2>1
<1>5. QED  BY <1>3, <1>4

(* Where the bus of m_slist has the address lines of a slave, an address   *)
(* of one of its slaves is also one on the bus above.                      *)
LEMMA SioOffset ==
  ASSUME wbus \in WbBuses, NEW a \in Nat,
         NEW k \in DOMAIN wbus.dlist, wbus.dlist[k].name = SioName, Within(wbus.dlist[k], a),
         NEW i \in DOMAIN wbus.slist, Within(wbus.slist[i], a - wbus.dlist[k].base)
  PROVE  SioMatching(a) = {i}
<1>1. /\ wbus.slist \in Seq(Slave) /\ Placed(wbus.slist)
      /\ wbus.dlist \in Seq(Slave) /\ Placed(wbus.dlist)
      /\ wbus.dlist[k].bits >= Sbaw(wbus.slist)
  BY BusFacts
<1>2. /\ wbus.slist[i].base \in Nat /\ wbus.slist[i].bits \in Nat /\ Sbaw(wbus.slist) \in Nat
      /\ wbus.slist[i].base + 2^wbus.slist[i].bits <= 2^Sbaw(wbus.slist)
  BY <1>1, PlacedFacts
<1>3. /\ wbus.dlist[k].base \in Nat /\ wbus.dlist[k].bits \in Nat
      /\ wbus.dlist[k].base % 2^wbus.dlist[k].bits = 0
  BY <1>1, PlacedFacts
<1>4. PICK off \in Nat : off = a - wbus.dlist[k].base /\ wbus.dlist[k].base <= a
  BY <1>3 DEF Within
<1>5. off < 2^Sbaw(wbus.slist)
  <2>1. 2^wbus.slist[i].bits \in Nat /\ 2^Sbaw(wbus.slist) \in Nat
    BY <1>2, PowerPositive
  <2>2. off < wbus.slist[i].base + 2^wbus.slist[i].bits  BY <1>4 DEF Within
  <2>3. QED  BY <1>2, <2>1, <2>2
<1>6. a % 2^Sbaw(wbus.slist) = off
  BY <1>1, <1>2, <1>3, <1>4, <1>5, OffsetBits
<1>7. QED  BY <1>4, <1>6, SioHits

(* ... and where there is no list of DOUBLE slaves they are its own.       *)
LEMMA SioDirect ==
  ASSUME wbus \in WbBuses, NEW a \in Nat, NEW i \in DOMAIN wbus.slist, Within(wbus.slist[i], a)
  PROVE  SioMatching(a) = {i}
<1>1. wbus.slist \in Seq(Slave) /\ Placed(wbus.slist)
  BY BusFacts
<1>2. /\ wbus.slist[i].base \in Nat /\ wbus.slist[i].bits \in Nat /\ Sbaw(wbus.slist) \in Nat
      /\ wbus.slist[i].base + 2^wbus.slist[i].bits <= 2^Sbaw(wbus.slist)
  BY <1>1, PlacedFacts
<1>3. 2^wbus.slist[i].bits \in Nat /\ 2^Sbaw(wbus.slist) \in Nat
  BY <1>2, PowerPositive
<1>4. a < 2^Sbaw(wbus.slist)  BY <1>2, <1>3 DEF Within
<1>5. a % 2^Sbaw(wbus.slist) = a  BY <1>2, <1>4, LowAddress
<1>6. QED  BY <1>5, SioHits

(* The names that are strobed: those of the SINGLE slaves that match, if   *)
(* their bus is strobed, or that of the DOUBLE slave that does.            *)
LEMMA StrobedNames ==
  ASSUME stb
  PROVE  LET single == {wbus.slist[i].name : i \in SioMatching(addr)}
         IN  /\ wbus.dlist = <<>> => Strobed = single
             /\ \A k : DioItems(addr) = {k} =>
                  Strobed = IF wbus.dlist[k].name = SioName THEN single ELSE {wbus.dlist[k].name}
             /\ wbus.dlist # <<>> /\ DioItems(addr) = {} => Strobed = {}
<1> DEFINE single == {wbus.slist[i].name : i \in SioMatching(addr)}
           sios == {s.name : s \in {t \in ToSet(wbus.slist) : SioStb /\ SioMatches(t, addr)}}
           dios == {wbus.dlist[i].name : i \in {j \in DioItems(addr) : stb /\ wbus.dlist[j].name # SioName}}
<1>1. Strobed = dios \cup sios  BY DEF Strobed
<1>2. SioStb => sios = single  BY DEF SioMatching, ToSet
<1>3. ~SioStb => sios = {}  OBVIOUS
<1>4. ASSUME wbus.dlist = <<>> PROVE Strobed = single
  <2>1. SioStb  BY <1>4 DEF SioStb
  <2>2. DioItems(addr) = {}  BY <1>4 DEF DioItems
  <2>3. QED  BY <1>1, <1>2, <2>1, <2>2
<1>5. ASSUME NEW k, DioItems(addr) = {k}
      PROVE  Strobed = IF wbus.dlist[k].name = SioName THEN single ELSE {wbus.dlist[k].name}
  <2>1. wbus.dlist # <<>>  BY <1>5 DEF DioItems
  <2>2. SioStb <=> wbus.dlist[k].name = SioName  BY <1>5, <2>1 DEF SioStb
  <2>3. dios = IF wbus.dlist[k].name = SioName THEN {} ELSE {wbus.dlist[k].name}
    BY <1>5
  <2>4. QED  BY <1>1, <1>2, <1>3, <2>2, <2>3
<1>6. ASSUME wbus.dlist # <<>>, DioItems(addr) = {} PROVE Strobed = {}
  <2>1. ~SioStb  BY <1>6 DEF SioStb
  <2>2. QED  BY <1>1, <1>3, <1>6, <2>1
<1>7. QED  BY <1>4, <1>5, <1>6

LEMMA NoneOrOne ==
  ASSUME NEW S, \A x, y \in S : x = y
  PROVE  Cardinality(S) <= 1
<1>1. CASE S = {}  BY <1>1, FS_EmptySet
<1>2. CASE S # {}
  <2>1. PICK x \in S : TRUE  BY <1>2
  <2>2. S = {x}  BY <2>1
  <2>3. QED  BY <2>2, FS_Singleton
<1>3. QED  BY <1>1, <1>2

(* On every bus that has been laid out, a request strobes the slave at its *)
(* address and no other, and a request for no slave strobes one at most.   *)
THEOREM OwnerIsStrobed == ReplySpec => []StrobesOwner
<1>1. wbus \in WbBuses /\ addr \in wbus.asks => StrobesOwner
  <2> SUFFICES ASSUME wbus \in WbBuses, addr \in wbus.asks, stb
               PROVE  /\ Cardinality(Strobed) <= 1
                      /\ \A d \in Answers(addr) : Strobed = {d.slave}
    BY DEF StrobesOwner
  <2>0. addr \in Nat  BY BusFacts
  <2> DEFINE single == {wbus.slist[i].name : i \in SioMatching(addr)}
  <2>1. \A i, j \in SioMatching(addr) : i = j  BY <2>0, SioHits
  <2>2. \A x, y \in single : x = y  BY <2>1
  <2>3. CASE wbus.dlist = <<>>
    <3>1. Strobed = single  BY <2>3, StrobedNames
    <3>2. Cardinality(Strobed) <= 1  BY <2>2, <3>1, NoneOrOne
    <3>3. ASSUME NEW d \in Answers(addr) PROVE Strobed = {d.slave}
      <4>1. PICK i \in DOMAIN wbus.slist :
              d = OfSingle(wbus.slist[i]) /\ Within(wbus.slist[i], addr)
        BY <2>3, <3>3 DEF Answers, InSlist, ToSet
      <4>2. SioMatching(addr) = {i}  BY <2>0, <4>1, SioDirect
      <4>3. QED  BY <3>1, <4>1, <4>2 DEF OfSingle
    <3>4. QED  BY <3>2, <3>3
  <2>4. CASE wbus.dlist # <<>>
    <3>1. \A i, j \in DioItems(addr) : i = j  BY <2>0, DioHits
    <3>2. Cardinality(Strobed) <= 1
      <4>1. CASE DioItems(addr) = {}
        <5>1. Strobed = {}  BY <2>4, <4>1, StrobedNames
        <5>2. QED  BY <5>1, NoneOrOne
      <4>2. CASE DioItems(addr) # {}
        <5>1. PICK k : DioItems(addr) = {k}  BY <3>1, <4>2
        <5>2. Strobed = IF wbus.dlist[k].name = SioName THEN single ELSE {wbus.dlist[k].name}
          BY <5>1, StrobedNames
        <5>3. \A x, y \in Strobed : x = y  BY <2>2, <5>2
        <5>4. QED  BY <5>3, NoneOrOne
      <4>3. QED  BY <4>1, <4>2
    <3>3. ASSUME NEW d \in Answers(addr) PROVE Strobed = {d.slave}
      <4>1. PICK k \in DOMAIN wbus.dlist :
              /\ Within(wbus.dlist[k], addr)
              /\ d \in IF wbus.dlist[k].name = SioName THEN InSlist(addr - wbus.dlist[k].base)
                       ELSE {OfDouble(wbus.dlist[k], addr)}
        BY <2>4, <3>3 DEF Answers, ToSet
      <4>2. DioItems(addr) = {k}  BY <2>0, <4>1, DioHits
      <4>3. CASE wbus.dlist[k].name = SioName
        <5>1. PICK i \in DOMAIN wbus.slist : /\ d = OfSingle(wbus.slist[i])
                                            /\ Within(wbus.slist[i], addr - wbus.dlist[k].base)
          BY <4>1, <4>3 DEF InSlist, ToSet
        <5>2. SioMatching(addr) = {i}  BY <2>0, <4>1, <4>3, <5>1, SioOffset
        <5>3. QED  BY <4>2, <4>3, <5>1, <5>2, StrobedNames DEF OfSingle
      <4>4. CASE wbus.dlist[k].name # SioName
        <5>1. d = OfDouble(wbus.dlist[k], addr)  BY <4>1, <4>4
        <5>2. QED  BY <4>2, <4>4, <5>1, StrobedNames DEF OfDouble
      <4>5. QED  BY <4>3, <4>4
    <3>4. QED  BY <3>2, <3>3
  <2>5. QED  BY <2>3, <2>4
<1>2. ReplyInit => wbus \in WbBuses  BY DEF ReplyInit
<1>3. wbus \in WbBuses /\ [ReplyNext]_replyvars => (wbus \in WbBuses)'
  BY DEF ReplyNext, replyvars
<1>4. AnswerInv => addr \in wbus.asks  BY DEF AnswerInv, CountersOK
<1>5. QED  BY <1>1, <1>2, <1>3, <1>4, AnswerInvariant, PTL DEF ReplySpec
-----------------------------------------------------------------------------
(* A list of two SINGLE slaves has a mask of one bit, of which the casez   *)
(* compares none (wb.cpp:914): it is left out of what follows.             *)
NoPairs == \A b \in WbBuses : Len(b.slist) # 2

LEMMA SlistFacts ==
  ASSUME NoPairs, wbus \in WbBuses, wbus.slist # <<>>
  PROVE  NextLg(SioMask) = Sbaw(wbus.slist)
<1> DEFINE l == wbus.slist
           u == UnusedLsbs(l)
           t == Sbaw(l)
<1>1. l \in Seq(Slave) /\ Placed(l) /\ Len(l) \in Nat /\ Len(l) >= 3
  <2>1. l \in Seq(Slave) /\ Placed(l)  BY BusFacts
  <2>2. Len(l) # 2  BY DEF NoPairs
  <2>3. Len(l) >= 2  BY <2>1 DEF Placed
  <2>4. Len(l) \in Nat  BY <2>1
  <2>5. \A n \in Nat : n >= 2 /\ n # 2 => n >= 3  OBVIOUS
  <2> HIDE DEF l
  <2>6. Len(l) >= 3  BY <2>2, <2>3, <2>4, <2>5, Zenon
  <2>7. QED  BY <2>1, <2>4, <2>6
<1>2. 1 \in DOMAIN l /\ 2 \in DOMAIN l /\ 3 \in DOMAIN l  BY <1>1
<1>3. l[1].bits = u /\ l[2].bits = u /\ l[3].bits = u
  <2> HIDE DEF u
  <2>1. \A i \in DOMAIN l : l[i].bits = u  BY BusFacts DEF u
  <2>2. QED  BY <1>2, <2>1
<1> HIDE DEF u, t, l
<1>4. /\ l[1].base \in Nat /\ l[2].base \in Nat /\ l[3].base \in Nat
      /\ u \in Nat /\ t \in Nat /\ l[3].base + 2^u <= 2^t
  BY <1>1, <1>2, <1>3, PlacedFacts DEF t
<1>5. l[1].base + 2^u <= l[2].base /\ l[2].base + 2^u <= l[3].base
  <2>1. \A i, j \in DOMAIN l : i < j => l[i].base + 2^l[i].bits <= l[j].base
    BY <1>1 DEF Placed
  <2>2. QED  BY <1>2, <1>3, <2>1
<1>6. 2^u \in Nat /\ 2^t \in Nat  BY <1>4, PowerPositive
<1>7. 3 * 2^u <= 2^t  BY <1>4, <1>5, <1>6
<1>8. t \in 0..(MaxLg + 1)  BY NextLgType DEF t, Sbaw
<1>9. NextLg(2^t - 2^u) = t  BY <1>4, <1>7, <1>8, NextLgOfMask
<1>10. QED  BY <1>9 DEF SioMask, t, u, l

(* The casez that selects the data of a SINGLE slave has an item for an    *)
(* address where that slave is strobed for it.                             *)
LEMMA ItemsMatch ==
  ASSUME NoPairs, wbus \in WbBuses, NEW a
  PROVE  SioItems(a) = SioMatching(a)
<1>1. CASE wbus.slist = <<>>  BY <1>1 DEF SioItems, SioMatching
<1>2. CASE wbus.slist # <<>>
  BY <1>2, SlistFacts DEF SioItems, SioMatching, SioMatches
<1>3. QED  BY <1>1, <1>2

LEMMA MinOfOne ==
  ASSUME NEW n \in Int
  PROVE  Min({n}) = n
<1>1. \A x \in {n} : (\A y \in {n} : x <= y) <=> x = n  OBVIOUS
<1>2. QED  BY <1>1 DEF Min

(* The registers of the first stage hold what an address selects.          *)
Selected(a) ==
  /\ \A k : DioItems(a) = {k} => dio_bus_select + 1 = k
  /\ \A i : SioItems(a) = {i} => sio_data = OfSingle(wbus.slist[i])

(* The inductive invariant: the first stage holds the selection of the     *)
(* last request under way, the second the data of the oldest.              *)
OldestInv ==
  /\ wbus \in WbBuses /\ seen \in wbus.asks
  /\ dio_ack[1] => Selected(seen)
  /\ cyc /\ wbus.dlist # <<>> =>
       /\ dio_ack[1] => asked[Len(asked)] = seen
       /\ dio_ack[2] => \A d \in Answers(asked[1]) : dio_data = d
  /\ cyc /\ wbus.dlist = <<>> =>
       (sio_ack => \A d \in Answers(asked[1]) : sio_data = d)

(* What the second stage takes from the first is what the slave at the     *)
(* address shows.                                                          *)
LEMMA SecondStage ==
  ASSUME NoPairs, wbus \in WbBuses, seen \in wbus.asks, wbus.dlist # <<>>, Selected(seen),
         NEW d \in Answers(seen)
  PROVE  IData(dio_bus_select + 1) = d
<1>0. seen \in Nat  BY BusFacts
<1>1. PICK k \in DOMAIN wbus.dlist :
        /\ Within(wbus.dlist[k], seen)
        /\ d \in IF wbus.dlist[k].name = SioName THEN InSlist(seen - wbus.dlist[k].base)
                 ELSE {OfDouble(wbus.dlist[k], seen)}
  BY DEF Answers, ToSet
<1>2. dio_bus_select + 1 = k
  <2>1. DioItems(seen) = {k}  BY <1>0, <1>1, DioHits
  <2>2. QED  BY <2>1 DEF Selected
<1>3. CASE wbus.dlist[k].name = SioName
  <2>1. PICK i \in DOMAIN wbus.slist : /\ d = OfSingle(wbus.slist[i])
                                      /\ Within(wbus.slist[i], seen - wbus.dlist[k].base)
    BY <1>1, <1>3 DEF InSlist, ToSet
  <2>2. SioItems(seen) = {i}  BY <1>0, <1>1, <1>3, <2>1, SioOffset, ItemsMatch
  <2>3. sio_data = d  BY <2>1, <2>2 DEF Selected
  <2>4. QED  BY <1>2, <1>3, <2>3 DEF IData
<1>4. CASE wbus.dlist[k].name # SioName
  BY <1>1, <1>2, <1>4 DEF IData
<1>5. QED  BY <1>3, <1>4

(* Every clock the first stage takes the selection of the address on the   *)
(* bus.                                                                    *)
LEMMA FirstStage ==
  ASSUME wbus \in WbBuses, ReplyNext
  PROVE  /\ \A k : DioItems(addr) = {k} => dio_bus_select' + 1 = k
         /\ \A i : SioItems(addr) = {i} => sio_data' = OfSingle(wbus.slist[i])
<1>1. ASSUME NEW k, DioItems(addr) = {k} PROVE dio_bus_select' + 1 = k
  <2>1. k \in Int
    <3>1. k \in DOMAIN wbus.dlist /\ wbus.dlist \in Seq(Slave)
      BY <1>1, BusFacts DEF DioItems
    <3>2. QED  BY <3>1
  <2>2. Min(DioItems(addr)) = k  BY <1>1, <2>1, MinOfOne
  <2>3. dio_bus_select' = k - 1  BY <1>1, <2>2 DEF ReplyNext, DioBusSelect
  <2>4. QED  BY <2>1, <2>3
<1>2. ASSUME NEW i, SioItems(addr) = {i} PROVE sio_data' = OfSingle(wbus.slist[i])
  <2>1. i \in Int
    <3>1. i \in DOMAIN wbus.slist /\ wbus.slist \in Seq(Slave)
      BY <1>2, BusFacts DEF SioItems
    <3>2. QED  BY <3>1
  <2>2. Min(SioItems(addr)) = i  BY <1>2, <2>1, MinOfOne
  <2>3. SioItems(addr) # {}  BY <1>2
  <2>4. QED  BY <2>2, <2>3 DEF ReplyNext, SioData
<1>3. QED  BY <1>1, <1>2

(* A clock outside of a cycle, or with reset, leaves nothing to answer.    *)
LEMMA IdleKeepsOldest ==
  ASSUME AnswerInv, AnswerInv', OldestInv, ReplyNext, reset \/ ~cyc
  PROVE  OldestInv'
<1>1. /\ asked' = <<>> /\ dio_ack' = <<FALSE, FALSE>> /\ wbus' = wbus /\ seen' = addr
  BY DEF ReplyNext, Ask, DioAck
<1>2. addr \in wbus.asks  BY DEF AnswerInv, CountersOK
<1>3. ~dio_ack'[1] /\ ~dio_ack'[2]  BY <1>1
<1>4. wbus.dlist = <<>> => ~(cyc' /\ sio_ack')
  <2>1. CASE reset  BY <2>1 DEF ReplyNext, Drive
  <2>2. CASE ~cyc
    <3>1. ~stb  BY <2>2 DEF AnswerInv
    <3>2. QED  BY <3>1 DEF ReplyNext, SioAck, SioStb
  <2>3. QED  BY <2>1, <2>2
<1>5. QED  BY <1>1, <1>2, <1>3, <1>4 DEF OldestInv

LEMMA ShortTail ==
  ASSUME NEW S, NEW s \in Seq(S), Len(s) = 2
  PROVE  Len(Tail(s)) = 1 /\ Tail(s)[1] = s[2]
<1>1. Len(Tail(s)) = 1  OBVIOUS
<1>2. Tail(s)[1] = s[1 + 1]  BY <1>1
<1>3. QED  BY <1>1, <1>2

LEMMA FirstStaysFirst ==
  ASSUME NEW S, NEW s \in Seq(S), NEW t \in Seq(S), Len(s) = 1
  PROVE  (s \o t)[1] = s[1]
<1>1. Len(t) \in Nat /\ 1 \in 1..(Len(s) + Len(t)) /\ 1 <= Len(s)
  OBVIOUS
<1>2. QED  BY <1>1, ConcatProperties

(* Within a cycle the requests move up as the registers take over.         *)
LEMMA BusyKeepsOldest ==
  ASSUME NoPairs, AnswerInv, AnswerInv', OldestInv, ReplyNext, ~reset, cyc
  PROVE  OldestInv'
<1> DEFINE left == IF Ack /\ asked # <<>> THEN Tail(asked) ELSE asked
           new  == IF stb THEN <<addr>> ELSE <<>>
<1>1. wbus' = wbus /\ seen' = addr /\ asked' = left \o new
  BY DEF ReplyNext, Ask
<1>2. wbus \in WbBuses /\ addr \in wbus.asks /\ seen \in wbus.asks /\ wbus.asks \subseteq Nat
  BY BusFacts DEF OldestInv, AnswerInv, CountersOK
<1>3. asked \in Seq(wbus.asks) /\ stb \in BOOLEAN /\ sio_ack \in BOOLEAN
      /\ dio_ack[1] \in BOOLEAN /\ dio_ack[2] \in BOOLEAN
  BY DEF AnswerInv, CountersOK
<1>4. Len(asked) = IF wbus.dlist = <<>> THEN One(sio_ack) ELSE One(dio_ack[1]) + One(dio_ack[2])
  BY DEF AnswerInv, OneAnswerEach
<1>5. left \in Seq(wbus.asks)
  <2>1. asked # <<>> => Tail(asked) \in Seq(wbus.asks)  BY <1>3
  <2>2. QED  BY <1>3, <2>1
<1>6. (Selected(seen))'
  <2>1. /\ \A k : DioItems(addr) = {k} => dio_bus_select' + 1 = k
        /\ \A i : SioItems(addr) = {i} => sio_data' = OfSingle(wbus.slist[i])
    BY <1>2, FirstStage
  <2>2. DioItems(seen)' = DioItems(addr)
    BY <1>1 DEF DioItems, DioMatches, Field, Sbaw, End
  <2>3. SioItems(seen)' = SioItems(addr)
    BY <1>1 DEF SioItems, SioMask, Field, Sbaw, End, UnusedLsbs
  <2>4. QED  BY <1>1, <2>1, <2>2, <2>3 DEF Selected
<1>7. \A a : Answers(a)' = Answers(a)
  BY <1>1 DEF Answers, InSlist
<1>8. CASE wbus.dlist # <<>>
  <2>1. dio_ack' = <<stb /\ wbus.dlist # <<>>, dio_ack[1]>>
    BY DEF ReplyNext, DioAck
  <2>2. Ack = dio_ack[2]  BY <1>8 DEF Ack
  <2>3. ASSUME dio_ack'[1] PROVE asked'[Len(asked')] = addr
    <3>1. stb  BY <2>1, <2>3
    <3>2. asked' = left \o <<addr>>  BY <1>1, <3>1
    <3> HIDE DEF left
    <3>3. QED  BY <1>2, <1>5, <3>2
  <2>4. ASSUME dio_ack'[2], NEW d \in Answers(asked'[1]) PROVE dio_data' = d
    <3>1. dio_ack[1]  BY <2>1, <2>4
    <3>2. asked[Len(asked)] = seen /\ Selected(seen)
      BY <1>8, <3>1 DEF OldestInv
    <3>3. Len(left) = 1 /\ left[1] = seen
      <4>1. CASE dio_ack[2]
        <5>1. Len(asked) = 2  BY <1>4, <1>8, <3>1, <4>1 DEF One
        <5>2. left = Tail(asked)  BY <2>2, <4>1, <5>1
        <5>3. Len(Tail(asked)) = 1 /\ Tail(asked)[1] = asked[2]  BY <1>3, <5>1, ShortTail
        <5>4. QED  BY <3>2, <5>1, <5>2, <5>3
      <4>2. CASE ~dio_ack[2]
        <5>1. Len(asked) = 1  BY <1>4, <1>8, <3>1, <4>2 DEF One
        <5>2. left = asked  BY <2>2, <4>2
        <5>3. QED  BY <3>2, <5>1, <5>2
      <4>3. QED  BY <4>1, <4>2
    <3>4. asked'[1] = seen
      <4>1. new \in Seq(wbus.asks)  BY <1>2, ShortSequences
      <4> HIDE DEF left, new
      <4>2. (left \o new)[1] = left[1]  BY <1>5, <3>3, <4>1, FirstStaysFirst
      <4>3. QED  BY <1>1, <3>3, <4>2
    <3>5. dio_data' = IData(dio_bus_select + 1)  BY <1>8 DEF ReplyNext, DioData
    <3>6. QED  BY <1>2, <1>8, <2>4, <3>2, <3>4, <3>5, SecondStage
  <2>5. QED  BY <1>1, <1>2, <1>6, <1>7, <1>8, <2>3, <2>4 DEF OldestInv
<1>9. CASE wbus.dlist = <<>>
  <2>1. ASSUME sio_ack', NEW d \in Answers(asked'[1]) PROVE sio_data' = d
    <3>1. stb  BY <1>9, <2>1 DEF ReplyNext, SioAck, SioStb
    <3>2. Len(left) = 0
      <4>1. asked = <<>> \/ (Ack /\ Len(asked) = 1)
        BY <1>3, <1>4, <1>9 DEF One, Ack
      <4>2. Len(asked) = 1 => Len(Tail(asked)) = 0  BY <1>3
      <4>3. QED  BY <4>1, <4>2
    <3>3. asked'[1] = addr
      <4>1. new = <<addr>>  BY <3>1
      <4> HIDE DEF left
      <4>2. (left \o <<addr>>)[1] = addr  BY <1>2, <1>5, <3>2
      <4>3. QED  BY <1>1, <4>1, <4>2
    <3>4. PICK i \in DOMAIN wbus.slist :
            d = OfSingle(wbus.slist[i]) /\ Within(wbus.slist[i], addr)
      BY <1>9, <2>1, <3>3 DEF Answers, InSlist, ToSet
    <3>5. SioItems(addr) = {i}  BY <1>2, <3>4, SioDirect, ItemsMatch
    <3>6. QED  BY <1>2, <3>4, <3>5, FirstStage
  <2>2. dio_ack'[1] = FALSE
    BY <1>9 DEF ReplyNext, DioAck
  <2>3. QED  BY <1>1, <1>2, <1>7, <1>9, <2>1, <2>2 DEF OldestInv
<1>10. QED  BY <1>8, <1>9

(* Every answer within a cycle is one to the oldest request of that cycle  *)
(* that has none yet, and has the data of the slave at the address asked   *)
(* for: on every bus, however many requests follow each other and whatever *)
(* cycle was aborted before.                                               *)
THEOREM OldestIsAnswered == NoPairs => (ReplySpec => []AnswersTheOldest)
<1> SUFFICES ASSUME NoPairs PROVE ReplySpec => []AnswersTheOldest
  OBVIOUS
<1>1. ReplyInit => OldestInv
  BY DEF ReplyInit, OldestInv
<1>2. AnswerInv /\ AnswerInv' /\ OldestInv /\ [ReplyNext]_replyvars => OldestInv'
  <2> SUFFICES ASSUME AnswerInv, AnswerInv', OldestInv, [ReplyNext]_replyvars PROVE OldestInv'
    OBVIOUS
  <2>1. CASE ReplyNext
    <3>1. reset \in BOOLEAN /\ cyc \in BOOLEAN  BY DEF AnswerInv, CountersOK
    <3>2. QED  BY <2>1, <3>1, IdleKeepsOldest, BusyKeepsOldest
  <2>2. CASE UNCHANGED replyvars
    <3>1. /\ DioItems(seen)' = DioItems(seen) /\ SioItems(seen)' = SioItems(seen)
          /\ \A a : Answers(a)' = Answers(a)
      BY <2>2 DEF replyvars, DioItems, DioMatches, Field, Sbaw, End, SioItems, SioMask,
                  UnusedLsbs, Answers, InSlist
    <3>2. QED  BY <2>2, <3>1 DEF replyvars, OldestInv, Selected
  <2>3. QED  BY <2>1, <2>2
<1>3. AnswerInv /\ OldestInv /\ NoStrayAnswer => AnswersTheOldest
  <2> SUFFICES ASSUME AnswerInv, OldestInv, NoStrayAnswer, cyc, Ack
               PROVE  asked # <<>> /\ \A d \in Answers(Head(asked)) : Data = d
    BY DEF AnswersTheOldest
  <2>1. asked # <<>> /\ Head(asked) = asked[1]
    BY DEF NoStrayAnswer, AnswerInv, CountersOK
  <2>2. QED  BY <2>1 DEF OldestInv, Ack, Data
<1>4. QED
  BY <1>1, <1>2, <1>3, AnswerInvariant, NoAnswerWithoutRequest, PTL DEF ReplySpec
=============================================================================
