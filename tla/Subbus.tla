------------------------------- MODULE Subbus -------------------------------
(***************************************************************************)
(* allocate_subbus (sw/bus/wb.cpp, axil.cpp and axi.cpp): the slaves of a  *)
(* bus that never stall are collected below buses of their own.  SINGLE    *)
(* slaves go to the list of a bus called <name>_sio, DOUBLE slaves to that *)
(* of <name>_dio; each of these buses is itself a slave of the bus, and    *)
(* the first of them is a DOUBLE slave.                                    *)
(*                                                                         *)
(* The slaves are moved by a loop that erases from the list it walks.      *)
(***************************************************************************)
EXTENDS Integers, SequencesExt

CONSTANTS
  Buses,      \* the buses: [class, kinds]
  Sio, Dio,   \* the slaves create_sio() and create_dio() add
  ClassLimit  \* 50 in the code: assert(m_num_single < 50)

Class == {"wb", "axil", "axi4"}
Kind == {"SINGLE", "DOUBLE", "OTHER"}

(* kinds[s]: the SLAVE.TYPE of slave s, OTHER if it has none or another.   *)
Bus == [class : Class, kinds : Seq(Kind)]

ASSUME BusesAssumption == Buses \subseteq Bus
ASSUME SubbusAssumption == Sio # Dio /\ Sio \notin Nat /\ Dio \notin Nat

VARIABLES
  bus,        \* the bus
  pc,         \* "count", "sio", "dio", "move" or "done"
  plist,      \* m_info->m_plist, the slaves of the bus
  slist,      \* m_slist: the slaves below Sio, and
  dlist,      \* m_dlist: the slaves below Dio (both empty before they exist)
  created,    \* those of Sio and Dio that exist
  split,      \* [is_single, is_double, num_single, num_double]
  pi          \* the place in plist that the loop looks at

vars == <<bus, pc, plist, slist, dlist, created, split, pi>>

Slaves == DOMAIN bus.kinds

KindOf(s) == CASE s = Sio -> "DOUBLE" [] s = Dio -> "OTHER" [] OTHER -> bus.kinds[s]

CountOf(kind, list) == Cardinality({i \in DOMAIN list : KindOf(list[i]) = kind})
-----------------------------------------------------------------------------
(* What the counts of countsio() lead to.                                  *)
Split(class, single, double, total) ==
  LET all_single == single = total
      merged     == ~all_single /\ single <= 2 /\ double > 0
      s          == IF all_single \/ merged THEN 0 ELSE single
      d          == IF merged THEN double + single ELSE double
      all_double == ~all_single /\ s + d = total
  IN  [is_single  |-> all_single,
       is_double  |-> all_double,
       num_single |-> IF all_double /\ class = "axi4" THEN 0 ELSE s,
       num_double |-> IF all_double \/ (class = "wb" /\ d <= 2) THEN 0 ELSE d]

SplitOf(list) ==
  Split(bus.class, CountOf("SINGLE", list), CountOf("DOUBLE", list), Len(list))

NeedsSio(sp) == ~sp.is_single /\ sp.num_single > 0
NeedsDio(sp) == ~sp.is_double /\ sp.num_double > 0

Init ==
  /\ bus \in Buses
  /\ pc = "count"
  /\ plist = [s \in DOMAIN bus.kinds |-> s]
  /\ slist = <<>> /\ dlist = <<>> /\ created = {}
  /\ split = [is_single |-> FALSE, is_double |-> FALSE, num_single |-> 0, num_double |-> 0]
  /\ pi = 1

CountSio ==
  /\ pc = "count"
  /\ split' = SplitOf(plist)
  /\ split'.num_single < ClassLimit /\ split'.num_double < ClassLimit
  /\ pc' = "sio"
  /\ UNCHANGED <<bus, plist, slist, dlist, created, pi>>

CreateSio ==
  /\ pc = "sio"
  /\ IF NeedsSio(split)
       THEN /\ plist' = Append(plist, Sio)
            /\ created' = created \cup {Sio}
       ELSE UNCHANGED <<plist, created>>
  /\ pc' = "dio"
  /\ UNCHANGED <<bus, slist, dlist, split, pi>>

CreateDio ==
  /\ pc = "dio"
  /\ IF NeedsDio(split)
       THEN /\ plist' = Append(plist, Dio)
            /\ created' = created \cup {Dio}
       ELSE UNCHANGED <<plist, created>>
  /\ pc' = IF split.is_single \/ split.is_double THEN "done" ELSE "move"
  /\ UNCHANGED <<bus, slist, dlist, split, pi>>

ToSlist(s) == Sio \in created /\ KindOf(s) = "SINGLE"

ToDlist(s) ==
  /\ Dio \in created
  /\ \/ KindOf(s) = "DOUBLE"
     \/ KindOf(s) = "SINGLE" /\ bus.class = "axil"

(* The slave at pi leaves the list: the next one moves up to pi, where     *)
(* "pi--" and the "pi++" of the loop find it.                              *)
Erase_NoStepBack ==                                       \* mutant
  /\ plist' = RemoveAt(plist, pi)
  /\ pi' = pi + 1

Erase ==
  /\ plist' = RemoveAt(plist, pi)
  /\ UNCHANGED pi

MoveToSlist ==
  /\ pc = "move" /\ pi <= Len(plist)
  /\ ToSlist(plist[pi])
  /\ slist' = Append(slist, plist[pi])
  /\ Erase
  /\ UNCHANGED <<bus, pc, dlist, created, split>>

MoveToDlist_NoErase ==                                    \* mutant
  /\ pc = "move" /\ pi <= Len(plist)
  /\ ~ToSlist(plist[pi]) /\ ToDlist(plist[pi])
  /\ dlist' = Append(dlist, plist[pi])
  /\ pi' = pi + 1
  /\ UNCHANGED <<bus, pc, plist, slist, created, split>>

MoveToDlist ==
  /\ pc = "move" /\ pi <= Len(plist)
  /\ ~ToSlist(plist[pi]) /\ ToDlist(plist[pi])
  /\ dlist' = Append(dlist, plist[pi])
  /\ Erase
  /\ UNCHANGED <<bus, pc, slist, created, split>>

(* "Leave this peripheral in m_info->m_plist"                              *)
Leave ==
  /\ pc = "move" /\ pi <= Len(plist)
  /\ ~ToSlist(plist[pi]) /\ ~ToDlist(plist[pi])
  /\ pi' = pi + 1
  /\ UNCHANGED <<bus, pc, plist, slist, dlist, created, split>>

EndMove ==
  /\ pc = "move" /\ pi > Len(plist)
  /\ pc' = "done"
  /\ UNCHANGED <<bus, plist, slist, dlist, created, split, pi>>

Next ==
  \/ CountSio \/ CreateSio \/ CreateDio
  \/ MoveToSlist \/ MoveToDlist \/ Leave \/ EndMove

Spec == Init /\ [][Next]_vars

(* allocate_subbus is one function call: it runs on until it returns.      *)
FairSpec == Spec /\ WF_vars(Next)
-----------------------------------------------------------------------------
Finished == pc = "done"
Members == Slaves \cup {Sio, Dio}

(* Every variable has its type.                                            *)
TypeOK ==
  /\ bus \in Bus
  /\ pc \in {"count", "sio", "dio", "move", "done"}
  /\ {plist, slist, dlist} \subseteq Seq(Members)
  /\ created \subseteq {Sio, Dio}
  /\ split \in [is_single : BOOLEAN, is_double : BOOLEAN, num_single : Nat, num_double : Nat]
  /\ pi \in 1..(Len(plist) + 1)

Places(s) ==
  Cardinality({i \in DOMAIN plist : plist[i] = s})
  + Cardinality({i \in DOMAIN slist : slist[i] = s})
  + Cardinality({i \in DOMAIN dlist : dlist[i] = s})

(* At any time, each slave of the bus is on exactly one of the three lists *)
(* and so is each bus that has been created: none is lost by the loop that *)
(* erases from the list it walks, and none answers on two buses.           *)
OnOneList == \A s \in Slaves \cup created : Places(s) = 1

(* The logic of the two buses never stalls and answers after a fixed       *)
(* number of clocks: only slaves that can keep up are moved there.         *)
OnlyQuickSlavesMoved ==
  /\ \A i \in DOMAIN slist : KindOf(slist[i]) = "SINGLE"
  /\ \A i \in DOMAIN dlist : KindOf(dlist[i]) \in {"SINGLE", "DOUBLE"}

(* icd.txt:66-72 "These peripherals will be collected together": where the *)
(* bus has slaves of other kinds, none that can be moved is left behind.   *)
NoneLeftBehind ==
  ~split.is_single /\ ~split.is_double =>
    \A i \in DOMAIN plist :
      /\ Sio \in created => KindOf(plist[i]) # "SINGLE"
      /\ Dio \in created => KindOf(plist[i]) # "DOUBLE"

(* The two buses are buses of the same class, so that their own addresses  *)
(* are assigned by the same code, allocate_subbus first: it must not find  *)
(* a reason to create another pair of buses below them, without end.       *)
NoSubbusOfSubbus ==
  \A l \in {slist, dlist} : ~NeedsSio(SplitOf(l)) /\ ~NeedsDio(SplitOf(l))

(* The loop ends, although erasing steps it back, and has collected them.  *)
SlavesCollected ==
  <>(Finished /\ OnlyQuickSlavesMoved /\ NoneLeftBehind /\ NoSubbusOfSubbus)
=============================================================================
