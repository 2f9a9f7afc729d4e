------------------------------- MODULE WbReply -------------------------------
(***************************************************************************)
(* The logic that WBBUS::writeout_bus_logic_v (sw/bus/wb.cpp) generates    *)
(* for the slaves that never stall: those of the list m_slist (SINGLE) and *)
(* those of m_dlist (DOUBLE), one of which may be the bus of m_slist.  A   *)
(* step is a clock of the generated design; each "always" block the code   *)
(* prints is an action on its registers, and all of them act together.     *)
(*                                                                         *)
(* The crossbar that drives the bus is not part of the repository.  Of it  *)
(* only this is assumed: there is no stb without cyc, and after a clock of *)
(* reset the cycle is over.  It may begin, end and abort cycles at will,   *)
(* and put any address on the bus while it asks for nothing.               *)
(*                                                                         *)
(* A slave of DOUBLE type shows, in each clock, what it has at the address *)
(* it saw one clock ago (doc/double.md), a slave of SINGLE type its only   *)
(* register (doc/single.md).  Data are named by where they come from.      *)
(***************************************************************************)
EXTENDS Bitlib, SequencesExt

CONSTANTS
  WbBuses,    \* the buses: [slist, dlist, lowpower, asks]
  SioName,    \* the name of the bus of m_slist, where it is a slave
  NoSlave     \* no slave: the source of a register not yet written

(* A slave of a list, placed by assign_addresses: bus addresses, in words. *)
Slave == [name : STRING, base : Nat, bits : Nat]

(* lowpower: the option OPT_LOWPOWER; asks: the addresses the crossbar may *)
(* put on the bus that it drives.                                          *)
WbBus == [slist : Seq(Slave), dlist : Seq(Slave), lowpower : BOOLEAN, asks : SUBSET Nat]

End(list) == LET s == list[Len(list)] IN s.base + 2^s.bits

(* get_address_width(): assign_addresses leaves no address line too many.  *)
Sbaw(list) == NextLg(End(list))

(* What assign_addresses promises of a list of two slaves or more, whose   *)
(* addresses nextlg() can count.                                           *)
Placed(list) ==
  /\ Len(list) >= 2
  /\ End(list) <= 2^MaxLg
  /\ \A i \in DOMAIN list : list[i].base % 2^list[i].bits = 0
  /\ \A i, j \in DOMAIN list : i < j => list[i].base + 2^list[i].bits <= list[j].base

ASSUME WbBusesAssumption ==
  \A b \in WbBuses :
    /\ b \in WbBus
    /\ b.slist # <<>> => Placed(b.slist)
    /\ b.dlist # <<>> => Placed(b.dlist)
    /\ b.slist # <<>> \/ b.dlist # <<>>
    /\ \A i, j \in DOMAIN b.slist : b.slist[i].bits = b.slist[j].bits
    /\ b.dlist # <<>> =>
         (b.slist # <<>> <=> \E i \in DOMAIN b.dlist : b.dlist[i].name = SioName)
    /\ \A i \in DOMAIN b.dlist : b.dlist[i].name = SioName => b.dlist[i].bits >= Sbaw(b.slist)

VARIABLES
  wbus,
  reset, cyc, stb, addr,        \* driven by the crossbar in this clock
  sio_ack, sio_data,            \* r_<bus>_sio_ack, r_<bus>_sio_data
  dio_ack,                      \* r_<bus>_dio_ack, [0] first
  dio_bus_select, dio_data,     \* r_<bus>_dio_bus_select, r_<bus>_dio_data
  seen,       \* the address the DOUBLE slaves saw in the last clock
  asked       \* the requests of this cycle not answered before this clock

replyvars == <<wbus, reset, cyc, stb, addr, sio_ack, sio_data, dio_ack,
               dio_bus_select, dio_data, seen, asked>>
inputs == <<reset, cyc, stb, addr>>

(* Bits hi-1..lo of an address. *)
Field(a, hi, lo) == (a % 2^hi) \div 2^lo

(* unused_lsbs: the bits below those that some mask of the list compares.  *)
UnusedLsbs(list) == Min({list[i].bits : i \in DOMAIN list})

-----------------------------------------------------------------------------
(* <slave>_stb of a DOUBLE slave: the bits of its mask match its base.     *)
DioMatches_AllBits(s, a) ==                               \* mutant
  Field(a, Sbaw(wbus.dlist), UnusedLsbs(wbus.dlist)) =
    Field(s.base, Sbaw(wbus.dlist), UnusedLsbs(wbus.dlist))

DioMatches(s, a) ==
  Field(a, Sbaw(wbus.dlist), s.bits) = Field(s.base, Sbaw(wbus.dlist), s.bits)

(* <slave>_stb of a SINGLE slave: all of the bits above unused_lsbs match. *)
SioMatches(s, a) ==
  Field(a, Sbaw(wbus.slist), UnusedLsbs(wbus.slist)) =
    s.base \div 2^UnusedLsbs(wbus.slist)

(* casez( sio_addr[nextlg(mask)-1:unused_lsbs] ): the items that match.    *)
SioMask == 2^Sbaw(wbus.slist) - 2^UnusedLsbs(wbus.slist)

SioItems(a) ==
  {i \in DOMAIN wbus.slist :
     Field(a, NextLg(SioMask), UnusedLsbs(wbus.slist)) =
       wbus.slist[i].base \div 2^UnusedLsbs(wbus.slist)}

DioItems(a) == {i \in DOMAIN wbus.dlist : DioMatches(wbus.dlist[i], a)}

(* The slaves that are strobed in this clock.                              *)
SioStb ==
  IF wbus.dlist = <<>> THEN stb
  ELSE stb /\ \E i \in DioItems(addr) : wbus.dlist[i].name = SioName

Strobed ==
  {wbus.dlist[i].name : i \in {j \in DioItems(addr) : stb /\ wbus.dlist[j].name # SioName}}
  \cup {s.name : s \in {t \in ToSet(wbus.slist) : SioStb /\ SioMatches(t, addr)}}

(* A default is printed for a list whose length is no power of two.        *)
HasDefault(list) == Len(list) # 2^NextLg(Len(list))
-----------------------------------------------------------------------------
Nothing == [slave |-> NoSlave, addr |-> 0]
OfSingle(s) == [slave |-> s.name, addr |-> 0]
OfDouble(s, a) == [slave |-> s.name, addr |-> a]

(* idata of slave k of m_dlist in this clock.                              *)
IData(k) ==
  IF wbus.dlist[k].name = SioName THEN sio_data ELSE OfDouble(wbus.dlist[k], seen)

ReplyInit ==
  /\ wbus \in WbBuses
  /\ reset = TRUE /\ cyc = FALSE /\ stb = FALSE
  /\ addr \in wbus.asks /\ seen \in wbus.asks
  /\ sio_ack = FALSE /\ dio_ack = <<FALSE, FALSE>>
  /\ dio_bus_select \in 0..(Len(wbus.dlist) - 1) \cup {0}
  /\ sio_data = Nothing /\ dio_data = Nothing
  /\ asked = <<>>

(* The crossbar drives the next clock.                                     *)
Drive ==
  /\ reset' \in BOOLEAN /\ cyc' \in BOOLEAN /\ stb' \in BOOLEAN
  /\ addr' \in wbus.asks
  /\ stb' => cyc'
  /\ reset => ~cyc'

SioAck == sio_ack' = SioStb

SioData ==
  LET items == SioItems(addr)
      last  == OfSingle(wbus.slist[Len(wbus.slist)])
  IN  sio_data' =
        CASE items # {} -> OfSingle(wbus.slist[Min(items)])
          [] items = {} /\ wbus.slist # <<>> /\ HasDefault(wbus.slist) ->
               IF wbus.lowpower THEN Nothing ELSE last
          [] OTHER -> sio_data

(* "a two stage shift register, cleared on any reset, or any time the      *)
(* cycle line drops."                                                      *)
DioAck_NotCleared ==                                      \* mutant
  dio_ack' = <<stb /\ wbus.dlist # <<>>, dio_ack[1]>>

DioAck ==
  dio_ack' = IF reset \/ ~cyc THEN <<FALSE, FALSE>>
             ELSE <<stb /\ wbus.dlist # <<>>, dio_ack[1]>>

DioBusSelect ==
  dio_bus_select' = IF DioItems(addr) = {} THEN 0 ELSE Min(DioItems(addr)) - 1

DioData_Unregistered ==                                   \* mutant
  dio_data' = IF DioItems(addr) = {} THEN dio_data ELSE IData(Min(DioItems(addr)))

DioData ==
  dio_data' = IF wbus.dlist = <<>> THEN dio_data ELSE IData(dio_bus_select + 1)

(* What the bus answers in this clock.                                     *)
Ack == IF wbus.dlist # <<>> THEN dio_ack[2] ELSE sio_ack
Data == IF wbus.dlist # <<>> THEN dio_data ELSE sio_data

(* The requests of a cycle, in their order: none is stalled.               *)
Ask ==
  asked' =
    IF reset \/ ~cyc THEN <<>>
    ELSE (IF Ack /\ asked # <<>> THEN Tail(asked) ELSE asked)
         \o (IF stb THEN <<addr>> ELSE <<>>)

ReplyNext ==
  /\ Drive /\ Ask
  /\ SioAck /\ SioData
  /\ DioAck /\ DioBusSelect /\ DioData
  /\ seen' = addr
  /\ UNCHANGED wbus

ReplySpec == ReplyInit /\ [][ReplyNext]_replyvars
-----------------------------------------------------------------------------
Datum == [slave : STRING \cup {NoSlave}, addr : Nat]

(* Every variable has its type: dio_bus_select names a slave of m_dlist,   *)
(* and no more than two requests are under way.                            *)
ReplyTypeOK ==
  /\ wbus \in WbBus
  /\ {reset, cyc, stb, sio_ack} \subseteq BOOLEAN
  /\ {addr, seen} \subseteq wbus.asks
  /\ {sio_data, dio_data} \subseteq Datum
  /\ dio_ack \in [1..2 -> BOOLEAN]
  /\ dio_bus_select = 0 \/ dio_bus_select < Len(wbus.dlist)
  /\ asked \in Seq(wbus.asks) /\ Len(asked) <= 2

Within(s, a) == s.base <= a /\ a < s.base + 2^s.bits

(* What the slave that an address belongs to shows for it: the slave of    *)
(* m_dlist, or the one of m_slist at that place of SioName.               *)
InSlist(a) == {OfSingle(s) : s \in {t \in ToSet(wbus.slist) : Within(t, a)}}

Answers(a) ==
  IF wbus.dlist = <<>> THEN InSlist(a)
  ELSE UNION { IF s.name = SioName THEN InSlist(a - s.base) ELSE {OfDouble(s, a)} :
                 s \in {t \in ToSet(wbus.dlist) : Within(t, a)} }

(* Every answer within a cycle is one to a request of that cycle, the      *)
(* oldest that has none yet, and has the data of the slave at the address  *)
(* asked for, whatever the other requests and whatever cycle was aborted   *)
(* before (wb.cpp:1047 "cleared ... any time the cycle line drops").       *)
AnswersTheOldest ==
  cyc /\ Ack =>
    /\ asked # <<>>
    /\ \A d \in Answers(Head(asked)) : Data = d

(* "DOUBLE peripherals return their acknowledgments in two clocks--always" *)
(* (wb.cpp:1048), SINGLE ones in one: the answers on their way are as many *)
(* as the requests that wait for one.                                      *)
One(b) == IF b THEN 1 ELSE 0

OneAnswerEach ==
  cyc => Len(asked) = IF wbus.dlist = <<>> THEN One(sio_ack)
                      ELSE One(dio_ack[1]) + One(dio_ack[2])

(* A request strobes the slave at its address and no other, through the    *)
(* bus of m_slist as well; one for no slave strobes one at most.           *)
StrobesOwner ==
  stb => /\ Cardinality(Strobed) <= 1
         /\ \A d \in Answers(addr) : Strobed = {d.slave}
=============================================================================
