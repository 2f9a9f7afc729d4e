------------------------------- MODULE BusList -------------------------------
(***************************************************************************)
(* build_bus_list (sw/businfo.cpp): the buses of a design are described in *)
(* pieces, by the tags BUS, SLAVE.BUS and MASTER.BUS of any component, and *)
(* merged by name; slaves and masters are then attached to their bus.      *)
(*                                                                         *)
(* Components, and the tags of a piece, are visited in the order of hash   *)
(* tables: design.comps and the tags of a piece are sequences in that      *)
(* order, and the runs choose all of them.  merge() starts its walk of the *)
(* tags again after each change.                                           *)
(***************************************************************************)
EXTENDS Integers, SequencesExt

CONSTANTS
  Names,      \* names of buses
  NoName,     \* NULL: no name, no default bus
  Designs     \* the designs: [default, comps]

Key == <<"BUS", "SLAVE", "MASTER">>       \* KYBUS, KYSLAVE_BUS, KYMASTER_BUS
Tag == {"WIDTH", "NULLSZ", "IDWIDTH", "TYPE", "RESET", "CLOCK", "OPT_PIPE"}

(* What a component says of a bus: nothing, the name of a bus, or a map of *)
(* tags, which may have a NAME.  Values are positive; types are 1 to 3,    *)
(* the place of their class in busclass_list.                              *)
Piece(p) ==
  /\ p.kind \in {"none", "name", "map"} /\ p.name \in Names \cup {NoName}
  /\ DOMAIN p.val \subseteq Tag /\ p.val \in [DOMAIN p.val -> Nat \ {0}]
  /\ p.tags \in Seq(Tag) /\ Range(p.tags) = DOMAIN p.val /\ IsInjective(p.tags)
  /\ p.kind # "map" => p.tags = <<>>
  /\ p.kind = "name" => p.name # NoName

ASSUME NameAssumption == NoName \notin Names
ASSUME DesignAssumption ==
  \A d \in Designs :
    /\ d.default \in Names \cup {NoName}
    /\ d.comps \in Seq(Range(d.comps))
    /\ \A c \in DOMAIN d.comps :
         /\ {d.comps[c].slave, d.comps[c].master} \subseteq BOOLEAN
         /\ DOMAIN d.comps[c].pieces = Range(Key)
         /\ \A k \in Range(Key) : Piece(d.comps[c].pieces[k])

VARIABLES
  design,
  pc,         \* the loop of build_bus_list that runs
  at,         \* the component, and the key, that it looks at
  buses,      \* gbl_blist, the first is the default bus
  merging,    \* the bus that merge() works on, and its place in the tags
  ref,        \* the bus whose map now stands in the place of a piece, or 0
  errors      \* what has been reported: <<bus, tag>>

vars == <<design, pc, at, buses, merging, ref, errors>>

Comps == DOMAIN design.comps
PieceAt(a) == design.comps[a.comp].pieces[Key[a.key]]
FirstPlace == [comp |-> 1, key |-> 1]
NextPlace(a) == IF a.key < Len(Key) THEN [a EXCEPT !.key = @ + 1]
                                    ELSE [comp |-> a.comp + 1, key |-> 1]
-----------------------------------------------------------------------------
(* BUSINFO: 0 is a number not set, and NULL.  hash is m_hash; inserting    *)
(* into it does not replace a tag that it has.                             *)
BusInfo(tags) ==
  [name : Names, width : Nat, nullsz : Nat, type : Nat, clock : Nat, gen : Nat,
   hash : [tags -> Nat], slaves : Seq(Nat), masters : Seq(Nat)]

NoTags == [t \in {} |-> 0]
NewBus(name) ==
  [name |-> name, width |-> 0, nullsz |-> 0, type |-> 0, clock |-> 0, gen |-> 0,
   hash |-> NoTags, slaves |-> <<>>, masters |-> <<>>]

Insert(hash, t, v) ==
  [x \in DOMAIN hash \cup {t} |-> IF x \in DOMAIN hash THEN hash[x] ELSE v]

Get(hash, t) == IF t \in DOMAIN hash THEN hash[t] ELSE 0

Select(width) == (width + 7) \div 8

(* The first class of busclass_list that matches the type: Wishbone (1)    *)
(* where the bus has none.                                                 *)
Matching(hash) == IF "TYPE" \in DOMAIN hash THEN hash["TYPE"] ELSE 1

Generator(b) == IF b.gen = 0 THEN [b EXCEPT !.gen = Matching(b.hash)] ELSE b

(* init(bushash): the piece itself becomes the map of the bus.             *)
InitBus_NoWidth(piece) ==                                        \* mutant
  [NewBus(piece.name) EXCEPT !.nullsz = Get(piece.val, "NULLSZ"), !.hash = piece.val,
                             !.gen = IF "TYPE" \in DOMAIN piece.val THEN piece.val["TYPE"] ELSE 0]

InitBus(piece) ==
  LET has(t) == t \in DOMAIN piece.val
      bus == [NewBus(piece.name) EXCEPT
                !.width  = Get(piece.val, "WIDTH"),
                !.nullsz = Get(piece.val, "NULLSZ"),
                !.hash   = IF has("WIDTH") THEN Insert(piece.val, "NSELECT", Select(piece.val["WIDTH"]))
                                           ELSE piece.val]
  IN  IF has("TYPE") THEN Generator(bus) ELSE bus

(* The conditions of merge() on which a tag is news to the bus, and those  *)
(* on which it contradicts it.                                             *)
IsNews(bus, t, v) ==
  CASE t = "WIDTH"   -> bus.width = 0
    [] t = "NULLSZ"  -> bus.nullsz # v
    [] t = "TYPE"    -> bus.type = 0
    [] t = "CLOCK"   -> bus.clock = 0
    [] t \in {"IDWIDTH", "RESET"} -> t \notin DOMAIN bus.hash
    [] OTHER         -> FALSE

Contradicts(bus, t, v) ==
  CASE t = "WIDTH"   -> bus.width # v
    [] t = "TYPE"    -> bus.type # v
    [] t \in {"IDWIDTH", "RESET"} -> bus.hash[t] # v
    [] OTHER         -> FALSE

Learn_NullszKept(bus, t, v) ==                                   \* mutant
  LET known == [bus EXCEPT !.hash = Insert(@, t, v)]
  IN  CASE t = "WIDTH"  -> [known EXCEPT !.width = v, !.hash = Insert(@, "NSELECT", Select(v))]
        [] t = "TYPE"   -> [known EXCEPT !.type = v]
        [] t = "CLOCK"  -> [known EXCEPT !.clock = v]
        [] OTHER        -> known

Learn(bus, t, v) ==
  LET known == [bus EXCEPT !.hash = Insert(@, t, v)]
  IN  CASE t = "WIDTH"  -> [known EXCEPT !.width = v, !.hash = Insert(@, "NSELECT", Select(v))]
        [] t = "NULLSZ" -> [known EXCEPT !.nullsz = IF v > @ THEN v ELSE @]
        [] t = "TYPE"   -> [known EXCEPT !.type = v]
        [] t = "CLOCK"  -> [known EXCEPT !.clock = v]
        [] OTHER        -> known

(* "Anything else, we copy into our defining hash"                         *)
Copy(bus, t, v) ==
  IF t \in {"OPT_PIPE", "CLOCK"} /\ t \in DOMAIN bus.hash
    THEN [bus EXCEPT !.hash = Insert(@, t, v)] ELSE bus

Find(name) == SelectInSeq(buses, LAMBDA b : b.name = name)
-----------------------------------------------------------------------------
Init ==
  /\ design \in Designs
  /\ pc = "default"
  /\ at = FirstPlace
  /\ buses = <<>>
  /\ merging = [bus |-> 0, tag |-> 0]
  /\ ref = [c \in Comps |-> [k \in Range(Key) |-> 0]]
  /\ errors = {}

AddDefault ==
  /\ pc = "default"
  /\ buses' = IF design.default = NoName THEN <<>> ELSE <<NewBus(design.default)>>
  /\ pc' = "defns"
  /\ UNCHANGED <<design, at, merging, ref, errors>>

(* The piece is replaced by the map of the bus b.                          *)
PointTo(b) ==
  /\ ref' = [ref EXCEPT ![at.comp][Key[at.key]] = b]
  /\ at' = NextPlace(at)

Looking == pc = "defns" /\ at.comp \in Comps

CheckNoDefn ==
  /\ Looking /\ PieceAt(at).kind = "none"
  /\ at' = NextPlace(at)
  /\ UNCHANGED <<design, pc, buses, merging, ref, errors>>

CheckUnnamed ==
  /\ Looking /\ PieceAt(at).kind = "map" /\ PieceAt(at).name = NoName
  /\ errors' = errors \cup {<<NoName, "NAME">>}
  /\ at' = NextPlace(at)
  /\ UNCHANGED <<design, pc, buses, merging, ref>>

CheckName ==
  LET name == PieceAt(at).name IN
  /\ Looking /\ PieceAt(at).kind = "name"
  /\ IF Find(name) = 0
       THEN /\ buses' = Append(buses, NewBus(name))
            /\ PointTo(Len(buses) + 1)
       ELSE /\ UNCHANGED buses
            /\ PointTo(Find(name))
  /\ UNCHANGED <<design, pc, merging, errors>>

CheckNewBus ==
  /\ Looking /\ PieceAt(at).kind = "map" /\ PieceAt(at).name # NoName
  /\ Find(PieceAt(at).name) = 0
  /\ buses' = Append(buses, InitBus(PieceAt(at)))
  /\ PointTo(Len(buses) + 1)
  /\ UNCHANGED <<design, pc, merging, errors>>

CheckMerge ==
  /\ Looking /\ PieceAt(at).kind = "map" /\ PieceAt(at).name # NoName
  /\ Find(PieceAt(at).name) # 0
  /\ merging' = [bus |-> Find(PieceAt(at).name), tag |-> 1]
  /\ pc' = "merge"
  /\ UNCHANGED <<design, at, buses, ref, errors>>

(* One turn of the loop of merge().  A change starts it again: kvpair is   *)
(* begin(), which the loop then increments.                                *)
Restart_SkipsTwo == 3                                            \* mutant
Restart == 2
MergeTag ==
  LET tags == PieceAt(at).tags
      t    == tags[merging.tag]
      v    == PieceAt(at).val[t]
      bus  == buses[merging.bus]
  IN  /\ pc = "merge" /\ merging.tag <= Len(tags)
      /\ IF IsNews(bus, t, v)
           THEN /\ buses' = [buses EXCEPT ![merging.bus] = Learn(bus, t, v)]
                /\ merging' = [merging EXCEPT !.tag = Restart]
                /\ UNCHANGED errors
           ELSE /\ buses' = [buses EXCEPT ![merging.bus] = Copy(bus, t, v)]
                /\ merging' = [merging EXCEPT !.tag = @ + 1]
                /\ errors' = IF Contradicts(bus, t, v) THEN errors \cup {<<bus.name, t>>} ELSE errors
      /\ UNCHANGED <<design, pc, at, ref>>

EndMerge ==
  /\ pc = "merge" /\ merging.tag > Len(PieceAt(at).tags)
  /\ PointTo(merging.bus)
  /\ pc' = "defns"
  /\ merging' = [bus |-> 0, tag |-> 0]
  /\ UNCHANGED <<design, buses, errors>>

(* The loop over the components, for the next pass.                        *)
Pass(from, to) == pc = from /\ pc' = to /\ at' = FirstPlace

Generators ==
  /\ at.comp \notin Comps
  /\ Pass("defns", "refs")
  /\ buses' = [b \in DOMAIN buses |-> Generator(buses[b])]
  /\ UNCHANGED <<design, merging, ref, errors>>

(* assign_bus_master() and assign_bus_slave(): every name has been         *)
(* replaced by a map, what is left is a map that has no name.              *)
AssignRefs ==
  LET comp == design.comps[at.comp]
      lost(k) == comp.pieces[k].kind = "map" /\ comp.pieces[k].name = NoName
  IN  /\ pc = "refs" /\ at.comp \in Comps
      /\ errors' = errors
           \cup (IF comp.master /\ lost("MASTER") THEN {<<NoName, "MASTER.BUS">>} ELSE {})
           \cup (IF comp.slave /\ lost("SLAVE") THEN {<<NoName, "SLAVE.BUS">>} ELSE {})
      /\ at' = [at EXCEPT !.comp = @ + 1]
      /\ UNCHANGED <<design, pc, buses, merging, ref>>

(* "Set any unset clocks to the default": there is no default, the program *)
(* stops where a bus has no CLOCK.  integrity_check() then reports buses   *)
(* without a width.                                                        *)
SetClocks ==
  /\ at.comp \notin Comps
  /\ \A b \in DOMAIN buses : buses[b].clock # 0 \/ "CLOCK" \in DOMAIN buses[b].hash
  /\ Pass("refs", "add")
  /\ buses' = [b \in DOMAIN buses |->
                 IF buses[b].clock = 0 THEN [buses[b] EXCEPT !.clock = buses[b].hash["CLOCK"]] ELSE buses[b]]
  /\ errors' = errors \cup {<<buses[b].name, "NO WIDTH">> : b \in {x \in DOMAIN buses : buses[x].width = 0}}
  /\ UNCHANGED <<design, merging, ref>>

NoClock ==
  /\ at.comp \notin Comps
  /\ \E b \in DOMAIN buses : buses[b].clock = 0 /\ "CLOCK" \notin DOMAIN buses[b].hash
  /\ Pass("refs", "fatal")
  /\ UNCHANGED <<design, buses, merging, ref, errors>>

(* The bus that addperipheral() or addmaster() finds: the default one      *)
(* without a tag, none for a map without a name.                           *)
BusOf_First(c, k) == IF ref[c][k] # 0 THEN ref[c][k] ELSE 1      \* mutant
BusOf(c, k) == IF design.comps[c].pieces[k].kind = "none" THEN 1 ELSE ref[c][k]

(* A slave that names no bus is sent to the default one, where PLIST::add *)
(* asserts that it names one; an empty list of buses has no default.      *)
Aborts(c) ==
  \/ design.comps[c].slave /\ design.comps[c].pieces["SLAVE"].kind = "none"
  \/ (design.comps[c].slave \/ design.comps[c].master) /\ buses = <<>>

AddAborts ==
  /\ pc = "add" /\ at.comp \in Comps /\ Aborts(at.comp)
  /\ pc' = "fatal"
  /\ UNCHANGED <<design, at, buses, merging, ref, errors>>

AddToBuses ==
  LET c == at.comp
      joins(flag, k, b) == flag /\ BusOf(c, k) = b
      Joined(list, yes) == IF yes THEN Append(list, c) ELSE list
  IN  /\ pc = "add" /\ c \in Comps /\ ~Aborts(c)
      /\ buses' = [b \in DOMAIN buses |->
           [buses[b] EXCEPT !.slaves  = Joined(@, joins(design.comps[c].slave, "SLAVE", b)),
                            !.masters = Joined(@, joins(design.comps[c].master, "MASTER", b))]]
      /\ at' = [at EXCEPT !.comp = @ + 1]
      /\ UNCHANGED <<design, pc, merging, ref, errors>>

(* Then addresses are assigned, bus by bus.                                *)
EndAdd ==
  /\ at.comp \notin Comps
  /\ Pass("add", "done")
  /\ UNCHANGED <<design, buses, merging, ref, errors>>

Next ==
  \/ AddDefault
  \/ CheckNoDefn \/ CheckUnnamed \/ CheckName \/ CheckNewBus \/ CheckMerge
  \/ MergeTag \/ EndMerge
  \/ Generators \/ AssignRefs \/ SetClocks \/ NoClock
  \/ AddToBuses \/ AddAborts \/ EndAdd

Spec == Init /\ [][Next]_vars
FairSpec == Spec /\ WF_vars(Next)
-----------------------------------------------------------------------------
Merged == pc \in {"refs", "add", "done"}
Pieces(name) ==
  {p \in UNION {Range(design.comps[c].pieces) : c \in Comps} : p.kind = "map" /\ p.name = name}
Given(name, t) == {p.val[t] : p \in {q \in Pieces(name) : t \in DOMAIN q.val}}

(* Every variable has its type.                                            *)
TypeOK ==
  /\ design \in Designs
  /\ pc \in {"default", "defns", "merge", "refs", "add", "done", "fatal"}
  /\ at \in [comp : 1..(Len(design.comps) + 1), key : DOMAIN Key]
  /\ buses \in Seq(Range(buses))
  /\ \A b \in DOMAIN buses :
       LET tags == DOMAIN buses[b].hash
       IN  tags \subseteq Tag \cup {"NSELECT"} /\ buses[b] \in BusInfo(tags)
  /\ merging \in [bus : 0..Len(buses), tag : Nat]
  /\ ref \in [Comps -> [Range(Key) -> 0..Len(buses)]]

(* "Merge description of bus from multiple disparate sources"              *)
(* (businfo.cpp:329): when all pieces have been visited, a tag that the    *)
(* pieces of a bus give one value has this value, in the map of the bus    *)
(* and in BUSINFO, whichever piece made the bus, in whatever order the     *)
(* hash tables held pieces and tags, and whatever other tags disagree on.  *)
DefinitionsMerged ==
  Merged => \A i \in DOMAIN buses : LET b == buses[i] IN
    /\ \A t \in Tag \ {"OPT_PIPE"} : \A v \in Given(b.name, t) :
         Given(b.name, t) = {v} =>
           /\ t \in DOMAIN b.hash /\ b.hash[t] = v
           /\ t = "WIDTH"  => b.width = v /\ b.hash["NSELECT"] = Select(v)
           /\ t = "NULLSZ" => b.nullsz = v
           /\ t = "CLOCK"  => b.clock = v \/ (pc = "refs" /\ b.clock = 0)
           /\ t = "TYPE"   => b.gen = v
    /\ \A t \in DOMAIN b.hash \cap Tag : b.hash[t] \in Given(b.name, t)
    /\ b.gen = Matching(b.hash)

(* Pieces that disagree on a width, an ID width or a reset are reported,   *)
(* and only those, in whatever order they come.                            *)
ConflictsReported ==
  Merged => \A i \in DOMAIN buses : \A t \in {"WIDTH", "IDWIDTH", "RESET"} :
    <<buses[i].name, t>> \in errors <=> Cardinality(Given(buses[i].name, t)) > 1

(* No bus is listed twice under one name, and the default bus stays first. *)
OneBusPerName ==
  /\ \A a, b \in DOMAIN buses : buses[a].name = buses[b].name => a = b
  /\ design.default # NoName /\ buses # <<>> => buses[1].name = design.default

(* A slave ends on the bus that its SLAVE.BUS names and on no other, once; *)
(* a master on that of its MASTER.BUS, or on the default bus.              *)
OnItsBus == OneBusPerName /\
 ( pc = "done" => \A c \in Comps : \A b \in DOMAIN buses :
    LET comp  == design.comps[c]
        count(list) == Cardinality({i \in DOMAIN list : list[i] = c})
        named(k) == comp.pieces[k].kind # "none" /\ comp.pieces[k].name = buses[b].name
        default  == b = 1 /\ design.default \in {buses[b].name, NoName}
    IN  /\ count(buses[b].slaves) = IF comp.slave /\ named("SLAVE") THEN 1 ELSE 0
        /\ count(buses[b].masters) =
             IF comp.master /\ (named("MASTER") \/ (comp.pieces["MASTER"].kind = "none" /\ default))
               THEN 1 ELSE 0 )

(* The walks end, although each change starts that of merge() again, as    *)
(* long as the pieces of a bus agree on NULLSZ.                            *)
Terminates == <>(pc \in {"done", "fatal"})
=============================================================================
