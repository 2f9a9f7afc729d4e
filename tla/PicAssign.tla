------------------------------ MODULE PicAssign -----------------------------
(***************************************************************************)
(* assign_interrupts (sw/autofpga.cpp): interrupt lines are handed to the  *)
(* interrupt controllers they name, and given positions in the vectors of  *)
(* these controllers.  A line that names its position (INT.<line>.ID) gets *)
(* it as it is read; the others wait in the list of the controller for     *)
(* assignids(), which fills the positions that are left.                   *)
(*                                                                         *)
(* Controllers, components and the lines of a component are kept in hash   *)
(* tables (std::unordered_map): they are visited in no particular order.   *)
(***************************************************************************)
EXTENDS Integers, SequencesExt

CONSTANTS
  Line,       \* the interrupt lines (the INT.<name> maps)
  PicName,    \* the names of controllers, and other words found in PIC tags
  Designs,    \* the designs: [pics, comps, id, tags]
  NoLine      \* the line at a position that is wired to none

(* A controller: its PREFIX, its PIC.BUS and its PIC.MAX.                  *)
Pic == [name : PicName, bus : PicName, max : Nat]

(* A component: its lines, and whether INT.INTLIST lists them.             *)
Component == [lines : Seq(Line), listed : BOOLEAN]

(* id[l]: INT.<l>.ID, an int that add() takes as an unsigned: a number     *)
(* below 0 stands for no ID, since an ID below 0 is out of any bounds.     *)
(* tags[l]: the words of INT.<l>.PIC; <<>> for a line that is not found.   *)
ASSUME DesignsAssumption ==
  \A d \in Designs :
    /\ \A p \in d.pics : p \in Pic
    /\ \A p, q \in d.pics : p.name = q.name => p = q
    /\ \A c \in d.comps : c \in Component
    /\ IsFiniteSet(d.pics)
    /\ d.id \in [Line -> Int]
    /\ d.tags \in [Line -> Seq(PicName)]

ASSUME NoLineAssumption == NoLine \notin Line

VARIABLES
  design,     \* the design
  pc,         \* "gather", "add", "assign", "write" or "done"
  piclist,    \* the controllers, in the order they were found
  todo,       \* the components not yet visited
  queue,      \* the lines of the current component not yet visited
  line,       \* the current line, and
  toks,       \* the words of its PIC tag not yet looked up
  ilist,      \* ilist[pid]: the lines controller pid knows, [line, id]
  alist,      \* alist[pid][id]: the place in ilist of the line with that
              \* position, or 0 (a null pointer)
  nassigned, nallocated,
  picid, iid, \* the loops over the controllers and their positions
  ident       \* ident[l][name]: <name>.ID in the map of line l

vars == <<design, pc, piclist, todo, queue, line, toks, ilist, alist,
          nassigned, nallocated, picid, iid, ident>>
picvars == <<ilist, alist, nassigned, nallocated>>
visitvars == <<todo, queue, line>>
assignvars == <<picid, iid, ident>>

NoId == -1
Pids == 1..Len(piclist)
Ids(pid) == 0..(piclist[pid].max - 1)
-----------------------------------------------------------------------------
Init ==
  /\ design \in Designs
  /\ pc = "gather"
  /\ piclist = <<>>
  /\ todo = design.comps /\ queue = <<>>
  /\ line = NoLine /\ toks = <<>>
  /\ ilist = <<>> /\ alist = <<>> /\ nassigned = <<>> /\ nallocated = <<>>
  /\ picid = 1 /\ iid = 0
  /\ ident = [l \in Line |-> [p \in PicName |-> NoId]]

(* "First step, gather all of our PIC's together"                          *)
GatherPics ==
  /\ pc = "gather"
  /\ piclist' \in SetToSeqs(design.pics)
  /\ ilist' = [pid \in 1..Len(piclist') |-> <<>>]
  /\ alist' = [pid \in 1..Len(piclist') |-> [id \in 0..(piclist'[pid].max - 1) |-> 0]]
  /\ nassigned' = [pid \in 1..Len(piclist') |-> 0]
  /\ nallocated' = nassigned'
  /\ pc' = "add"
  /\ UNCHANGED <<design, visitvars, toks, assignvars>>

(* Visit a component: its lines in the order of INTLIST, or in any order.  *)
NextComponent ==
  /\ pc = "add" /\ toks = <<>> /\ queue = <<>>
  /\ \E c \in todo :
       /\ todo' = todo \ {c}
       /\ queue' \in IF c.listed THEN {c.lines} ELSE SetToSeqs(ToSet(c.lines))
  /\ UNCHANGED <<design, pc, piclist, line, toks, picvars, assignvars>>

(* assign_int_to_pics(): take the PIC tag of the next line apart.          *)
NextLine ==
  /\ pc = "add" /\ toks = <<>> /\ queue # <<>>
  /\ line' = Head(queue)
  /\ queue' = Tail(queue)
  /\ toks' = design.tags[line']
  /\ UNCHANGED <<design, pc, piclist, todo, picvars, assignvars>>

(* "PIC NOT FOUND"                                                         *)
PicNotFound ==
  /\ pc = "add" /\ toks # <<>>
  /\ \A pid \in Pids : piclist[pid].name # Head(toks)
  /\ toks' = Tail(toks)
  /\ UNCHANGED <<design, pc, piclist, visitvars, picvars, assignvars>>

HasId(l) == design.id[l] >= 0

(* A new entry of the list, at a position of its own.                      *)
Enter(pid, id) ==
  /\ ilist' = [ilist EXCEPT ![pid] = Append(@, [line |-> line, id |-> id])]
  /\ alist' = [alist EXCEPT ![pid][id] = Len(ilist[pid]) + 1]
  /\ nassigned' = [nassigned EXCEPT ![pid] = @ + 1]
  /\ nallocated' = [nallocated EXCEPT ![pid] = @ + 1]

(* A new entry that waits for a position: its id is set to MAX.            *)
Wait(pid) ==
  /\ ilist' = [ilist EXCEPT ![pid] =
                 Append(@, [line |-> line, id |-> piclist[pid].max])]
  /\ nallocated' = [nallocated EXCEPT ![pid] = @ + 1]
  /\ UNCHANGED <<alist, nassigned>>

(* PICINFO::add() for a line without an ID: it is put on the list, unless  *)
(* the controller knows of as many lines as it has positions.              *)
AddUnassigned_KeepsOneFree(pid) ==                        \* mutant
  IF nallocated[pid] + 1 >= piclist[pid].max THEN UNCHANGED picvars ELSE Wait(pid)

AddUnassigned(pid) ==
  IF nallocated[pid] >= piclist[pid].max THEN UNCHANGED picvars ELSE Wait(pid)

(* PICINFO::add() for a line with an ID: dropped if the ID is out of       *)
(* bounds, the vector is full or the position is taken.                    *)
AddWithId_LastWins(pid, id) ==                            \* mutant
  IF id >= piclist[pid].max \/ nassigned[pid] + 1 > piclist[pid].max
    THEN UNCHANGED picvars ELSE Enter(pid, id)

AddWithId(pid, id) ==
  IF \/ id >= piclist[pid].max
     \/ nassigned[pid] + 1 > piclist[pid].max
     \/ alist[pid][id] # 0
    THEN UNCHANGED picvars ELSE Enter(pid, id)

(* The current line is added to the controller the next word names.        *)
AddToPic ==
  /\ pc = "add" /\ toks # <<>>
  /\ \E pid \in Pids :
       /\ piclist[pid].name = Head(toks)
       /\ IF HasId(line) THEN AddWithId(pid, design.id[line])
                         ELSE AddUnassigned(pid)
  /\ toks' = Tail(toks)
  /\ UNCHANGED <<design, pc, piclist, visitvars, assignvars>>

(* "Now, let's assign everything that doesn't yet have any definitions"    *)
StartAssign ==
  /\ pc = "add" /\ toks = <<>> /\ queue = <<>> /\ todo = {}
  /\ pc' = IF piclist = <<>> THEN "done" ELSE "assign"
  /\ UNCHANGED <<design, piclist, visitvars, toks, picvars, assignvars>>

Unassigned(pid) ==
  {j \in 1..Len(ilist[pid]) : ilist[pid][j].id >= piclist[pid].max}

Place(uid) ==
  /\ ilist' = [ilist EXCEPT ![picid][uid].id = iid]
  /\ alist' = [alist EXCEPT ![picid][iid] = uid]
  /\ nassigned' = [nassigned EXCEPT ![picid] = @ + 1]

(* The first line that waits is given the position iid, if that is free.   *)
FillPosition_OverTaken ==                                 \* mutant
  IF Unassigned(picid) # {}
    THEN \E uid \in Unassigned(picid) : Place(uid)
    ELSE UNCHANGED <<ilist, alist, nassigned>>

FillPosition ==
  IF alist[picid][iid] = 0 /\ Unassigned(picid) # {}
    THEN \E uid \in Unassigned(picid) :
           (\A j \in Unassigned(picid) : uid <= j) /\ Place(uid)
    ELSE UNCHANGED <<ilist, alist, nassigned>>

(* assignids(): one turn of its loop over the positions of a controller.   *)
AssignId ==
  /\ pc = "assign" /\ iid < piclist[picid].max
  /\ FillPosition
  /\ iid' = iid + 1
  /\ UNCHANGED <<design, pc, piclist, visitvars, toks, nallocated, picid, ident>>

(* The loop over the positions is over.                                    *)
AllIdsTried ==
  /\ pc = "assign" /\ iid = piclist[picid].max
  /\ pc' = "write"
  /\ iid' = 0
  /\ UNCHANGED <<design, piclist, visitvars, toks, picvars, picid, ident>>

(* "Write the interrupt assignments back into the map": one turn of the    *)
(* loop over ilist.  setvalue() leaves a number that is already there      *)
(* alone: a line that is on the list twice keeps its first ID.             *)
SetValue_ListPosition(pid, j) ==                          \* mutant
  LET l == ilist[pid][j].line  n == piclist[pid].name
  IN  ident' = [ident EXCEPT ![l][n] = IF @ = NoId THEN j - 1 ELSE @]

SetValue(pid, j) ==
  LET l == ilist[pid][j].line  n == piclist[pid].name
  IN  ident' = [ident EXCEPT ![l][n] = IF @ = NoId THEN ilist[pid][j].id ELSE @]

WriteBack ==
  /\ pc = "write" /\ iid < Len(ilist[picid])
  /\ IF ilist[picid][iid + 1].id < piclist[picid].max
       THEN SetValue(picid, iid + 1)
       ELSE UNCHANGED ident
  /\ iid' = iid + 1
  /\ UNCHANGED <<design, pc, piclist, visitvars, toks, picvars, picid>>

(* On to the next controller.                                              *)
NextPic ==
  /\ pc = "write" /\ iid = Len(ilist[picid])
  /\ iid' = 0
  /\ picid' = picid + 1
  /\ pc' = IF picid = Len(piclist) THEN "done" ELSE "assign"
  /\ UNCHANGED <<design, piclist, visitvars, toks, picvars, ident>>

Next ==
  \/ GatherPics \/ NextComponent \/ NextLine \/ PicNotFound \/ AddToPic
  \/ StartAssign \/ AssignId \/ AllIdsTried \/ WriteBack \/ NextPic

Spec == Init /\ [][Next]_vars

(* assign_interrupts is one function call: it runs on until it returns.    *)
FairSpec == Spec /\ WF_vars(Next)
-----------------------------------------------------------------------------
Finished == pc = "done"

Entry == [line : Line, id : Nat]

PicsOK ==
  /\ ilist \in [Pids -> Seq(Entry)]
  /\ DOMAIN alist = Pids
  /\ \A pid \in Pids : alist[pid] \in [Ids(pid) -> 0..Len(ilist[pid])]
  /\ nassigned \in [Pids -> Nat]
  /\ nallocated \in [Pids -> Nat]

(* Every variable has its type: no vector is written beyond its end.       *)
TypeOK ==
  /\ design \in Designs
  /\ pc \in {"gather", "add", "assign", "write", "done"}
  /\ piclist \in Seq(design.pics)
  /\ todo \subseteq design.comps
  /\ queue \in Seq(Line) /\ line \in Line \cup {NoLine} /\ toks \in Seq(PicName)
  /\ (toks # <<>> => line \in Line)
  /\ PicsOK
  /\ picid \in Nat \ {0} /\ iid \in Nat
  /\ (pc \in {"gather", "add"} => picid = 1 /\ iid = 0)
  /\ (pc = "assign" => picid \in Pids /\ iid <= piclist[picid].max)
  /\ (pc = "write" => picid \in Pids /\ iid <= Len(ilist[picid]))
  /\ ident \in [Line -> [PicName -> Nat \cup {NoId}]]

(* The vector and the list of a controller agree: the line at position id  *)
(* knows it is there, and no other line believes it has that position.     *)
(* main.v is wired from the vector, the other files from the lines' IDs.   *)
VectorMatchesList ==
  \A pid \in Pids :
    /\ \A id \in Ids(pid) :
         alist[pid][id] # 0 => ilist[pid][alist[pid][id]].id = id
    /\ \A j \in 1..Len(ilist[pid]) :
         ilist[pid][j].id < piclist[pid].max => alist[pid][ilist[pid][j].id] = j

(* i_nassigned counts the positions that are filled, so that the test for  *)
(* a full vector (autofpga.cpp:202) is right, and no count passes PIC.MAX. *)
CountsFilled ==
  \A pid \in Pids :
    nassigned[pid] = Cardinality({id \in Ids(pid) : alist[pid][id] # 0})

(* The words that ask a controller for a position, wherever they stand:    *)
(* word k of the tag of line i of component c.                             *)
MaxWords == 4

Requests(p) ==
  {r \in design.comps \X (1..MaxWords) \X (1..MaxWords) :
     /\ r[2] \in DOMAIN r[1].lines
     /\ r[3] \in DOMAIN design.tags[r[1].lines[r[2]]]
     /\ design.tags[r[1].lines[r[2]]][r[3]] = p.name}

LineOf(r) == r[1].lines[r[2]]

WaitingFor(p) == {r \in Requests(p) : ~HasId(LineOf(r))}

FixedIn(p) == {design.id[LineOf(r)] : r \in {q \in Requests(p) :
                 HasId(LineOf(q)) /\ design.id[LineOf(q)] < p.max}}

(* Whatever the order in which the hash tables are visited: a position     *)
(* that some line names goes to a line that names it ...                   *)
NamedIdsHonoured ==
  Finished =>
    \A pid \in Pids : \A id \in FixedIn(piclist[pid]) :
      alist[pid][id] # 0 /\ design.id[ilist[pid][alist[pid][id]].line] = id

(* ... and as many positions are filled as there are lines to fill them:   *)
(* a line turned away because the list was full would have found no place. *)
FilledInAnyOrder ==
  Finished =>
    \A pid \in Pids :
      LET p == piclist[pid]
          asked == Cardinality(FixedIn(p)) + Cardinality(WaitingFor(p))
      IN nassigned[pid] = IF asked < p.max THEN asked ELSE p.max

(* The assignment ends, and has served the lines as well as it could.      *)
LinesServed == <>(Finished /\ NamedIdsHonoured /\ FilledInAnyOrder)

(* The ID written into the map of a line, from which the user's own files  *)
(* are filled in, is a position of the vector that is wired to that line.  *)
IdentIsWired ==
  Finished =>
    \A pid \in Pids, l \in Line :
      LET id == ident[l][piclist[pid].name]
      IN /\ id # NoId => /\ id \in Ids(pid) /\ alist[pid][id] # 0
                        /\ ilist[pid][alist[pid][id]].line = l
         /\ id = NoId => \A i \in Ids(pid) :
              alist[pid][i] = 0 \/ ilist[pid][alist[pid][i]].line # l

(* The assignment implements the abstract interrupt vectors: positions are *)
(* given once, to one line, and never against the ID the line names.       *)
Positions == UNION {{p.name} \X (0..(p.max - 1)) : p \in design.pics}

PidOf(n) == CHOOSE pid \in Pids : piclist[pid].name = n

Vector == [s \in Positions |->
  IF piclist = <<>> \/ alist[PidOf(s[1])][s[2]] = 0 THEN NoLine
  ELSE ilist[PidOf(s[1])][alist[PidOf(s[1])][s[2]]].line]

Vec == INSTANCE IntVector WITH vector <- Vector, wanted <- design.id,
                                Free <- NoLine

ImplementsIntVector == Vec!IVSpec
=============================================================================
