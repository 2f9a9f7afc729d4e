-------------------------------- MODULE Clocks --------------------------------
(***************************************************************************)
(* find_clocks (sw/clockinfo.cpp): the list of the clocks of a design.     *)
(*                                                                         *)
(* Every component may name clocks, by lists that run in parallel: names,  *)
(* wires, top level ports, simulation classes, resets and frequencies.     *)
(* What several components say of one clock is merged, the default clock   *)
(* is added, and then the CLOCK tag of every component that names a single *)
(* clock is made to point to the map of that clock.                        *)
(*                                                                         *)
(* Components are visited in the order of a hash table: a design is a      *)
(* sequence of components, and the runs choose it.                         *)
(***************************************************************************)
EXTENDS Integers, SequencesExt

CONSTANTS
  ClockNames,
  NoName,            \* NULL
  Clk,               \* "clk", the name of the default clock
  Default(_),        \* the wire of a clock that is given none: "i_" and its name
  PicosPerSecond,    \* PICOSECONDS_PER_SECOND
  DefaultFrequency,  \* 100 MHz
  Designs            \* the designs: sequences of components

ASSUME ClkAssumption == Clk \in ClockNames /\ NoName \notin ClockNames
ASSUME FrequencyAssumption ==
  /\ {PicosPerSecond, DefaultFrequency} \subseteq Nat \ {0}
  /\ PicosPerSecond \div DefaultFrequency > 2
(* The CLOCK tag of a component: name is a list, empty where there is      *)
(* none; number is a FREQUENCY that is an integer, freq one that is a list.*)
ASSUME ClockTagAssumption ==
  \A d \in Designs :
    /\ d \in Seq(Range(d))
    /\ \A c \in DOMAIN d :
         /\ d[c].name \in Seq(ClockNames)
         /\ d[c].freq \in Seq(0..PicosPerSecond) /\ d[c].number \in 0..PicosPerSecond

VARIABLES
  design,
  pc,        \* "list", "expand" or "clocks": the list is made
  comp,      \* the component looked at
  token,     \* the place in its list of names
  cklist,
  clockOf,   \* the clock whose map is now the CLOCK of a component, or 0
  conflicts  \* the reported conflicts: <<clock, tag>>

clockVars == <<design, pc, comp, token, cklist, clockOf, conflicts>>

Tag == {"wire", "top", "class", "reset"}
Comps == DOMAIN design
None == <<>>                 \* NULL, for a tag: a tag is <<value>> or None
UnknownPS == 2
-----------------------------------------------------------------------------
(* CLOCKINFO: m_interval_ps, and the FREQUENCY of its map (0 if it has     *)
(* none), which setvalue() never replaces.                                 *)
NewClock == [name |-> NoName, tag |-> [t \in Tag |-> None], ps |-> UnknownPS, frequency |-> 0]

SetFrequency(ck, hz) ==
  IF hz = 0 THEN ck
  ELSE [ck EXCEPT !.ps = PicosPerSecond \div hz,
                  !.frequency = IF @ = 0 THEN hz ELSE @]

SetTags(ck, given) ==
  [ck EXCEPT !.tag = [t \in Tag |-> IF @[t] = None THEN given[t] ELSE @[t]]]

Against(ck, given) == {t \in Tag : None \notin {ck.tag[t], given[t]} /\ ck.tag[t] # given[t]}

FindClock(name) == SelectInSeq(cklist, LAMBDA ck : ck.name = name)

(* What the k-th token of each list of a component says.                   *)
Token(list, k) == IF k \in DOMAIN list THEN <<list[k]>> ELSE None
Given(c, k) == [t \in Tag |-> Token(design[c][t], k)]
Hertz(c, k) ==
  IF k \in DOMAIN design[c].freq THEN design[c].freq[k]
  ELSE IF k = 1 /\ design[c].freq = <<>> THEN design[c].number ELSE 0

ClockInit ==
  /\ design \in Designs
  /\ pc = "list" /\ comp = 1 /\ token = 1
  /\ cklist = <<>>
  /\ clockOf = [c \in Comps |-> 0]
  /\ conflicts = {}

Naming == pc = "list" /\ comp \in Comps /\ token \in DOMAIN design[comp].name
Named == design[comp].name[token]

(* A name that is already in the list: its conflicts are reported, but not *)
(* one of the frequency.                                                   *)
UpdateClock ==
  /\ Naming /\ FindClock(Named) # 0
  /\ LET i == FindClock(Named)
         ck == SetTags(cklist[i], Given(comp, token))
     IN  /\ cklist' = [cklist EXCEPT ![i] = IF ck.ps = UnknownPS THEN SetFrequency(ck, Hertz(comp, token))
                                                                 ELSE ck]
         /\ conflicts' = conflicts \cup ({i} \X Against(cklist[i], Given(comp, token)))
  /\ token' = token + 1
  /\ UNCHANGED <<design, pc, comp, clockOf>>

AddClock_NoWire ==                                                \* mutant
  /\ Naming /\ FindClock(Named) = 0
  /\ cklist' = Append(cklist, SetFrequency(SetTags([NewClock EXCEPT !.name = Named], Given(comp, token)),
                                           Hertz(comp, token)))
  /\ token' = token + 1
  /\ UNCHANGED <<design, pc, comp, clockOf, conflicts>>

AddClock ==
  /\ Naming /\ FindClock(Named) = 0
  /\ LET given == Given(comp, token)
         wired == [given EXCEPT !["wire"] = IF @ = None THEN <<Default(Named)>> ELSE @]
     IN  cklist' = Append(cklist, SetFrequency(SetTags([NewClock EXCEPT !.name = Named], wired),
                                               Hertz(comp, token)))
  /\ token' = token + 1
  /\ UNCHANGED <<design, pc, comp, clockOf, conflicts>>

NextComp ==
  /\ pc = "list" /\ comp \in Comps /\ token \notin DOMAIN design[comp].name
  /\ comp' = comp + 1 /\ token' = 1
  /\ UNCHANGED <<design, pc, cklist, clockOf, conflicts>>

(* Without a clock "clk" one is pushed to the back of the list, but set()  *)
(* is called for the first of the list.                                    *)
AddDefault ==
  /\ pc = "list" /\ comp \notin Comps
  /\ LET set(ck) == SetFrequency([SetTags(ck, [t \in Tag |-> IF t = "wire" THEN <<Default(Clk)>> ELSE None])
                                    EXCEPT !.name = IF @ = NoName THEN Clk ELSE @], DefaultFrequency)
     IN  cklist' = IF FindClock(Clk) # 0 THEN cklist
                   ELSE [Append(cklist, NewClock) EXCEPT ![1] = set(@)]
  /\ pc' = "expand" /\ comp' = 1
  /\ UNCHANGED <<design, token, clockOf, conflicts>>

(* expand_clock: a list of several names is the name of no clock.          *)
ExpandClock ==
  /\ pc = "expand" /\ comp \in Comps
  /\ clockOf' = [clockOf EXCEPT ![comp] = IF Len(design[comp].name) = 1 THEN FindClock(design[comp].name[1])
                                                                        ELSE 0]
  /\ comp' = comp + 1
  /\ UNCHANGED <<design, pc, token, cklist, conflicts>>

Enumerated ==
  /\ pc = "expand" /\ comp \notin Comps
  /\ pc' = "clocks"
  /\ UNCHANGED <<design, comp, token, cklist, clockOf, conflicts>>

ClockNext == UpdateClock \/ AddClock \/ NextComp \/ AddDefault \/ ExpandClock \/ Enumerated
-----------------------------------------------------------------------------
(* Where a design speaks of a clock, in the order it is read.              *)
Mentions(n) ==
  UNION {{<<c, k>> : k \in {j \in DOMAIN design[c].name : design[c].name[j] = n}} : c \in Comps}
Before(a, b) == a[1] < b[1] \/ (a[1] = b[1] /\ a[2] < b[2])
FirstOf(S) == CHOOSE a \in S : \A b \in S \ {a} : Before(a, b)
Listed == pc \notin {"list"}

(* Two components that disagree about a clock are told so, whichever is    *)
(* read first (a disagreement about its frequency is never reported).      *)
ConflictsReported ==
  \A n \in ClockNames : \A a, b \in Mentions(n) : \A t \in Tag :
    LET x == Given(a[1], a[2])[t]
        y == Given(b[1], b[2])[t]
    IN  None \notin {x, y} /\ x # y => <<FindClock(n), t>> \in conflicts

(* Whatever the order of the components, every clock is in the list once,  *)
(* with the first wire, port, class, reset and frequency that any of them  *)
(* gives for it (its wire, the one of the first component that names it),  *)
(* and a component that names one clock sees the frequency at which the    *)
(* simulation runs that clock; disagreements are reported.  Designs that    *)
(* name clocks name "clk".                                                 *)
ClocksMerged ==
  Listed =>
    /\ \A i, j \in DOMAIN cklist : cklist[i].name = cklist[j].name => i = j
    /\ \A i \in DOMAIN cklist : Mentions(cklist[i].name) # {} =>
         LET ck == cklist[i]
             all == Mentions(ck.name)
             saying(t) == {a \in all : Given(a[1], a[2])[t] # None}
             timed == {a \in all : Hertz(a[1], a[2]) # 0}
             hz == IF timed = {} THEN 0 ELSE Hertz(FirstOf(timed)[1], FirstOf(timed)[2])
         IN  /\ \A t \in Tag \ {"wire"} :
                  ck.tag[t] = IF saying(t) = {} THEN None
                              ELSE Given(FirstOf(saying(t))[1], FirstOf(saying(t))[2])[t]
             /\ ck.tag["wire"] = IF FirstOf(all) \in saying("wire")
                                   THEN Given(FirstOf(all)[1], FirstOf(all)[2])["wire"]
                                   ELSE <<Default(ck.name)>>
             /\ ck.ps = IF hz = 0 THEN UnknownPS ELSE PicosPerSecond \div hz
    /\ pc = "clocks" => \A c \in Comps : Len(design[c].name) = 1 =>
         /\ clockOf[c] # 0 /\ cklist[clockOf[c]].name = design[c].name[1]
         /\ LET ck == cklist[clockOf[c]]
            IN  ck.frequency # 0 => ck.ps = PicosPerSecond \div ck.frequency
    /\ ConflictsReported
=============================================================================
