----------------------------- MODULE AccessDeps -----------------------------
(***************************************************************************)
(* build_access_ifdefs_v (sw/ifdefs.cpp): the `define lines that turn the  *)
(* components of a design on.  A component's ACCESS tag names the macros   *)
(* to define, its DEPENDS tag the macros that must (or, with a "!", must   *)
(* not) be defined for that.  The lines come in three groups: components   *)
(* without DEPENDS, those whose dependencies have been defined above, in   *)
(* the order in which repeated passes find them, and what is left.         *)
(*                                                                         *)
(* What the Verilog preprocessor then makes of the lines, in the order     *)
(* written, is Preprocess.  The user may comment out some of them: that is *)
(* how components are turned off after the design has been built.          *)
(***************************************************************************)
EXTENDS Integers, SequencesExt

CONSTANTS
  Macro,      \* the words of ACCESS and DEPENDS tags
  Within,     \* the pairs <<m, n>> where the text of m is part of that of n
  Designs     \* the designs: sets of components

(* A literal of DEPENDS.                                                   *)
Literal == [neg : BOOLEAN, macro : Macro]

(* periph: isperipheral(); depends: there is a DEPENDS tag, deps has its   *)
(* words.  Components without an ACCESS tag are left out here.             *)
Component == [periph : BOOLEAN, depends : BOOLEAN,
              access : Seq(Macro), deps : Seq(Literal)]

(* The `define lines of a component, and the `ifdef or `ifndef lines that  *)
(* they stand between: one for each literal.                               *)
Block == [guards : Seq(Literal), macros : Seq(Macro)]

ASSUME MacroAssumption == IsFiniteSet(Macro)
ASSUME DesignsAssumption ==
  \A d \in Designs :
    IsFiniteSet(d) /\ \A c \in d : c \in Component /\ (~c.depends => c.deps = <<>>)

ASSUME WithinAssumption ==
  Within \subseteq Macro \X Macro /\ \A m \in Macro : <<m, m>> \in Within

VARIABLES
  design,     \* the design
  pc,         \* "independent", "passes", "unmet" or "done"
  todo,       \* the components the first two loops have not looked at
  dephash,    \* the components with a DEPENDS tag not yet defined, in the
              \* order in which the hash table is walked
  kvpair,     \* the place in dephash of the pass that is under way
  again,      \* ~done: the pass has defined something new
  already_defined,
  text        \* the blocks written so far

vars == <<design, pc, todo, dephash, kvpair, again, already_defined, text>>

(* strstr(): the macro, or one that its text is part of, has been defined. *)
AlreadyDefined(m, defined) == \E n \in defined : <<m, n>> \in Within

Guarded_NoIfdefs(c, macros) == [guards |-> <<>>, macros |-> macros]   \* mutant

(* A component without a DEPENDS tag has no literals.                      *)
Guarded(c, macros) == [guards |-> c.deps, macros |-> macros]
-----------------------------------------------------------------------------
Init ==
  /\ design \in Designs
  /\ pc = "independent"
  /\ todo = design
  /\ dephash = <<>> /\ kvpair = 1 /\ again = FALSE
  /\ already_defined = {}
  /\ text = <<>>

(* "First, the independent access fields for any bus masters ... And then  *)
(* for the independent peripherals"                                        *)
Independent ==
  /\ pc = "independent"
  /\ \E c \in todo :
       /\ c.periph => \A d \in todo : d.periph
       /\ todo' = todo \ {c}
       /\ IF c.depends
            THEN UNCHANGED <<already_defined, text>>
            ELSE /\ text' = Append(text, Guarded(c, c.access))
                 /\ already_defined' = already_defined \cup ToSet(c.access)
  /\ UNCHANGED <<design, pc, dephash, kvpair, again>>

(* The others have gone into dephash: it has an order, whatever it is.     *)
StartPasses ==
  /\ pc = "independent" /\ todo = {}
  /\ dephash' \in SetToSeqs({c \in design : c.depends})
  /\ pc' = IF dephash' = <<>> THEN "done" ELSE "passes"
  /\ UNCHANGED <<design, todo, kvpair, again, already_defined, text>>

Met_FirstOnly(c) ==                                       \* mutant
  c.deps # <<>> => AlreadyDefined(c.deps[1].macro, already_defined)

Met(c) ==
  \A i \in DOMAIN c.deps : AlreadyDefined(c.deps[i].macro, already_defined)

(* The macros of a component that are not there yet.                       *)
NewMacros(c) ==
  LET new[n \in 0..Len(c.access)] ==
        IF n = 0 THEN <<>>
        ELSE IF AlreadyDefined(c.access[n], already_defined \cup ToSet(new[n-1]))
          THEN new[n-1]
          ELSE Append(new[n-1], c.access[n])
  IN  new[Len(c.access)]

(* The walk goes on with "kvpair = begin()" and then the "kvpair++" of the *)
(* loop: with the second of the components that are left.                  *)
AfterErase == 2

(* A component whose dependencies have been named above is written under   *)
(* an `ifdef or `ifndef for each, and leaves the table.                    *)
DefineMet ==
  /\ pc = "passes" /\ kvpair <= Len(dephash)
  /\ LET c == dephash[kvpair]
         new == NewMacros(c)
     IN  /\ Met(c)
         /\ text' = Append(text, Guarded(c, new))
         /\ already_defined' = already_defined \cup ToSet(new)
         /\ again' = (again \/ new # <<>>)
  /\ dephash' = RemoveAt(dephash, kvpair)
  /\ kvpair' = AfterErase
  /\ UNCHANGED <<design, pc, todo>>

SkipUnmet_TryAgain ==                                     \* mutant
  /\ pc = "passes" /\ kvpair <= Len(dephash)
  /\ ~Met(dephash[kvpair])
  /\ kvpair' = kvpair + 1
  /\ again' = TRUE
  /\ UNCHANGED <<design, pc, todo, dephash, already_defined, text>>

SkipUnmet ==
  /\ pc = "passes" /\ kvpair <= Len(dephash)
  /\ ~Met(dephash[kvpair])
  /\ kvpair' = kvpair + 1
  /\ UNCHANGED <<design, pc, todo, dephash, again, already_defined, text>>

(* A pass that has defined something is followed by another.               *)
EndPass ==
  /\ pc = "passes" /\ kvpair > Len(dephash)
  /\ pc' = CASE dephash = <<>> -> "done"
             [] dephash # <<>> /\ again -> "passes"
             [] dephash # <<>> /\ ~again -> "unmet"
  /\ kvpair' = 1 /\ again' = FALSE
  /\ UNCHANGED <<design, todo, dephash, already_defined, text>>

(* "The following macros have unmet dependencies.  They are listed here    *)
(* for reference, but their dependencies cannot be met."                   *)
ListUnmet ==
  /\ pc = "unmet" /\ kvpair <= Len(dephash)
  /\ LET c == dephash[kvpair] IN text' = Append(text, Guarded(c, c.access))
  /\ kvpair' = kvpair + 1
  /\ UNCHANGED <<design, pc, todo, dephash, again, already_defined>>

Finish ==
  /\ pc = "unmet" /\ kvpair > Len(dephash)
  /\ pc' = "done"
  /\ UNCHANGED <<design, todo, dephash, kvpair, again, already_defined, text>>

Next ==
  \/ Independent \/ StartPasses \/ DefineMet \/ SkipUnmet \/ EndPass
  \/ ListUnmet \/ Finish

Spec == Init /\ [][Next]_vars

(* build_access_ifdefs_v is one function call: it runs on until it returns.*)
FairSpec == Spec /\ WF_vars(Next)
-----------------------------------------------------------------------------
Finished == pc = "done"

(* Every variable has its type: the walk never passes the end of the table.*)
TypeOK ==
  /\ design \in Designs
  /\ pc \in {"independent", "passes", "unmet", "done"}
  /\ todo \subseteq design
  /\ dephash \in Seq(design)
  /\ kvpair \in 1..(Len(dephash) + 1) \cup {2} /\ again \in BOOLEAN
  /\ already_defined \subseteq Macro
  /\ text \in Seq(Block)

Holds(literals, on) ==
  \A i \in DOMAIN literals : literals[i].neg <=> literals[i].macro \notin on

(* The macros that are defined after the blocks, the lines that define     *)
(* those of off commented out.                                             *)
Preprocess(blocks, off) ==
  LET on[n \in 0..Len(blocks)] ==
        IF n = 0 THEN {}
        ELSE IF Holds(blocks[n].guards, on[n-1])
          THEN on[n-1] \cup (ToSet(blocks[n].macros) \ off)
          ELSE on[n-1]
  IN  on[Len(blocks)]

(* The macros that the tags call for, those of off turned off: the least   *)
(* set with the macros of each component whose dependencies it has.        *)
CalledFor(off) ==
  LET have[n \in 0..Cardinality(Macro)] ==
        IF n = 0 THEN {}
        ELSE {m \in Macro \ off :
                \E c \in design : m \in ToSet(c.access) /\ Holds(c.deps, have[n-1])}
  IN  have[Cardinality(Macro)]

(* Designs without negative dependencies, without an empty ACCESS tag or   *)
(* two components of one ACCESS, and without a macro whose text is part of *)
(* another's.                                                              *)
Plain ==
  /\ \A c \in design : c.access # <<>> /\ \A i \in DOMAIN c.deps : ~c.deps[i].neg
  /\ \A c, d \in design : ToSet(c.access) \cap ToSet(d.access) # {} => c = d
  /\ \A m, n \in UNION {ToSet(c.access) : c \in design} : <<m, n>> \in Within => m = n

(* In the order they are written in, and whatever the user turns off, the  *)
(* lines define exactly what the tags call for: whatever order the tables  *)
(* are walked in, every macro comes after the ones it depends upon.        *)
DefinesWhatTagsCallFor ==
  Finished /\ Plain =>
    \A off \in SUBSET Macro : Preprocess(text, off) = CalledFor(off)

(* "... with the @ACCESS being defined only if all of the ifdef's are      *)
(* true" (ifdefs.cpp:154): no macro is defined for which no component of   *)
(* the design has its positive dependencies, in any design.                *)
OnlyIfDependenciesHold ==
  Finished =>
    \A off \in SUBSET Macro :
      LET on == Preprocess(text, off)
      IN  \A m \in on : \E c \in design :
            /\ m \in ToSet(c.access)
            /\ \A i \in DOMAIN c.deps : ~c.deps[i].neg => c.deps[i].macro \in on

(* The passes end, however the components depend upon each other.          *)
Terminates == <>Finished
=============================================================================
