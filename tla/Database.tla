------------------------------- MODULE Database -------------------------------
(***************************************************************************)
(* The database of keys that autofpga builds of its data files: parsefile  *)
(* (sw/parser.cpp) reads each file and the files that it includes, and     *)
(* mergemaps, flatten and cvtintbykeylist (sw/mapdhash.cpp) merge them,    *)
(* make components inherit what they include, and convert to integers.     *)
(*                                                                         *)
(* A table of tables is a function here, from the path of each key to its  *)
(* value.  A key is <<sigil, name>>: <<"+", "K">> is the key "+K", and the *)
(* key "+", below which the contents of an included file stand, is Plus.   *)
(* The tables are walked in the order of a hash, which is left open.       *)
(***************************************************************************)
EXTENDS Integers, SequencesExt

CONSTANTS
  Projects     \* [args, text, ints]: files, their lines, keys that are integers

Tag(n) == <<"", n>>
Plus == <<"+", "">>
Appending(k) == <<"+", k[2]>>
Prefix == Tag("PREFIX")

(* A line: [op, key, val], key is a sequence of keys.  op is "=" or "+=",  *)
(* or "prefix" (val is the name of a component) or "include" (of a file).  *)
(* "/K" stands alone on its line, and is not appended to.                  *)
Names == STRING \cup {"", "PREFIX"}      \* the provers do not know that these are of STRING
Tags == {"", "/", "+"} \X Names
IsLine(l, d) ==
  /\ l.op \in {"=", "+=", "prefix", "include"}
  /\ l.op = "include" => l.val \in DOMAIN d.text
  /\ l.op = "prefix" => l.val \in Names
  /\ l.op \in {"=", "+="} =>
       /\ l.key \in Seq({"", "/"} \X (Names \ {""})) /\ l.key # <<>>
       /\ \A i \in DOMAIN l.key : l.key[i][1] = "/" => l.op = "=" /\ Len(l.key) = 1

ASSUME LineAssumption ==
  \A d \in Projects : \A f \in DOMAIN d.text :
    d.text[f] \in Seq(Range(d.text[f])) /\ \A l \in Range(d.text[f]) : IsLine(l, d)
ASSUME ArgAssumption == \A d \in Projects : d.args \in Seq(DOMAIN d.text) /\ DOMAIN d.ints \subseteq Nat

VARIABLES
  project,
  phase,     \* "args", "parse", "flatten", "ints", "done", or "abort"
  arg,       \* the argument of main() that is read
  stack,     \* the files that are read: [file, line, dev, map], the last on top
  master,
  left,      \* the keys that flatten() has still to come to
  parsed     \* history: master before flatten()

dbvars == <<project, phase, arg, stack, master, left, parsed>>
-----------------------------------------------------------------------------
(* Tables.                                                                 *)
Map == [typ |-> "map", val |-> <<>>]
Str(s) == [typ |-> "str", val |-> s]
IsMap(t, p) == p \in DOMAIN t /\ t[p].typ = "map"
IsLeaf(t, p) == p \in DOMAIN t /\ t[p].typ # "map"
Heads(p) == {SubSeq(p, 1, k) : k \in 1..Len(p) - 1}
Twin(p) == [p EXCEPT ![Len(p)] = Appending(@)]       \* the path of "+K" of that of "K"
Plain(p) == [p EXCEPT ![Len(p)] = Tag(@[2])]
IsAppend(t, p) == Last(p)[1] = "+" /\ Last(p) # Plus /\ IsLeaf(t, p)
Below(t, p) == {q \in DOMAIN t : IsStrictPrefix(p, q)}
Children(t, p) == {q \in Below(t, p) : Len(q) = Len(p) + 1}
Relative(p, q) == SubSeq(q, Len(p) + 1, Len(q))
t ++ u == [p \in DOMAIN t \cup DOMAIN u |-> IF p \in DOMAIN t THEN t[p] ELSE u[p]]
Single(p, v) == [q \in {p} |-> v]
Concat(v, w) == IF v.typ = "map" THEN v ELSE [v EXCEPT !.val = @ \o w.val]

(* addtomap: the maps on the way are made if they are missing, and take    *)
(* the place of a "+" key of their name; a key that exists is not replaced.*)
AddToMap(t, at, key, val) ==
  LET p == at \o key
      heads == {h \in Heads(p) : Len(h) > Len(at)}
      missing == heads \ DOMAIN t
      maps == [h \in missing |-> Map]
      kept == [q \in DOMAIN t \ {Twin(h) : h \in missing} |-> t[q]]
  IN  IF \E h \in heads : IsLeaf(t, h) THEN t ELSE kept ++ maps ++ Single(p, Str(<<val>>))

(* The same of a line "KEY += val".  (Below a string the code goes on with *)
(* a key that it has freed: the runs leave that out.)                      *)
AppendToMap(t, at, key, val) ==
  LET p == at \o key
      maps == [h \in {h \in Heads(p) \ DOMAIN t : Len(h) > Len(at)} |-> Map]
      to == IF p \in DOMAIN t THEN p ELSE Twin(p)
  IN  IF to \in DOMAIN t THEN [t EXCEPT ![to] = Concat(@, Str(<<val>>))]
                         ELSE t ++ maps ++ Single(to, Str(<<val>>))

(* mergemaps: the table s is merged into t at the path at.  Where a table  *)
(* of s is new to t it is taken as it is; elsewhere "+K" is appended to K, *)
(* unless K is itself new and comes later in the table: early has these.   *)
MergeMaps_Replace(t, at, s, early) == [q \in {at \o p : p \in DOMAIN s} |-> s[Relative(at, q)]] ++ t  \* mutant
MergeMaps(t, at, s, early) ==
  LET abs(q) == at \o q
      fresh(q) == \E h \in Heads(q) : abs(h) \notin DOMAIN t
      blocked(q) == \E h \in Heads(q) : IsLeaf(t, abs(h))
      appends == {q \in DOMAIN s : IsAppend(s, q) /\ ~fresh(q) /\ ~blocked(q)}
      plain(q) == abs(Plain(q)) \in DOMAIN t \/ (Plain(q) \in DOMAIN s /\ q \notin early)
      to(q) == abs(IF plain(q) THEN Plain(q) ELSE q)
      taken == {q \in DOMAIN s \ appends : ~blocked(q)}
      merged == t ++ [p \in {abs(q) : q \in taken} |-> s[Relative(at, p)]]
  IN  [p \in DOMAIN merged \cup {to(q) : q \in appends} |->
         IF \E q \in appends : to(q) = p
           THEN LET v == s[CHOOSE q \in appends : to(q) = p]
                IN  IF p \in DOMAIN merged THEN Concat(merged[p], v) ELSE v
           ELSE merged[p]]

Early(s) == {q \in DOMAIN s : IsAppend(s, q)}
-----------------------------------------------------------------------------
Empty == [p \in {} |-> Map]
Frame(f) == [file |-> f, line |-> 1, dev |-> <<>>, map |-> Empty]

DbInit ==
  /\ project \in Projects
  /\ phase = "args" /\ arg = 1
  /\ stack = <<>>
  /\ master = Empty /\ parsed = Empty
  /\ left = {}

OpenArg ==
  /\ phase = "args" /\ arg \in DOMAIN project.args
  /\ stack' = <<Frame(project.args[arg])>>
  /\ phase' = "parse"
  /\ UNCHANGED <<project, arg, master, left, parsed>>

AtLine == phase = "parse" /\ Last(stack).line \in DOMAIN project.text[Last(stack).file]
Line == project.text[Last(stack).file][Last(stack).line]
Update(s, t, dev) == Append(Front(s), [Last(s) EXCEPT !.line = @ + 1, !.map = t, !.dev = dev])

(* PREFIX: the keys that follow it go below the component that it names.   *)
(* "NAME-CONFLICT!!", if this is the name of a key that has a text, and    *)
(* "EMPTY KEY", if it is none.                                             *)
Conflict(f) ==
  LET l == project.text[f.file][f.line]
  IN  l.op = "prefix" /\ (l.val = "" \/ IsLeaf(f.map, <<Tag(l.val)>>))

NameConflict ==
  /\ AtLine /\ Conflict(Last(stack))
  /\ phase' = "abort"
  /\ UNCHANGED <<project, arg, stack, master, left, parsed>>

ReadPrefix ==
  /\ AtLine /\ Line.op = "prefix" /\ ~Conflict(Last(stack))
  /\ LET c == <<Tag(Line.val)>>
         t == Last(stack).map
     IN  stack' = Update(stack, t ++ Single(c, Map) ++ Single(c \o <<Prefix>>, Str(<<Line.val>>)), c)
  /\ UNCHANGED <<project, phase, arg, master, left, parsed>>

ReadKey ==
  /\ AtLine /\ Line.op \in {"=", "+="}
  /\ LET top == Last(stack)
     IN  stack' = Update(stack, IF Line.op = "=" THEN AddToMap(top.map, top.dev, Line.key, Line.val)
                                ELSE AppendToMap(top.map, top.dev, Line.key, Line.val), top.dev)
  /\ UNCHANGED <<project, phase, arg, master, left, parsed>>

ReadInclude ==
  /\ AtLine /\ Line.op = "include"
  /\ stack' = Append(stack, Frame(Line.val))
  /\ UNCHANGED <<project, phase, arg, master, left, parsed>>

EndOfFile == phase = "parse" /\ Last(stack).line \notin DOMAIN project.text[Last(stack).file]

(* The included file is merged below the key "+" of what includes it.      *)
EndInclude ==
  /\ EndOfFile /\ Len(stack) > 1
  /\ LET below == Last(Front(stack))
         at == below.dev \o <<Plus>>
         s == Last(stack).map
     IN  \E early \in SUBSET Early(s) :
           stack' = Update(Front(stack), MergeMaps(below.map ++ Single(at, Map), at, s, early), below.dev)
  /\ UNCHANGED <<project, phase, arg, master, left, parsed>>

EndArg ==
  /\ EndOfFile /\ Len(stack) = 1
  /\ \E early \in SUBSET Early(stack[1].map) : master' = MergeMaps(master, <<>>, stack[1].map, early)
  /\ stack' = <<>> /\ arg' = arg + 1 /\ phase' = "args"
  /\ UNCHANGED <<project, left, parsed>>
-----------------------------------------------------------------------------
(* flatten(): of each "+" what is below it first.                          *)
StartFlatten ==
  /\ phase = "args" /\ arg \notin DOMAIN project.args
  /\ parsed' = master
  /\ left' = {p \in DOMAIN master : Last(p) = Plus \/ Last(p)[1] = "/"}
  /\ phase' = "flatten"
  /\ UNCHANGED <<project, arg, stack, master>>

(* flatten_maps: a key that the node does not have is copied, with all of  *)
(* its table; a key that it has is kept.                                   *)
Inherit(t, node, sub) ==
  LET missing(r) == /\ node \o r \notin DOMAIN t
                    /\ \A h \in Heads(r) : ~IsLeaf(t, node \o h)
      copied == {r \in {Relative(sub, q) : q \in Below(t, sub)} : missing(r)}
  IN  t ++ [p \in {node \o r : r \in copied} |-> t[sub \o Relative(node, p)]]

Visited(p) == left \ {p}
Deepest_Any(p) == TRUE                                            \* mutant
Deepest(p) == ~\E q \in left : IsStrictPrefix(p, q)

(* assert(kvnxt == kvpair->second.u.m_m->end()): one table below each "+". *)
(* The same table also becomes the key "" beside the "+", in which nothing *)
(* is ever looked up: it is left out.                                      *)
FlattenPlus == \E p \in left :
  /\ phase = "flatten" /\ Last(p) = Plus /\ Deepest(p)
  /\ \/ /\ \E child \in Children(master, p) :
             /\ Children(master, p) = {child}
             /\ master' = Inherit(master, Front(p), IF IsMap(master, child) THEN child ELSE p)
        /\ UNCHANGED phase
     \/ /\ \A child \in Children(master, p) : Children(master, p) # {child}
        /\ phase' = "abort" /\ UNCHANGED master
  /\ left' = Visited(p)
  /\ UNCHANGED <<project, arg, stack, parsed>>

(* "/K" in a component is the key K of all, unless there is one.           *)
FlattenGlobal == \E p \in left :
  /\ phase = "flatten" /\ Last(p)[1] = "/"
  /\ master' = master ++ Single(<<Tag(Last(p)[2])>>, master[p])
  /\ left' = Visited(p)
  /\ UNCHANGED <<project, phase, arg, stack, parsed>>

EndFlatten ==
  /\ phase = "flatten" /\ left = {}
  /\ phase' = "ints" /\ arg' = 1
  /\ UNCHANGED <<project, stack, master, left, parsed>>

(* cvtint, of a key K: wherever it stands.  Of M.K: below the first M on   *)
(* the way down from the top; what is beside that M is not searched.       *)
IsInt_TopOnly(p, key) == IsPrefix(key, p)                         \* mutant
IsInt(p, key) ==
  /\ Last(p) = Last(key)
  /\ Len(key) > 1 =>
       \E i \in 1..Len(p) - 1 :
         /\ p[i] = key[1]
         /\ \A j \in 0..i - 2 : SubSeq(p, 1, j) \o <<key[1]>> \notin DOMAIN master

ConvertInts ==
  /\ phase = "ints" /\ arg \in DOMAIN project.ints
  /\ master' = [p \in DOMAIN master |-> IF master[p].typ = "str" /\ IsInt(p, project.ints[arg])
                                          THEN [master[p] EXCEPT !.typ = "int"] ELSE master[p]]
  /\ arg' = arg + 1
  /\ UNCHANGED <<project, phase, stack, left, parsed>>

Done ==
  /\ phase = "ints" /\ arg \notin DOMAIN project.ints
  /\ phase' = "done"
  /\ UNCHANGED <<project, arg, stack, master, left, parsed>>

DbNext == \/ OpenArg \/ NameConflict \/ ReadPrefix \/ ReadKey \/ ReadInclude \/ EndInclude \/ EndArg
          \/ StartFlatten \/ FlattenPlus \/ FlattenGlobal \/ EndFlatten \/ ConvertInts \/ Done
DbSpec == DbInit /\ [][DbNext]_dbvars
FairDbSpec == DbSpec /\ WF_dbvars(DbNext)
-----------------------------------------------------------------------------
(* Every table is a tree: what a key stands below is a table, and so is    *)
(* the key "+", and no other that begins with it.                          *)
Contents ==
  UNION {UNION {{l.val : l \in {x \in Range(d.text[f]) : x.op # "include"}} : f \in DOMAIN d.text} :
         d \in Projects}
Value == [typ : {"map", "str", "int"}, val : Seq(Contents)]
IsTable(t) ==
  /\ DOMAIN t \subseteq Seq(Tags) \ {<<>>} /\ t \in [DOMAIN t -> Value]
  /\ \A p \in DOMAIN t : /\ \A h \in Heads(p) : IsMap(t, h)
                         /\ Last(p)[1] = "+" => (IsMap(t, p) <=> Last(p) = Plus)
DbTypeOK ==
  /\ phase \in {"args", "parse", "flatten", "ints", "done", "abort"}
  /\ project \in Projects /\ arg \in Nat
  /\ IsTable(master) /\ IsTable(parsed) /\ \A f \in Range(stack) : IsTable(f.map)
  /\ left \subseteq DOMAIN master

(* The lines of d that the program reads itself (not by INCLUDEFILE), in   *)
(* the order it reads them, each with its key below the component that it  *)
(* belongs to.  PREFIX itself is a key of the component.                   *)
LinesOf(d, a) == d.text[d.args[a]]
Places(d) == UNION {{<<a, n>> : n \in DOMAIN LinesOf(d, a)} : a \in DOMAIN d.args}
LineAt(d, x) == LinesOf(d, x[1])[x[2]]
Before(x, y) == x[1] < y[1] \/ (x[1] = y[1] /\ x[2] < y[2])

CompOf(lines, n) ==
  LET prefixes == {j \in 1..n : lines[j].op = "prefix"}
  IN  IF prefixes = {} THEN <<>> ELSE <<Tag(lines[Max(prefixes)].val)>>
PathAt(d, x) ==
  CompOf(LinesOf(d, x[1]), x[2]) \o (IF LineAt(d, x).op = "prefix" THEN <<Prefix>> ELSE LineAt(d, x).key)

On(d, p, op) == {x \in Places(d) : LineAt(d, x).op = op /\ PathAt(d, x) = p}
ValueOf(d, S) ==
  [i \in 1..Cardinality(S) |->
     LineAt(d, CHOOSE x \in S : Cardinality({y \in S : Before(y, x)}) = i - 1).val]

(* The line x defines a key that no other defines, and no other line makes *)
(* a table of this key, or has it in a key that is none.                   *)
DefinesAlone(d, x) ==
  LET p == PathAt(d, x)
  IN  /\ LineAt(d, x).op = "=" /\ On(d, p, "=") = {x} /\ On(d, p, "prefix") = {}
      /\ \A y \in Places(d) : LineAt(d, y).op # "include" =>
           ~IsStrictPrefix(PathAt(d, y), p) /\ ~IsStrictPrefix(p, PathAt(d, y))

(* A key that is defined once, and is no table, has the text of its        *)
(* definition followed by all that is appended to it after that, in        *)
(* whichever file and in this order ("Concatenates the following onto the  *)
(* pre-existing string key"); what its own file has appended before it is  *)
(* defined may follow what this file has appended after.                   *)
AppendedInOrder ==
  phase = "done" =>
    \A x \in {y \in Places(project) : DefinesAlone(project, y)} :
      LET p == PathAt(project, x)
          appends == On(project, p, "+=")
          beside == {y \in appends : y[1] = x[1]}
          before == {y \in beside : Before(y, x)}
          later == {y \in appends : x[1] < y[1]}
      IN  /\ p \in DOMAIN master
          /\ \E own \in {{}, before} :
               master[p].val = <<LineAt(project, x).val>> \o ValueOf(project, beside \ before)
                                 \o ValueOf(project, own) \o ValueOf(project, later)

(* The tables that a component is made of: its own, and those that it has  *)
(* included below "+", the nearest first.                                  *)
Bases(t, c) ==
  {b \in DOMAIN t : /\ IsMap(t, b) /\ IsPrefix(c, b) /\ Len(b) % 2 = 1
                    /\ \A i \in 2..Len(b) : i % 2 = 0 <=> b[i] = Plus}

(* In u, c has what its tables in t have, with the value of the nearest.   *)
HasAll(t, u, c) ==
  \A b \in Bases(t, c) : \A q \in Below(t, b) :
    LET r == Relative(b, q)
        has(d) == d \o r \in DOMAIN t \/ \E h \in Heads(r) : IsLeaf(t, d \o h)
    IN  /\ IsLeaf(t, q) /\ Plus \notin Range(r)
        /\ \A d \in Bases(t, c) : Len(d) < Len(b) => ~has(d)
        => c \o r \in DOMAIN u /\ u[c \o r].val = t[q].val

(* A component has every key of the components that it includes, and of    *)
(* those that these include, with the value of the nearest that has it; so *)
(* what it defines itself is its own.                                      *)
InheritsWhatItLacks ==
  phase = "done" =>
    \A c \in {p \in DOMAIN parsed : Len(p) = 1 /\ IsMap(parsed, p)} : HasAll(parsed, master, c)

(* The program comes to an end: in an assertion where an included file has *)
(* not one component and nothing else, or where a component has no name or *)
(* that of a key that has a text; or with the database, in which what the  *)
(* lists of keys call an integer is one in every component and in what it  *)
(* has inherited.  (The runs have no M at the top for a key M.K of the     *)
(* list: cvtint() then leaves that of the components as it is.)            *)
IntsConverted ==
  <>(\/ /\ phase = "done"
        /\ \A i \in DOMAIN project.ints : \A p \in DOMAIN master :
             IsSuffix(project.ints[i], p) /\ Plus \notin Range(p) /\ IsLeaf(master, p) => master[p].typ = "int"
     \/ /\ phase = "abort"
        /\ \/ \E p \in DOMAIN parsed : Last(p) = Plus /\ Cardinality(Children(parsed, p)) # 1
           \/ \E f \in Range(stack) : Conflict(f))
=============================================================================
