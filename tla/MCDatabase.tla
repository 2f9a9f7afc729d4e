------------------------------ MODULE MCDatabase ------------------------------
(* Instances of Database for TLC.                                          *)
EXTENDS Database

Set(key, v) == [op |-> "=", key |-> key, val |-> v]
Add(key, v) == [op |-> "+=", key |-> key, val |-> v]
Component(n) == [op |-> "prefix", key |-> <<>>, val |-> n]
Include(f) == [op |-> "include", key |-> <<>>, val |-> f]

K == <<Tag("K")>>
L == <<Tag("L")>>
MS == <<Tag("M"), Tag("S")>>
G == <<<<"/", "G">>>>

Orders(S) == {f \in [1..Cardinality(S) -> S] : IsInjective(f)}
Project(args, text, ints) == [args |-> args, text |-> text, ints |-> ints]

(* One key of one component, defined and appended to in several files; a   *)
(* key below another, and one that is the table of another.                *)
Split(lines, k) == <<<<Component("a")>> \o SubSeq(lines, 1, k), <<Component("a")>> \o SubSeq(lines, k + 1, Len(lines))>>
Appends ==
  {Project(<<1, 2>>, Split(lines, k), <<MS>>) :
     lines \in Orders({Set(K, "v"), Add(K, "w"), Add(K, "x"), Set(MS, "1")})
               \cup Orders({Set(MS, "v"), Set(<<Tag("M")>>, "u"), Add(<<Tag("M")>>, "w"), Add(L, "x")}), k \in 0..4}

(* Files that include files; every file defines some of the keys.          *)
Inner(S) == {<<Component("c")>> \o l : l \in Orders(S)}
Middle(S) == {<<Component("b")>> \o l : l \in Orders(S)}
Outer(S) == {<<Component("a")>> \o l : l \in Orders(S)}
Includes ==
  {Project(<<1>>, <<o, m, i>>, <<MS, L>>) :
     o \in Outer({Include(2), Set(K, "a")}) \cup Outer({Include(2), Set(MS, "a"), Set(G, "ga")}),
     m \in Middle({Include(3), Set(L, "1"), Set(K, "b")}) \cup Middle({Include(3), Set(MS, "b")}),
     i \in Inner({Set(K, "c"), Set(L, "2"), Set(G, "gc")}) \cup Inner({Set(MS, "c"), Set(<<Tag("M"), Tag("T")>>, "c")})
           \cup {<<Set(K, "c")>>}}

(* Global keys, before any component and from two of them.                 *)
Globals ==
  {Project(<<1, 2>>, <<<<Set(K, "g")>> \o x, y>>, <<K>>) :
     x \in Outer({Set(G, "ga"), Set(L, "a")}), y \in Middle({Set(G, "gb"), Include(1)})}

(* A component with the name of a key that the same file has, or another.  *)
Conflicts ==
  {Project(a, <<<<Set(K, "v"), Component("a"), Set(L, "x")>>, <<Component("K"), Set(L, "y")>>,
                <<Set(K, "v"), Component("K")>>, <<Component("")>>>>, <<>>) :
     a \in {<<1, 2>>, <<2, 1>>, <<3>>, <<2, 3>>, <<1, 4>>}}

MCProjects == Conflicts \cup Appends \cup Includes \cup Globals
=============================================================================
