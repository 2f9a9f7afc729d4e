------------------------------ MODULE MCReeval ------------------------------
(* Instances of Reeval for TLC: keys x, y and z of the components 1 and 2, *)
(* and g at the top level.                                                 *)
EXTENDS Reeval

Number(v)        == [kind |-> "int",  val |-> v, refs |-> <<>>, nested |-> FALSE]
Expr(v, refs) == [kind |-> "expr", val |-> v, refs |-> refs, nested |-> FALSE]
Str(refs)     == [kind |-> "str",  val |-> 0, refs |-> refs, nested |-> FALSE]
Nested(refs)  == [Str(refs) EXCEPT !.nested = TRUE]

Plain(n)  == [scope |-> "plain", comp |-> 0, name |-> n]
This(n)   == [scope |-> "this",  comp |-> 0, name |-> n]
Top(n)    == [scope |-> "top",   comp |-> 0, name |-> n]
In(c, n)  == [scope |-> "in",    comp |-> c, name |-> n]

(* A database of these keys, in every order of the tables.                 *)
Orders(S) == {f \in [1..Cardinality(S) -> S] : IsInjective(f)}
Databases(keys, late) ==
  LET walked(c) == {p \in DOMAIN keys : p[1] = c /\ keys[p].kind # "int"}
      entries(one, two) == {<<p>> : p \in walked(0)} \cup ({one, two} \ {<<>>})
  IN  UNION {{[keys |-> keys, top |-> t, late |-> late] : t \in Orders(entries(one, two))} :
               one \in Orders(walked(1)), two \in Orders(walked(2))}

X1 == <<1, "x">>   Y1 == <<1, "y">>   Z1 == <<1, "z">>
X2 == <<2, "x">>   Y2 == <<2, "y">>   Z2 == <<2, "z">>
G  == <<0, "g">>   XG == <<0, "x">>

(* A chain of three expressions across the components, that ends in a      *)
(* constant, in a late key or nowhere; with strings that read it.          *)
Chain(end) ==
  [p \in {X1, Y1, X2, G} |->
     CASE p = X1 -> Expr(1, <<In(2, "x")>>)
       [] p = X2 -> Expr(1, <<Plain("g"), In(1, "y")>>)
       [] p = Y1 -> end
       [] p = G  -> Expr(1, <<In(1, "y")>>)]
Strings2 ==
  [p \in {Z1, Z2} |->
     IF p = Z1 THEN Nested(<<Plain("x"), Text(99), In(2, "z")>>)
               ELSE Nested(<<This("x"), Plain("g")>>)]
(* The same name near and far; strings at the top level, below a component *)
(* and directly in one.                                                    *)
Shadows(x1, z1) ==
  [p \in {X1, Y1, Z1, XG, G} |->
     CASE p = X1 -> x1
       [] p = Y1 -> Expr(1, <<Plain("x"), Top("x")>>)
       [] p = Z1 -> z1
       [] p = XG -> Expr(5, <<>>)
       [] p = G  -> Str(<<Plain("x"), In(1, "y")>>)]
Below == Nested(<<Plain("x"), Plain("y"), Plain("none"), Top("g")>>)
Inside == Str(<<Plain("x"), This("x"), Plain("y"), Top("g")>>)

Circle ==
  [p \in {X1, X2, Y2, Z2} |->
     CASE p = X1 -> Expr(1, <<In(2, "x")>>)
       [] p = X2 -> Expr(1, <<In(1, "x"), Plain("y")>>)
       [] p = Y2 -> Expr(3, <<>>)
       [] p = Z2 -> Str(<<This("x"), Plain("y"), In(2, "z"), In(2, "x")>>)]

MCDesigns ==
  UNION {Databases(Chain(end), {}) \cup Databases(Chain(end) @@ Strings2, {}) :
           end \in {Expr(2, <<>>), Expr(2, <<Plain("none")>>), Number(2)}}
  \cup Databases(Chain(Number(2)) @@ Strings2, {Y1})
  \cup UNION {Databases(Shadows(x1, z1), {}) :
                x1 \in {Expr(1, <<>>), Number(1)}, z1 \in {Below, Inside}}
  \cup Databases(Circle, {})
=============================================================================
