------------------------------- MODULE Reeval -------------------------------
(***************************************************************************)
(* reeval (sw/kveval.cpp, ast.cpp): the expressions of the database are    *)
(* evaluated where the names in them have values, and values and strings   *)
(* are put in the place of the @$(KEY) in strings, until nothing changes;  *)
(* main() and the functions that add keys call it again and again.         *)
(*                                                                         *)
(* A key is a place <<c, n>>: the key n of component c, of the top level   *)
(* where c is 0.  An expression is the sum of its references and of a      *)
(* number; values are positive, 0 is none yet.  A string is a sequence of  *)
(* references and texts; a text is the value of a number or a mark.        *)
(***************************************************************************)
EXTENDS Integers, SequencesExt

CONSTANTS
  Designs,    \* the databases: [keys, top, late]
  Calls       \* the calls of reeval, while keys are added between them

(* keys[p]: [kind, val, refs, nested], kind "int", "expr" or "str"; refs   *)
(* are [scope, comp, name], of a string also texts; nested: the string is  *)
(* not a key of the component itself but of a map below, as MAIN.INSERT.   *)
(* top: the entries of the top level, in the order of the hash table: each *)
(* is the sequence of the expressions and strings of a component, in the   *)
(* order of its table, or of one key.  late: integers that the program     *)
(* adds, as SLAVE.AWID or BASE, after its first call of reeval.            *)
Ref(r) == r.scope \in {"plain", "this", "top", "in"}
Text(t) == [scope |-> "text", comp |-> t, name |-> ""]

ASSUME DesignAssumption ==
  \A d \in Designs :
    /\ IsFiniteSet(DOMAIN d.keys) /\ DOMAIN d.keys \subseteq Nat \X STRING
    /\ \A p \in DOMAIN d.keys :
         LET key == d.keys[p] IN
         /\ key.kind \in {"int", "expr", "str"} /\ key.val \in Nat /\ key.nested \in BOOLEAN
         /\ key.kind = "str" => key.val = 0
         /\ key.refs \in Seq(Range(key.refs))
         /\ \A i \in DOMAIN key.refs : Ref(key.refs[i]) \/ (key.kind = "str" /\ key.refs[i].scope = "text")
    /\ d.late \subseteq {p \in DOMAIN d.keys : d.keys[p].kind = "int"}
    /\ UNION {Range(e) : e \in Range(d.top)} = {p \in DOMAIN d.keys : d.keys[p].kind # "int"}
ASSUME CallsAssumption == Calls \in Nat \ {0}

VARIABLES
  design,
  pc,         \* "eval", "subst" (the two walks), "return" or "done"
  at,         \* the entry, and the key of it, that the walk looks at
  changed,    \* changed of find_any_unevaluated, v of substitute_any_results
  subchanged, \* changed of find_any_unevaluated_sub, for the entry
  ids,        \* the values that the identifiers of an expression have
  num,        \* the value of each expression, 0 before it has one
  ast,        \* the expressions whose .EXPR is no string any more
  resolved,   \* the expressions that have a .STR
  text,       \* the strings, as they stand
  present,    \* the keys that exist
  calls       \* the calls of reeval that have returned

vars == <<design, pc, at, changed, subchanged, ids, num, ast, resolved, text, present, calls>>
walk == <<pc, at, changed, subchanged>>

Keys == design.keys
Exprs == {p \in DOMAIN Keys : Keys[p].kind = "expr"}
Strings == {p \in DOMAIN Keys : Keys[p].kind = "str"}
NoPlace == <<-1, "">>
-----------------------------------------------------------------------------
(* get_named_kvpair(): "1. here 2. superclass 3. parent .. 4. top".  For   *)
(* an expression, here is its component.  substitute_any_results_sub()     *)
(* passes on the here of the map above: a string that is a key of the      *)
(* component itself is looked for at the top first.                        *)
Here(p) == IF Keys[p].kind = "str" /\ ~Keys[p].nested THEN 0 ELSE p[1]

Scopes_TopFirst(p, r) ==                                         \* mutant
  CASE r.scope = "plain" -> <<0, p[1]>>
    [] r.scope = "this"  -> <<Here(p)>>
    [] r.scope = "top"   -> <<0>>
    [] r.scope = "in"    -> <<r.comp>>
Scopes(p, r) ==
  CASE r.scope = "plain" -> <<Here(p), p[1], 0>>
    [] r.scope = "this"  -> <<Here(p)>>
    [] r.scope = "top"   -> <<0>>
    [] r.scope = "in"    -> <<r.comp>>

First(scopes, n, exists) ==
  LET found == SelectInSeq(scopes, LAMBDA c : <<c, n>> \in exists)
  IN  IF found = 0 THEN NoPlace ELSE <<scopes[found], n>>

Lookup(p, r) == First(Scopes(p, r), r.name, present)

(* getvalue(map): .VAL, which a constant expression has from the start, or *)
(* the value of its .EXPR.  Strings have no value.                         *)
NumOf(q) ==
  IF q = NoPlace THEN 0
  ELSE CASE Keys[q].kind = "int" -> Keys[q].val
         [] Keys[q].kind = "str" -> 0
         [] OTHER -> IF Keys[q].refs = <<>> THEN Keys[q].val ELSE num[q]

(* AST::define(): every identifier that has no value yet is looked up.     *)
Define(p) ==
  [i \in DOMAIN Keys[p].refs |->
     IF ids[p][i] # 0 THEN ids[p][i] ELSE NumOf(Lookup(p, Keys[p].refs[i]))]

IsDefined(values) == \A i \in DOMAIN values : values[i] # 0
Evaluated(p, values) == FoldLeft(LAMBDA a, b : a + b, Keys[p].val, values)

(* subresults_into(): each @$(KEY) of a string.                            *)
Replacement_Unset(p, r) ==                                       \* mutant
  LET q == IF Ref(r) THEN Lookup(p, r) ELSE NoPlace
  IN  IF q = NoPlace THEN <<r>>
      ELSE IF Keys[q].kind # "str" THEN <<Text(NumOf(q))>>
      ELSE IF ~\E x \in Range(text[q]) : Ref(x) THEN text[q] ELSE <<r>>
Replacement(p, r) ==
  LET q == Lookup(p, r)
  IN  IF r.scope = "text" THEN <<r>>
      ELSE IF q # NoPlace /\ Keys[q].kind = "str" /\ ~\E x \in Range(text[q]) : Ref(x) THEN text[q]
      ELSE IF NumOf(q) # 0 THEN <<Text(NumOf(q))>>
      ELSE <<r>>

Substituted(p) == FlattenSeq([i \in DOMAIN text[p] |-> Replacement(p, text[p][i])])
-----------------------------------------------------------------------------
Start == [entry |-> 1, key |-> 1]
Entry == design.top[at.entry]
Key == Entry[at.key]
LastOfEntry == at.key = Len(Entry)
Advance == at' = IF LastOfEntry THEN [entry |-> at.entry + 1, key |-> 1] ELSE [at EXCEPT !.key = @ + 1]
Walking == at.entry \in DOMAIN design.top

Init ==
  /\ design \in Designs
  /\ pc = "eval" /\ at = Start /\ changed = FALSE /\ subchanged = FALSE
  /\ ids = [p \in Exprs |-> [i \in DOMAIN Keys[p].refs |-> 0]]
  /\ num = [p \in Exprs |-> 0]
  /\ ast = {} /\ resolved = {}
  /\ text = [p \in Strings |-> Keys[p].refs]
  /\ present = DOMAIN Keys \ design.late
  /\ calls = 0

(* find_any_unevaluated_sub().  The "changed" of one entry of the top      *)
(* level is overwritten by that of the next that is a map; a string there  *)
(* is skipped.  That an .EXPR is parsed is a change of its own.            *)
Note(c) ==
  IF LastOfEntry THEN changed' = (subchanged \/ c) /\ subchanged' = FALSE
                 ELSE subchanged' = (subchanged \/ c) /\ UNCHANGED changed

EvalExpr ==
  /\ pc = "eval" /\ Walking /\ Key \in Exprs /\ num[Key] = 0
  /\ LET values == Define(Key) IN
       /\ ids' = [ids EXCEPT ![Key] = values]
       /\ num' = IF IsDefined(values) THEN [num EXCEPT ![Key] = Evaluated(Key, values)] ELSE num
       /\ Note(Key \notin ast \/ IsDefined(values))
  /\ ast' = ast \cup {Key}
  /\ Advance
  /\ UNCHANGED <<design, pc, resolved, text, present, calls>>

EvalOther ==
  /\ pc = "eval" /\ Walking /\ (Key \in Exprs => num[Key] # 0)
  /\ IF Key \in Strings /\ Key[1] = 0 THEN UNCHANGED <<changed, subchanged>> ELSE Note(FALSE)
  /\ Advance
  /\ UNCHANGED <<design, pc, ids, num, ast, resolved, text, present, calls>>

EndEval_Once ==                                                  \* mutant
  /\ pc = "eval" /\ ~Walking
  /\ at' = Start /\ subchanged' = FALSE /\ changed' = FALSE
  /\ pc' = "subst"
  /\ UNCHANGED <<design, ids, num, ast, resolved, text, present, calls>>
EndEval ==
  /\ pc = "eval" /\ ~Walking
  /\ at' = Start /\ subchanged' = FALSE /\ changed' = FALSE
  /\ pc' = IF changed THEN "eval" ELSE "subst"
  /\ UNCHANGED <<design, ids, num, ast, resolved, text, present, calls>>

(* substitute_any_results_sub().  What changes below the top level is not  *)
(* counted.  A number that is put into a string has got its .STR.          *)
SubstString ==
  /\ pc = "subst" /\ Walking /\ Key \in Strings
  /\ text' = [text EXCEPT ![Key] = Substituted(Key)]
  /\ resolved' = resolved \cup
       {q \in Exprs : NumOf(q) # 0 /\ \E r \in Range(text[Key]) : Ref(r) /\ Lookup(Key, r) = q}
  /\ changed' = (changed \/ (Key[1] = 0 /\ text'[Key] # text[Key]))
  /\ Advance
  /\ UNCHANGED <<design, pc, subchanged, ids, num, ast, present, calls>>

(* resolve_ast_expressions() makes the .STR of an expression.              *)
SubstExpr ==
  /\ pc = "subst" /\ Walking /\ Key \in Exprs
  /\ resolved' = IF NumOf(Key) # 0 THEN resolved \cup {Key} ELSE resolved
  /\ changed' = (changed \/ (Key[1] = 0 /\ resolved' # resolved))
  /\ Advance
  /\ UNCHANGED <<design, pc, subchanged, ids, num, ast, text, present, calls>>

EndSubst ==
  /\ pc = "subst" /\ ~Walking
  /\ at' = Start /\ changed' = FALSE
  /\ IF changed THEN pc' = "eval" /\ UNCHANGED calls
                ELSE pc' = "return" /\ calls' = calls + 1
  /\ UNCHANGED <<design, subchanged, ids, num, ast, resolved, text, present>>

(* Between two calls the program adds keys, with setvalue().               *)
CallAgain ==
  /\ pc = "return" /\ calls < Calls
  /\ present' = DOMAIN Keys
  /\ pc' = "eval"
  /\ UNCHANGED <<design, at, changed, subchanged, ids, num, ast, resolved, text, calls>>

Finish ==
  /\ pc = "return" /\ calls = Calls
  /\ pc' = "done"
  /\ UNCHANGED <<design, at, changed, subchanged, ids, num, ast, resolved, text, present, calls>>

Next == EvalExpr \/ EvalOther \/ EndEval \/ SubstString \/ SubstExpr \/ EndSubst \/ CallAgain \/ Finish

Spec == Init /\ [][Next]_vars
FairSpec == Spec /\ WF_vars(Next)
-----------------------------------------------------------------------------
(* What a key means in the finished database, by the nearest definition of *)
(* each name: a number, or 0 where a name has none or the definitions go   *)
(* round in circles.  To a string directly in a component, the top level   *)
(* is nearest.                                                             *)
Direct(p) == Keys[p].kind = "str" /\ ~Keys[p].nested

Nearest(p, r) ==
  First(CASE r.scope = "plain" /\ Direct(p)  -> <<0, p[1]>>
          [] r.scope = "plain" /\ ~Direct(p) -> <<p[1], 0>>
          [] r.scope = "this"  -> IF Direct(p) THEN <<0>> ELSE <<p[1]>>
          [] r.scope = "top"   -> <<0>>
          [] r.scope = "in"    -> <<r.comp>>,
        r.name, DOMAIN Keys)

Defined == [p \in DOMAIN Keys |-> IF Keys[p].kind # "expr" THEN Keys[p].val ELSE 0]

(* The values of all keys, one definition further on than the values v.    *)
ValueAt(q, v) == IF q = NoPlace THEN 0 ELSE v[q]
Means(v) ==
  [p \in DOMAIN Keys |->
     IF Keys[p].kind # "expr" THEN Keys[p].val
     ELSE LET vals == [i \in DOMAIN Keys[p].refs |-> ValueAt(Nearest(p, Keys[p].refs[i]), v)]
          IN  IF IsDefined(vals) THEN Evaluated(p, vals) ELSE 0]

Meaning ==
  LET m[n \in 0..Cardinality(Exprs)] == IF n = 0 THEN Defined ELSE Means(m[n - 1])
  IN  m[Cardinality(Exprs)]

(* The text of a string: what the references of it stand for, in order; it *)
(* keeps those that stand for nothing.                                     *)
Piece(q, r, t, v) ==
  IF Keys[q].kind # "str" THEN (IF v[q] # 0 THEN <<Text(v[q])>> ELSE <<r>>)
  ELSE IF \E x \in Range(t[q]) : Ref(x) THEN <<r>> ELSE t[q]

(* The texts of all strings, one more of them filled in than in the texts  *)
(* t, where the numbers have the values v.                                 *)
Reads(t, v) ==
  [p \in Strings |->
     FlattenSeq([i \in DOMAIN Keys[p].refs |->
       LET r == Keys[p].refs[i]
           q == IF Ref(r) THEN Nearest(p, r) ELSE NoPlace
       IN  IF q = NoPlace THEN <<r>> ELSE Piece(q, r, t, v)])]

Reading ==
  LET s[n \in 0..Cardinality(Strings)] ==
        IF n = 0 THEN [p \in Strings |-> Keys[p].refs] ELSE Reads(s[n - 1], Meaning)
  IN  s[Cardinality(Strings)]

(* Every variable has its type.                                            *)
TypeOK ==
  /\ pc \in {"eval", "subst", "return", "done"}
  /\ at.entry \in 1..(Len(design.top) + 1) /\ (Walking => at.key \in DOMAIN Entry)
  /\ changed \in BOOLEAN /\ subchanged \in BOOLEAN
  /\ num \in [Exprs -> Nat] /\ ast \subseteq Exprs /\ resolved \subseteq Exprs
  /\ DOMAIN text = Strings /\ present \subseteq DOMAIN Keys /\ calls \in 0..Calls

(* A value that an expression has is what it means in the finished         *)
(* database, although identifiers keep the first value they are given and  *)
(* keys are still added.                                                   *)
EvaluatedRight == \A p \in Exprs : num[p] # 0 => num[p] = Meaning[p]

(* A string that has no references left reads as they say, in the finished *)
(* database: no reference was filled in from the wrong place or too early. *)
(* The places are "1. here ... 4. top" (kveval.cpp:87-92) for a string     *)
(* below a key of a component; of one directly in a component, here is the *)
(* top level, which is searched first (kveval.cpp:428).                    *)
StringsReadRight ==
  \A p \in Strings : (~\E x \in Range(text[p]) : Ref(x)) => text[p] = Reading[p]

(* "integer expressions that will be evaluated before use" (icd.txt:45):   *)
(* every call returns, even if definitions go round in circles, and after  *)
(* the last one every expression that means something has its value and    *)
(* every string is filled in as far as it can be, although one call may    *)
(* stop before.                                                            *)
EvaluatedInTheEnd ==
  <>(/\ pc = "done"
     /\ \A p \in Exprs : num[p] = Meaning[p]
     /\ \A p \in Strings : text[p] = Reading[p])
=============================================================================
