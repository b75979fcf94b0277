----------------------------- MODULE EventFilter -----------------------------
(***************************************************************************)
(* core/expression_filter.py: whether an event matches an expression.      *)
(* An expression compares fields of ev, looks for a value in a list, or    *)
(* combines two.  simpleeval, which evaluates it, is modelled as far as    *)
(* DotDict is concerned: what an attribute of it is, and what raises.      *)
(***************************************************************************)
EXTENDS JsonValue, Integers

Field(path)    == [op |-> "field", path |-> path]
Const(v)       == [op |-> "const", value |-> v]
Binary(op, l, r) == [op |-> op, left |-> l, right |-> r]
Not(e)         == [op |-> "not", left |-> e]

Raises == [raises |-> TRUE]
Bool(b) == [bool |-> b]

\* DotDict.__init__: what is no object is wrapped as an empty one.
DotDict(v) == IF Is("obj", v) THEN v ELSE Obj(<<>>)

\* simpleeval's attribute of a value: DotDict.__getattr__, or nothing to be found.
Attribute(v, name) == IF Is("obj", v) THEN Get(v, name, Null) ELSE Raises

\* DotDict.__eq__ on either side; an empty object equals None.
Equal(a, b) == a = b \/ {a, b} = {Null, Obj(<<>>)}

\* A value of a list in the event is no DotDict, and an empty object there equals
\* nothing.
Member(a, list) == \E i \in DOMAIN list : Equal(a, list[i]) /\ ~(a = Obj(<<>>) /\ list[i] = a)

\* The order of texts is left out.
Compare(op, a, b) ==
  CASE op = "==" -> Bool(Equal(a, b))
    [] op = "!=" -> Bool(~Equal(a, b))
    [] op = "<"  -> IF Is("num", a) /\ Is("num", b) THEN Bool(a.num < b.num) ELSE Raises
    [] op = "in" -> CASE Is("list", b) -> Bool(Member(a, b.list))
                      [] Is("obj", b) /\ (Is("text", a) \/ Is("num", a) \/ a = Null) ->
                           Bool(Is("text", a) /\ a.text \in Keys(b))
                      [] Is("text", b) /\ Is("text", a) ->
                           Bool(\E s \in Suffixes(b.text) : IsPrefix(a.text, s))
                      [] OTHER -> Raises

True(v) == IF Is("bool", v) THEN v.bool ELSE Truthy(v)

RECURSIVE Evaluate(_, _)
Evaluate(e, ev) ==
  CASE e.op = "const" -> e.value
    [] e.op = "field" ->
         LET down[i \in 0 .. Len(e.path)] ==
               IF i = 0 THEN ev
               ELSE IF down[i-1] = Raises THEN Raises ELSE Attribute(down[i-1], e.path[i])
         IN  down[Len(e.path)]
    [] e.op = "not" ->
         LET v == Evaluate(e.left, ev) IN IF v = Raises THEN Raises ELSE Bool(~True(v))
    [] e.op \in {"and", "or"} ->   \* the right one only if it matters
         LET v == Evaluate(e.left, ev)
         IN  IF v # Raises /\ (True(v) = (e.op = "and")) THEN Evaluate(e.right, ev) ELSE v
    [] OTHER ->
         LET l == Evaluate(e.left, ev)  r == Evaluate(e.right, ev)
         IN  IF Raises \in {l, r} THEN Raises ELSE Compare(e.op, l, r)

\* Mutant of Match: an expression that cannot be evaluated lets the event pass.
MatchUnlessFalse(e, event) ==
  LET v == Evaluate(e, DotDict(event)) IN v = Raises \/ True(v)

\* compile_expression's match: every exception means False.
Match(e, event) ==
  LET v == Evaluate(e, DotDict(event)) IN v # Raises /\ True(v)
-----------------------------------------------------------------------------
(* The documentation: a field that is missing, at any depth, is like None;  *)
(* Wanted says so without evaluating step by step, and in any order.        *)

FieldOf(event, path) ==
  LET holds(v, name) == IF Is("obj", v) THEN Get(v, name, Null) ELSE Null
  IN  FoldLeft(holds, DotDict(event), path)

Operand(e, event) == IF e.op = "field" THEN FieldOf(event, e.path) ELSE e.value

RECURSIVE Wanted(_, _), Simple(_)
Wanted(e, event) ==
  CASE e.op \in {"field", "const"} -> Truthy(Operand(e, event))
    [] e.op = "not" -> ~Wanted(e.left, event)
    [] e.op = "and" -> Wanted(e.left, event) /\ Wanted(e.right, event)
    [] e.op = "or"  -> Wanted(e.left, event) \/ Wanted(e.right, event)
    [] OTHER -> Compare(e.op, Operand(e.left, event), Operand(e.right, event)) = Bool(TRUE)

\* The parts of an expression that are looked up or compared.
Simple(e) == CASE e.op \in {"and", "or"} -> Simple(e.left) \union Simple(e.right)
               [] e.op = "not" -> Simple(e.left)
               [] OTHER -> {e}

\* Something below a field that is no object is asked for, or values are compared
\* that have no order.
Blind(e, event) ==
  \E s \in Simple(e) :
    LET operands == IF s.op \in {"field", "const"} THEN {s} ELSE {s.left, s.right}
    IN  \/ \E o \in operands : /\ o.op = "field"
                               /\ \E i \in 1 .. Len(o.path) - 1 :
                                    ~Is("obj", FieldOf(event, SubSeq(o.path, 1, i)))
        \/ /\ s.op \notin {"field", "const"}
           /\ Compare(s.op, Operand(s.left, event), Operand(s.right, event)) = Raises
=============================================================================
