----------------------------- MODULE MCEventPath -----------------------------
(* Lines, filters and mappers for TLC.                                      *)
EXTENDS EventPath

A == <<"a">>  B == <<"b">>  AB == <<"a", "_", "b">>  AUnder == <<"a", "_">>  Pd == <<"p", "d">>

\* Values with every character that some format treats in its own way.
Odd  == Text(<<"x", "=", "\\", "|", " ", "y", "=">>)
Odder == Text(<<"\\", "=", "|", "\\">>)
Torn  == Text(<<"x", "\n", "a", "=">>)
Half  == Text(<<"x", HalfPair>>)

Events ==
  { Obj(<<>>),
    Obj(<<<<A, Num(1)>>>>), Obj(<<<<A, Num(2)>>, <<Pd, Num(2)>>>>), Obj(<<<<A, Null>>>>),
    Obj(<<<<A, Text(<<>>)>>, <<Pd, Null>>>>), Obj(<<<<A, Obj(<<>>)>>>>),
    Obj(<<<<A, Obj(<<<<B, Num(1)>>>>)>>>>), Obj(<<<<A, Obj(<<<<B, Null>>>>)>>, <<Pd, Odder>>>>),
    Obj(<<<<A, Obj(<<<<A, Num(1)>>, <<B, Odd>>>>)>>, <<B, List(<<Num(1), Num(2)>>)>>>>),
    Obj(<<<<A, Obj(<<<<B, Obj(<<<<A, Num(1)>>, <<B, Obj(<<>>)>>>>)>>>>)>>, <<Pd, Odd>>>>),
    Obj(<<<<A, Obj(<<<<B, Num(1)>>>>)>>, <<AB, Num(2)>>>>),
    Obj(<<<<AUnder, Obj(<<>>)>>, <<A, Num(1)>>>>),
    Obj(<<<<B, List(<<>>)>>, <<A, Odder>>>>),
    Obj(<<<<B, List(<<Obj(<<<<A, Num(1)>>>>), Null>>)>>, <<<<"pce_fqdn">>, Text(<<"h">>)>>>>),
    Obj(<<<<B, Text(<<"a", "b">>)>>, <<<<"timestamp">>, Text(<<"t">>)>>>>),
    Obj(<<<<A, Torn>>, <<Pd, Num(2)>>>>), Obj(<<<<A, Obj(<<<<B, Torn>>>>)>>>>),
    Obj(<<<<Pd, Torn>>>>),
    Obj(<<<<AB, Num(1)>>, <<A, Obj(<<<<B, Null>>>>)>>, <<AUnder, Obj(<<<<B, Num(2)>>>>)>>>>),
    Obj(<<<<A, Half>>>>), Obj(<<<<A, Num(1)>>, <<B, List(<<Half>>)>>>>),
    Obj(<<<<Half.text, Null>>>>),
    Obj(<<<<A, Num(1)>>, <<<<"pce_fqdn">>, Half>>>>), Obj(<<<<A, Num(1)>>, <<Pd, List(<<>>)>>>>) }

AllLines == Events \union {[bad |-> TRUE], Num(1), List(<<Obj(<<<<A, Num(1)>>>>)>>)}

Comparisons ==
  {Binary("==", Field(p), Const(v)) : p \in {<<A>>, <<A, B>>}, v \in {Num(1), Null}}
    \union {Binary("!=", Field(<<A, B>>), Const(Num(1))), Binary("<", Field(<<A>>), Const(Num(2))),
            Binary("in", Const(Num(1)), Field(<<B>>)),
             Binary("in", Const(Num(1)), Field(<<A>>)), Binary("in", Const(Text(B)), Field(<<A>>)),
            Binary("in", Const(Text(B)), Field(<<B>>)), Field(<<A, B>>), Field(<<A>>)}

\* Of each kind of outcome one: true, false, or an exception.
Few == {Binary("==", Field(<<A>>), Const(Num(1))), Binary("==", Field(<<A, B>>), Const(Null)),
        Binary("<", Field(<<A>>), Const(Num(2)))}

AllFilters ==
  {[op |-> "none"]} \union Comparisons \union {Not(c) : c \in Comparisons}
    \union {Binary(op, l, r) : op \in {"and", "or"}, l \in Few, r \in Few}

Json(flatten, depth, arrays) ==
  [format |-> "json", flatten |-> flatten, separator |-> <<"_">>, max_depth |-> depth,
   array_strategy |-> arrays]

CefMapping ==
  [format |-> "cef", vendor |-> <<"I", "|">>, product |-> <<"\\">>, version |-> <<"1">>,
   signature_field |-> Pd, severity_default |-> Num(5),
   severity_map |-> {<< <<"2">>, Text(<<"1", "0">>)>>, << <<"N", "o", "n", "e">>, Text(<<"h">>)>>},
   name_template |-> <<[char |-> "n"], [field |-> Pd]>>,
   extensions |-> <<[key |-> <<"s", "1">>, path |-> <<A>>],
                    [key |-> <<"s", "1", "L">>, label |-> <<"a", "=", " ", "b">>],
                    [key |-> <<"s", "2">>, path |-> <<A, B>>],
                    [key |-> <<"s", "3">>, path |-> <<A, B, A>>],
                    [key |-> <<"s", "4">>, path |-> <<Pd>>]>>]

\* With faults that show at some events: a name that looks into a field, and severities
\* of which only one is a number; and one that shows where the template gets to "{}".
CefInto   == [CefMapping EXCEPT !.severity_default = Text(<<"h">>),
                !.severity_map = {<< <<"N", "o", "n", "e">>, Num(3)>>, << <<"2">>, Num(8)>>},
                !.name_template = <<[char |-> "n"], [field |-> A, item |-> B]>>]
CefBroken == [CefMapping EXCEPT !.name_template = <<[field |-> Pd], [broken |-> TRUE]>>]

AllMappers ==
  {Json(FALSE, 1, "stringify"), Json(TRUE, 1, "stringify"), Json(TRUE, 2, "first"),
   Json(TRUE, 1, "skip"),
   [Json(TRUE, 2, "stringify") EXCEPT !.format = "syslog_json"],
   CefMapping, CefInto, CefBroken}

Now == Text(<<"n", "o", "w">>)
=============================================================================
