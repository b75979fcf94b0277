------------------------------ MODULE JsonValue ------------------------------
(***************************************************************************)
(* What json.loads makes of a line.  A text is a sequence of characters;   *)
(* an object is a sequence of <<key, value>> pairs with distinct keys, in  *)
(* the order of the text.                                                  *)
(***************************************************************************)
EXTENDS SequencesExt

Null    == [null |-> TRUE]
Num(n)  == [num |-> n]
Text(s) == [text |-> s]
List(s) == [list |-> s]
Obj(s)  == [obj |-> s]

Dumps(v) == [json |-> v]  \* json.dumps: a text that can be read back

Is(kind, v) == kind \in DOMAIN v

Keys(v) == {v.obj[i][1] : i \in DOMAIN v.obj}

\* dict.get
Get(v, key, default) ==
  IF key \in Keys(v) THEN v.obj[SelectInSeq(v.obj, LAMBDA pair : pair[1] = key)][2]
                     ELSE default

\* Half of a surrogate pair, as "\ud800" in a line: a character of a Python text that
\* UTF-8 cannot encode.
HalfPair == "ud800"

\* What json.dumps writes has one, in a key or a text (ensure_ascii is off).
RECURSIVE HasHalf(_)
HasHalf(v) ==
  CASE Is("text", v) -> HalfPair \in ToSet(v.text)
    [] Is("list", v) -> \E i \in DOMAIN v.list : HasHalf(v.list[i])
    [] Is("obj", v)  -> \E i \in DOMAIN v.obj :
                          HalfPair \in ToSet(v.obj[i][1]) \/ HasHalf(v.obj[i][2])
    [] Is("json", v) -> HasHalf(v.json)
    [] OTHER         -> FALSE

\* bool() of a value: what `or` in Python looks at.
Truthy(v) == ~ \/ v = Null \/ v = Num(0) \/ v = Text(<<>>) \/ v = List(<<>>)
               \/ v = Obj(<<>>)
=============================================================================
