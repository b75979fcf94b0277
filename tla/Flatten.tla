------------------------------- MODULE Flatten -------------------------------
(***************************************************************************)
(* mappers/_flatten.py: one level of keys out of nested objects.  m is the *)
(* mapper's configuration, with separator, max_depth and array_strategy.   *)
(* A name is the text of the keys joined.                                  *)
(***************************************************************************)
EXTENDS JsonValue, Integers

\* str.rstrip takes a set of characters, not a suffix.
RStrip(name, chars) == SubSeq(name, 1, SelectLastInSeq(name, LAMBDA c : c \notin ToSet(chars)))

RECURSIVE Walk(_, _, _, _)

\* _handle_array and _walk as the assignments they make to out, in their order.
HandleArray(list, key, depth, m) ==
  CASE m.array_strategy = "skip" \/ (m.array_strategy = "first" /\ list = <<>>) -> <<>>
    [] m.array_strategy = "first" /\ list # <<>> ->
         IF Is("obj", list[1]) THEN Walk(list[1], key \o m.separator, depth + 1, m)
                               ELSE <<<<key, list[1]>>>>
    [] m.array_strategy = "stringify" -> <<<<key, Dumps(List(list))>>>>

\* Mutant of Entry: the key of an inner object is not set apart.
EntryRunTogether(key, v, depth, m) ==
  CASE Is("obj", v)  -> Walk(v, key, depth + 1, m)
    [] Is("list", v) -> HandleArray(v.list, key, depth, m)
    [] OTHER         -> <<<<key, v>>>>

Entry(key, v, depth, m) ==
  CASE Is("obj", v)  -> Walk(v, key \o m.separator, depth + 1, m)
    [] Is("list", v) -> HandleArray(v.list, key, depth, m)
    [] OTHER         -> <<<<key, v>>>>

Walk(object, prefix, depth, m) ==
  IF object.obj = <<>>
    THEN IF prefix = <<>> THEN <<>> ELSE <<<<RStrip(prefix, m.separator), Dumps(object)>>>>
    ELSE LET of(i) == LET key == prefix \o object.obj[i][1]
                          v   == object.obj[i][2]
                      IN  IF depth >= m.max_depth THEN <<<<key, Dumps(v)>>>>
                                                  ELSE Entry(key, v, depth, m)
         IN  FlattenSeq([i \in DOMAIN object.obj |-> of(i)])

\* A function from names to values: the last assignment to a name stays.
FlattenObject(object, m) ==
  LET out == Walk(object, <<>>, 0, m)
  IN  [name \in {out[i][1] : i \in DOMAIN out} |->
         out[SelectLastInSeq(out, LAMBDA pair : pair[1] = name)][2]]
-----------------------------------------------------------------------------
(* What a reader of the SIEM's fields expects, over paths of keys *)

\* The value at a path, or the value in a sequence of one; nothing otherwise.
At(object, path) ==
  LET down[i \in 0 .. Len(path)] ==
        IF i = 0 THEN {object}
        ELSE {Get(v, path[i], Null) : v \in {w \in down[i-1] : Is("obj", w) /\ path[i] \in Keys(w)}}
  IN  down[Len(path)]

Joined(path, separator) ==
  FlattenSeq([i \in DOMAIN path |-> IF i = 1 THEN path[i] ELSE separator \o path[i]])

\* Paths to what has no keys of its own, or is as deep as the mapper goes.
LeafPaths(object, keys, m) ==
  {p \in BoundedSeq(keys, m.max_depth + 1) \ {<<>>} :
     \E v \in At(object, p) : \/ ~Is("obj", v) \/ v = Obj(<<>>)
                              \/ Len(p) = m.max_depth + 1}

\* The name of a field: the keys joined, but of an empty object without the
\* characters of the separator at its end.
FlatName(p, v, m) ==
  IF v = Obj(<<>>) /\ Len(p) <= m.max_depth THEN RStrip(Joined(p, m.separator), m.separator)
                                            ELSE Joined(p, m.separator)

\* Its value: what is nested, or an array, is a text, and so is everything that is as
\* deep as the mapper goes, None and numbers too.
FlatValue(p, v, m) ==
  IF Is("obj", v) \/ Is("list", v) \/ Len(p) = m.max_depth + 1 THEN Dumps(v) ELSE v

\* Every field is there under its own name, and nothing else; of several with one
\* name, one is there.
FlatAsExpected(flat, object, keys, m) ==
  LET leaf  == UNION {{p} \X At(object, p) : p \in LeafPaths(object, keys, m)}
      named == [name \in {FlatName(f[1], f[2], m) : f \in leaf} |->
                  {FlatValue(f[1], f[2], m) : f \in {g \in leaf : FlatName(g[1], g[2], m) = name}}]
  IN  DOMAIN flat = DOMAIN named /\ \A name \in DOMAIN flat : flat[name] \in named[name]
=============================================================================
