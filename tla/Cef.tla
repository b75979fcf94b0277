--------------------------------- MODULE Cef ---------------------------------
(***************************************************************************)
(* mappers/cef.py: an event as a CEF message, a sequence of characters.    *)
(* c is the mapping file: vendor, product and version; the field of the    *)
(* signature and of the severity; the template of the name, a sequence of  *)
(* characters and fields; the severities; and the extensions, a sequence   *)
(* of keys with the path or, for a label, the text each stands for.        *)
(***************************************************************************)
EXTENDS JsonValue, Integers

Escaped(s, special) ==
  FlattenSeq([i \in DOMAIN s |-> IF s[i] \in special THEN <<"\\", s[i]>> ELSE <<s[i]>>])

\* Mutant of EscapeExt: "=" is replaced before the backslash.
EscapeExtSwapped(s) == Escaped(Escaped(s, {"="}), {"\\"})

EscapeExt(s) == Escaped(Escaped(s, {"\\"}), {"="})

EscapeHeader(s) == Escaped(Escaped(s, {"\\"}), {"|"})

\* str() of a value; of an object or an array only that it is one matters.
Str(v) == CASE Is("text", v) -> v.text
            [] Is("num", v)  -> <<ToString(v.num)>>
            [] v = Null      -> <<"N", "o", "n", "e">>
            [] OTHER         -> <<"{", "=", "}">>

\* Mutant of ResolvePath: what has no keys is looked into all the same.
ResolvePathBlindly(event, path) ==
  IF \E i \in 1 .. Len(path) - 1 :
       ~Is("obj", FoldLeft(LAMBDA v, k : Get(v, k, Null), event, SubSeq(path, 1, i)))
    THEN [raises |-> TRUE] ELSE FoldLeft(LAMBDA v, k : Get(v, k, Null), event, path)

ResolvePath(event, path) ==
  FoldLeft(LAMBDA v, k : IF Is("obj", v) THEN Get(v, k, Null) ELSE Null, event, path)

\* int() of a number or a text of digits; of anything else it raises.
Digit == [d \in {"0", "1", "2", "3", "4", "5", "6", "7", "8", "9"} |->
            CHOOSE n \in 0 .. 9 : ToString(n) = d]

IsInt(v) == \/ Is("num", v)
            \/ Is("text", v) /\ v.text # <<>> /\ ToSet(v.text) \subseteq DOMAIN Digit

ToInt(v) == IF Is("num", v) THEN v.num ELSE FoldLeft(LAMBDA n, d : 10 * n + Digit[d], 0, v.text)

\* The entry of severity_map for a key, if there is one.
Entries(event, c) ==
  {s[2] : s \in {t \in c.severity_map : t[1] = Str(Get(event, c.signature_field, Null))}}

\* A severity that is no number gives way to the default; that one has to be.
SeverityRaises(event, c) ==
  ~IsInt(c.severity_default) /\ \A v \in Entries(event, c) : ~IsInt(v)

Severity(event, c) ==
  LET of == {v \in Entries(event, c) : IsInt(v)}
  IN  ToInt(IF of = {} THEN c.severity_default ELSE CHOOSE v \in of : TRUE)

Signature(event, c) == Str(Get(event, c.signature_field, Num(0)))

\* A part of the template is a character, a field, "{field[item]}", or something
\* str.format cannot do for any event, such as "{}".
PartError(event, p) ==
  LET v == Get(event, p.field, Null)
  IN  CASE Is("char", p)   -> "none"
        [] Is("broken", p) -> "other"
        [] p.field \notin Keys(event) -> "KeyError"
        [] Is("item", p) /\ ~Is("obj", v) -> "other"
        [] Is("item", p) /\ Is("obj", v) /\ p.item \notin Keys(v) -> "KeyError"
        [] OTHER -> "none"

\* The first error of the template, from left to right.
FormatError(event, c) ==
  LET i == SelectInSeq(c.name_template, LAMBDA p : PartError(event, p) # "none")
  IN  IF i = 0 THEN "none" ELSE PartError(event, c.name_template[i])

\* Only a KeyError is caught.
NameRaises(event, c) == FormatError(event, c) = "other"

\* With a field that the event does not have, the template stays as it is.
Name(event, c) ==
  LET part(p) == CASE Is("char", p) -> <<p.char>>
                   [] Is("item", p) -> Str(Get(Get(event, p.field, Null), p.item, Null))
                   [] OTHER -> Str(Get(event, p.field, Null))
      raw(p)  == CASE Is("char", p) -> <<p.char>>
                   [] Is("broken", p) -> <<"{", "}">>
                   [] Is("item", p) -> <<"{">> \o p.field \o <<"[">> \o p.item \o <<"]", "}">>
                   [] OTHER -> <<"{">> \o p.field \o <<"}">>
      whole   == FormatError(event, c) = "none"
  IN  FlattenSeq([i \in DOMAIN c.name_template |->
        IF whole THEN part(c.name_template[i]) ELSE raw(c.name_template[i])])

\* The extensions that are written, with what is written.
Pairs(event, c) ==
  LET value(x) == IF Is("label", x) THEN Text(x.label) ELSE ResolvePath(event, x.path)
      kept     == SelectSeq(c.extensions,
                    LAMBDA x : Is("label", x) \/ value(x) \notin {Null, Text(<<>>)})
  IN  [i \in DOMAIN kept |-> <<kept[i].key, Str(value(kept[i]))>>]

ExtensionsStr(event, c) ==
  LET pairs == Pairs(event, c)
  IN  FlattenSeq([i \in DOMAIN pairs |-> (IF i = 1 THEN <<>> ELSE <<" ">>)
                    \o pairs[i][1] \o <<"=">> \o EscapeExt(pairs[i][2])])

HeaderFields(event, c) ==
  <<c.vendor, c.product, c.version, Signature(event, c), Name(event, c),
    <<ToString(Severity(event, c))>>>>

Cef(event, c) ==
  LET fields == HeaderFields(event, c)
  IN  <<"CEF:0", "|">>
        \o FlattenSeq([i \in DOMAIN fields |-> EscapeHeader(fields[i]) \o <<"|">>])
        \o ExtensionsStr(event, c)
-----------------------------------------------------------------------------
(* How a receiver reads it *)

\* A record ends with a newline (tcp_sink.py:60, file_sink.py:56, https_sink.py:43).
FirstLine(s) ==
  LET i == SelectInSeq(s, LAMBDA c : c = "\n") IN IF i = 0 THEN s ELSE SubSeq(s, 1, i - 1)

OneLine(s) == "\n" \notin ToSet(s)

\* Whether each character is escaped by the one before it.
EscapedAt(s) ==
  LET after[i \in 0 .. Len(s)] == i > 0 /\ s[i] = "\\" /\ ~after[i-1]
  IN  [i \in DOMAIN s |-> after[i-1]]

Indices(s) == [i \in DOMAIN s |-> i]

\* Places of a character that no backslash escapes.
Bare(s, c) ==
  LET escaped == EscapedAt(s) IN SelectSeq(Indices(s), LAMBDA i : s[i] = c /\ ~escaped[i])

Unescaped(s) ==
  LET escaped == EscapedAt(s)
      kept    == SelectSeq(Indices(s), LAMBDA i : s[i] = "\\" => escaped[i])
  IN  [i \in DOMAIN kept |-> s[kept[i]]]

\* The header ends at the seventh bare bar.
ReadHeader(s) ==
  LET bars == Bare(s, "|")
  IN  [i \in 1 .. 6 |-> Unescaped(SubSeq(s, bars[i] + 1, bars[i+1] - 1))]

\* A value goes as far as the blank before the next key.
ReadExtensions(s) ==
  LET bars   == Bare(s, "|")
      ext    == SubSeq(s, bars[7] + 1, Len(s))
      eqs    == Bare(ext, "=")
      blank(i) == SelectLastInSubSeq(ext, 1, eqs[i], LAMBDA c : c = " ")
      end(i) == IF i = Len(eqs) THEN Len(ext) ELSE blank(i + 1) - 1
  IN  [i \in DOMAIN eqs |-> <<SubSeq(ext, blank(i) + 1, eqs[i] - 1),
                              Unescaped(SubSeq(ext, eqs[i] + 1, end(i)))>>]
=============================================================================
