------------------------------ MODULE EventPath ------------------------------
(***************************************************************************)
(* The way of one line through Pipeline._process_file (the same as in      *)
(* SqsPipeline.process): parsed, filtered, and mapped to what the sink     *)
(* gets.  The checkpoint goes past the object whatever becomes of the      *)
(* line, so that a line that is dropped is lost.                           *)
(***************************************************************************)
EXTENDS Flatten, EventFilter, Cef

CONSTANTS
  Lines,     \* [bad |-> TRUE], or what json.loads returns
  Filters,   \* expressions, and [op |-> "none"] for a pipeline without
  Mappers,   \* configurations: format, flatten and what Flatten and Cef need
  NowText    \* the time now, a text

VARIABLES line, filter, mapper, stage, wire

vars == <<line, filter, mapper, stage, wire>>

NoWire == [none |-> TRUE]

Init ==
  /\ line \in Lines /\ filter \in Filters /\ mapper \in Mappers
  /\ stage = "read" /\ wire = NoWire

\* json.loads
ReadLine ==
  /\ stage = "read"
  /\ stage' = IF Is("bad", line) THEN "mapper_err" ELSE "filter"
  /\ UNCHANGED <<line, filter, mapper, wire>>

Filter ==
  /\ stage = "filter"
  /\ stage' = IF filter.op = "none" \/ Match(filter, line) THEN "map" ELSE "filtered"
  /\ UNCHANGED <<line, filter, mapper, wire>>

\* `a or b` in Python
Or(v, default) == IF Truthy(v) THEN v ELSE default

SyslogHeader(event) ==
  <<Or(Get(event, <<"timestamp">>, Null), NowText), Or(Get(event, <<"pce_fqdn">>, Null), Text(<<"-">>))>>

Body(event) == IF mapper.flatten THEN FlattenObject(event, mapper) ELSE event

HalfInBody(event) ==
  IF mapper.flatten
    THEN LET flat == FlattenObject(event, mapper)
         IN  \E name \in DOMAIN flat : HalfPair \in ToSet(name) \/ HasHalf(flat[name])
    ELSE HasHalf(event)

\* str() of what is no text escapes it.
HalfInHeader(event) ==
  \E i \in 1 .. 2 : Is("text", SyslogHeader(event)[i]) /\ HasHalf(SyslogHeader(event)[i])

\* .encode("utf-8")
Encoded(w, half) == IF half THEN Raises ELSE w

CefRaises(event) ==
  \/ SeverityRaises(event, mapper) \/ NameRaises(event, mapper)
  \/ \E i \in DOMAIN mapper.extensions :
       /\ Is("path", mapper.extensions[i])
       /\ ResolvePath(event, mapper.extensions[i].path) = Raises

\* Mapper.format of an event, or Raises.
Format(event) ==
  CASE mapper.format = "json" /\ ~mapper.flatten ->
         Encoded([body |-> Dumps(event)], HasHalf(event))
    [] ~Is("obj", event) -> Raises
    [] mapper.format = "json" /\ mapper.flatten ->
         Encoded([body |-> Dumps(Body(event))], HalfInBody(event))
    [] mapper.format = "syslog_json" ->
         Encoded([header |-> SyslogHeader(event), body |-> Dumps(Body(event))],
                 HalfInHeader(event) \/ HalfInBody(event))
    [] mapper.format = "cef" ->
         IF CefRaises(event) THEN Raises
         ELSE LET cef == Cef(event, mapper)
              IN  Encoded([header |-> SyslogHeader(event), cef |-> cef],
                          HalfInHeader(event) \/ HalfPair \in ToSet(cef))

Map ==
  /\ stage = "map"
  /\ LET formatted == Format(line)
     IN  IF formatted = Raises THEN stage' = "mapper_err" /\ UNCHANGED wire
                               ELSE stage' = "sent" /\ wire' = formatted
  /\ UNCHANGED <<line, filter, mapper>>

Next == ReadLine \/ Filter \/ Map

Spec == Init /\ [][Next]_vars
-----------------------------------------------------------------------------
\* An event that is sent is one that the documentation of filters says is wanted; one
\* that is filtered out is not, unless the expression looks below a field that the
\* event does not have, or compares what has no order (such an event is lost).
FilterAsDocumented ==
  (filter.op # "none" /\ ~Is("bad", line)) =>
    /\ stage \in {"map", "sent"} => Wanted(filter, line)
    /\ stage = "filtered" => ~Wanted(filter, line) \/ Blind(filter, line)

\* The mapping file asks for what cannot be made of this event: a part of the name
\* template is no field, or looks into a field that is no object, or neither the
\* severity it gives the event nor the default one is a number.
MappingAtFault ==
  /\ mapper.format = "cef"
  /\ \/ SeverityRaises(line, mapper)
     \/ \E p \in ToSet(mapper.name_template) :
          \/ Is("broken", p)
          \/ Is("item", p) /\ p.field \in Keys(line) /\ ~Is("obj", Get(line, p.field, Null))

\* A mapper drops an object only for half of a surrogate pair somewhere in it, or
\* where the mapping file is at fault: not for the fields it lacks, nor for what is in
\* the place of an object the extensions go through.
MappersDropNoObject ==
  stage = "mapper_err" =>
    Is("bad", line) \/ ~Is("obj", line) \/ HasHalf(line) \/ MappingAtFault

RECURSIVE AllKeys(_)
AllKeys(v) ==
  IF Is("obj", v) THEN Keys(v) \union UNION {AllKeys(v.obj[i][2]) : i \in DOMAIN v.obj} ELSE {}

\* A receiver of a flattened event finds every field under the name of its path, and
\* no other.  Fields with one name (keys that contain the separator, or end with it
\* before an empty object) replace each other, and one of them is there.  The value is
\* that of the event, None as None, unless it is as deep as max_depth, where every
\* value becomes a JSON text; the docstring (_flatten.py:22-23) has this of what is
\* nested still deeper only.
FieldsSurvive ==
  (stage = "sent" /\ mapper.format # "cef" /\ mapper.flatten
     /\ mapper.array_strategy = "stringify")
  => FlatAsExpected(wire.body.json, line, AllKeys(line), mapper)

\* A receiver that takes a line for a record and reads it by the rules of CEF gets the
\* header fields and the extensions that were put in, whatever blanks, bars, backslashes
\* and equals signs they contain.  A newline is not escaped and ends the record: what
\* was put in before the first one can be read, the rest cannot.
CefReadsBack ==
  (stage = "sent" /\ mapper.format = "cef"
     /\ \A i \in 1 .. 6 : OneLine(HeaderFields(line, mapper)[i])) =>
    LET record == FirstLine(wire.cef)
        pairs  == Pairs(line, mapper)
        broken == SelectInSeq(pairs, LAMBDA pair : ~OneLine(pair[2]))
    IN  /\ ReadHeader(record) = HeaderFields(line, mapper)
        /\ IF broken = 0 THEN ReadExtensions(record) = pairs
           ELSE SubSeq(ReadExtensions(record), 1, broken - 1) = SubSeq(pairs, 1, broken - 1)
=============================================================================
