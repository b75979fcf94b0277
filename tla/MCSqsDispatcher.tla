--------------------------- MODULE MCSqsDispatcher ---------------------------
(* Instances of SqsDispatcher for TLC: messages and what they name.        *)
EXTENDS SqsDispatcher

\* A message that can be handled, one that is kept, and one of a shape that ends
\* its batch.
MessagesThree == 1 .. 3
OnePoison     == <<"event", "event", "poison">>
ObjectsThree  == 1 .. 3
OneForeign    == <<"gzip", "unrouted", "foreign">>
SizesTwo      == <<2, 1, 1>>
OneSkipped    == {<<1, 2>>}
RefsGood      == << <<1, 2>>, <<3>>, <<>> >>

\* A message that can be handled, one with an object that ends its batch, and one
\* that is no JSON, each taking time.
OneMalformed  == <<"event", "event", "malformed">>
ObjectsFour   == 1 .. 4
OneCut        == <<"gzip", "gzip", "notgzip", "truncated">>
SizesOne      == <<1, 1, 1, 1>>
NoneSkipped   == {}
RefsCut       == << <<2, 1>>, <<3, 4>>, <<>> >>
=============================================================================
