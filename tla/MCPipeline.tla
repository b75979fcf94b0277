----------------------------- MODULE MCPipeline -----------------------------
(* Instances of Pipeline for TLC: objects by day, kind and size.           *)
EXTENDS Pipeline

NoneSkipped == {}

\* Four objects of three days, of every kind; the first has two lines, of which
\* one is sent.
KeysFour   == 1 .. 4
ThreeDays  == <<0, 1, 1, 2>>
MixedKinds == <<"gzip", "notgzip", "truncated", "gzip">>
Sizes      == <<2, 1, 1, 1>>
OneSkipped == {<<1, 1>>}

\* Four objects of one day, stored on it or up to two days later: two that are
\* not gzip fill a list of two, one is cut short, one is good.
OneDay       == <<0, 0, 0, 0>>
HoldingKinds == <<"notgzip", "gzip", "notgzip", "truncated">>
OneLineEach  == <<1, 1, 1, 1>>

\* Two objects, for the counterexample.
KeysTwo        == 1 .. 2
TwoObjects     == <<1, 1>>
TwoSameDay     == <<0, 0>>
FirstTruncated == <<"truncated", "gzip">>
=============================================================================
