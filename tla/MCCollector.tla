----------------------------- MODULE MCCollector -----------------------------
(* Values of the constants of Collector for TLC.                            *)
EXTENDS Collector

\* One name has a character that file names may not have.
Audit == <<"a">>
Flows == <<"f", "/">>

PipelinesTwo == {Audit, Flows}
OrderTwo     == <<Audit, Flows>>
HangingOne   == {Flows}
=============================================================================
