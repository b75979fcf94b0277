----------------------------- MODULE MCFileSink -----------------------------
(* Values of the constants of FileSink for TLC.                             *)
EXTENDS FileSink

\* The clock is set back after its second unit, as at the end of daylight saving.
HourRepeated == [t \in 0 .. MaxClock |-> IF t = 2 THEN 1 ELSE t]
=============================================================================
