-------------------------------- MODULE Tools --------------------------------
(***************************************************************************)
(* The two programs of the repository that read config.yaml: the collector *)
(* as far as Startup goes, and s3_log_checker, which an operator runs when *)
(* the collector gets no objects.  They share the file and nothing else,   *)
(* so that a behaviour is one of either.                                   *)
(***************************************************************************)
EXTENDS Startup, LogChecker

VARIABLES program  \* "collector" or "checker"

vars == <<program, startupVars, checkerVars>>

Init ==
  /\ program \in {"collector", "checker"}
  /\ StartupInit /\ CheckerInit

Next ==
  \/ program = "collector" /\ StartupNext /\ UNCHANGED <<program, checkerVars>>
  \/ program = "checker" /\ CheckerNext /\ UNCHANGED <<program, startupVars>>

Spec == Init /\ [][Next]_vars

=============================================================================
