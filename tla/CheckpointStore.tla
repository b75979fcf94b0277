--------------------------- MODULE CheckpointStore ---------------------------
(***************************************************************************)
(* core/checkpoint.py: a JSON file per pipeline, written to a temporary    *)
(* file that replaces the old one.  The operators are steps of a save and  *)
(* of the failures it may meet; a caller composes them.  Nothing calls     *)
(* fsync: until the system writes a new file back by itself, a power       *)
(* failure may leave the old file, the new one, or an empty one.           *)
(***************************************************************************)
EXTENDS Integers, FiniteSets

CONSTANTS
  Pipelines,  \* names: sequences of characters
  Missing, Corrupt

VARIABLES
  file,    \* of each file name: what a load reads
  synced,  \*   what a power failure leaves
  saving,  \* of each pipeline, the save in progress: "none", "mkstemp",
           \*   "dump", "replace", "unlink"
  cp,      \*   the position being processed or saved
  litter   \* temporary files that nobody will remove

storeVars == <<file, synced, saving, cp, litter>>

\* CheckpointStore._path.
PathOf(p) == [i \in DOMAIN p |-> IF p[i] \in {"/", "\\"} THEN "_" ELSE p[i]]

Paths == {PathOf(p) : p \in Pipelines}

StoreInit ==
  /\ file = [f \in Paths |-> Missing] /\ synced = file
  /\ saving = [p \in Pipelines |-> "none"] /\ cp = [p \in Pipelines |-> 0]
  /\ litter = 0

Saved(p) == file[PathOf(p)]

BeginSave(p, position) ==
  /\ saving' = [saving EXCEPT ![p] = "mkstemp"]
  /\ cp' = [cp EXCEPT ![p] = position]
  /\ UNCHANGED <<file, synced, litter>>

Goes(p, from, to) == saving[p] = from /\ saving' = [saving EXCEPT ![p] = to]

MakeTemp(p) == Goes(p, "mkstemp", "dump") /\ UNCHANGED <<file, synced, cp, litter>>

Dump(p) == Goes(p, "dump", "replace") /\ UNCHANGED <<file, synced, cp, litter>>

\* Mutant of Replace: all pipelines use one temporary file, and the contents may be
\* another's.
ReplaceShared(p) ==
  /\ Goes(p, "replace", "none")
  /\ \E q \in Pipelines : /\ q = p \/ saving[q] = "replace"
                         /\ file' = [file EXCEPT ![PathOf(p)] = cp[q]]
  /\ UNCHANGED <<synced, cp, litter>>

Replace(p) ==
  /\ Goes(p, "replace", "none")
  /\ file' = [file EXCEPT ![PathOf(p)] = cp[p]]
  /\ UNCHANGED <<synced, cp, litter>>

\* mkstemp raises, with nothing to clean up.
MakeTempFails(p) == Goes(p, "mkstemp", "none") /\ UNCHANGED <<file, synced, cp, litter>>

\* The dump or os.replace raises.
WriteFails(p) ==
  /\ Goes(p, "dump", "unlink") \/ Goes(p, "replace", "unlink")
  /\ UNCHANGED <<file, synced, cp, litter>>

\* Mutant of Unlinked: the temporary file is not removed after a failure.
UnlinkForgotten(p) ==
  Goes(p, "unlink", "none") /\ litter' = litter + 1 /\ UNCHANGED <<file, synced, cp>>

Unlinked(p) == Goes(p, "unlink", "none") /\ UNCHANGED <<file, synced, cp, litter>>

\* The error of unlink is swallowed; that of the save is raised all the same.
UnlinkFails(p) ==
  Goes(p, "unlink", "none") /\ litter' = litter + 1 /\ UNCHANGED <<file, synced, cp>>

\* The system writes a file back.
WriteBack(f) ==
  /\ synced[f] # file[f]
  /\ synced' = [synced EXCEPT ![f] = file[f]]
  /\ UNCHANGED <<file, saving, cp, litter>>

Spoil(f) ==
  /\ \E c \in {Missing, Corrupt} :
       file' = [file EXCEPT ![f] = c] /\ synced' = [synced EXCEPT ![f] = c]
  /\ UNCHANGED <<saving, cp, litter>>

TempFiles == {p \in Pipelines : saving[p] \in {"dump", "replace", "unlink"}}

\* The process is gone, and its temporary files stay.
StoreCrash ==
  /\ saving' = [p \in Pipelines |-> "none"]
  /\ litter' = litter + Cardinality(TempFiles)
  /\ UNCHANGED cp

AfterPowerFailure(f) ==
  {file[f], synced[f]} \union (IF file[f] = synced[f] THEN {} ELSE {Corrupt})
=============================================================================
