------------------------------ MODULE S3Source ------------------------------
(***************************************************************************)
(* The decisions of sources/s3_source.py, without its I/O: which date      *)
(* prefixes a tick scans, which listed objects are new with respect to a   *)
(* checkpoint, and in which order they are taken.                          *)
(*                                                                         *)
(* A key "<base>/YYYYMMDD_<uuid>.jsonl.gz" is a natural number: the order  *)
(* of the numbers is the order of the strings, so a later date in the name *)
(* means a larger number.  Time is a natural number of clock units,        *)
(* DayLength of them to a UTC day; two objects stored in the same unit     *)
(* have the same LastModified, as S3's one-second stamps allow.            *)
(***************************************************************************)
EXTENDS Integers, FiniteSets

CONSTANTS
  Keys,       \* every object key of one log type that may ever be stored
  NameDay,    \* the day written in each key
  DayLength   \* clock units in a UTC day

ASSUME KeysAssumption == Keys \subseteq Nat /\ IsFiniteSet(Keys)
ASSUME NameDayAssumption ==
  /\ NameDay \in [Keys -> Nat]
  /\ \A j, k \in Keys : NameDay[j] < NameDay[k] => j < k
ASSUME DayLengthAssumption == DayLength \in Nat \ {0}

NoTime == -1   \* None for a datetime, and "not stored" for an object
NoKey  == -1   \* None for last_key

Checkpoint  == [lm : Nat \union {NoTime}, key : Keys \union {NoKey}]
EmptyCheckpoint == [lm |-> NoTime, key |-> NoKey]

Day(t) == t \div DayLength
-----------------------------------------------------------------------------
\* Mutants of the two operators below.
ScanDaysTodayOnly(now, lm) == {Day(now)}

IsNewInclusive(lm, key, cp) ==
  \/ cp.lm = NoTime
  \/ lm > cp.lm
  \/ lm = cp.lm /\ (cp.key = NoKey \/ key >= cp.key)

\* S3Source._scan_date_prefixes: yesterday and today, or every day since the
\* checkpoint (a day back when there is none) once it is older than 48 hours.
ScanDays(now, lm) ==
  IF lm = NoTime \/ now - lm > 2 * DayLength
  THEN Day(IF lm = NoTime THEN now - DayLength ELSE lm) .. Day(now)
  ELSE {Day(now) - 1, Day(now)}

\* S3Source._is_new.
IsNew(lm, key, cp) ==
  \/ cp.lm = NoTime
  \/ lm > cp.lm
  \/ lm = cp.lm /\ (cp.key = NoKey \/ key > cp.key)

\* What IsNew is meant to deny: the position (lm, key) is at or before the one
\* the checkpoint names; a fresh checkpoint names the instant before its lm.
Behind(lm, key, cp) ==
  \/ lm < cp.lm
  \/ lm = cp.lm /\ cp.key # NoKey /\ key <= cp.key

\* The order of the (LastModified, Key) tuples.
Precedes(lm1, key1, lm2, key2) == lm1 < lm2 \/ (lm1 = lm2 /\ key1 < key2)
=============================================================================
