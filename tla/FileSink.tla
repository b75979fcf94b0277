------------------------------- MODULE FileSink -------------------------------
(***************************************************************************)
(* sinks/file_sink.py: lines are appended to an active file through the    *)
(* buffer of a Python file object; when the file is large or old enough,   *)
(* send closes it, renames it, compresses it, removes the plain copy,      *)
(* deletes expired archives and opens a new file.  Each of these calls may *)
(* fail, and the process may die between any two of them.                  *)
(*                                                                         *)
(* The n-th call of send hands over event n, a line; sizes are counted in  *)
(* lines and times in clock units.  Rotated files are named by the local   *)
(* time of the rotation, which two rotations may share (the same second,   *)
(* or the hour repeated at the end of daylight saving time): Stamp is any  *)
(* function of the clock.  Files behave as on POSIX: rename replaces.      *)
(***************************************************************************)
EXTENDS Integers, FiniteSets, FiniteSetsExt

CONSTANTS MaxSize, MaxAge, Retention, Stamp,
          MaxSends, MaxClock, MaxFaults, MaxStops  \* bounds

ASSUME FileAssumption ==
  /\ MaxSize \in Nat \ {0} /\ MaxAge \in Nat \ {0} /\ Retention \in Nat \ {0}
  /\ MaxSends \in Nat /\ MaxClock \in Nat
  /\ MaxFaults \in Nat /\ MaxStops \in Nat
  /\ DOMAIN Stamp = 0 .. MaxClock

Events == 1 .. MaxSends
Names  == {Stamp[t] : t \in 0 .. MaxClock}

VARIABLES
  active, mtime,  \* the file at self._path: its lines, st_mtime
  tear,       \* does it end within a line? "no"; "open": the rest of the line
              \* is in the buffer; "orphan": the rest is gone
  exists,     \* is there a file at self._path?
  plain, gz,  \* rotated files by name: the lines; the lines and the mtime
  fh,         \* self._fh: "open", "closed"; "down": there is no process
  buf,        \* its buffer
  size, opened,  \* self._size, self._file_opened_at
  call,       \* "none", "send", "flush", "close"
  at,         \* the next step of a send, "none" without one
  result,     \* what the last finished call returned
  stamp,      \* the name the rotation in progress uses
  clock, sent, faults, stops,
  \* What became of the lines and when:
  reached,    \* written to the active file as a line of their own
  lost,       \* dropped with a buffer by _rotate, or glued to part of a line
  gone,       \* in a rotated file that another one replaced, or that was deleted
              \* when they were as old as retention_days
  before,     \* the buffer at the beginning of the send in progress
  sentAt,     \* the time of each send
  since,      \* the first line of this process
  unrenamed   \* a rename failed: the active file has more than size lines

content == <<active, mtime, tear, reached, lost>>
rotated == <<plain, gz, gone, exists, stamp, unrenamed>>
handle  == <<fh, buf, size, opened>>
calls   == <<call, at, before, result>>
sends   == <<sent, sentAt, since>>
world   == <<clock, faults, stops>>
vars    == <<content, rotated, handle, calls, sends, world>>

NoFiles == [n \in {} |-> {}]
With(f, n, v) == [m \in DOMAIN f \union {n} |-> IF m = n THEN v ELSE f[m]]
Without(f, N) == [n \in DOMAIN f \ N |-> f[n]]
LinesOf(f, n) == IF n \in DOMAIN f THEN f[n] ELSE {}
Archived(n)   == IF n \in DOMAIN gz THEN gz[n].lines ELSE {}

Init ==
  /\ active = {} /\ mtime = 0 /\ tear = "no" /\ exists = TRUE
  /\ plain = NoFiles /\ gz = NoFiles /\ stamp = Stamp[0] /\ unrenamed = FALSE
  /\ fh = "open" /\ buf = {} /\ size = 0 /\ opened = 0
  /\ call = "none" /\ at = "none" /\ result = TRUE /\ before = {}
  /\ clock = 0 /\ faults = 0 /\ stops = 0
  /\ sent = 0 /\ sentAt = [e \in Events |-> 0] /\ since = 1
  /\ reached = {} /\ lost = {} /\ gone = {}

PassTime ==
  /\ clock < MaxClock /\ clock' = clock + 1
  /\ UNCHANGED <<content, rotated, handle, calls, sends, faults, stops>>

-----------------------------------------------------------------------------
\* The file object writes the lines W, the oldest of its buffer, and ends as said
\* by end, within the next line unless end is "no"; the lines Dropped never follow.
WriteOut(W, end, Dropped) ==
  LET stuck == IF tear = "orphan" /\ W # {} THEN {Min(W)} ELSE {}
  IN /\ active' = active \union W
     /\ mtime' = IF W = {} /\ end = "no" THEN mtime ELSE clock
     /\ tear' = IF W = {} /\ (tear = "orphan" \/ end = "no") THEN tear ELSE end
     /\ reached' = reached \union (W \ stuck)
     /\ lost' = lost \union stuck \union Dropped

WritesAll == WriteOut(buf, "no", {}) /\ buf' = {} /\ UNCHANGED faults

Fault == faults < MaxFaults /\ faults' = faults + 1

\* What a failed write leaves of the buffer: its latest lines.
Rests == {rest \in (SUBSET buf) \ {{}} : \A r \in rest, w \in buf \ rest : w < r}

\* A write fails: the oldest lines are out, perhaps with a part of the next.
WritesPart(rest, Dropped) ==
  Fault /\ \E end \in {"no", "open"} : WriteOut(buf \ rest, end, Dropped)

KeepsRest == \E rest \in Rests : WritesPart(rest, {}) /\ buf' = rest

Return(r) ==
  /\ call' = "none" /\ at' = "none" /\ before' = {} /\ result' = r

NeedsRotation(lines) == lines >= MaxSize \/ clock - opened >= MaxAge
-----------------------------------------------------------------------------
Send ==
  /\ fh # "down" /\ call = "none" /\ sent < MaxSends
  /\ sent' = sent + 1 /\ sentAt' = [sentAt EXCEPT ![sent + 1] = clock]
  /\ call' = "send" /\ at' = "write" /\ before' = buf
  /\ UNCHANGED <<content, rotated, handle, result, since, world>>

Writing == at = "write" /\ fh = "open"

\* The line fits, pushes the older ones out, or is itself written through.
Write ==
  /\ Writing
  /\ \/ buf' = buf \union {sent}
        /\ UNCHANGED content
     \/ buf # {} /\ buf' = {sent} /\ WriteOut(buf, "no", {})
     \/ buf' = {} /\ WriteOut(buf \union {sent}, "no", {})
  /\ size' = size + 1
  /\ IF NeedsRotation(size + 1)
     THEN at' = "close" /\ UNCHANGED <<call, before, result>>
     ELSE Return(TRUE)
  /\ UNCHANGED <<rotated, fh, opened, sends, world>>

\* OSError: the line is not in the buffer; one that is longer than the buffer may
\* have been written in part.
WriteFails ==
  /\ Writing
  /\ \/ KeepsRest
     \/ Fault /\ WriteOut(buf, "orphan", {}) /\ buf' = {}
  /\ Return(FALSE)
  /\ UNCHANGED <<rotated, fh, size, opened, sends, clock, stops>>

\* ValueError, of a file object that was closed and not opened again.
CallRaises ==
  /\ fh = "closed" /\ (at = "write" \/ call = "flush")
  /\ Return(FALSE)
  /\ UNCHANGED <<content, rotated, handle, sends, world>>

Flush ==
  /\ fh # "down" /\ call = "none" /\ call' = "flush"
  /\ UNCHANGED <<content, rotated, handle, at, before, result, sends, world>>

FlushOk ==
  /\ call = "flush" /\ fh = "open"
  /\ WritesAll
  /\ Return(TRUE)
  /\ UNCHANGED <<rotated, fh, size, opened, sends, clock, stops>>

\* Mutant of FlushFails: the error is only logged.
FlushFailsTrue ==
  /\ call = "flush" /\ fh = "open"
  /\ KeepsRest
  /\ Return(TRUE)
  /\ UNCHANGED <<rotated, fh, size, opened, sends, clock, stops>>

FlushFails ==
  /\ call = "flush" /\ fh = "open"
  /\ KeepsRest
  /\ Return(FALSE)
  /\ UNCHANGED <<rotated, fh, size, opened, sends, clock, stops>>
-----------------------------------------------------------------------------
(* _rotate *)

\* The step of a rotation at from, once the file object is closed.
RotateStep(from, to) ==
  at = from /\ at' = to /\ UNCHANGED <<handle, call, before, result, sends, clock, stops>>

CloseFile ==
  /\ at = "close" /\ at' = "rename" /\ fh' = "closed"
  /\ UNCHANGED <<rotated, size, opened, call, before, result, sends, clock, stops>>

RotateClose == CloseFile /\ WritesAll

\* Mutant of RotateCloseFails: the buffer survives the close.
RotateCloseFailsKeeping == CloseFile /\ KeepsRest

\* The file object is closed all the same, and what it still had is gone; the
\* error is swallowed.
RotateCloseFails ==
  CloseFile /\ (\E rest \in Rests : WritesPart(rest, rest)) /\ buf' = {}

\* A rest of a line that is no longer in the buffer will not follow.
Torn == IF tear = "open" THEN "orphan" ELSE tear

Rename ==
  /\ RotateStep("rename", "compress")
  /\ stamp' = Stamp[clock]
  /\ plain' = With(plain, stamp', active)
  /\ gone' = gone \union LinesOf(plain, stamp')
  /\ active' = {} /\ exists' = FALSE /\ tear' = "no" /\ unrenamed' = FALSE
  /\ UNCHANGED <<mtime, reached, lost, gz, faults>>

RenameFails ==
  /\ RotateStep("rename", "cleanup") /\ Fault
  /\ tear' = Torn /\ unrenamed' = TRUE
  /\ UNCHANGED <<active, mtime, reached, lost, plain, gz, gone, exists, stamp>>

\* gzip.open(..., "wb") truncates an archive of this name.
CompressBegins ==
  /\ RotateStep("compress", "copy")
  /\ gone' = gone \union Archived(stamp)
  /\ gz' = With(gz, stamp, [lines |-> {}, mtime |-> clock])
  /\ UNCHANGED <<content, plain, exists, stamp, unrenamed, faults>>

CopyEnds ==
  /\ RotateStep("copy", "unlink")
  /\ gz' = [gz EXCEPT ![stamp] = [lines |-> plain[stamp], mtime |-> clock]]
  /\ UNCHANGED <<content, plain, gone, exists, stamp, unrenamed, faults>>

\* Mutant of Unlink: the plain file stays beside its archive.
UnlinkForgotten ==
  RotateStep("unlink", "cleanup") /\ UNCHANGED <<content, rotated, faults>>

Unlink ==
  /\ RotateStep("unlink", "cleanup")
  /\ plain' = Without(plain, {stamp})
  /\ UNCHANGED <<content, gz, gone, exists, stamp, unrenamed, faults>>

\* Mutant of CompressFails: the plain file is removed in a finally clause.
CompressFailsUnlinks ==
  /\ RotateStep("copy", "cleanup") /\ Fault
  /\ plain' = Without(plain, {stamp})
  /\ UNCHANGED <<content, gz, gone, exists, stamp, unrenamed>>

\* An archive that was not finished holds nothing one can rely on; the plain
\* file stays for good, as it does when its removal fails.
CompressFails ==
  /\ \E from \in {"compress", "copy", "unlink"} : RotateStep(from, "cleanup")
  /\ Fault /\ UNCHANGED <<content, rotated>>

Expired == {n \in DOMAIN gz : gz[n].mtime < clock - Retention}

\* _cleanup_old; the removal of a file may fail.
CleanUp ==
  /\ RotateStep("cleanup", "reopen")
  /\ \E N \in SUBSET Expired :
       /\ IF N = Expired THEN UNCHANGED faults ELSE Fault
       /\ gz' = Without(gz, N)
       /\ gone' = gone \union {e \in UNION {gz[n].lines : n \in N} :
                                  clock - sentAt[e] > Retention}
  /\ UNCHANGED <<content, plain, exists, stamp, unrenamed>>

\* open("ab"), which creates the file if it is not there.
OpenActive ==
  fh' = "open" /\ exists' = TRUE /\ mtime' = (IF exists THEN mtime ELSE clock)

Reopen ==
  /\ at = "reopen"
  /\ OpenActive /\ size' = 0 /\ opened' = clock
  /\ Return(TRUE)
  /\ UNCHANGED <<active, tear, reached, lost, plain, gz, gone, stamp, unrenamed,
                 buf, sends, world>>

\* The exception leaves send; the closed file object stays.
ReopenFails ==
  /\ at = "reopen" /\ Fault
  /\ Return(FALSE)
  /\ UNCHANGED <<content, rotated, handle, sends, clock, stops>>
-----------------------------------------------------------------------------
CanStop == fh # "down" /\ stops < MaxStops /\ stops' = stops + 1

\* close(), at the end of the program.
Close ==
  /\ call = "none" /\ CanStop /\ call' = "close"
  /\ UNCHANGED <<content, rotated, handle, at, before, result, sends, clock, faults>>

Ends == fh' = "down" /\ buf' = {} /\ Return(FALSE)

\* The buffer is written out before the program ends, or only a part of it.
Closed ==
  /\ call = "close"
  /\ \/ WriteOut(buf, "no", {}) /\ UNCHANGED faults
     \/ \E rest \in Rests : WritesPart(rest, {})
  /\ Ends
  /\ UNCHANGED <<rotated, size, opened, sends, clock, stops>>

Crash ==
  /\ CanStop /\ call # "close"
  /\ Ends /\ tear' = Torn
  /\ UNCHANGED <<active, mtime, reached, lost, rotated, size, opened, sends, clock, faults>>

\* Mutant of SizeOnDisk: a new process starts counting at 0.
SizeForgotten == 0

\* st_size.
SizeOnDisk == Cardinality(active)

\* __init__; the age of the file is taken from its last modification.
Restart ==
  /\ fh = "down" /\ OpenActive
  /\ size' = SizeOnDisk /\ opened' = mtime'
  /\ tear' = Torn /\ since' = sent + 1 /\ unrenamed' = FALSE
  /\ UNCHANGED <<active, reached, lost, plain, gz, gone, stamp, buf, calls, sent,
                 sentAt, world>>

Rotate ==
  \/ RotateClose \/ RotateCloseFails \/ Rename \/ RenameFails
  \/ CompressBegins \/ CopyEnds \/ Unlink \/ CompressFails
  \/ CleanUp \/ Reopen \/ ReopenFails

Next ==
  \/ Send \/ Write \/ WriteFails \/ Flush \/ FlushOk \/ FlushFails \/ CallRaises
  \/ Rotate \/ Close \/ Closed \/ Crash \/ Restart \/ PassTime

Spec == Init /\ [][Next]_vars
-----------------------------------------------------------------------------
TypeOK ==
  /\ active \in SUBSET Events /\ exists \in BOOLEAN /\ mtime \in 0 .. clock
  /\ tear \in {"no", "open", "orphan"}
  /\ DOMAIN plain \subseteq Names /\ DOMAIN gz \subseteq Names
  /\ \A n \in DOMAIN plain : plain[n] \subseteq Events
  /\ \A n \in DOMAIN gz : gz[n].lines \subseteq Events /\ gz[n].mtime \in 0 .. clock
  /\ fh \in {"open", "closed", "down"}
  /\ buf \in SUBSET Events /\ (buf # {} => fh = "open")
  /\ size \in 0 .. MaxSends /\ opened \in 0 .. clock
  /\ call \in {"none", "send", "flush", "close"}
  /\ at \in {"none", "write", "close", "rename", "compress", "copy", "unlink",
             "cleanup", "reopen"}
  /\ at # "none" <=> call = "send"
  /\ stamp \in Names /\ result \in BOOLEAN
  /\ clock \in 0 .. MaxClock /\ sent \in 0 .. MaxSends
  /\ faults \in 0 .. MaxFaults /\ stops \in 0 .. MaxStops

Stored ==
  active \union (UNION {plain[n] : n \in DOMAIN plain})
         \union (UNION {gz[n].lines : n \in DOMAIN gz})

\* Whatever fails or dies in a rotation, a line that has reached the disk is in
\* the active file, in a rotated one or in an archive, unless a rotation of the
\* same local second replaced it, or it is older than retention_days (_rotate
\* removes the plain file only after the archive is complete).
StoredOrNamed == reached \subseteq Stored \union gone

\* Rotated files left uncompressed, which _cleanup_old never deletes, are no
\* more than the failures and process ends that caused them.
LeftoversHaveCause == at = "none" => Cardinality(DOMAIN plain) <= faults + stops

\* A send that returns without having rotated leaves no line of this process in
\* the active file that is as old as rotation_hours, and fewer lines than fill the
\* file -- self._size is true across restarts, failed writes and lost buffers --
\* unless a rename failed.
RotatedInTime ==
  [][at = "write" /\ at' = "none" /\ result' /\ ~unrenamed =>
       /\ Cardinality(active' \union buf') < MaxSize
       /\ \A e \in active' \union buf' : e >= since => clock - sentAt[e] < MaxAge]_vars

Promise ==
  INSTANCE SinkSpec
    WITH pending   <- IF call = "send" THEN before ELSE buf,
         delivered <- reached \union lost,
         arg       <- IF call = "send" THEN {sent} ELSE {},
         call      <- IF call = "close" THEN "flush" ELSE call

\* FileSink is a sink in the sense of SinkSpec, but for two ways to lose a line
\* for which its caller was told True: a rotation whose close fails drops
\* the buffer, and a line that follows the remains of an earlier one is glued to it.
KeepsPromise == Promise!SinkPromise
=============================================================================
