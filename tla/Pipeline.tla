------------------------------ MODULE Pipeline ------------------------------
(***************************************************************************)
(* One polling pipeline of the collector: Pipeline.tick and                *)
(* Pipeline._process_file of core/pipeline.py, run by the interval         *)
(* scheduler over S3Source.iter_new_files, a checkpoint file and a sink.   *)
(*                                                                         *)
(* The process, the bucket, the clock, the operator and the disk interleave*)
(* freely: objects are stored at any time, also between two steps of a     *)
(* listing; the process may die at every step; every S3, sink and disk     *)
(* call may fail.  One program step is one call that leaves the process    *)
(* (a listed object, a get, a send, a flush, a save).                      *)
(*                                                                         *)
(* Abstractions.  An object is its key, its LastModified, what             *)
(* gzip.decompress does with it, and its numbered lines; an event is       *)
(* <<key, line>>.  The sorted list of candidates is kept as a set, its     *)
(* order being that of (LastModified, Key).  A page of list_objects_v2 has *)
(* one object: larger pages only remove interleavings.  The sink is any    *)
(* that honours SinkContract.  Scheduling (max_instances=1) is the single  *)
(* pc.  The checkpoint file holds the cursor only: its counters are        *)
(* statistics.                                                             *)
(***************************************************************************)
EXTENDS S3Source, SinkContract

CONSTANTS
  Kind,             \* what gzip.decompress makes of an object's bytes
  Size,             \* number of non-blank lines of an object
  Skipped,          \* events not sent: bad JSON, filtered out, mapper error
  MaxFilesPerTick,
  Lookback,         \* initial_lookback_hours, which the factory also passes
                    \* as recovery_lookback_hours
  UploadLag,        \* days by which an upload may trail the date in its name
  Epoch,            \* the clock when the collector is installed
  MaxClock,         \* bound: the clock stops there
  MaxStops,         \* bound on the ends of the process, crashes included
  MaxFaults,        \* bound on failing S3, sink and disk calls
  MaxFileEvents,    \* bound on damages and removals of the checkpoint file
  Missing, Corrupt  \* checkpoint file absent, or not parseable

ASSUME KindAssumption == Kind \in [Keys -> {"gzip", "notgzip", "truncated"}]
ASSUME SizeAssumption == Size \in [Keys -> Nat]
ASSUME SkippedAssumption == Skipped \subseteq Keys \X Nat
ASSUME MaxFilesAssumption == MaxFilesPerTick \in Nat \ {0}
ASSUME ClockAssumption ==
  /\ Epoch \in Nat /\ MaxClock \in Nat /\ UploadLag \in Nat
  /\ Lookback \in 0 .. Epoch
ASSUME BoundAssumption ==
  MaxStops \in Nat /\ MaxFaults \in Nat /\ MaxFileEvents \in Nat
ASSUME FileAssumption ==
  Missing # Corrupt /\ Missing \notin Checkpoint /\ Corrupt \notin Checkpoint

VARIABLES
  \* the world
  clock,      \* UTC now
  modified,   \* LastModified of each stored object, NoTime if not stored
  file,       \* <checkpoint dir>/<name>.json
  \* the process
  pc,         \* "down", "idle" (between two ticks), or the stage of a tick
  cp,         \* the tick's checkpoint
  scan,       \* days whose prefix is not wholly listed yet
  cursor,     \* last key listed
  cands,      \* candidates not taken yet
  cur,        \* object being processed
  line,       \* its next line
  sentAny,    \* sent_in_file > 0
  \* ghosts: what the properties are stated with, read by no action
  missable,   \* objects this tick cannot list: stored too late, or in a day
              \* that it does not scan
  overtaken,  \* missable objects that a checkpoint has gone past, and objects
              \* stored behind one
  floor,      \* latest fresh checkpoint: older objects are out of scope
  \* bounds
  stops, faults, fileEvents

world  == <<clock, modified>>
tick   == <<cp, scan, cursor, cands, cur, line, sentAny, missable>>
history == <<overtaken, floor>>
bounds == <<stops, faults, fileEvents>>
vars   == <<world, file, pc, tick, history, bounds, sinkVars>>

Stages == {"list", "fetch", "file", "save"}
InTick == pc \in Stages
-----------------------------------------------------------------------------
Present  == {k \in Keys : modified[k] # NoTime}
EventsOf(k) == ({k} \X (1 .. Size[k])) \ Skipped
Sendable    == UNION {EventsOf(k) : k \in Keys}

Before(j, k) == Precedes(modified[j], j, modified[k], k)
New(k, c)    == IsNew(modified[k], k, c)
Passed(c)    == {k \in Present : Behind(modified[k], k, c)}
At(k)        == [lm |-> modified[k], key |-> k]   \* Checkpoint.advance

\* CheckpointStore.fresh
Fresh    == [lm |-> clock - Lookback, key |-> NoKey]
Raise(c) ==
  floor' = IF c.lm > floor THEN c.lm ELSE floor

\* The generator of iter_new_files and the locals of tick are gone.
TickOver(where) ==
  /\ pc' = where
  /\ cp' = EmptyCheckpoint /\ scan' = {} /\ cursor' = NoKey /\ cands' = {}
  /\ cur' = NoKey /\ line' = 0 /\ sentAny' = FALSE /\ missable' = {}

Fault == faults < MaxFaults /\ faults' = faults + 1
         /\ UNCHANGED <<stops, fileEvents>>

Init ==
  /\ clock = Epoch /\ modified = [k \in Keys |-> NoTime]
  /\ file = Missing /\ pc = "down"
  /\ cp = EmptyCheckpoint /\ scan = {} /\ cursor = NoKey /\ cands = {}
  /\ cur = NoKey /\ line = 0 /\ sentAny = FALSE /\ missable = {}
  /\ overtaken = {} /\ floor = 0
  /\ stops = 0 /\ faults = 0 /\ fileEvents = 0
  /\ SinkInit
-----------------------------------------------------------------------------
(* The world.                                                              *)

PassTime ==
  /\ clock < MaxClock
  /\ clock' = clock + 1
  /\ UNCHANGED <<modified, file, pc, tick, history, bounds, sinkVars>>

\* The PCE stores an object, at most UploadLag days after the date in its name.
PutObject(k) ==
  /\ k \notin Present
  /\ Day(clock) \in NameDay[k] .. (NameDay[k] + UploadLag)
  /\ modified' = [modified EXCEPT ![k] = clock]
  /\ missable' = IF InTick /\ (NameDay[k] \notin scan \/ k <= cursor)
                 THEN missable \union {k} ELSE missable
  /\ overtaken' = IF \/ file \in Checkpoint /\ Behind(clock, k, file)
                     \/ Behind(clock, k, cp)
                  THEN overtaken \union {k} ELSE overtaken
  /\ UNCHANGED <<clock, file, pc, cp, scan, cursor, cands, cur, line, sentAny,
                 floor, bounds, sinkVars>>

\* A damaged disk or an editor truncates the checkpoint, or the operator
\* deletes it to replay (OPERATIONS.md), with the service running or not.
SpoilFile(f) ==
  /\ fileEvents < MaxFileEvents
  /\ file \in Checkpoint
  /\ file' = f /\ fileEvents' = fileEvents + 1
  /\ UNCHANGED <<world, pc, tick, history, stops, faults, sinkVars>>

\* kill -9, SIGTERM (the polling mode installs no handler), power loss.
Crash ==
  /\ pc # "down" /\ stops < MaxStops
  /\ stops' = stops + 1
  /\ TickOver("down")
  /\ SinkCrash
  /\ UNCHANGED <<world, file, history, faults, fileEvents>>
-----------------------------------------------------------------------------
(* The process.                                                            *)

\* _build_polling.  With a Corrupt file load raises and the process exits: no
\* start succeeds before the operator deletes the file.
Start ==
  /\ pc = "down"
  /\ pc' = "idle"
  /\ \/ /\ file \in Checkpoint
        /\ UNCHANGED <<file, floor>>
     \/ /\ file = Missing
        /\ file' = Fresh
        /\ Raise(Fresh)
  /\ UNCHANGED <<world, tick, overtaken, bounds, sinkVars>>

\* Ctrl-C between ticks, or the end of --once: the sinks are closed, which
\* writes the buffer out or loses it.
Stop ==
  /\ pc = "idle" /\ stops < MaxStops
  /\ stops' = stops + 1
  /\ pc' = "down"
  /\ pending' = {}
  /\ \E D \in {{}, pending} : delivered' = delivered \union D
  /\ UNCHANGED <<world, file, tick, history, faults, fileEvents>>

\* tick: choose the date prefixes for the checkpoint.
StartWith(c) ==
  /\ pc' = "list"
  /\ cp' = c
  /\ scan' = ScanDays(clock, c.lm)
  /\ missable' = {k \in Present : NameDay[k] \notin ScanDays(clock, c.lm)}
  /\ UNCHANGED <<world, cursor, cands, cur, line, sentAny, overtaken, sinkVars>>

\* tick, when load raises: now - lookback is saved over what is there.
Reset == StartWith(Fresh) /\ file' = Fresh /\ Raise(Fresh)

\* tick: load the checkpoint, or reset one that cannot be parsed.
LoadCheckpoint ==
  /\ pc = "idle"
  /\ \/ /\ file \in Checkpoint
        /\ StartWith(file) /\ UNCHANGED <<file, floor>>
     \/ /\ file = Missing
        /\ StartWith(EmptyCheckpoint) /\ UNCHANGED <<file, floor>>
     \/ file = Corrupt /\ Reset
  /\ UNCHANGED bounds

\* An intact file cannot be opened or read: load makes every exception a
\* CheckpointError, so that a tick resets this checkpoint as well ...
LoadFails ==
  /\ pc = "idle" /\ file \in Checkpoint
  /\ Fault
  /\ Reset

\* ... and the process does not start.
StartFails ==
  /\ pc = "down" /\ file \in Checkpoint
  /\ Fault
  /\ UNCHANGED <<world, file, pc, tick, history, sinkVars>>

\* k is the next object under the first date prefix not wholly listed.
ToList(k) == k \in Present /\ NameDay[k] \in scan /\ k > cursor

Last(k) == k \in cands /\ \A j \in cands : j = k \/ Before(j, k)

\* Mutants of Offer: the bound is forgotten; a full list is never revised.
OfferUnbounded(k) == cands' = cands \union {k}

OfferKeepsFirst(k) ==
  cands' = IF Cardinality(cands) < MaxFilesPerTick THEN cands \union {k}
                                                   ELSE cands

\* candidates, sorted and bounded: insort while there is room, else replace
\* the last one when the new object comes before it.
Offer(k) ==
  \/ /\ Cardinality(cands) < MaxFilesPerTick
     /\ cands' = cands \union {k}
  \/ /\ Cardinality(cands) >= MaxFilesPerTick
     /\ \E last \in cands :
          /\ Last(last)
          /\ cands' = IF Before(k, last) THEN (cands \ {last}) \union {k}
                                         ELSE cands

ListObject(k) ==
  /\ pc = "list"
  /\ ToList(k) /\ \A d \in scan : NameDay[k] <= d
  /\ \A j \in Keys : ToList(j) => k <= j
  /\ cursor' = k
  /\ IF New(k, cp) THEN Offer(k) ELSE UNCHANGED cands
  /\ UNCHANGED <<world, file, pc, cp, scan, cur, line, sentAny, missable,
                 history, bounds, sinkVars>>

\* The paginator of the first remaining prefix d is exhausted.
ListPrefixDone(d) ==
  /\ pc = "list"
  /\ d \in scan /\ \A x \in scan : d <= x
  /\ ~ \E k \in Keys : ToList(k) /\ NameDay[k] = d
  /\ scan' = scan \ {d}
  /\ pc' = IF scan' = {} THEN "fetch" ELSE "list"
  /\ UNCHANGED <<world, file, cp, cursor, cands, cur, line, sentAny, missable,
                 history, bounds, sinkVars>>

\* list_objects_v2 or get_object raises: SourceError, "tick aborted".
SourceFails ==
  /\ pc \in {"list", "fetch"}
  /\ pc = "fetch" => cands # {}
  /\ Fault
  /\ TickOver("idle")
  /\ UNCHANGED <<world, file, history, sinkVars>>

\* Mutant of First: the candidates are taken in no order.
FirstUnsorted(k) == k \in cands

First(k) == k \in cands /\ \A j \in cands : j = k \/ Before(k, j)

\* get_object and gzip.decompress of the first candidate.  A body that is not
\* gzip at all (OSError) is skipped; a cut one raises EOFError or zlib.error,
\* which nothing but tick itself catches.
Fetch(k) ==
  /\ pc = "fetch" /\ First(k)
  /\ \/ /\ Kind[k] = "gzip"
        /\ pc' = "file" /\ cur' = k /\ line' = 1 /\ cands' = cands \ {k}
        /\ UNCHANGED <<cp, scan, cursor, sentAny, missable>>
     \/ /\ Kind[k] = "notgzip"
        /\ cands' = cands \ {k}
        /\ UNCHANGED <<pc, cp, scan, cursor, cur, line, sentAny, missable>>
     \/ /\ Kind[k] = "truncated"
        /\ TickOver("idle")
  /\ UNCHANGED <<world, file, history, bounds, sinkVars>>

TickEnds ==
  /\ pc = "fetch" /\ cands = {}
  /\ TickOver("idle")
  /\ UNCHANGED <<world, file, history, bounds, sinkVars>>

AtLine == pc = "file" /\ line <= Size[cur]

SkipLine ==
  /\ AtLine /\ <<cur, line>> \in Skipped
  /\ line' = line + 1
  /\ UNCHANGED <<world, file, pc, cp, scan, cursor, cands, cur, sentAny,
                 missable, history, bounds, sinkVars>>

SendLine ==
  /\ AtLine /\ <<cur, line>> \notin Skipped
  /\ SendOk(<<cur, line>>)
  /\ line' = line + 1 /\ sentAny' = TRUE
  /\ UNCHANGED <<world, file, pc, cp, scan, cursor, cands, cur, missable,
                 history, bounds>>

\* send returned False or raised: the file is not counted, the tick is over.
SendFails ==
  /\ AtLine /\ <<cur, line>> \notin Skipped
  /\ Fault
  /\ CallFails({<<cur, line>>})
  /\ TickOver("idle")
  /\ UNCHANGED <<world, file, history>>

\* Mutant of FlushFile: the checkpoint is saved while events sit in the buffer.
FlushForgotten ==
  /\ pc = "file" /\ line > Size[cur]
  /\ pc' = "save"
  /\ UNCHANGED <<world, file, tick, history, bounds, sinkVars>>

FlushFile ==
  /\ pc = "file" /\ line > Size[cur]
  /\ IF sentAny THEN FlushOk ELSE UNCHANGED sinkVars
  /\ pc' = "save"
  /\ UNCHANGED <<world, file, tick, history, bounds>>

FlushFails ==
  /\ pc = "file" /\ line > Size[cur] /\ sentAny
  /\ Fault
  /\ CallFails({})
  /\ TickOver("idle")
  /\ UNCHANGED <<world, file, history>>

\* cp.advance and CheckpointStore.save (os.replace: the file is the old or
\* the new checkpoint, never a part of it).
SaveCheckpoint ==
  /\ pc = "save"
  /\ cp' = At(cur) /\ file' = At(cur)
  /\ overtaken' = overtaken \union (missable \intersect Passed(At(cur)))
  /\ pc' = "fetch" /\ cur' = NoKey /\ line' = 0 /\ sentAny' = FALSE
  /\ UNCHANGED <<world, scan, cursor, cands, missable, floor, bounds, sinkVars>>

\* CheckpointStore.save raises: after a file the tick is aborted; a fresh
\* checkpoint that cannot be saved, in place of one that is damaged or could
\* not be read, ends the tick, or the start of the process.
SaveFails ==
  /\ \/ pc = "save"
     \/ pc = "idle" /\ file # Missing
     \/ pc = "down" /\ file = Missing
  /\ Fault
  /\ TickOver(IF pc = "down" THEN "down" ELSE "idle")
  /\ UNCHANGED <<world, file, history, sinkVars>>
-----------------------------------------------------------------------------
Environment ==
  \/ PassTime
  \/ \E k \in Keys : PutObject(k)
  \/ \E f \in {Missing, Corrupt} : SpoilFile(f)
  \/ Crash

Failures ==
  \/ SourceFails \/ SendFails \/ FlushFails
  \/ LoadFails \/ SaveFails \/ StartFails

Progress ==
  \/ Start
  \/ LoadCheckpoint
  \/ \E k \in Keys : ListObject(k) \/ Fetch(k)
  \/ \E d \in scan : ListPrefixDone(d)
  \/ TickEnds
  \/ SkipLine \/ SendLine \/ FlushFile
  \/ SaveCheckpoint

Next == Environment \/ Failures \/ Stop \/ Progress

Spec == Init /\ [][Next]_vars

\* systemd restarts the process (Restart=always), the interval job fires
\* again, and a call that does not fail returns; time passes.
FairSpec == Spec /\ WF_vars(Progress) /\ WF_vars(PassTime)
-----------------------------------------------------------------------------
TypeOK ==
  /\ clock \in Nat /\ clock >= Epoch
  /\ modified \in [Keys -> Nat \union {NoTime}]
  /\ file \in Checkpoint \union {Missing, Corrupt}
  /\ pc \in {"down", "idle"} \union Stages
  /\ cp \in Checkpoint /\ scan \in SUBSET Int /\ cursor \in Keys \union {NoKey}
  /\ cands \in SUBSET Present /\ Cardinality(cands) <= MaxFilesPerTick
  /\ cur \in IF pc \in {"file", "save"} THEN Present ELSE {NoKey}
  /\ line \in (IF pc = "file" THEN Nat \ {0} ELSE Nat) /\ sentAny \in BOOLEAN
  /\ missable \in SUBSET Keys /\ overtaken \in SUBSET Keys /\ floor \in Nat
  /\ stops \in Nat /\ faults \in Nat /\ fileEvents \in Nat
  /\ pending \in SUBSET Sendable /\ delivered \in SUBSET Sendable

\* Nothing more is due for the object.
Settled(k) ==
  \/ EventsOf(k) \subseteq delivered
  \/ Kind[k] = "notgzip"
  \/ k \in overtaken
  \/ modified[k] < floor

\* An object that lies behind the saved checkpoint has had every sendable
\* event delivered, whatever crashed, failed or was stored in the meantime --
\* except an object that is not gzip (iter_new_files skips it and the next
\* file moves the checkpoint past it), one that was stored behind the cursor
\* of a running listing or in a day it did not scan, and one older than a
\* fresh checkpoint.
NoSilentLoss ==
  file \in Checkpoint =>
    \A k \in Passed(file) : Settled(k)

\* A tick only processes objects strictly ahead of the saved checkpoint: what
\* has been checkpointed is never sent again (Pipeline.tick, S3Source._is_new).
ReplaysOnlyAhead ==
  pc \in {"file", "save"} /\ file \in Checkpoint => cur \notin Passed(file)

\* A tick that starts could not read the checkpoint.
ReadFailed == pc = "idle" /\ faults' > faults

\* While the checkpoint file is neither damaged nor deleted, it only moves
\* forward in the order of (LastModified, Key), also across crashes and
\* restarts -- but for a tick that cannot read it (Pipeline.tick), which may
\* take it back, never further than the lookback.
CheckpointNeverRegresses ==
  [][{file, file'} \subseteq Checkpoint
       => \/ file' = file
          \/ Precedes(file.lm, file.key, file'.lm, file'.key)
          \/ ReadFailed /\ file' = Fresh]_vars

\* Why NoSilentLoss holds: at every step of a tick, an object that the listing
\* has gone by is a candidate, being processed, behind the checkpoint, not
\* gzip, or -- the list being full -- after everything that was kept
\* (iter_new_files: insort, pop).
Kept == IF cur = NoKey THEN cands ELSE cands \union {cur}
BeyondKept(k) == \A c \in Kept : Before(c, k)

ListingAccounted ==
  InTick =>
    \A k \in Present \ (missable \union Kept \union Passed(cp)) :
      \/ ToList(k)
      \/ Kind[k] = "notgzip"
      \/ BeyondKept(k) /\ (pc = "list" => Cardinality(cands) >= MaxFilesPerTick)

\* What is kept is ahead of the tick's checkpoint, was listed once, and the
\* object being processed precedes the remaining candidates.
KeptInOrder ==
  /\ Kept \intersect Passed(cp) = {}
  /\ \A k \in cands : ~ToList(k)
  /\ pc \in {"file", "save"} => cur \notin cands /\ \A k \in cands : Before(cur, k)

\* The lines gone by are in the sink, and all of them are out at the save.
LinesInSink ==
  /\ pc = "file" =>
       \A e \in EventsOf(cur) :
         e[2] < line => sentAny /\ e \in pending \union delivered
  /\ pc = "save" => EventsOf(cur) \subseteq delivered

\* The tick's checkpoint is the saved one, and both are sound.
CheckpointSound ==
  /\ InTick /\ file \in Checkpoint => file = cp
  /\ \A k \in Passed(cp) : Settled(k)

\* Where a tick's locals are unset.
LocalsUnset ==
  /\ ~InTick => cands = {} /\ cursor = NoKey /\ cp = EmptyCheckpoint
  /\ pc # "list" => scan = {}

\* The inductive invariant: what Pipeline.tick and iter_new_files keep true
\* between any two of their steps.
IInv ==
  /\ TypeOK /\ NoSilentLoss
  /\ ListingAccounted /\ KeptInOrder /\ LinesInSink /\ CheckpointSound
  /\ LocalsUnset

\* What the design document says of an object that cannot be decompressed: it
\* is skipped, and the objects behind it get their turn, so that every object
\* that can be read is delivered or gone past in the end.
GoodObjectsSettle ==
  \A k \in {j \in Keys : Kind[j] = "gzip"} :
    k \in Present ~> \/ EventsOf(k) \subseteq delivered
                     \/ file \in Checkpoint /\ k \in Passed(file)

\* No tick lists the object again: the day in its name is before yesterday, and
\* there is no checkpoint, or the day of the checkpoint, from which a late tick
\* catches up, is later too.
LeftBehind(k) ==
  /\ NameDay[k] < Day(clock) - 1
  /\ \/ file = Missing
     \/ file \in Checkpoint /\ NameDay[k] < Day(file.lm)

\* What keeps an object waiting: it came later than ticks look back; the object
\* at the head of the list is cut short, which aborts every tick; the list is
\* full of objects that are not gzip, which move no checkpoint; the checkpoint
\* was damaged and no start succeeds.
HeldUp(k) ==
  LET ahead == {j \in Present :
                  /\ Before(j, k) /\ ~LeftBehind(j)
                  /\ file \in Checkpoint => j \notin Passed(file)}
  IN  \/ LeftBehind(k)
      \/ \E j \in ahead : Kind[j] = "truncated"
      \/ Cardinality({j \in ahead : Kind[j] = "notgzip"}) >= MaxFilesPerTick
      \/ pc = "down" /\ file = Corrupt

\* An object that decompresses is delivered in full or gone past in the end,
\* once S3, the sink and the disk stop failing, unless one of four named causes
\* holds for ever: the tick, its list and its prefixes let none wait for another
\* reason (pipeline.py tick, s3_source.py iter_new_files).
GoodObjectsWaitForCause ==
  \A k \in {j \in Keys : Kind[j] = "gzip"} :
    k \in Present ~> \/ EventsOf(k) \subseteq delivered
                     \/ file \in Checkpoint /\ k \in Passed(file)
                     \/ []HeldUp(k)

=============================================================================
