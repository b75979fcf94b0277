# Verification of the Illumio S3 to SIEM collector

TLA+ models of the collector, TLC configurations that check them on small
instances, and proofs of the main results checked by TLAPS.

The collector copies log objects that an Illumio PCE stores in S3 to a SIEM.
It runs in one of two modes. In *polling* mode a scheduled tick lists the
bucket and remembers its position in a checkpoint file; in *SQS* mode a
consumer takes notifications of new objects from a queue. Both transform each
object line by line and hand the lines to a sink. What matters is that an
event is neither lost nor held back for ever; duplicates are allowed.

## 1. Inventory

| Component | State it keeps | Operations | Interacts with |
|---|---|---|---|
| Polling pipeline, `core/pipeline.py` | locals of a tick | `tick`, `_process_file` | scheduler (calls it), checkpoint store, S3 source, sink |
| S3 source, `sources/s3_source.py` | none between ticks | `iter_new_files`, `_scan_date_prefixes`, `_is_new`, `path_to_log_type` | S3, read while the PCE writes |
| Checkpoint store, `core/checkpoint.py` | one JSON file per pipeline | `load`, `save`, `fresh`, `advance` | file system, shared by all pipelines |
| Scheduler, `core/scheduler.py` | APScheduler jobs | `run_forever` | one job per pipeline on a thread pool, `max_instances=1` |
| SQS dispatcher, `sources/sqs_s3_source.py` | stop event; per message: extension timer | `run_forever`, `consume_one_batch`, `_handle_message`, `_handle_object`, `_delete`, `request_stop` | SQS, S3, SQS pipelines, signal handler |
| SQS pipeline, `core/sqs_pipeline.py` | statistics | `process` | sink |
| Sinks, `sinks/*.py` | https: batch; file: write buffer, size, age; tcp/tls: socket; multi: children | `send`, `flush`, `close` | network, file system |
| Mappers, filter | none | `format`, `flatten`, `match` | called per event |
| Command line, configuration | none after start; log, checkpoint and sink files | `main`, `load_config`, `build_pipelines_from_config` | builds the objects, installs signal handlers |
| Log checker, `s3_log_checker.py` | downloaded files | `main` with its modes | an operator's tool that reads the same `config.yaml` |
| Scripts, SIEM parsers | none | installation, parser definitions | not part of the running service |

The behaviours that are hard to test, each with its line, are the `hazards` of
`PROJECT.json`. In short: uploads interleave with a listing that is not a
snapshot; the process may die between any two calls (systemd restarts it);
S3, SQS, sink and disk calls fail one by one; a sink may hold acknowledged
events in memory; the checkpoint is a position in an order with a resolution
of one second; SQS redelivers on a timer of its own and gives up after a
number of receives.

What makes each component correct:

* polling: an object behind the checkpoint has been delivered; the checkpoint
  only moves forward, but for a tick that cannot read it; no tick sends what lies
  behind it; a readable object is delivered or passed in the end, unless one of four
  causes holds it up for ever;
* SQS: a message is deleted only when everything it names was delivered; only
  messages that keep failing are given up, and those whose batches others keep
  ending; a message that can be handled is, while it has receives left;
* sinks: a True `flush` means that everything accepted since the last failure
  has arrived; every call returns; one failing child of a fan-out neither
  hides a loss nor blocks the others;
* checkpoint store: the file is always a whole checkpoint, and one pipeline's, which
  goes on object by object or, when it cannot be read, is begun anew;
* scheduler: a hanging pipeline stops no other, and the shutdown ends;
* file sink: rotation loses and overwrites nothing, and happens in time;
* TCP sink: the peer can tell the events apart, and reads each at most once;
* filter and mappers: an event is dropped only because the filter says so or it cannot
  be encoded, and what is sent can be read back as far as the format allows;
* command line and tools: a dry run predicts the start; the checker looks where the
  collector looks, with the same credentials.

## 2. Modules

| Module | Models |
|---|---|
| `SinkContract` | effects of `send` and `flush` as a caller sees them (`sinks/base.py`) |
| `S3Source` | the decisions of `s3_source.py`: prefixes, `_is_new`, order |
| `Pipeline`, `MCPipeline` | tick, listing, file, checkpoint, restarts of one pipeline; composes the two above |
| `PipelineProofs` | TLAPS proofs about `Pipeline` |
| `SqsDispatcher`, `MCSqsDispatcher` | the SQS mode, queue included; composes `SinkContract` |
| `SqsProofs` | proofs about `SqsDispatcher` |
| `SinkSpec` | abstract: the promise of a sink as a call/return specification |
| `HttpsSink`, `HttpsProofs` | `https_sink.py`; implements `SinkSpec`; its proofs |
| `FileSink`, `MCFileSink` | `file_sink.py`; implements `SinkSpec` with exceptions it names |
| `FileProofs` | proofs about `FileSink` |
| `TcpSink`, `TcpProofs` | `tcp_sink.py`, `tls_sink.py` and the network; implements `SinkSpec` up to lost connections; its proofs |
| `MultiSink`, `MultiProofs` | `multi_sink.py` with children that obey the contract; its proofs |
| `Register` | abstract: a checkpoint store is a register per pipeline |
| `CheckpointStore` | the steps of `checkpoint.py`, and what a loss of power leaves |
| `Collector`, `MCCollector` | all pipelines of a process on the scheduler's threads, over `CheckpointStore`; implements `Register` |
| `CollectorProofs` | proofs about `Collector` |
| `JsonValue` | values that `json.loads` returns |
| `Flatten`, `Cef`, `EventFilter` | `_flatten.py`, `cef.py`, `expression_filter.py` as operators, each with the reader's point of view |
| `EventPath`, `MCEventPath` | one line through parsing, filter and mapper; composes the three |
| `Routing` | log types and prefixes, as three files of the code have them |
| `Settings` | what `config.py` accepts; the credentials of the collector and the checker |
| `Startup` | `collector.py` from its arguments to the first tick |
| `LogChecker` | `s3_log_checker.py` |
| `Tools`, `MCTools` | `Startup` and `LogChecker` on one `config.yaml` |
| `ToolsProofs` | proofs about `Tools` |

### Pipeline

An object is its key (a number; the order of numbers is the order of keys), the
day written in the key, its `LastModified`, what `gzip.decompress` makes of it
and its lines. Time is a number of clock units, `DayLength` to a UTC day; two
objects stored in one unit have equal `LastModified`.

| Action | Code |
|---|---|
| `Start`, `Stop`, `Crash` | `_build_polling` (fresh checkpoint if there is none), end of `run_forever` or `--once`, process death |
| `LoadCheckpoint`, `LoadFails` | `tick`: load, or `Reset`: save a fresh checkpoint, of a damaged file or of any read that fails |
| `StartFails` | `_build_polling`: a read that fails ends the start |
| `ListObject`, `ListPrefixDone` | the listing loop with `_is_new`, `insort` and `pop`, one object per step |
| `SourceFails` | `SourceError` of a list or a get: tick aborted |
| `Fetch`, `TickEnds` | get and gunzip of the next candidate, or no candidate left |
| `SkipLine`, `SendLine`, `SendFails`, `FlushFile`, `FlushFails` | `_process_file` |
| `SaveCheckpoint`, `SaveFails` | `advance` and `save` |
| `PassTime`, `PutObject`, `SpoilFile` | the world: clock, PCE, damage or removal of the file |

Three ghost variables state the properties and are read by no action:
`missable` (objects the running tick cannot list), `overtaken` (missable objects
a checkpoint went past, and objects stored behind one), `floor` (the latest fresh
checkpoint).

### SqsDispatcher

A message is what its body parses to (an event, malformed, or JSON of another shape) and
the objects it names; an object is of another bucket, of no enabled pipeline, or one of
three outcomes of gunzip. The queue counts receives, hides a message for its visibility
timeout and moves it to the dead-letter queue at the receive after the last one allowed.
Time is relative: `hidden` is what is left of each timeout, `elapsed` what the dispatcher
believes has passed since the last extension, so that no clock has to be bounded. Each
call is a step, and each may fail; an exception that nothing in the dispatcher catches
(`BatchAborted`) abandons the rest of the batch. Where it comes from the message in hand
and not from a call, the ghost `dropped` counts what it does to the others (`DropsRest`).
`Extend` is `extend_if_needed`, a part of the steps before and after which the code calls
it; two calls with nothing slow in between are one.

### Sinks

`SinkContract` splits a sink's state into `pending` (accepted, in memory) and
`delivered`. `send` True may buffer; `flush` True leaves nothing pending; a failed
call drops or keeps any part of the buffer and may have delivered it. `Pipeline`
and `SqsDispatcher` assume no more than that. `SinkSpec` is the same promise with
calls that take several steps, and `HttpsSink` implements it: the run's
`KeepsPromise` substitutes the batch for `pending` (without the event that a
`send` in progress has just appended) and what the server stored for
`delivered`. `MultiSink` puts children that obey the contract side by side and
adds the caller, who goes on to the next line, the next file, or back to the
first line of the file.

### FileSink

An event is a line, sizes are counted in lines. The file object's buffer is a set of
lines which leave it in order; `tear` says whether the active file ends within a
line, whose rest may still be in the buffer (`open`) or be gone (`orphan`).

| Action | Code |
|---|---|
| `Send`, `Write`, `WriteFails`, `CallRaises` | `send`: the line is buffered, pushes others out or is written through; `OSError`; `ValueError` of a closed file |
| `Flush`, `FlushOk`, `FlushFails` | `flush` |
| `RotateClose`, `RotateCloseFails` | `_rotate`: `close`, whose error is swallowed with the buffer |
| `Rename`, `CompressBegins`, `CopyEnds`, `Unlink`, and `RenameFails`, `CompressFails` | the body of the `try`, one step per call on the file system |
| `CleanUp`, `Reopen`, `ReopenFails` | `_cleanup_old`; the new active file, or an exception out of `send` |
| `Close`, `Closed`, `Crash`, `Restart` | `close`, process death, `__init__` on the files that are there |

`Stamp` is the name a rotation gets at each time, any function of the clock: two
rotations in one second, and the hour that local time repeats, are values of it.

### TcpSink

Each connection is a sequence of frames that the kernels hold and one that the peer
has read; several may be under way, since a connection that was dropped still
delivers. `SendAll` hands a whole frame to the kernel, `AttemptFails` perhaps a part;
`Retry` and `GiveUp` are the two ends of the `except` branch, both with a dropped
socket. `Break` loses what is in flight without telling the sink.

### CheckpointStore, Collector and Register

A position counts the objects a checkpoint has gone past, processed or not: a fresh
checkpoint is at the time of the clock, less the lookback, and that may be before or
after any object. `CheckpointStore` has the
steps of `save` (`MakeTemp`, `Dump`, `Replace`, `WriteFails`, `Unlinked`, ...) and
keeps for each file what a load reads and what a power failure would leave.
`Collector` composes them with `_build_polling` (`Start`, `Found`, `FirstSave`,
`StartFails`, `StartReadFails`), the jobs (`Trigger`, `TakeJob`, `Load`, `LoadMissing`,
`LoadCorrupt`, `LoadFails`, `ProcessFile`, `TickEnds`) and the end (`Interrupt`,
`ShutDown`, `Crash`, `PowerFailure`). A tick is `Pipeline`'s with everything but the
checkpoint in one step; `LoadCorrupt` and `LoadFails` begin anew (`Reset`). `done` counts
the objects a pipeline is done with, processed or left behind by a fresh checkpoint. In
return `Pipeline` treats the checkpoint as a variable that one step changes: that this is
right is `IsRegister`, the refinement of `Register`, which also says when a position may
go back or past an object that was not processed.

### EventPath

A text is a sequence of characters, an object a sequence of pairs. `ReadLine`,
`Filter` and `Map` are the three places of `_process_file` (and of
`SqsPipeline.process`) where a line may be dropped. The operators are translations;
the properties compare them with definitions that go the other way: `FlatAsExpected`
looks each path up in the event and asks which paths share a name, `FirstLine`,
`ReadHeader` and `ReadExtensions` frame and parse a CEF message as a receiver does,
`Wanted` evaluates a filter with missing fields as `None` everywhere. A character may be
half of a surrogate pair, which `json.loads` accepts and no mapper can encode
(`HalfInHeader`, `HalfInBody`); a name template may have parts that `str.format` raises
for, and a severity is a number, a text that `int()` takes, or neither.

### Startup, LogChecker and Tools

`Startup` follows `main` call by call: `LoadConfig`, `SetupLogging`, `BuildPipeline`
(one pipeline per step, an exception ends the program and leaves the files written so
far), `Decide`, `Tick`, `End`. Of a file only its writer matters, since a checkpoint
is written with mode 0600 and a log file with 0644. `LogChecker` follows the tool's
`main`: `Resolve`, `ChooseMode`, and a download key by key; where an object goes is
`DownloadDestination`, which leaves out empty, `.` and `..` names as the code does. Both
use `Settings` and `Routing`, so that what the programs should agree on can be compared.
The two tables of the code are two here as well (`LogTypePath`, `LogTypeSubpath`).
The sink of a pipeline is the set of the sinks its events go to, as neither program looks
at how multi sinks are nested.

## 3. Runs

| Run | Shows |
|---|---|
| `Pipeline` | `NoSilentLoss`, `ReplaysOnlyAhead`, `CheckpointNeverRegresses` and the inductive invariant `IInv` with failures, a crash and a damaged file |
| `PipelineLive` | `GoodObjectsWaitForCause` under fairness |
| `TruncatedBlocks` | a violation: an object that was cut short holds up all objects behind it, which the design document excludes |
| `SqsDelivery` | `DeletedWasDelivered`, `DeadWereTried`, and `GoodMessagesHandled` under fairness, with a message that is kept and one that ends its batches |
| `SqsTiming` | `ExtendedInTime` and the inductive invariant `IInv` (types included), with a truncated object and a malformed message |
| `HttpsSink` | refinement of `SinkSpec`, bounded calls |
| `MultiSink` | a healthy child gets everything, and lets the caller get on |
| `FileSink` | `StoredOrNamed`, `LeftoversHaveCause`, `RotatedInTime`, and the refinement of `SinkSpec` |
| `TcpSink` | `FramesWhole`, `AckedArrives`, `CallsReturn`, and the refinement of `SinkSpec` |
| `Collector` | the refinement of `Register`; `TempsAccountedFor`, `NobodyStarves`, `StopEnds` |
| `EventPath` | `FilterAsDocumented`, `MappersDropNoObject`, `FieldsSurvive`, `CefReadsBack` |
| `Tools` | `DryRunPredicts`, `ObjectsReachTheirPipeline`, `DownloadsAccounted`, `CredentialsFromOnePlace` |

`EventPath` and `Tools` have no type invariant: their variables are inputs, program
counters and results of operators, about which it would say nothing.

`NoSilentLoss` names the ways in which an object may lie behind the checkpoint
undelivered: it is not gzip (the generator skips it, the next file advances past
it); it was stored too late for the running listing, or behind the checkpoint; its
day is not scanned; it is older than a fresh checkpoint. Each exception is a
real behaviour of the code. In the same way other properties name what the code does
lose: two ways in `FileSink`'s `KeepsPromise` (a rotation whose `close` fails drops
the buffer; a line behind the remains of an earlier one is glued to it), a broken
connection in `TcpSink`'s, fields of one name and what `max_depth` cuts in
`FieldsSurvive`, what follows a newline in `CefReadsBack`, half of a surrogate pair and a
mapping file at fault in `MappersDropNoObject`, fields below a missing field in
`FilterAsDocumented`, a dry run by root in `DryRunPredicts`, a read that fails in
`CheckpointNeverRegresses` and `IsRegister`. Of liveness, `GoodObjectsWaitForCause` says
what can hold an object up (`HeldUp`), and `GoodMessagesHandled` what uses up the receives
of a message that was never at fault (`UsedUp`); the runs contain each of these causes.

### Seen while modelling, without a run of their own

Where the code and its documentation disagree:

* polling (`s3_source.py:133`): an object stored later in the second of the checkpoint
  with a smaller key is never new; the design (2026-04-20, line 32) says nothing is
  missed. It is one of the exceptions of `NoSilentLoss`;
* polling (`s3_source.py:76`): a checkpoint between 24 and 48 hours old does not fan
  out, and the day before yesterday is not scanned; the design (line 41) and
  `s3_source.py:3` promise that a long outage is made up for. Another exception;
* polling (`checkpoint.py:71`): every error of reading the checkpoint is a
  `CheckpointError`, that of an intact file which cannot be opened for a moment as well,
  and `tick` saves a fresh one over it. With the default lookback of zero it goes past
  everything that was waiting, with a long one it sends again what was sent;
* polling: an object whose gunzip fails is passed by the next file's checkpoint, where
  the design (line 583) says the checkpoint does not advance past it;
  `max_files_per_tick` of them fill the candidate list for ever;
* start (`pipeline.py:243`): a damaged checkpoint ends every start of the process, as
  `CheckpointError` is only caught in `tick`; README.md:408 says nothing hangs. It is
  the third disjunct of `NobodyStarves`;
* SQS (`sqs_s3_source.py:184`): an exception of `gzip.decompress` other than `OSError`
  abandons the rest of the batch, and messages may reach the dead-letter queue untried;
  README.md:388-389 says that only permanent failures do. `DeadWereTried` and
  `GoodMessagesHandled` name it, and the former says that another message was to blame;
* SQS: a message late in a batch may become visible before it is handled or while it
  is, since its extension timer starts only when its handling begins and knows nothing
  of the time the others took (`ExtendedInTime` therefore speaks of messages taken up
  in good time); after a stop request the rest of the batch is still handled, where
  the SQS design (line 180) speaks of the current message;
* multi sink (`multi_sink.py:28`): `send` and `flush` are combined by `any` separately, so
  that a line one child refused and the other lost at flush is acknowledged twice, while
  `multi_sink.py:3` says False is returned when every child fails; an exception of one
  child aborts the tick for all of them (second disjunct of `HealthyChildSuffices`); a
  multi sink without children is accepted (`config.py:152`) and lets no file pass;
* file sink (`file_sink.py:48`): the age of the file after a restart is that of its last
  modification, not "the real file age" of the comment there;
* filter (`expression_filter.py:25`): a missing field is `None`, not an empty `DotDict`;
  hence a field below it raises and the whole expression is False, also where the rest
  of it is true;
* flatten (`_flatten.py:22`): at `max_depth` scalars are JSON-stringified as well, `None`
  as `null`, where the docstring says that it is preserved and that what is nested deeper
  is stringified; `first` leaves the inner list of a list of lists as it is; keys that
  contain the separator may replace one another;
* mappers: `json.loads` accepts half of a surrogate pair (`"\ud800"`), and every mapper's
  `encode("utf-8")` raises for it: the event is dropped and the checkpoint goes on;
* CEF: a newline in a value is not escaped, so that the rest of the message is another
  line to the receiver; of what a name template can raise `_name` catches `KeyError` only;
* dry run: it writes checkpoint, log and sink files, where `collector.py:61` and
  README.md:331 speak of validation only; after `sudo ... --dry-run` (README.md:603-609)
  the service cannot read the checkpoints root has written. `DryRunPredicts` names it;
* checker: with a profile and keys in the file it takes the keys, the collector the
  profile (README.md:352 says one of the two); a prefix without a final slash, and names
  that paths leave out (`a//f`, `a/../f`), may map two objects to one file, in spite of
  `s3_log_checker.py:45`; a key that is also a directory ends the download with a
  traceback. `DownloadsAccounted` names the first two.

And one about time: a listing that crosses midnight may pass over an object stored late
in the prefix that was listed first.

### Bounds

`Pipeline`: four objects (readable, not gzip, cut short, readable) on three days
with lists of two candidates, so that the list overflows, a full list is
revised, and an object may be listed, pushed out and listed again; uploads one
unit late, so that an object may be stored after one with a greater key; days of
one unit and a clock of four, so that the checkpoint can become older than 24 and
than 48 hours; one end of the process, one failing call, one damage: the two
mechanisms that restore the state (restart and replay) each meet the other. The
proofs need no bound. `PipelineLive`: a list of two against two objects that are not
gzip, so that they can fill it for ever, one object that is cut short and one that is
good, all named after one day and stored on it or up to two days later, on both sides of
each other; a clock of five such days, so that the good one may be left behind.

`SqsDelivery`: a message that can be handled (two objects, one with a skipped line), one
that is always kept and one of a shape that ends its batch, in batches of two, so that
each of the others meets the good one first and last; two receives against one fault and
one restart, so that the good message is handled in some behaviours and used up in others;
a timeout of one unit, which may run out at any step. `SqsTiming`: a message of two
objects, one whose objects are no gzip and cut short, and a malformed one; a first window
of three, extensions of two and steps of one unit, where half of each window and the step
that follows it differ.

`HttpsSink`: three events, batches of three, two retries: a batch that fills up, one
that is flushed early, a first, a middle and a last attempt. `MultiSink`: one
child of each kind, two files of two lines.

`FileSink`: files of two lines and ages of two units, four lines, so that rotation by size
and by age each happen, and twice; a retention of one unit, so that an archive is deleted;
a clock whose third name repeats the second; one failing call and one end of the process,
which may meet in one rotation. `TcpSink`: two retries for three events, so that a first,
a middle and a last attempt differ, on three connections of which two may break; one event
that is cut. `Collector`: two pipelines, the smallest number of jobs that interfere; one
object each, which a fresh checkpoint may leave behind or not; two failures (those of a
save and of the clean-up after it, or of two reads) and one stop, crash or power failure.

`EventPath` and `Tools` enumerate inputs. `EventPath`: objects up to three levels deep
with empty, missing, null and nested fields, keys that collide once joined, texts with
every character that a format treats specially, a newline and half of a surrogate pair
among them; filters of one comparison, negated, and of two combined; mappers with every
array strategy, depths that cut or do not, and name templates that raise. `Tools`:
configurations of at most two pipelines that are accepted or rejected for each reason,
every presence of credentials in the file and on the command line, keys of two types, a
name that begins like a type, an object that is another one's directory, a key with an
empty name whose path is another one's; at most two changes between runs and one download
that fails.

The bounds that only limit the state space are `MaxClock`, `MaxStops`,
`MaxFaults`, `MaxFileEvents`; in `SqsDispatcher`, `MaxWork`, `MaxFaults`,
`MaxStops`; in `FileSink`, `MaxSends`, `MaxClock`, `MaxFaults`, `MaxStops`; in `TcpSink`,
`MaxSends`, `MaxConns`, `MaxBreaks`, `MaxStops`; in `Collector`, `MaxObjects`,
`MaxFaults`, `MaxStops`; in `Tools`, `MaxEdits` and `MaxFailures`.

Deadlock is checked except where the system stops: in `Pipeline`, `PipelineLive` and
`Collector` a
checkpoint file damaged while the process is down keeps it from starting, or no object
or failure is left; `MultiSink` ends after its last file, `FileSink` and `TcpSink` when the
bounded calls are made, `EventPath` when the line is sent or dropped.

### Fairness

`FairSpec` of `Pipeline` and `SqsDispatcher` is weak fairness of `Progress`: a call
that does not fail returns, the interval job fires again after a tick (the
scheduler coalesces missed runs), and the process is started again after it ended
(`docs/systemd/illumio-collector.service`: `Restart=always`). Time
passes. Failures and process ends are bounded, which says that they
stop in the end; nothing is assumed about when objects arrive or which failures
happen. `HttpsSink` assumes that each step of a call is followed by the next one,
as every POST has a timeout; `TcpSink` the same of connecting and sending
(`timeout_sec`), and that an unbroken connection delivers; `MultiSink` that calls return.
`Collector` assumes that the main thread goes on and the process is started again, that
intervals end and an idle thread takes a queued job (APScheduler), and that the ticks of
pipelines that are not `Hanging` go on. Whether a call succeeds is never assumed.

## 4. Proofs

The safety invariants, action properties and refinements of `Pipeline`, `SqsDispatcher`,
the sinks, `Collector` and `Tools` are proved for all values of the constants, from the
`ASSUME`s those modules declare: what type each constant has, that what has to be positive
is (batch sizes, limits, extensions), that keys are finitely many numbers of which a later
date in the name has the greater, that `NoMessage` is no message and a missing or damaged
file no position, that `Order` names the pipelines and that a child that raises is not
`Healthy`; for `Tools` that a configuration that parses and a command line have the fields
that `config.py` and `argparse` give them, that keys and prefixes are texts, the root
prefix not an empty one, and that a bucket has finitely many objects. No bound of section
3 is used: `MaxFaults`, `MaxStops` and the like are any numbers.

| Module | Theorem | Statement |
|---|---|---|
| `PipelineProofs` | `TypeCorrect`, `Invariance` | `Spec => []TypeOK`, `Spec => []IInv` |
| | `Delivery` | `Spec => []NoSilentLoss` |
| | `NoReplayBehind` | `Spec => []ReplaysOnlyAhead` |
| | `Monotone` | `Spec => CheckpointNeverRegresses` |
| `SqsProofs` | `TypeCorrect`, `Invariance` | `Spec => []TypeOK`, `Spec => []IInv` |
| | `DeletedDelivered` | `Spec => []DeletedWasDelivered` |
| | `Extending` | `Spec => []ExtendedInTime` |
| | `DeadTried` | `Spec => []DeadWereTried` |
| `HttpsProofs` | `TypeCorrect` | `Spec => []TypeOK` |
| | `Refinement` | `Spec => KeepsPromise` |
| `MultiProofs` | `TypeCorrect` | `Spec => []TypeOK` |
| | `HealthyComplete` | `Spec => []HealthyHasAll` |
| `FileProofs` | `TypeCorrect`, `Invariance` | `Spec => []TypeOK`, `Spec => []IInv` |
| | `AllStored` | `Spec => []StoredOrNamed` |
| | `Leftovers` | `Spec => []LeftoversHaveCause` |
| | `RotationInTime` | `Spec => RotatedInTime` |
| | `Refinement` | `Spec => KeepsPromise` |
| `TcpProofs` | `TypeCorrect` | `Spec => []TypeOK` |
| | `WholeAndOrdered` | `Spec => []FramesWhole` |
| | `Refinement` | `Spec => KeepsPromise` |
| `CollectorProofs` | `TypeCorrect` | `Spec => []TypeOK` |
| | `TempsAccounted` | `Spec => []TempsAccountedFor` |
| | `AtomicCheckpoints` | `Spec => IsRegister` |
| `ToolsProofs` | `DryRuns` | `Spec => []DryRunPredicts` |
| | `Routed` | `Spec => []ObjectsReachTheirPipeline` |
| | `Downloads` | `Spec => []DownloadsAccounted` |
| | `Credentials` | `Spec => []CredentialsFromOnePlace` |

Together they close the chain that the two modes rest on: `Pipeline` and `SqsDispatcher`
assume of a sink what `SinkContract` says and of the checkpoint that one step changes it;
the HTTPS, file, TCP and TLS sinks are proved to keep the promise (`SinkSpec`), the store
to be a register. `MultiSink` is not shown to: where no child is healthy it does not keep
it, and what is proved is `HealthyHasAll`; UDP, which acknowledges what may be lost, is not
modelled. That
the two ways of writing the promise agree is by reading: `SinkSpec` gives a call, when it
returns, the effect that `SinkContract` names. It is looser in one respect: a destination
may already have, from earlier in a call, what a True `send` keeps in memory. No sink here
does so, and the properties of the two modes ask of `delivered` only what it contains.

Each proof that a step preserves an invariant splits on the actions; the lemmas before it
say what the operators the actions share do to the state. The strengthenings named below
are in the modules they are about where a run checks them (`Pipeline`, `SqsDispatcher`),
else in the proof modules.

### The inductive invariants

**Pipeline.** `NoSilentLoss` is not inductive: that the saved checkpoint may pass an object
depends on what the tick did with it. `IInv` adds

* `ListingAccounted`: an object the listing has gone by is kept, behind the
  tick's checkpoint, not gzip, or after everything that was kept, the list
  being full. This is the argument for the bounded candidate list;
* `KeptInOrder`: what is kept is ahead of the checkpoint, and the object in
  progress precedes the remaining candidates, so that advancing to it passes
  no candidate;
* `LinesInSink`: the lines gone by are in the sink, and out of its memory at the
  save;
* `CheckpointSound`: the tick's checkpoint is the saved one, unless the file was
  touched from outside;
* `LocalsUnset`: between ticks there is no such state.

`Monotone` and `NoReplayBehind` follow from `KeptInOrder`; that a regression comes from a
read that failed is `LoadFails`, the one step of an idle pipeline that counts a failure and
writes a file that was good.

**SqsDispatcher.** A message is deleted because a local variable says so. `AllOkIsTrue` says
what `all_ok` means (the objects gone by are of no interest or delivered), `LinesInSink` the
same of the object in progress, and `BatchIsQueued` that what waits in the batch is still in
the queue and not in hand. `Extending` needs `ExtensionInReach`: there is more left of the
timeout than one step can take, since the next check comes before. `DeadTried` rests on
`ReceivesAccounted`: for each message, receives are at most attempts, failures, process ends
and the batches that another message ended (`dropped`), one receive being still open while
the message waits in the batch.

**HttpsSink, TcpSink.** That a step maps to a step of `SinkSpec` needs little: a `send` in
progress has its event at the end of the batch (`Sending`), a call has an event in hand
(`Calling`). `FramesWhole` needs `StreamInv`, a statement about every two frames on every
two connections (`InOrder`), with the facts that the connection in use is the last one made
(`LastInUse`) and that the event in hand is nowhere but in part on other ones
(`NotYetSent`): a retry goes to a new connection, so that a frame that was cut is never
continued.

**MultiSink.** `ChildKeepsUp` gives `HealthyHasAll` at every line and every turn of the
fan-out, not only at the end of a file.

**FileSink.** `IInv` says for each step of a rotation which files there are: the plain file
being compressed exists and is what was renamed, its archive is empty until the copy ends
and equal to it when it is unlinked (`StampInv`); an archive is no older than its lines
(`ArchiveInv`). On it rest four independent strengthenings: of what a `send` in progress has
done with its lines (`HandedInv`, for the refinement), of how many plain files failures
explain (`CountInv`), of the size and the age kept in memory being true of the file
(`AgeInv`), and `StoredOrNamed` itself, which is inductive relative to `IInv`.

**Collector.** `SavesBelong`: a save in progress belongs to the tick of its pipeline or to
the construction. `PositionInv`: what the file says, what would survive a loss of power,
and the position a tick is about to save are at most what the pipeline is done with; a
tick that works has the position of the file, and saves the next one. Two kinds of save
are told apart by `Renews`: that of a tick, which goes on by one, and that of a fresh
checkpoint, which goes anywhere and is begun only when the file is damaged, missing or
could not be read. It holds for a pipeline with a file of its own (`Alone`). `TempsOwed`: a
temporary file left behind costs two failures, unless a process end left it.

**Tools.** `DryRunPredicts` speaks of a start and of a promise made by an earlier one.
`PromiseInv` says what a promise stands for: the configuration is accepted, the log can be
written, and every enabled pipeline finds its checkpoint, mapping and sink open to the user
who ran it. `BuildInv` says that of the pipelines built so far, so that a dry run that ends
well makes such a promise. Steps of other users only add files (`OnlyNewFiles`), which
takes nothing from it. `Routed` needs no invariant beyond `Accepts`, but the lemma that a
key has the prefix of one log type at most (`OneType`); that the checker's table gives the
collector's prefixes is `TablesAgree`. For `Downloads`, `Tally` counts the
objects gone by and says that each file is at the place of one of them. That places are
distinct (`PlacesOfTheirOwn`) is a fact about `_download_destination`: below a directory a
key of plain names loses the prefix and nothing else (`Destination`).

### What the proofs found

* The invariant of `SqsDispatcher` that TLC had checked was not inductive: at the end of a
  message's objects it said nothing of the last one. `AllOkIsTrue` now does.
* `ExtendedInTime` was false as it stood, of a message late in a batch whose timeout had
  almost run out when its turn came. No run had shown it, as the instance's timeout was
  too short for the case. The property now says which messages it is about, and
  `covered` records it.
* `DeadWereTried` could at first only be proved where no message ends a batch early, and no
  run had shown that it fails elsewhere. With `dropped` it covers these messages as well and
  says who is to blame for what was not tried.
* `DownloadsAccounted` was false of keys with empty, `.` or `..` names, which the checker's
  paths leave out: two objects then share one file. No run had such a key. The property
  now says which keys it is about (`Plain`), and the run has one that is not.
* `KeepsPromise` of `FileSink` depends on a line being new to the buffer when it is
  written: every line that is sent is a new one.

### Only model-checked

* All liveness, as TLAPS cannot reason about fairness and ENABLED:
  `GoodObjectsWaitForCause`, `GoodMessagesHandled`, `CallsReturn`, `AckedArrives`,
  `HealthyChildSuffices`, `NobodyStarves`, `StopEnds`.
* The properties of `EventPath`: `FilterAsDocumented`, `MappersDropNoObject`,
  `FieldsSurvive` and `CefReadsBack`. Events and filters are recursive, and so are the
  operators on them; TLAPS cannot reason by induction over such data, and TLC's
  enumeration of them is all there is.

For the provers' sake some forms are used that TLC does not need: `With` in `FileSink`
instead of `:>` and `@@`, no tuple patterns in set constructors, and parentheses around
`UNION` and `SUBSET` next to another operator, which TLAPS and SANY read differently
without them.

## 5. Not modelled, and what is next

Not modelled for good:

* UDP: no state and no acknowledgement;
* log formatting, levels and rotation of the program's own log; the banner;
* the checker's probes of endpoints and DNS, its listing and test modes, which only print;
* installation scripts, the systemd unit (as far as it is not an assumption), SIEM parsers;
* two file sinks on one path or with file names that begin alike, and two pipelines that
  share a checkpoint file: the code promises nothing for them (`Alone` leaves the latter
  out of `IsRegister`);
* numeric ranges in `config.py` and relative directories; the loading of AWS profiles;
* the order of texts in filters, and functions (`len`, `str`) that simpleeval offers.

What is next: a theorem that a call of `SinkSpec` has an effect of `SinkContract`, which
needs the latter to allow what section 4 says of `delivered`. The conversions of
`EventPath` stay with TLC.
