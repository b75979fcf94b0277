---------------------------- MODULE SqsDispatcher ----------------------------
(***************************************************************************)
(* The SQS mode of the collector: SqsS3Dispatcher of sources/sqs_s3_source *)
(* .py, with SqsPipeline.process of core/sqs_pipeline.py, against an SQS   *)
(* standard queue with a redrive policy, S3 and a sink.                    *)
(*                                                                         *)
(* The dispatcher is single-threaded; what interleaves with it is the      *)
(* passing of time (visibility timeouts), the publication of messages, the *)
(* stop signal, process death, and the failure of every call it makes.     *)
(*                                                                         *)
(* Abstractions.  A message is what its body parses to and the objects it  *)
(* names.  Time is relative: what is left of each visibility timeout, and  *)
(* what has elapsed since the last extension.  The order of a batch is     *)
(* SQS's choice.  One pipeline is enabled: pipelines share no state, and   *)
(* the objects of the others are "unrouted".  Back-off and long polling    *)
(* only take time.                                                         *)
(***************************************************************************)
EXTENDS Integers, Sequences, FiniteSets, SinkContract

CONSTANTS
  Messages,
  Objects,
  Form,        \* what a body parses to: "event"; "malformed" (ValueError);
               \* "poison" (JSON of another shape, which raises)
  Refs,        \* the objects an event names, in order
  Kind,        \* of an object: "foreign" (of another bucket), "unrouted" (no
               \* log type or no enabled pipeline), or what gzip.decompress
               \* makes of its bytes: "gzip", "notgzip", "truncated"
  Size, Skipped,
  VisibilityTimeout, Extension,
  MaxMessages,       \* max_messages_per_receive
  MaxReceives,       \* maxReceiveCount of the queue's redrive policy
  MaxWork,           \* bound: time one step may take between two checks of
                     \* the visibility
  MaxFaults, MaxStops,
  NoMessage

ASSUME FormAssumption == Form \in [Messages -> {"event", "malformed", "poison"}]
ASSUME RefsAssumption == Refs \in [Messages -> Seq(Objects)]
ASSUME ObjectAssumption ==
  /\ Kind \in [Objects -> {"foreign", "unrouted", "gzip", "notgzip", "truncated"}]
  /\ Size \in [Objects -> Nat] /\ Skipped \subseteq Objects \X Nat
ASSUME TimeAssumption ==
  {VisibilityTimeout, Extension, MaxWork} \subseteq Nat \ {0}
ASSUME LimitAssumption ==
  /\ {MaxMessages, MaxReceives} \subseteq Nat \ {0}
  /\ MaxFaults \in Nat /\ MaxStops \in Nat
ASSUME NoMessageAssumption == NoMessage \notin Messages

VARIABLES
  \* the queue
  state,      \* of each message: "unsent", "queued", "deleted", "dead" (DLQ)
  hidden,     \* what is left of its visibility timeout
  receives,   \* its ApproximateReceiveCount
  \* the dispatcher
  pc,
  stopping,   \* _stop_event
  batch,      \* messages received and not handled yet
  cur,        \* the message being handled
  ref,        \* index of the object in progress
  allOk,      \* all_ok
  line,       \* next line of the object
  sentAny,    \* sent_in_msg > 0
  elapsed,    \* since the last extension, as far as the dispatcher knows
  window,     \* current_window_sec
  \* ghosts
  tried,      \* how often the handling of each message began
  dropped,    \* how often it was in the rest of a batch that another one ended
  covered,    \* half a window and the longest step were left of the timeout
              \* when the handling of the message in hand began, and no
              \* extension of it has failed
  \* bounds
  spent, faults, stops

queue  == <<state, hidden, receives>>
msg    == <<cur, ref, allOk, line, sentAny>>
timer  == <<elapsed, window, spent, covered>>
bounds == <<faults, stops>>
vars == <<queue, pc, stopping, batch, msg, timer, tried, dropped, bounds,
          sinkVars>>

EventsOf(o) == ({o} \X (1 .. Size[o])) \ Skipped
Object == Refs[cur][ref]
AtLine == pc = "process" /\ line <= Size[Object]
Fault  == faults < MaxFaults /\ faults' = faults + 1 /\ UNCHANGED stops

Init ==
  /\ state = [m \in Messages |-> "unsent"]
  /\ hidden = [m \in Messages |-> 0] /\ receives = hidden
  /\ tried = hidden /\ dropped = hidden
  /\ pc = "down" /\ stopping = FALSE /\ batch = {}
  /\ cur = NoMessage /\ ref = 0 /\ allOk = TRUE /\ line = 0 /\ sentAny = FALSE
  /\ elapsed = 0 /\ window = 0 /\ spent = 0 /\ covered = FALSE
  /\ faults = 0 /\ stops = 0
  /\ SinkInit
-----------------------------------------------------------------------------
(* SQS, the clock and the operating system.                                *)

Publish(m) ==
  /\ state[m] = "unsent"
  /\ state' = [state EXCEPT ![m] = "queued"]
  /\ UNCHANGED <<hidden, receives, pc, stopping, batch, msg, timer, tried, dropped,
                 bounds, sinkVars>>

Queued  == {m \in Messages : state[m] = "queued"}
Visible == {m \in Queued : hidden[m] = 0}
Due     == {m \in Visible : receives[m] < MaxReceives}

\* Between two messages the dispatcher makes no call that takes time.
PassTime ==
  /\ \E m \in Queued : hidden[m] > 0
  /\ cur = NoMessage => pc # "batch"
  /\ cur # NoMessage => spent < MaxWork
  /\ hidden' = [m \in Messages |-> IF hidden[m] > 0 THEN hidden[m] - 1 ELSE 0]
  /\ spent' = IF cur = NoMessage THEN 0 ELSE spent + 1
  /\ elapsed' = IF cur = NoMessage \/ 2 * elapsed >= window THEN elapsed
                                                          ELSE elapsed + 1
  /\ UNCHANGED <<state, receives, pc, stopping, batch, msg, window, covered,
                 tried, dropped, bounds, sinkVars>>

\* SQS moves a message that was received too often at the next receive, which
\* comes back empty only when nothing is visible.
Redrive(m) ==
  /\ pc = "receive"
  /\ m \in Visible \ Due
  /\ state' = [state EXCEPT ![m] = "dead"]
  /\ UNCHANGED <<hidden, receives, pc, stopping, batch, msg, timer, tried, dropped,
                 bounds, sinkVars>>

\* No message in hand: the locals of _handle_message are gone.
HandlingOver(where, rest) ==
  /\ pc' = where /\ batch' = rest
  /\ cur' = NoMessage /\ ref' = 0 /\ line' = 0 /\ sentAny' = FALSE
  /\ elapsed' = 0 /\ window' = 0 /\ spent' = 0 /\ covered' = FALSE
  /\ UNCHANGED allOk

\* SIGTERM or SIGINT: the handler only sets the event.
RequestStop ==
  /\ pc # "down" /\ ~stopping /\ stops < MaxStops
  /\ stopping' = TRUE /\ stops' = stops + 1
  /\ UNCHANGED <<queue, pc, batch, msg, timer, tried, dropped, faults, sinkVars>>

Crash ==
  /\ pc # "down" /\ stops < MaxStops
  /\ stops' = stops + 1
  /\ HandlingOver("down", {}) /\ stopping' = FALSE
  /\ SinkCrash
  /\ UNCHANGED <<queue, tried, dropped, faults>>

Start ==
  /\ pc = "down"
  /\ pc' = "loop"
  /\ UNCHANGED <<queue, stopping, batch, msg, timer, tried, dropped, bounds,
                 sinkVars>>
-----------------------------------------------------------------------------
(* run_forever and consume_one_batch.                                      *)

\* while not self._stop_event.is_set(); closing the sinks writes out what they
\* hold or loses it.
LoopTop ==
  /\ pc = "loop"
  /\ IF stopping
     THEN /\ pc' = "down" /\ stopping' = FALSE
          /\ pending' = {}
          /\ \E D \in {{}, pending} : delivered' = delivered \union D
     ELSE /\ pc' = "receive"
          /\ UNCHANGED <<stopping, sinkVars>>
  /\ UNCHANGED <<queue, batch, msg, timer, tried, dropped, bounds>>

Received(B) ==
  /\ receives' = [m \in Messages |-> receives[m] + (IF m \in B THEN 1 ELSE 0)]
  /\ hidden' = [m \in Messages |-> IF m \in B THEN VisibilityTimeout ELSE hidden[m]]
  /\ UNCHANGED state

\* What a receive may return: any messages that are due, up to the limit.
Batches == {B \in SUBSET Due : IsFiniteSet(B) /\ Cardinality(B) <= MaxMessages}

Receive(B) ==
  /\ pc = "receive"
  /\ B = {} => Visible = {}
  /\ Received(B)
  /\ batch' = B
  /\ pc' = IF B = {} THEN "loop" ELSE "batch"
  /\ UNCHANGED <<stopping, msg, timer, tried, dropped, bounds, sinkVars>>

\* receive_message raises, with B received for SQS.
ReceiveFails(B) ==
  /\ pc = "receive"
  /\ Fault
  /\ Received(B)
  /\ pc' = "loop"
  /\ UNCHANGED <<stopping, batch, msg, timer, tried, dropped, sinkVars>>

BatchDone ==
  /\ pc = "batch" /\ batch = {}
  /\ pc' = "loop"
  /\ UNCHANGED <<queue, stopping, batch, msg, timer, tried, dropped, bounds,
                 sinkVars>>

\* An exception leaves consume_one_batch: the rest of the batch is abandoned.
BatchAborted ==
  /\ HandlingOver("loop", {})
  /\ UNCHANGED <<queue, stopping>>

\* It comes from the message in hand and not from a call that fails.
DropsRest(rest) ==
  /\ BatchAborted
  /\ dropped' = [m \in Messages |-> dropped[m] + (IF m \in rest THEN 1 ELSE 0)]
-----------------------------------------------------------------------------
(* _handle_message and _handle_object.                                     *)

Taken(m) ==
  /\ pc = "batch" /\ m \in batch
  /\ tried' = [tried EXCEPT ![m] = @ + 1]

Malformed(m) ==
  /\ Taken(m) /\ Form[m] = "malformed"
  /\ HandlingOver("batch", batch \ {m})
  /\ UNCHANGED <<queue, stopping, dropped, bounds, sinkVars>>

Poison(m) ==
  /\ Taken(m) /\ Form[m] = "poison"
  /\ DropsRest(batch \ {m})
  /\ UNCHANGED <<bounds, sinkVars>>

\* The first message of a batch is taken up in good time, unless half a window
\* is shorter than the longest step; a later one need not be.
InGoodTime(m) == 2 * hidden[m] >= VisibilityTimeout + 2 * MaxWork

\* Mutant of Begin: all_ok is not set again for the next message.
BeginKeepsFailure(m) ==
  /\ Taken(m) /\ Form[m] = "event"
  /\ batch' = batch \ {m} /\ cur' = m /\ ref' = 1
  /\ pc' = IF Refs[m] = <<>> THEN "settle" ELSE "object"
  /\ elapsed' = 0 /\ window' = VisibilityTimeout /\ covered' = InGoodTime(m)
  /\ UNCHANGED <<queue, stopping, allOk, line, sentAny, spent, dropped, bounds,
                 sinkVars>>

Begin(m) ==
  /\ Taken(m) /\ Form[m] = "event"
  /\ batch' = batch \ {m} /\ cur' = m /\ ref' = 1 /\ allOk' = TRUE
  /\ pc' = IF Refs[m] = <<>> THEN "settle" ELSE "object"
  /\ elapsed' = 0 /\ window' = VisibilityTimeout /\ covered' = InGoodTime(m)
  /\ UNCHANGED <<queue, stopping, line, sentAny, spent, dropped, bounds, sinkVars>>

ExtendNotDue == 2 * elapsed < window /\ UNCHANGED <<hidden, elapsed, window, covered, faults>>

\* The call is only logged when it fails; SQS refuses to extend a message that
\* has become visible.
ExtendFails ==
  /\ 2 * elapsed >= window
  /\ hidden[cur] > 0 => faults < MaxFaults
  /\ faults' = IF hidden[cur] > 0 THEN faults + 1 ELSE faults
  /\ covered' = FALSE
  /\ UNCHANGED <<hidden, elapsed, window>>

\* Mutant of Extended: the threshold stays that of the first window.
ExtendedKeepsWindow ==
  /\ 2 * elapsed >= window /\ hidden[cur] > 0
  /\ hidden' = [hidden EXCEPT ![cur] = Extension]
  /\ elapsed' = 0
  /\ UNCHANGED <<window, covered, faults>>

Extended ==
  /\ 2 * elapsed >= window /\ hidden[cur] > 0
  /\ hidden' = [hidden EXCEPT ![cur] = Extension]
  /\ elapsed' = 0 /\ window' = Extension
  /\ UNCHANGED <<covered, faults>>

\* extend_if_needed: a check of the visibility.
Extend == spent' = 0 /\ (ExtendNotDue \/ ExtendFails \/ Extended)

\* Mutant of ObjectIs: only the last object counts.
ObjectIsLast(ok) ==
  allOk' = ok /\ pc' = "extend" /\ line' = 0 /\ sentAny' = FALSE

\* The outcome of _handle_object; the object is left behind.
ObjectIs(ok) ==
  /\ allOk' = (allOk /\ ok)
  /\ pc' = "extend"
  /\ line' = 0 /\ sentAny' = FALSE

\* The two checks before get_object are one: nothing takes time between them.
Route ==
  /\ pc = "object"
  /\ Extend
  /\ \/ Kind[Object] = "foreign" /\ ObjectIs(FALSE)
     \/ Kind[Object] = "unrouted" /\ ObjectIs(TRUE)
     \/ /\ Kind[Object] \notin {"foreign", "unrouted"}
        /\ pc' = "get"
        /\ UNCHANGED <<allOk, line, sentAny>>
  /\ UNCHANGED <<state, receives, stopping, batch, cur, ref, tried, dropped, stops,
                 sinkVars>>

GetFails ==
  /\ pc = "get"
  /\ Fault
  /\ ObjectIs(FALSE)
  /\ UNCHANGED <<queue, stopping, batch, cur, ref, timer, tried, dropped, sinkVars>>

Get ==
  /\ pc = "get" /\ Kind[Object] # "truncated"
  /\ \/ /\ Kind[Object] = "notgzip"
        /\ ObjectIs(FALSE)
        /\ UNCHANGED <<hidden, timer, faults>>
     \/ /\ Kind[Object] = "gzip"
        /\ pc' = "process" /\ line' = 1
        /\ Extend
        /\ UNCHANGED <<allOk, sentAny>>
  /\ UNCHANGED <<state, receives, stopping, batch, cur, ref, tried, dropped, stops,
                 sinkVars>>

\* EOFError or zlib.error, which are not OSErrors.
GetTruncated ==
  /\ pc = "get" /\ Kind[Object] = "truncated"
  /\ DropsRest(batch)
  /\ UNCHANGED <<tried, bounds, sinkVars>>

\* The check after _handle_object; then the next object, or the end.
ObjectDone ==
  /\ pc = "extend"
  /\ Extend
  /\ ref' = IF ref < Len(Refs[cur]) THEN ref + 1 ELSE ref
  /\ pc' = IF ref < Len(Refs[cur]) THEN "object"
                                   ELSE "settle"
  /\ UNCHANGED <<state, receives, stopping, batch, cur, allOk, line, sentAny,
                 tried, dropped, stops, sinkVars>>

Delete ==
  /\ pc = "settle" /\ allOk
  /\ state' = [state EXCEPT ![cur] = "deleted"]
  /\ HandlingOver("batch", batch)
  /\ UNCHANGED <<hidden, receives, stopping, tried, dropped, bounds, sinkVars>>

\* Mutant of Keep: the loop over the batch is left, not only the message.
KeepEndsBatch ==
  /\ pc = "settle" /\ ~allOk
  /\ HandlingOver("batch", {})
  /\ UNCHANGED <<queue, stopping, tried, dropped, bounds, sinkVars>>

\* The message stays in the queue.
Keep ==
  /\ pc = "settle" /\ ~allOk
  /\ HandlingOver("batch", batch)
  /\ UNCHANGED <<queue, stopping, tried, dropped, bounds, sinkVars>>

\* delete_message raises, which is logged; SQS may have deleted the message.
DeleteFails ==
  /\ pc = "settle" /\ allOk
  /\ Fault
  /\ state' \in {state, [state EXCEPT ![cur] = "deleted"]}
  /\ HandlingOver("batch", batch)
  /\ UNCHANGED <<hidden, receives, stopping, tried, dropped, sinkVars>>
-----------------------------------------------------------------------------
(* SqsPipeline.process.                                                    *)

SkipLine ==
  /\ AtLine /\ <<Object, line>> \in Skipped
  /\ line' = line + 1
  /\ UNCHANGED <<queue, pc, stopping, batch, cur, ref, allOk, sentAny, timer,
                 tried, dropped, bounds, sinkVars>>

SendLine ==
  /\ AtLine /\ <<Object, line>> \notin Skipped
  /\ SendOk(<<Object, line>>)
  /\ line' = line + 1 /\ sentAny' = TRUE
  /\ UNCHANGED <<queue, pc, stopping, batch, cur, ref, allOk, timer, tried, dropped,
                 bounds>>

SendFails ==
  /\ AtLine /\ <<Object, line>> \notin Skipped
  /\ Fault
  /\ CallFails({<<Object, line>>})
  /\ ObjectIs(FALSE)
  /\ UNCHANGED <<queue, stopping, batch, cur, ref, timer, tried, dropped>>

\* An exception of the sink is not caught by process or by the dispatcher.
SendRaises ==
  /\ AtLine /\ <<Object, line>> \notin Skipped
  /\ Fault
  /\ CallFails({<<Object, line>>})
  /\ BatchAborted
  /\ UNCHANGED <<tried, dropped>>

LinesDone == pc = "process" /\ line > Size[Object]

\* Mutant of FlushObject: the events stay in the buffer.
FlushNothing ==
  /\ LinesDone
  /\ ObjectIs(TRUE)
  /\ UNCHANGED <<queue, stopping, batch, cur, ref, timer, tried, dropped, bounds,
                 sinkVars>>

FlushObject ==
  /\ LinesDone
  /\ IF sentAny THEN FlushOk ELSE UNCHANGED sinkVars
  /\ ObjectIs(TRUE)
  /\ UNCHANGED <<queue, stopping, batch, cur, ref, timer, tried, dropped, bounds>>

FlushFails ==
  /\ LinesDone /\ sentAny
  /\ Fault
  /\ CallFails({})
  /\ ObjectIs(FALSE)
  /\ UNCHANGED <<queue, stopping, batch, cur, ref, timer, tried, dropped>>
-----------------------------------------------------------------------------
Environment ==
  \/ \E m \in Messages : Publish(m)
  \/ RequestStop \/ Crash

Failures ==
  \/ \E B \in Batches : ReceiveFails(B)
  \/ GetFails \/ DeleteFails \/ SendFails \/ SendRaises \/ FlushFails

Progress ==
  \/ Start \/ LoopTop \/ BatchDone
  \/ \E B \in Batches : Receive(B)
  \/ \E m \in Messages : Redrive(m) \/ Malformed(m) \/ Poison(m) \/ Begin(m)
  \/ Route \/ Get \/ GetTruncated \/ ObjectDone \/ Delete \/ Keep
  \/ SkipLine \/ SendLine \/ FlushObject

Next == Environment \/ Failures \/ Progress \/ PassTime

Spec == Init /\ [][Next]_vars

\* A call that does not fail returns, the process is started again after it
\* ended, and time passes.
FairSpec == Spec /\ WF_vars(Progress) /\ WF_vars(PassTime)
-----------------------------------------------------------------------------
Sendable == UNION {EventsOf(o) : o \in Objects}
Between  == {"down", "loop", "receive"}
Working  == {"object", "get", "process", "extend"}

QueueTypes ==
  /\ state \in [Messages -> {"unsent", "queued", "deleted", "dead"}]
  /\ hidden \in [Messages -> Nat] /\ receives \in [Messages -> 0 .. MaxReceives]
  /\ tried \in [Messages -> Nat] /\ dropped \in [Messages -> Nat]
  /\ faults \in Nat /\ stops \in Nat

BatchTypes ==
  /\ stopping \in BOOLEAN /\ batch \in SUBSET Messages
  /\ IsFiniteSet(batch) /\ Cardinality(batch) <= MaxMessages

HandTypes ==
  /\ pc \in Between \union {"batch", "settle"} \union Working
  /\ cur \in IF pc \in Working \union {"settle"} THEN Messages ELSE {NoMessage}
  /\ pc \in Working => ref \in 1 .. Len(Refs[cur])
  /\ ref \in Nat /\ allOk \in BOOLEAN /\ line \in Nat /\ sentAny \in BOOLEAN
  /\ pc = "process" => line \in Nat \ {0} /\ Kind[Object] = "gzip"

TimerTypes ==
  elapsed \in Nat /\ window \in Nat /\ spent \in Nat /\ covered \in BOOLEAN

SinkTypes == pending \in SUBSET Sendable /\ delivered \in SUBSET Sendable

TypeOK == QueueTypes /\ BatchTypes /\ HandTypes /\ TimerTypes /\ SinkTypes

\* The object needs no further handling.
Served(o) ==
  \/ Kind[o] = "unrouted"
  \/ Kind[o] = "gzip" /\ EventsOf(o) \subseteq delivered

\* A message is only deleted when every object it names is of no interest or
\* has had all of its events delivered: not accepted by a buffering sink,
\* delivered (_handle_message: all_ok; process: flush before True).
DeletedWasDelivered ==
  \A m \in Messages : state[m] = "deleted" =>
    /\ Form[m] = "event"
    /\ \A i \in 1 .. Len(Refs[m]) : Served(Refs[m][i])

\* Why: all_ok accounts for the objects gone by, the lines gone by are in the sink,
\* and what waits in the batch is in the queue.
AllOkIsTrue ==
  cur # NoMessage =>
    /\ Form[cur] = "event" /\ state[cur] = "queued"
    /\ allOk =>
         \A i \in 1 .. Len(Refs[cur]) :
           i < ref \/ (i = ref /\ pc = "extend") \/ pc = "settle"
             => Served(Refs[cur][i])

LinesInSink ==
  pc = "process" =>
    \A e \in EventsOf(Object) :
      e[2] < line => sentAny /\ e \in pending \union delivered

BatchIsQueued ==
  /\ \A m \in batch : state[m] = "queued" /\ m # cur
  /\ pc \in Between => batch = {}

\* The exceptions of gzip.decompress that nothing catches, or a body of another shape.
EndsBatch(m) ==
  \/ Form[m] = "poison"
  \/ Form[m] = "event" /\ \E i \in 1 .. Len(Refs[m]) : Kind[Refs[m][i]] = "truncated"

\* What became of each receive of a message; one is still open while it waits.
Accounted(m) ==
  /\ receives[m] <= tried[m] + dropped[m] + faults + stops
                      + (IF m \in batch THEN 1 ELSE 0)
  /\ state[m] = "dead" => receives[m] = MaxReceives
  /\ dropped[m] > 0 => \E x \in Messages \ {m} : EndsBatch(x)

ReceivesAccounted == \A m \in Messages : Accounted(m)

IInv ==
  /\ TypeOK /\ DeletedWasDelivered
  /\ AllOkIsTrue /\ LinesInSink /\ BatchIsQueued /\ ReceivesAccounted

\* "During slow processing, the dispatcher calls change_message_visibility so
\* SQS does not redeliver mid-processing" (README.md:397): a message taken up
\* in good time stays invisible until it is settled, when no step takes more
\* than half an extension and no extension fails.
ExtendedInTime ==
  2 * MaxWork <= Extension => (cur # NoMessage /\ covered => hidden[cur] > 0)

\* Why: the next check comes while some of the timeout is left.
ExtensionInReach ==
  /\ spent <= MaxWork /\ (cur = NoMessage => spent = 0)
  /\ 2 * MaxWork <= Extension /\ cur # NoMessage /\ covered =>
       /\ hidden[cur] + spent > MaxWork
       /\ \/ 2 * (hidden[cur] + elapsed) >= window + 2 * MaxWork
          \/ 2 * elapsed >= window

\* Only messages that keep failing end in the DLQ, or that share their batches with
\* one that ends them: a dead message was given as many attempts as the redrive
\* policy allows receives, less one for each failing call, each end of the process
\* and each time that another message ended the batch (consume_one_batch).
DeadWereTried ==
  \A m \in Messages :
    /\ state[m] = "dead" => tried[m] + dropped[m] + faults + stops >= MaxReceives
    /\ dropped[m] > 0 => \E x \in Messages \ {m} : EndsBatch(x)

\* A message whose objects can all be handled is deleted in the end -- and, by
\* DeletedWasDelivered, delivered -- unless the receives that the redrive policy
\* allows were used up without it: by failing calls, by ends of the process, and
\* by other messages of its batches, cut short or of a shape that nothing catches,
\* which ended them before it was its turn.  Messages that fail, are redelivered
\* or are slow take nothing from it (consume_one_batch, _handle_message).
Good(m) ==
  /\ Form[m] = "event"
  /\ \A i \in 1 .. Len(Refs[m]) : Kind[Refs[m][i]] \in {"unrouted", "gzip"}

UsedUp(m) ==
  state[m] = "dead" /\ dropped[m] + faults + stops >= MaxReceives

GoodMessagesHandled ==
  \A m \in {x \in Messages : Good(x)} :
    state[m] = "queued" ~> state[m] = "deleted" \/ UsedUp(m)
=============================================================================
