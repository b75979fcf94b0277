------------------------------ MODULE FileProofs ------------------------------
(* Proofs about FileSink, for every size, age and retention, every naming  *)
(* of rotated files and any number of lines, failures and process ends:    *)
(* where the lines are, when a file is rotated, and that it implements     *)
(* SinkSpec.                                                               *)
EXTENDS FileSink, FiniteSetTheorems, TLAPS

\* The oldest line of a buffer is one of its lines.
LEMMA Oldest ==
  ASSUME NEW W \in SUBSET Nat, W # {} PROVE Min(W) \in W
<1>1. \E x \in W : \A y \in W : <<y, x>> \notin OpToRel(<, Nat)
  BY NatLessThanWellFounded, WFMin
<1>2. PICK x \in W : \A y \in W : <<y, x>> \notin OpToRel(<, Nat)
  BY <1>1
<1>3. \A y \in W : ~(y < x)
  BY <1>2 DEF OpToRel
<1>4. \E z \in W : \A y \in W : z =< y
  BY <1>3
<1>. QED
  BY <1>4 DEF Min

\* A set of lines that were sent is finite, and no larger than their number.
LEMMA FewLines ==
  ASSUME NEW n \in Nat, NEW S \in SUBSET (1 .. n)
  PROVE  IsFiniteSet(S) /\ Cardinality(S) \in Nat /\ Cardinality(S) <= n
<1>1. IsFiniteSet(1 .. n) /\ Cardinality(1 .. n) = n
  BY FS_Interval
<1>2. IsFiniteSet(S) /\ Cardinality(S) <= Cardinality(1 .. n)
  BY <1>1, FS_Subset
<1>3. Cardinality(S) \in Nat
  BY <1>2, FS_CardinalityType
<1>. QED
  BY <1>1, <1>2, <1>3

-----------------------------------------------------------------------------
(* The inductive invariant.                                                *)

Known == 1 .. sent

\* The file object is closed, and the rotated files are being worked at.
Rotating  == {"rename", "compress", "copy", "unlink", "cleanup", "reopen"}
\* The active file was renamed and is not there, if the rename succeeded.
Renamed   == {"compress", "copy", "unlink", "cleanup", "reopen"}
\* There is a plain file that a step to come compresses or removes.
Compressing == {"compress", "copy", "unlink"}

WorldInv ==
  /\ clock \in 0 .. MaxClock /\ sent \in 0 .. MaxSends
  /\ faults \in 0 .. MaxFaults /\ stops \in 0 .. MaxStops
  /\ sentAt \in [Events -> 0 .. clock]

CallInv ==
  /\ call \in {"none", "send", "flush", "close"} /\ result \in BOOLEAN
  /\ at \in {"none", "write", "close"} \union Rotating
  /\ at # "none" <=> call = "send"
  /\ fh \in {"open", "closed", "down"}
  /\ fh = "down" => call = "none"
  /\ at \in Rotating => fh = "closed"

\* Only lines that were sent are anywhere.
ActiveInv ==
  /\ active \subseteq Known /\ exists \in BOOLEAN /\ mtime \in 0 .. clock
  /\ tear \in {"no", "open", "orphan"}

BufferInv ==
  /\ buf \subseteq Known /\ before \subseteq Known
  /\ buf # {} => fh = "open"

\* The size counts a line only after it was sent.
SizeInv ==
  /\ size \in 0 .. sent /\ opened \in 0 .. clock
  /\ at = "write" => size < sent

\* The names of rotated files, and what an archive in the making has to do with
\* the plain file it is made from; an archive is no older than its lines.
NameInv ==
  /\ stamp \in Names
  /\ DOMAIN plain \subseteq Names /\ DOMAIN gz \subseteq Names
  /\ \A n \in DOMAIN plain : plain[n] \subseteq Known

ArchiveInv ==
  \A n \in DOMAIN gz :
    /\ gz[n].lines \subseteq Known /\ gz[n].mtime \in 0 .. clock
    /\ \A e \in gz[n].lines : sentAt[e] <= gz[n].mtime

StampInv ==
  /\ at \in Compressing => stamp \in DOMAIN plain
  /\ at \in {"copy", "unlink"} => stamp \in DOMAIN gz
  /\ at = "copy" => gz[stamp].lines = {}
  /\ at = "unlink" => gz[stamp].lines = plain[stamp]

IInv ==
  /\ WorldInv /\ CallInv /\ ActiveInv /\ BufferInv /\ SizeInv
  /\ NameInv /\ ArchiveInv /\ StampInv

-----------------------------------------------------------------------------
(* What a write does.                                                      *)

\* The lines W go out and the lines D are dropped; N are new to the buffer.
Wrote(N, W, D) ==
  /\ active' = active \union W
  /\ mtime' \in {mtime, clock} /\ tear' \in {"no", "open", "orphan"}
  /\ reached \subseteq reached' /\ reached' \subseteq reached \union W
  /\ reached' \union lost' = reached \union lost \union W \union D
  /\ W \subseteq buf \union N /\ D \subseteq buf \union N /\ buf' \subseteq buf \union N

\* What is stuck behind the remains of another line is among what was written.
LEMMA WriteOutEffect ==
  ASSUME ActiveInv, NEW W \in SUBSET Nat, NEW end \in {"no", "open", "orphan"}, NEW D,
         WriteOut(W, end, D)
  PROVE  /\ active' = active \union W
         /\ mtime' \in {mtime, clock} /\ tear' \in {"no", "open", "orphan"}
         /\ reached \subseteq reached' /\ reached' \subseteq reached \union W
         /\ reached' \union lost' = reached \union lost \union W \union D
<1>. DEFINE stuck == IF tear = "orphan" /\ W # {} THEN {Min(W)} ELSE {}
<1>1. stuck \subseteq W
  BY Oldest
<1>2. /\ active' = active \union W
      /\ mtime' = IF W = {} /\ end = "no" THEN mtime ELSE clock
      /\ tear' = IF W = {} /\ (tear = "orphan" \/ end = "no") THEN tear ELSE end
      /\ reached' = reached \union (W \ stuck)
      /\ lost' = lost \union stuck \union D
  BY DEF WriteOut
<1>. HIDE DEF stuck
<1>. QED
  BY <1>1, <1>2 DEF ActiveInv

\* The buffer holds numbers.
LEMMA BufferOfNumbers ==
  ASSUME WorldInv, BufferInv
  PROVE  buf \in SUBSET Nat /\ (\A rest \in Rests : buf \ rest \in SUBSET Nat)
<1>1. sent \in Nat /\ buf \in SUBSET (1 .. sent)
  BY FileAssumption DEF WorldInv, BufferInv, Known
<1>2. buf \in SUBSET Nat
  BY <1>1
<1>. QED
  BY <1>2

\* A write that fails keeps its latest lines, or a part of the line.
LEMMA PartWritten ==
  ASSUME WorldInv, ActiveInv, BufferInv, NEW rest \in Rests, NEW D \in SUBSET buf,
         WritesPart(rest, D), buf' \subseteq buf
  PROVE  Wrote({}, buf \ rest, D)
<1>1. PICK W : W = buf \ rest
  OBVIOUS
<1>2. PICK end \in {"no", "open"} : WriteOut(W, end, D)
  BY <1>1 DEF WritesPart
<1>3. W \in SUBSET Nat /\ end \in {"no", "open", "orphan"} /\ W \subseteq buf
  BY <1>1, BufferOfNumbers
<1>4. /\ active' = active \union W
      /\ mtime' \in {mtime, clock} /\ tear' \in {"no", "open", "orphan"}
      /\ reached \subseteq reached' /\ reached' \subseteq reached \union W
      /\ reached' \union lost' = reached \union lost \union W \union D
  <2>1. CASE end = "no"
    <3>1. WriteOut(W, "no", D)
      BY <1>2, <2>1
    <3>. QED
      BY <1>3, <3>1, WriteOutEffect
  <2>2. CASE end = "open"
    <3>1. WriteOut(W, "open", D)
      BY <1>2, <2>2
    <3>. QED
      BY <1>3, <3>1, WriteOutEffect
  <2>. QED
    BY <2>1, <2>2
<1>5. Wrote({}, W, D)
  BY <1>3, <1>4 DEF Wrote
<1>. QED
  BY <1>1, <1>5

\* The whole buffer goes out.
LEMMA AllWritten ==
  ASSUME WorldInv, ActiveInv, BufferInv, WritesAll
  PROVE  Wrote({}, buf, {}) /\ buf' = {}
<1>1. WriteOut(buf, "no", {}) /\ buf' = {}
  BY DEF WritesAll
<1>2. Wrote({}, buf, {})
  BY <1>1, BufferOfNumbers, WriteOutEffect DEF Wrote
<1>. QED
  BY <1>1, <1>2

\* A write that succeeds has the line in the buffer or in the file.
LEMMA WriteWrites ==
  ASSUME IInv, Write
  PROVE  \E W : Wrote({sent}, W, {}) /\ W \union buf' = buf \union {sent}
<1>. USE DEF IInv
<1>1. sent \in Nat /\ buf \in SUBSET Nat
  BY BufferOfNumbers DEF WorldInv
<1>2. CASE buf' = buf \union {sent} /\ UNCHANGED content
  <2>1. Wrote({sent}, {}, {})
    BY <1>2 DEF Wrote, content, ActiveInv
  <2>. QED
    BY <1>2, <2>1
<1>3. CASE buf' = {sent} /\ WriteOut(buf, "no", {})
  <2>1. Wrote({sent}, buf, {})
    BY <1>1, <1>3, WriteOutEffect DEF Wrote
  <2>. QED
    BY <1>3, <2>1
<1>4. CASE buf' = {} /\ WriteOut(buf \union {sent}, "no", {})
  <2>1. Wrote({sent}, buf \union {sent}, {})
    BY <1>1, <1>4, WriteOutEffect DEF Wrote
  <2>. QED
    BY <1>4, <2>1
<1>. QED
  BY <1>2, <1>3, <1>4 DEF Write

\* Failed writes and flushes write some of the buffer, or nothing.
LEMMA FailureWrites ==
  ASSUME IInv, WriteFails \/ FlushOk \/ FlushFails
  PROVE  \E W : Wrote({}, W, {})
<1>. USE DEF IInv
<1>1. CASE KeepsRest
  <2>1. PICK rest \in Rests : WritesPart(rest, {}) /\ buf' = rest
    BY <1>1 DEF KeepsRest
  <2>2. rest \subseteq buf
    BY DEF Rests
  <2>. QED
    BY <2>1, <2>2, PartWritten
<1>2. CASE WriteOut(buf, "orphan", {}) /\ buf' = {}
  <2>1. Wrote({}, buf, {})
    BY <1>2, BufferOfNumbers, WriteOutEffect DEF Wrote
  <2>. QED
    BY <2>1
<1>. QED
  BY <1>1, <1>2, AllWritten DEF WriteFails, FlushOk, FlushFails

\* The close of a rotation gets rid of the buffer.
LEMMA RotateCloseWrites ==
  ASSUME IInv, RotateClose \/ RotateCloseFails
  PROVE  \E W, D : Wrote({}, W, D) /\ W \union D = buf /\ buf' = {}
<1>. USE DEF IInv
<1>1. CASE RotateClose
  BY <1>1, AllWritten DEF RotateClose
<1>2. CASE RotateCloseFails
  <2>1. PICK rest \in Rests : WritesPart(rest, rest) /\ buf' = {}
    BY <1>2 DEF RotateCloseFails
  <2>2. rest \subseteq buf
    BY DEF Rests
  <2>3. Wrote({}, buf \ rest, rest) /\ (buf \ rest) \union rest = buf
    BY <2>1, <2>2, PartWritten
  <2>. QED
    BY <2>1, <2>3
<1>. QED
  BY <1>1, <1>2

\* So does the end of the program.
LEMMA ClosedWrites ==
  ASSUME IInv, Closed
  PROVE  (\E W : Wrote({}, W, {})) /\ buf' = {}
<1>. USE DEF IInv
<1>1. buf' = {}
  BY DEF Closed, Ends
<1>2. CASE WriteOut(buf, "no", {})
  <2>1. Wrote({}, buf, {})
    BY <1>1, <1>2, BufferOfNumbers, WriteOutEffect DEF Wrote
  <2>. QED
    BY <1>1, <2>1
<1>3. CASE \E rest \in Rests : WritesPart(rest, {})
  <2>1. PICK rest \in Rests : WritesPart(rest, {})
    BY <1>3
  <2>2. Wrote({}, buf \ rest, {})
    BY <1>1, <2>1, PartWritten
  <2>. QED
    BY <1>1, <2>2
<1>. QED
  BY <1>2, <1>3 DEF Closed

-----------------------------------------------------------------------------
(* Which steps change what.                                                *)

Handles == Write \/ WriteFails \/ FlushOk \/ FlushFails \/ RotateClose
           \/ RotateCloseFails \/ Closed

\* What a step that writes does to the files and the buffer.
LEMMA HandlesWrite ==
  ASSUME IInv, Handles
  PROVE  \E N, W, D :
           N \subseteq {sent} /\ Wrote(N, W, D) /\ (N = {} \/ Write)
<1>1. CASE Write
  <2>1. PICK W : Wrote({sent}, W, {})
    BY <1>1, WriteWrites
  <2>. QED
    BY <1>1, <2>1
<1>2. CASE ~Write
  <2>1. PICK W, D : Wrote({}, W, D)
    BY <1>2, FailureWrites, RotateCloseWrites, ClosedWrites DEF Handles
  <2>. QED
    BY <2>1
<1>. QED
  BY <1>1, <1>2

\* The active file and the buffer.
LEMMA ContentChanges ==
  ASSUME [Next]_vars
  PROVE  \/ Handles
         \/ Rename
         \/ UNCHANGED <<active, reached, lost>> /\ buf' \in {buf, {}}
BY DEF Next, vars, Handles, Rotate, RotateStep, Send, CallRaises, Flush, RenameFails,
       CompressBegins, CopyEnds, Unlink, CompressFails, CleanUp, Reopen, ReopenFails,
       Close, Crash, Ends, Restart, PassTime, content, rotated, handle, calls, sends, world

\* The rotated files.
LEMMA RotatedChanges ==
  ASSUME [Next]_vars
  PROVE  \/ Rename \/ CompressBegins \/ CopyEnds \/ Unlink \/ CleanUp
         \/ UNCHANGED <<plain, gz, gone, stamp>>
BY DEF Next, vars, Rotate, Send, Write, WriteFails, FlushOk, FlushFails, CallRaises,
       Flush, RenameFails, RotateClose, RotateCloseFails, CloseFile, CompressFails,
       Reopen, ReopenFails, Close, Closed, Crash, Restart, PassTime, content, rotated,
       handle, calls, sends, world

\* Time and the number of lines.
LEMMA WorldChanges ==
  ASSUME [Next]_vars
  PROVE  /\ PassTime \/ clock' = clock
         /\ Send \/ UNCHANGED <<sent, sentAt>>
BY DEF Next, vars, Rotate, Write, WriteFails, FlushOk, FlushFails, CallRaises,
       Flush, Rename, RenameFails, RotateClose, RotateCloseFails, CloseFile,
       CompressBegins, CopyEnds, Unlink, CompressFails, CleanUp, RotateStep, Reopen,
       ReopenFails, Close, Closed, Crash, CanStop, Restart, Send, PassTime, content,
       rotated, handle, calls, sends, world

-----------------------------------------------------------------------------
(* The invariant is inductive.                                             *)

\* Failures and process ends are counted.
LEMMA FaultsGrow ==
  ASSUME [Next]_vars
  PROVE  (Fault \/ faults' = faults) /\ (CanStop \/ stops' = stops)
<1>1. Fault \/ faults' = faults
  <2>1. CASE Send \/ Write \/ WriteFails \/ Flush \/ FlushOk \/ FlushFails \/ CallRaises
    BY <2>1
       DEF Send, Write, WriteFails, Flush, FlushOk, FlushFails, CallRaises, KeepsRest,
           WritesPart, WritesAll, world
  <2>2. CASE Rotate
    BY <2>2
       DEF Rotate, Rename, RenameFails, RotateClose, RotateCloseFails, CompressBegins,
           WritesPart, WritesAll, CopyEnds, Unlink, CompressFails, CleanUp, Reopen,
           ReopenFails, world
  <2>3. CASE Close \/ Closed \/ Crash \/ Restart \/ PassTime \/ UNCHANGED vars
    BY <2>3 DEF Close, Closed, WritesPart, Crash, Restart, PassTime, vars, world
  <2>. QED
    BY <2>1, <2>2, <2>3 DEF Next
<1>2. CanStop \/ stops' = stops
  BY DEF Next, vars, Rotate, Send, Write, WriteFails, FlushOk, FlushFails, CallRaises,
         Flush, Rename, RenameFails, RotateClose, RotateCloseFails, CloseFile,
         CompressBegins, CopyEnds, Unlink, CompressFails, CleanUp, RotateStep, Reopen,
         ReopenFails, Close, Closed, Crash, Restart, PassTime, world
<1>. QED
  BY <1>1, <1>2

\* Time goes forward, and lines are sent one after the other.
LEMMA StepWorld ==
  ASSUME IInv, [Next]_vars
  PROVE  /\ WorldInv'
         /\ clock \in Nat /\ clock' \in Nat /\ clock <= clock'
         /\ sent \in Nat /\ sent' \in Nat /\ Known \subseteq Known'
         /\ Known' \subseteq Events
         /\ \A e \in Known : sentAt'[e] = sentAt[e] /\ sentAt[e] \in 0 .. clock
<1>. USE FileAssumption DEF IInv, WorldInv
<1>1. /\ clock' \in 0 .. MaxClock /\ clock <= clock'
      /\ sent' \in 0 .. MaxSends /\ sent <= sent'
  BY WorldChanges DEF PassTime, Send
<1>2. faults' \in 0 .. MaxFaults /\ stops' \in 0 .. MaxStops
  BY FaultsGrow DEF Fault, CanStop
<1>3. Known \subseteq Known' /\ Known' \subseteq Events
  BY <1>1 DEF Known, Events
<1>4. sentAt' \in [Events -> 0 .. clock']
  <2>1. CASE Send
    <3>1. clock' = clock /\ sentAt' = [sentAt EXCEPT ![sent + 1] = clock]
      BY <2>1 DEF Send, world
    <3>2. clock \in 0 .. clock
      OBVIOUS
    <3>. QED
      BY <3>1, <3>2
  <2>2. CASE UNCHANGED <<sent, sentAt>>
    <3>1. 0 .. clock \subseteq 0 .. clock'
      BY <1>1
    <3>. QED
      BY <2>2, <3>1
  <2>. QED
    BY <2>1, <2>2, WorldChanges
<1>5. \A e \in Known : sentAt'[e] = sentAt[e] /\ sentAt[e] \in 0 .. clock
  <2>1. \A e \in Known : e \in Events /\ e # sent + 1
    BY DEF Known, Events
  <2>. QED
    BY <2>1, WorldChanges DEF Send
<1>. QED
  BY <1>1, <1>2, <1>3, <1>4, <1>5

\* Calls, their steps, and the file object go together.
LEMMA StepCall ==
  ASSUME IInv, [Next]_vars PROVE CallInv'
<1>. USE DEF IInv, CallInv, Rotating
<1>1. result' \in BOOLEAN
  BY DEF Next, vars, Rotate, Return, Ends, Send, Write, WriteFails, FlushOk, FlushFails,
         CallRaises, Flush, Rename, RenameFails, RotateClose, RotateCloseFails, CloseFile,
         CompressBegins, CopyEnds, Unlink, CompressFails, CleanUp, RotateStep, Reopen,
         ReopenFails, Close, Closed, Crash, Restart, PassTime, content,
         rotated, handle, calls, sends, world
<1>2. CASE Send \/ Write \/ WriteFails \/ Flush \/ FlushOk \/ FlushFails \/ CallRaises
  BY <1>1, <1>2
     DEF Send, Write, Writing, WriteFails, Flush, FlushOk, FlushFails, CallRaises, Return,
         rotated, handle, content, world, sends
<1>3. CASE Rotate
  BY <1>1, <1>3
     DEF Rotate, Rename, RenameFails, RotateClose, RotateCloseFails, CloseFile,
         CompressBegins, CopyEnds, Unlink, CompressFails, CleanUp, RotateStep, Reopen,
         ReopenFails, OpenActive, Return, handle
<1>4. CASE Close \/ Closed \/ Crash \/ Restart \/ PassTime \/ UNCHANGED vars
  BY <1>1, <1>4
     DEF Close, Closed, Crash, CanStop, Ends, Return, Restart, OpenActive, PassTime,
         vars, handle, calls
<1>. QED
  BY <1>2, <1>3, <1>4 DEF Next

\* The active file and the buffer hold lines that were sent.
LEMMA StepActive ==
  ASSUME IInv, [Next]_vars PROVE ActiveInv' /\ buf' \subseteq Known'
<1>. USE DEF IInv, ActiveInv, BufferInv
<1>1. /\ Known \subseteq Known' /\ clock \in Nat /\ clock' \in Nat /\ clock <= clock'
      /\ mtime \in Nat /\ mtime <= clock
  BY StepWorld
<1>2. active' \subseteq Known' /\ buf' \subseteq Known'
  <2>1. CASE Handles
    <3>1. PICK N, W, D : N \subseteq {sent} /\ Wrote(N, W, D) /\ (N = {} \/ Write)
      BY <2>1, HandlesWrite
    <3>2. N \subseteq Known
      <4>1. CASE Write
        <5>1. sent \in Nat /\ sent > 0
          BY <4>1, FileAssumption DEF Write, Writing, WorldInv, SizeInv
        <5>. QED
          BY <3>1, <5>1 DEF Known
      <4>. QED
        BY <3>1, <4>1
    <3>. QED
      BY <1>1, <3>1, <3>2 DEF Wrote
  <2>2. CASE Rename
    BY <1>1, <2>2 DEF Rename, RotateStep, handle
  <2>3. CASE UNCHANGED active /\ buf' \in {buf, {}}
    BY <1>1, <2>3
  <2>. QED
    BY <2>1, <2>2, <2>3, ContentChanges
<1>3. mtime' \in {mtime, clock} /\ tear' \in {"no", "open", "orphan"}
  <2>1. CASE Handles
    BY <2>1, HandlesWrite DEF Wrote
  <2>2. CASE ~Handles
    BY <2>2
       DEF Handles, Next, vars, Rotate, Send, CallRaises, Flush, Rename, RenameFails, Torn,
           CompressBegins, CopyEnds, Unlink, CompressFails, CleanUp, RotateStep, Reopen,
           ReopenFails, OpenActive, Close, Crash, Restart, PassTime, content,
           rotated, handle, calls, sends, world
  <2>. QED
    BY <2>1, <2>2
<1>4. exists' \in BOOLEAN
  BY DEF Next, vars, Rotate, Send, Write, WriteFails, FlushOk, FlushFails, CallRaises,
         Flush, Rename, RenameFails, RotateClose, RotateCloseFails, CloseFile,
         CompressBegins, CopyEnds, Unlink, CompressFails, CleanUp, RotateStep, Reopen,
         ReopenFails, OpenActive, Close, Closed, Crash, Restart, PassTime, content,
         rotated, handle, calls, sends, world
<1>5. mtime' \in 0 .. clock'
  BY <1>1, <1>3
<1>. QED
  BY <1>2, <1>3, <1>4, <1>5

\* A buffer belongs to an open file.
LEMMA StepBuffer ==
  ASSUME IInv, [Next]_vars PROVE BufferInv'
<1>. USE DEF IInv, BufferInv
<1>1. Known \subseteq Known' /\ buf' \subseteq Known'
  BY StepWorld, StepActive
<1>2. before' \in {before, {}, buf}
  BY DEF Next, vars, Rotate, Return, Ends, Send, Write, WriteFails, FlushOk, FlushFails,
         CallRaises, Flush, Rename, RenameFails, RotateClose, RotateCloseFails, CloseFile,
         CompressBegins, CopyEnds, Unlink, CompressFails, CleanUp, RotateStep, Reopen,
         ReopenFails, Close, Closed, Crash, Restart, PassTime, content,
         rotated, handle, calls, sends, world
<1>3. buf' # {} => fh' = "open"
  <2>1. CASE Handles
    BY <2>1
       DEF Handles, Write, WriteFails, Writing, FlushOk, FlushFails, RotateClose,
           RotateCloseFails, WritesAll, Closed, Ends
  <2>2. CASE ~Handles
    BY <2>2
       DEF Handles, Next, vars, Rotate, Send, CallRaises, Flush, Rename, RenameFails,
           CompressBegins, CopyEnds, Unlink, CompressFails, CleanUp, RotateStep, Reopen,
           ReopenFails, OpenActive, Close, Crash, Ends, Restart, PassTime, content,
           rotated, handle, calls, sends, world
  <2>. QED
    BY <2>1, <2>2
<1>. QED
  BY <1>1, <1>2, <1>3

\* The size counts one more line with every write, or is taken from the file.
LEMMA StepSize ==
  ASSUME IInv, [Next]_vars PROVE SizeInv'
<1>. USE FileAssumption DEF IInv, SizeInv
<1>1. /\ clock \in Nat /\ clock' \in Nat /\ clock <= clock'
      /\ sent \in Nat /\ sent' \in Nat /\ sent' \in {sent, sent + 1}
      /\ size \in Nat /\ opened \in Nat /\ opened <= clock
  BY StepWorld, WorldChanges DEF Send
<1>2. opened' \in 0 .. clock'
  <2>1. CASE opened' = opened
    BY <1>1, <2>1
  <2>2. CASE Reopen
    BY <1>1, <2>2 DEF Reopen, world
  <2>3. CASE Restart
    BY <2>3, StepActive DEF Restart, ActiveInv
  <2>. QED
    BY <2>1, <2>2, <2>3
       DEF Next, vars, Rotate, Send, Write, WriteFails, FlushOk, FlushFails, CallRaises,
           Flush, Rename, RenameFails, RotateClose, RotateCloseFails, CloseFile,
           CompressBegins, CopyEnds, Unlink, CompressFails, CleanUp, RotateStep,
           ReopenFails, Close, Closed, Crash, PassTime, handle
<1>3. size' \in 0 .. sent' /\ (at' = "write" => size' < sent')
  <2>1. CASE Send
    BY <1>1, <2>1 DEF Send, handle
  <2>2. CASE Write
    BY <1>1, <2>2 DEF Write, Writing, Return, sends
  <2>3. CASE Reopen
    BY <1>1, <2>3 DEF Reopen, Return, sends
  <2>4. CASE Restart
    <3>1. SizeOnDisk \in Nat /\ SizeOnDisk <= sent
      BY <1>1, FewLines DEF ActiveInv, Known, SizeOnDisk
    <3>2. at # "write" /\ at' = at /\ size' = SizeOnDisk /\ sent' = sent
      BY <2>4 DEF Restart, CallInv, calls
    <3>. QED
      BY <3>1, <3>2
  <2>5. CASE /\ UNCHANGED <<size, sent>>
             /\ at' = "write" => at = "write"
    BY <1>1, <2>5
  <2>. QED
    BY <2>1, <2>2, <2>3, <2>4, <2>5
       DEF Next, vars, Rotate, WriteFails, FlushOk, FlushFails, CallRaises, Return,
           Flush, Rename, RenameFails, RotateClose, RotateCloseFails, CloseFile,
           CompressBegins, CopyEnds, Unlink, CompressFails, CleanUp, RotateStep,
           ReopenFails, Close, Closed, Ends, Crash, PassTime, handle, calls, sends
<1>. QED
  BY <1>2, <1>3

\* Every time has a name.
LEMMA NameNow ==
  ASSUME WorldInv PROVE Stamp[clock] \in Names
BY DEF WorldInv, Names

\* Plain files and archives have the names of rotations, and hold lines.
LEMMA StepName ==
  ASSUME IInv, [Next]_vars PROVE NameInv'
<1>. USE DEF IInv, NameInv
<1>1. Known \subseteq Known'
  BY StepWorld
<1>2. CASE Rename
  <2>1. /\ stamp' = Stamp[clock] /\ plain' = With(plain, stamp', active) /\ gz' = gz
    BY <1>2 DEF Rename
  <2>2. stamp' \in Names
    BY <2>1, NameNow
  <2>. QED
    BY <1>1, <2>1, <2>2 DEF With, ActiveInv
<1>3. CASE CompressBegins
  BY <1>1, <1>3 DEF CompressBegins, With
<1>4. CASE CopyEnds
  BY <1>1, <1>4 DEF CopyEnds
<1>5. CASE Unlink
  BY <1>1, <1>5 DEF Unlink, Without
<1>6. CASE CleanUp
  BY <1>1, <1>6 DEF CleanUp, Without
<1>7. CASE UNCHANGED <<plain, gz, stamp>>
  BY <1>1, <1>7
<1>. QED
  BY <1>2, <1>3, <1>4, <1>5, <1>6, <1>7, RotatedChanges

\* An archive in the making belongs to the plain file it is made from.
LEMMA StepStamp ==
  ASSUME IInv, [Next]_vars PROVE StampInv'
<1>. USE DEF IInv, StampInv, Compressing
<1>1. CASE Rename
  BY <1>1 DEF Rename, RotateStep, With
<1>2. CASE CompressBegins
  BY <1>2 DEF CompressBegins, RotateStep, With
<1>3. CASE CopyEnds
  BY <1>3 DEF CopyEnds, RotateStep
<1>4. CASE Unlink \/ CleanUp
  BY <1>4 DEF Unlink, CleanUp, RotateStep
<1>5. CASE /\ UNCHANGED <<plain, gz, stamp>>
           /\ at' \in Compressing => at' = at
  BY <1>5
<1>. QED
  BY <1>1, <1>2, <1>3, <1>4, <1>5
     DEF Next, vars, Rotate, Send, Write, WriteFails, FlushOk, FlushFails, CallRaises,
         Return, Flush, RenameFails, RotateClose, RotateCloseFails, CloseFile,
         CompressFails, RotateStep, Reopen, ReopenFails, Close, Closed, Ends, Crash,
         Restart, PassTime, rotated, calls

\* An archive is as old as its latest line, or younger.
LEMMA StepArchive ==
  ASSUME IInv, [Next]_vars PROVE ArchiveInv'
<1>. USE DEF IInv, ArchiveInv
<1>1. /\ Known \subseteq Known' /\ clock \in Nat /\ clock' \in Nat /\ clock <= clock'
      /\ \A e \in Known : sentAt'[e] = sentAt[e] /\ sentAt[e] \in 0 .. clock
  BY StepWorld
<1>2. \A n \in DOMAIN gz :
        /\ gz[n].lines \subseteq Known' /\ gz[n].mtime \in 0 .. clock'
        /\ \A e \in gz[n].lines : sentAt'[e] <= gz[n].mtime
  BY <1>1
<1>3. CASE CompressBegins
  <2>1. /\ gz' = With(gz, stamp, [lines |-> {}, mtime |-> clock])
        /\ clock' = clock
    BY <1>3 DEF CompressBegins, RotateStep
  <2>. QED
    BY <1>1, <1>2, <2>1 DEF With
<1>4. CASE CopyEnds
  <2>1. /\ gz' = [gz EXCEPT ![stamp] = [lines |-> plain[stamp], mtime |-> clock]]
        /\ clock' = clock /\ plain[stamp] \subseteq Known
    BY <1>4 DEF CopyEnds, RotateStep, StampInv, Compressing, NameInv
  <2>. QED
    BY <1>1, <1>2, <2>1
<1>5. CASE CleanUp
  <2>1. PICK N \in SUBSET Expired : gz' = Without(gz, N)
    BY <1>5 DEF CleanUp
  <2>. QED
    BY <1>2, <2>1 DEF Without
<1>6. CASE UNCHANGED gz
  BY <1>2, <1>6
<1>. QED
  BY <1>3, <1>4, <1>5, <1>6, RotatedChanges DEF Rename, Unlink

\* Every step keeps the invariant.
LEMMA StepInv ==
  ASSUME IInv, [Next]_vars PROVE IInv'
BY StepWorld, StepCall, StepActive, StepBuffer, StepSize, StepName, StepArchive,
   StepStamp DEF IInv

\* The sink begins with an empty file.
LEMMA InitInv == Init => IInv
<1>. SUFFICES ASSUME Init PROVE IInv
  OBVIOUS
<1>. USE FileAssumption DEF Init, NoFiles
<1>1. result \in BOOLEAN /\ exists \in BOOLEAN
  OBVIOUS
<1>2. sentAt \in [Events -> 0 .. clock]
  OBVIOUS
<1>3. WorldInv
  BY <1>2 DEF WorldInv
<1>4. CallInv
  BY <1>1 DEF CallInv, Rotating
<1>5. ActiveInv /\ BufferInv
  BY <1>1 DEF ActiveInv, BufferInv
<1>6. SizeInv
  BY DEF SizeInv
<1>7. NameInv
  <2>1. Stamp[0] \in Names
    BY DEF Names
  <2>. QED
    BY <2>1 DEF NameInv
<1>8. ArchiveInv /\ StampInv
  BY DEF ArchiveInv, StampInv, Compressing
<1>. QED
  BY <1>3, <1>4, <1>5, <1>6, <1>7, <1>8 DEF IInv

\* The invariant holds in every state.
THEOREM Invariance == Spec => []IInv
BY InitInv, StepInv, PTL DEF Spec

\* It says more than the types.
LEMMA InvTypes == IInv => TypeOK
<1>. SUFFICES ASSUME IInv PROVE TypeOK
  OBVIOUS
<1>. USE DEF IInv
<1>1. Known \subseteq Events
  BY FileAssumption DEF WorldInv, Known, Events
<1>2. size \in 0 .. MaxSends
  BY FileAssumption DEF WorldInv, SizeInv
<1>3. result \in BOOLEAN /\ exists \in BOOLEAN
  BY DEF CallInv, ActiveInv
<1>4. at # "none" <=> call = "send"
  BY DEF CallInv
<1>. QED
  BY <1>1, <1>2, <1>3, <1>4
     DEF WorldInv, CallInv, ActiveInv, BufferInv, SizeInv, NameInv, ArchiveInv, Rotating,
         TypeOK

\* The variables have their types: only lines that were sent are in the files, a
\* buffer belongs to an open file, and only a send takes the steps of a rotation.
THEOREM TypeCorrect == Spec => []TypeOK
BY Invariance, InvTypes, PTL

-----------------------------------------------------------------------------
(* Where the lines are.                                                    *)

\* A line is stored in the active file, a plain one or an archive.
LEMMA StoredIn ==
  ASSUME NEW e
  PROVE  e \in Stored <=>
           \/ e \in active
           \/ \E n \in DOMAIN plain : e \in plain[n]
           \/ \E n \in DOMAIN gz : e \in gz[n].lines
<1>1. e \in UNION {plain[n] : n \in DOMAIN plain} <=> \E n \in DOMAIN plain : e \in plain[n]
  OBVIOUS
<1>2. e \in UNION {gz[n].lines : n \in DOMAIN gz} <=>
        \E n \in DOMAIN gz : e \in gz[n].lines
  OBVIOUS
<1>3. e \in Stored <=> \/ e \in active
                       \/ e \in UNION {plain[n] : n \in DOMAIN plain}
                       \/ e \in UNION {gz[n].lines : n \in DOMAIN gz}
  BY DEF Stored
<1>. QED
  BY <1>1, <1>2, <1>3

\* So it is after a step.
LEMMA StoredInNext ==
  ASSUME NEW e
  PROVE  e \in Stored' <=>
           \/ e \in active'
           \/ \E n \in DOMAIN plain' : e \in plain'[n]
           \/ \E n \in DOMAIN gz' : e \in gz'[n].lines
<1>1. (e \in Stored <=>
         \/ e \in active
         \/ \E n \in DOMAIN plain : e \in plain[n]
         \/ \E n \in DOMAIN gz : e \in gz[n].lines)'
  BY StoredIn, PTL
<1>. QED
  BY <1>1

\* A step that writes puts the lines into the active file.
LEMMA HandlesStore ==
  ASSUME IInv, StoredOrNamed, Handles PROVE StoredOrNamed'
<1>1. PICK W : active' = active \union W /\ reached' \subseteq reached \union W
  BY HandlesWrite DEF Wrote
<1>2. UNCHANGED <<plain, gz, gone>>
  BY DEF Handles, Write, WriteFails, FlushOk, FlushFails, RotateClose, RotateCloseFails,
         CloseFile, Closed, rotated
<1>. QED
  BY <1>1, <1>2 DEF StoredOrNamed, Stored

\* No step takes the last copy of a line that is on the disk, unless it replaces a
\* file of the same name or removes an archive that is old enough.
LEMMA StepStored ==
  ASSUME IInv, StoredOrNamed, [Next]_vars PROVE StoredOrNamed'
<1>. USE DEF IInv
<1>. SUFFICES ASSUME ~Handles,
                     NEW e \in reached'
              PROVE  e \in Stored' \union gone'
  BY HandlesStore DEF StoredOrNamed
<1>1. e \in Stored \union gone
  BY ContentChanges DEF StoredOrNamed, Rename
<1>2. CASE Rename
  <2>1. /\ plain' = With(plain, stamp', active) /\ gz' = gz
        /\ gone' = gone \union LinesOf(plain, stamp')
    BY <1>2 DEF Rename
  <2>2. CASE e \in active
    BY <2>1, <2>2, StoredInNext DEF With
  <2>3. ASSUME NEW n \in DOMAIN plain, e \in plain[n] PROVE e \in Stored' \union gone'
    <3>1. CASE n = stamp'
      BY <2>1, <2>3, <3>1 DEF LinesOf
    <3>2. CASE n # stamp'
      <4>1. n \in DOMAIN plain' /\ plain'[n] = plain[n]
        BY <2>1, <3>2 DEF With
      <4>. QED
        BY <2>3, <4>1, StoredIn, StoredInNext
    <3>. QED
      BY <3>1, <3>2
  <2>. QED
    BY <1>1, <2>1, <2>2, <2>3, StoredIn, StoredInNext
<1>3. CASE CompressBegins
  <2>1. /\ gz' = With(gz, stamp, [lines |-> {}, mtime |-> clock])
        /\ gone' = gone \union Archived(stamp)
        /\ active' = active /\ plain' = plain
    BY <1>3 DEF CompressBegins, content
  <2>2. ASSUME NEW n \in DOMAIN gz, e \in gz[n].lines PROVE e \in Stored' \union gone'
    <3>1. CASE n = stamp
      BY <2>1, <2>2, <3>1 DEF Archived
    <3>2. CASE n # stamp
      <4>1. n \in DOMAIN gz' /\ gz'[n] = gz[n]
        BY <2>1, <3>2 DEF With
      <4>. QED
        BY <2>2, <4>1, StoredIn, StoredInNext
    <3>. QED
      BY <3>1, <3>2
  <2>. QED
    BY <1>1, <2>1, <2>2, StoredIn, StoredInNext
<1>4. CASE CopyEnds
  <2>1. /\ gz' = [gz EXCEPT ![stamp] = [lines |-> plain[stamp], mtime |-> clock]]
        /\ stamp \in DOMAIN gz /\ gz[stamp].lines = {}
        /\ active' = active /\ plain' = plain /\ gone' = gone
    BY <1>4 DEF CopyEnds, RotateStep, StampInv, content
  <2>2. ASSUME NEW n \in DOMAIN gz, e \in gz[n].lines PROVE e \in Stored'
    <3>1. n \in DOMAIN gz' /\ gz'[n] = gz[n]
      BY <2>1, <2>2
    <3>. QED
      BY <2>2, <3>1, StoredIn, StoredInNext
  <2>. QED
    BY <1>1, <2>1, <2>2, StoredIn, StoredInNext
<1>5. CASE Unlink
  <2>1. /\ plain' = Without(plain, {stamp})
        /\ stamp \in DOMAIN gz /\ gz[stamp].lines = plain[stamp]
        /\ active' = active /\ gz' = gz /\ gone' = gone
    BY <1>5 DEF Unlink, RotateStep, StampInv, content
  <2>2. ASSUME NEW n \in DOMAIN plain, e \in plain[n] PROVE e \in Stored'
    <3>1. CASE n = stamp
      BY <2>1, <2>2, <3>1, StoredIn, StoredInNext
    <3>2. CASE n # stamp
      <4>1. n \in DOMAIN plain' /\ plain'[n] = plain[n]
        BY <2>1, <3>2 DEF Without
      <4>. QED
        BY <2>2, <4>1, StoredIn, StoredInNext
    <3>. QED
      BY <3>1, <3>2
  <2>. QED
    BY <1>1, <2>1, <2>2, StoredIn, StoredInNext
<1>6. CASE CleanUp
  <2>1. PICK N \in SUBSET Expired :
          /\ gz' = Without(gz, N)
          /\ gone' = gone \union {d \in UNION {gz[n].lines : n \in N} :
                                     clock - sentAt[d] > Retention}
    BY <1>6 DEF CleanUp
  <2>2. active' = active /\ plain' = plain
    BY <1>6 DEF CleanUp, content
  <2>3. ASSUME NEW n \in DOMAIN gz, e \in gz[n].lines PROVE e \in Stored' \union gone'
    <3>1. CASE n \in N
      <4>1. gz[n].mtime < clock - Retention
        BY <3>1 DEF Expired
      <4>2. gz[n].mtime \in 0 .. clock /\ sentAt[e] <= gz[n].mtime /\ e \in Known
        BY <2>3 DEF ArchiveInv
      <4>3. sentAt[e] \in 0 .. clock /\ clock \in Nat
        BY <4>2, StepWorld
      <4>4. clock - sentAt[e] > Retention
        BY <4>1, <4>2, <4>3, FileAssumption
      <4>. QED
        BY <2>1, <2>3, <3>1, <4>4
    <3>2. CASE n \notin N
      <4>1. n \in DOMAIN gz' /\ gz'[n] = gz[n]
        BY <2>1, <3>2 DEF Without
      <4>. QED
        BY <2>3, <4>1, StoredIn, StoredInNext
    <3>. QED
      BY <3>1, <3>2
  <2>. QED
    BY <1>1, <2>1, <2>2, <2>3, StoredIn, StoredInNext
<1>7. CASE ~Rename /\ UNCHANGED <<plain, gz, gone, stamp>>
  <2>1. active' = active
    BY <1>7, ContentChanges
  <2>. QED
    BY <1>1, <1>7, <2>1, StoredIn, StoredInNext
<1>. QED
  BY <1>2, <1>3, <1>4, <1>5, <1>6, <1>7, RotatedChanges

\* Whatever fails or dies, a line on the disk stays in one of the files, unless a
\* rotation with the same name replaced it or it is older than the retention.
THEOREM AllStored == Spec => []StoredOrNamed
<1>1. Init => StoredOrNamed
  BY DEF Init, StoredOrNamed
<1>2. IInv /\ StoredOrNamed /\ [Next]_vars => StoredOrNamed'
  BY StepStored
<1>. QED
  BY <1>1, <1>2, Invariance, PTL DEF Spec

-----------------------------------------------------------------------------
(* The refinement.                                                         *)

\* What a rotation in progress has done with the lines of the send it belongs to.
HandedInv ==
  /\ at = "write" => buf = before /\ sent \notin buf
  /\ at = "close" => before \union {sent} \subseteq reached \union lost \union buf
                     /\ buf \subseteq before \union {sent}
  /\ at \in Rotating => before \union {sent} \subseteq reached \union lost

\* A send that has come to the rotation has handed its lines to the file.
LEMMA StepHanded ==
  ASSUME IInv, HandedInv, [Next]_vars PROVE HandedInv'
<1>. USE DEF HandedInv, Rotating
<1>1. CASE Send
  <2>1. sent + 1 \notin Known
    BY StepWorld DEF Known
  <2>2. buf \subseteq Known
    BY DEF IInv, BufferInv
  <2>. QED
    BY <1>1, <2>1, <2>2 DEF Send, handle
<1>2. CASE Write
  <2>1. PICK W : Wrote({sent}, W, {}) /\ W \union buf' = buf \union {sent}
    BY <1>2, WriteWrites
  <2>2. reached' \union lost' = reached \union lost \union W
    BY <2>1 DEF Wrote
  <2>3. /\ at = "write" /\ at' \in {"close", "none"} /\ sent' = sent
        /\ at' = "close" => before' = before
    BY <1>2 DEF Write, Writing, Return, sends
  <2>. QED
    BY <2>1, <2>2, <2>3
<1>3. CASE RotateClose \/ RotateCloseFails
  <2>1. PICK W, D : Wrote({}, W, D) /\ W \union D = buf /\ buf' = {}
    BY <1>3, RotateCloseWrites
  <2>2. reached' \union lost' = reached \union lost \union W \union D
    BY <2>1 DEF Wrote
  <2>3. at = "close" /\ at' = "rename" /\ sent' = sent /\ before' = before
    BY <1>3 DEF RotateClose, RotateCloseFails, CloseFile, sends
  <2>. QED
    BY <2>1, <2>2, <2>3
<1>4. CASE at' = "none"
  BY <1>4
<1>5. CASE /\ UNCHANGED <<reached, lost, buf, before, sent>>
           /\ at' = at \/ (at \in Rotating /\ at' \in Rotating)
  BY <1>5
<1>. QED
  BY <1>1, <1>2, <1>3, <1>4, <1>5
     DEF IInv, CallInv, Next, vars, Rotate, WriteFails, FlushOk, FlushFails, CallRaises,
         Return, Flush, Rename, RenameFails, CompressBegins, CopyEnds, Unlink,
         CompressFails, CleanUp, RotateStep, Reopen, ReopenFails, Close, Closed, Ends,
         Crash, Restart, PassTime, content, rotated, handle, calls, sends

\* The refinement mapping of Promise.
Pending   == IF call = "send" THEN before ELSE buf
Delivered == reached \union lost
Arg       == IF call = "send" THEN {sent} ELSE {}
Call      == IF call = "close" THEN "flush" ELSE call

\* Every step is a step of the promised sink, or one that does not concern it.
LEMMA StepPromised ==
  ASSUME IInv, HandedInv, [Next]_vars
  PROVE  [Promise!SpecNext]_(Promise!specVars)
<1>. USE DEF Promise!specVars, Promise!sinkVars, Promise!SpecNext
<1>a. Pending = (IF call = "send" THEN before ELSE buf)
      /\ Delivered = reached \union lost
      /\ Arg = (IF call = "send" THEN {sent} ELSE {})
      /\ Call = (IF call = "close" THEN "flush" ELSE call)
  BY DEF Pending, Delivered, Arg, Call
<1>c. call \in {"none", "send", "flush", "close"} /\ (at # "none" <=> call = "send")
  BY DEF IInv, CallInv
<1>t. CASE UNCHANGED <<Pending, Delivered, Arg, Call, result>>
  BY <1>t DEF Pending, Delivered, Arg, Call
<1>r. ASSUME call = "send", UNCHANGED <<call, before, sent, result>>,
             NEW D \in SUBSET (before \union {sent}), Delivered' = Delivered \union D
      PROVE  Promise!Reaches
  BY <1>r DEF Delivered, Promise!Reaches
<1>f. ASSUME call # "none", call' = "none", result' = FALSE,
             buf' \in SUBSET (Pending \union Arg),
             NEW D \in SUBSET (Pending \union Arg), Delivered' = Delivered \union D
      PROVE  Promise!ReturnFalse
  BY <1>c, <1>f
     DEF Pending, Delivered, Arg, Call, Promise!ReturnFalse, Promise!CallFails,
         Promise!Return
<1>1. CASE Send
  <2>1. sent' \in Events
    BY <1>1, FileAssumption DEF Send, IInv, WorldInv, Events
  <2>2. /\ call = "none" /\ call' = "send" /\ before' = buf
        /\ UNCHANGED <<reached, lost, result>>
    BY <1>1 DEF Send, content
  <2>3. Promise!BeginSend(sent')
    BY <2>2 DEF Promise!BeginSend
  <2>. QED
    BY <2>1, <2>3
<1>2. CASE Write
  <2>1. PICK W : Wrote({sent}, W, {}) /\ W \union buf' = buf \union {sent}
    BY <1>2, WriteWrites
  <2>2. Delivered' = Delivered \union W
    BY <2>1 DEF Wrote, Delivered
  <2>3. /\ at = "write" /\ call = "send" /\ buf = before /\ sent \notin buf
        /\ Pending = buf /\ Arg = {sent} /\ sent' = sent
    BY <1>2, <1>c DEF Write, Writing, HandedInv, Pending, Arg, sends
  <2>4. CASE at' = "close"
    <3>1. UNCHANGED <<call, before, sent, result>>
      BY <1>2, <2>4 DEF Write, Return, sends
    <3>. QED
      BY <1>r, <2>1, <2>2, <2>3, <3>1
  <2>5. CASE at' # "close"
    <3>1. call' = "none" /\ result' = TRUE
      BY <1>2, <2>5 DEF Write, Return
    <3>2. /\ buf' \in {buf \union {sent}, {sent}, {}}
          /\ Delivered' = Delivered \union ((buf \union {sent}) \ buf')
      <4>1. CASE buf' = buf \union {sent} /\ UNCHANGED content
        BY <4>1 DEF content, Delivered
      <4>2. CASE buf' = {sent} /\ WriteOut(buf, "no", {})
        <5>1. Delivered' = Delivered \union buf
          <6>1. buf \in SUBSET Nat
            BY BufferOfNumbers DEF IInv
          <6>2. PICK V : V = buf
            OBVIOUS
          <6>3. reached' \union lost' = reached \union lost \union V \union {}
            BY <4>2, <6>1, <6>2, WriteOutEffect DEF IInv
          <6>. QED
            BY <6>2, <6>3 DEF Delivered
        <5>. QED
          BY <2>3, <4>2, <5>1
      <4>3. CASE buf' = {} /\ WriteOut(buf \union {sent}, "no", {})
        <5>1. W = buf \union {sent}
          BY <2>1, <4>3
        <5>. QED
          BY <2>2, <4>3, <5>1
      <4>. QED
        BY <1>2, <4>1, <4>2, <4>3 DEF Write
    <3>3. Promise!SendOk(sent)
      BY <2>3, <3>1, <3>2 DEF Pending, Delivered, Promise!SendOk
    <3>. QED
      BY <2>3, <3>1, <3>3 DEF Promise!ReturnTrue, Promise!Return
  <2>. QED
    BY <2>4, <2>5
<1>3. CASE WriteFails
  <2>1. PICK W : Wrote({}, W, {})
    BY <1>3, FailureWrites
  <2>2. Delivered' = Delivered \union W /\ W \subseteq buf /\ buf' \subseteq buf
    BY <2>1 DEF Wrote, Delivered
  <2>3. /\ call = "send" /\ call' = "none" /\ result' = FALSE
        /\ Pending = buf
    BY <1>3, <1>c DEF WriteFails, Writing, Return, HandedInv, Pending
  <2>. QED
    BY <1>f, <2>2, <2>3
<1>4. CASE CallRaises
  <2>1. buf = {} /\ buf' = {}
    BY <1>4 DEF CallRaises, IInv, BufferInv, handle
  <2>2. call # "none" /\ call' = "none" /\ result' = FALSE
    BY <1>4, <1>c DEF CallRaises, Return
  <2>3. Delivered' = Delivered \union {}
    BY <1>4 DEF CallRaises, content, Delivered
  <2>. QED
    BY <1>f, <2>1, <2>2, <2>3
<1>5. CASE Flush
  BY <1>5 DEF Flush, content, handle, Promise!BeginFlush
<1>6. CASE FlushOk
  <2>1. Wrote({}, buf, {}) /\ buf' = {}
    BY <1>6, AllWritten DEF FlushOk, IInv
  <2>2. call = "flush" /\ call' = "none" /\ result' = TRUE
    BY <1>6 DEF FlushOk, Return
  <2>3. Promise!FlushOk
    BY <2>1, <2>2 DEF Wrote, Promise!FlushOk
  <2>. QED
    BY <2>2, <2>3 DEF Promise!ReturnTrue, Promise!Return
<1>7. CASE FlushFails
  <2>1. PICK W : Wrote({}, W, {})
    BY <1>7, FailureWrites
  <2>2. Delivered' = Delivered \union W /\ W \subseteq buf /\ buf' \subseteq buf
    BY <2>1 DEF Wrote, Delivered
  <2>3. call = "flush" /\ call' = "none" /\ result' = FALSE /\ Pending = buf
    BY <1>7 DEF FlushFails, Return, Pending
  <2>. QED
    BY <1>f, <2>2, <2>3
<1>8. CASE RotateClose \/ RotateCloseFails
  <2>1. PICK W, D : Wrote({}, W, D) /\ W \union D = buf
    BY <1>8, RotateCloseWrites
  <2>2. Delivered' = Delivered \union buf
    BY <2>1 DEF Wrote, Delivered
  <2>3. /\ call = "send" /\ buf \subseteq before \union {sent}
        /\ UNCHANGED <<call, before, sent, result>>
    BY <1>8, <1>c DEF RotateClose, RotateCloseFails, CloseFile, HandedInv, sends
  <2>. QED
    BY <1>r, <2>2, <2>3
<1>9. CASE Rename \/ RenameFails \/ CompressBegins \/ CopyEnds \/ Unlink \/ CompressFails
           \/ CleanUp
  <2>1. UNCHANGED <<reached, lost, buf, call, before, result, sent>>
    BY <1>9
       DEF Rename, RenameFails, CompressBegins, CopyEnds, Unlink, CompressFails, CleanUp,
           RotateStep, content, handle, sends
  <2>. QED
    BY <1>t, <2>1 DEF Pending, Delivered, Arg, Call
<1>10. CASE Reopen \/ ReopenFails
  <2>1. /\ call = "send" /\ before \union {sent} \subseteq Delivered /\ buf = {}
    BY <1>10, <1>c
       DEF Reopen, ReopenFails, RotateStep, IInv, CallInv, BufferInv, HandedInv, Rotating,
           Delivered
  <2>2. /\ buf' = {} /\ call' = "none" /\ Delivered' = Delivered
    BY <1>10, <2>1
       DEF Reopen, ReopenFails, Return, RotateStep, content, handle, Delivered
  <2>3. CASE result' = TRUE
    <3>1. Promise!SendOk(sent)
      BY <2>1, <2>2 DEF Delivered, Promise!SendOk
    <3>. QED
      BY <2>1, <2>2, <2>3, <3>1 DEF Promise!ReturnTrue, Promise!Return
  <2>4. CASE result' = FALSE
    <3>1. Delivered' = Delivered \union {} /\ call # "none"
      BY <2>1, <2>2
    <3>. QED
      BY <1>f, <2>2, <2>4, <3>1
  <2>. QED
    BY <1>10, <2>3, <2>4 DEF Reopen, ReopenFails, Return
<1>11. CASE Close
  BY <1>11, <1>c DEF Close, content, handle, Promise!BeginFlush
<1>12. CASE Closed
  <2>1. PICK W : Wrote({}, W, {}) /\ buf' = {}
    BY <1>12, ClosedWrites
  <2>2. Delivered' = Delivered \union W /\ W \subseteq buf
    BY <2>1 DEF Wrote, Delivered
  <2>3. call = "close" /\ call' = "none" /\ result' = FALSE /\ Pending = buf
    BY <1>12 DEF Closed, Ends, Return, Pending
  <2>. QED
    BY <1>f, <2>1, <2>2, <2>3
<1>13. CASE Crash
  BY <1>13
     DEF Crash, Ends, Return, Promise!ProcessDies, Promise!SinkCrash, Promise!Return
<1>14. CASE Restart
  <2>1. UNCHANGED <<reached, lost, buf, call, before, result, sent>>
    BY <1>14 DEF Restart, calls
  <2>. QED
    BY <1>t, <2>1 DEF Pending, Delivered, Arg, Call
<1>15. CASE PassTime \/ UNCHANGED vars
  <2>1. UNCHANGED <<reached, lost, buf, call, before, result, sent>>
    BY <1>15 DEF PassTime, vars, content, handle, calls, sends
  <2>. QED
    BY <1>t, <2>1 DEF Pending, Delivered, Arg, Call
<1>. QED
  BY <1>1, <1>2, <1>3, <1>4, <1>5, <1>6, <1>7, <1>8, <1>9, <1>10, <1>11, <1>12, <1>13,
     <1>14, <1>15 DEF Next, Rotate

\* FileSink implements SinkSpec: whatever fails in a write, a flush or a rotation, a
\* True stands for every line handed over since the last failure, if the lines
\* that are lost for a reason the model names count as delivered.
THEOREM Refinement == Spec => KeepsPromise
<1>1. Init => HandedInv /\ Promise!SpecInit
  BY DEF Init, HandedInv, Rotating, Promise!SpecInit, Promise!SinkInit
<1>2. IInv /\ HandedInv /\ [Next]_vars => HandedInv'
  BY StepHanded
<1>3. IInv /\ HandedInv /\ [Next]_vars => [Promise!SpecNext]_(Promise!specVars)
  BY StepPromised
<1>. QED
  BY <1>1, <1>2, <1>3, Invariance, PTL DEF Spec, KeepsPromise, Promise!SinkPromise

-----------------------------------------------------------------------------
(* Leftovers.                                                              *)

\* How many plain files there are.
CountInv ==
  /\ IsFiniteSet(DOMAIN plain)
  /\ Cardinality(DOMAIN plain)
       <= faults + stops + (IF at \in Compressing THEN 1 ELSE 0)

\* A rotation adds a plain file and removes it again, unless something fails.
LEMMA StepCount ==
  ASSUME IInv, CountInv, [Next]_vars PROVE CountInv'
<1>. USE DEF CountInv, Compressing
<1>w. faults \in Nat /\ stops \in Nat /\ faults' \in Nat /\ stops' \in Nat
  <2>1. WorldInv /\ WorldInv'
    BY StepWorld DEF IInv
  <2>. QED
    BY <2>1, FileAssumption DEF WorldInv
<1>n. Cardinality(DOMAIN plain) \in Nat
  BY FS_CardinalityType
<1>1. CASE Rename
  <2>1. /\ DOMAIN plain' = DOMAIN plain \union {stamp'}
        /\ at = "rename" /\ at' = "compress" /\ UNCHANGED <<faults, stops>>
    BY <1>1 DEF Rename, RotateStep, With
  <2>2. PICK n : n = stamp'
    OBVIOUS
  <2>3. /\ IsFiniteSet(DOMAIN plain \union {n})
        /\ Cardinality(DOMAIN plain \union {n}) \in
             {Cardinality(DOMAIN plain), Cardinality(DOMAIN plain) + 1}
    BY FS_AddElement
  <2>4. Cardinality(DOMAIN plain') <= Cardinality(DOMAIN plain) + 1
    BY <1>n, <2>1, <2>2, <2>3
  <2>. QED
    BY <1>w, <1>n, <2>1, <2>2, <2>3, <2>4
<1>2. CASE Unlink
  <2>1. /\ DOMAIN plain' = DOMAIN plain \ {stamp} /\ stamp \in DOMAIN plain
        /\ at = "unlink" /\ at' = "cleanup" /\ UNCHANGED <<faults, stops>>
    BY <1>2 DEF Unlink, RotateStep, Without, IInv, StampInv
  <2>2. /\ IsFiniteSet(DOMAIN plain \ {stamp})
        /\ Cardinality(DOMAIN plain \ {stamp}) = Cardinality(DOMAIN plain) - 1
    BY <2>1, FS_RemoveElement
  <2>. QED
    BY <1>w, <1>n, <2>1, <2>2
<1>3. CASE CompressFails
  <2>1. plain' = plain /\ faults' = faults + 1 /\ stops' = stops /\ at' = "cleanup"
    BY <1>3 DEF CompressFails, RotateStep, Fault, rotated
  <2>. QED
    BY <1>w, <1>n, <2>1
<1>4. CASE Crash
  <2>1. plain' = plain /\ faults' = faults /\ stops' = stops + 1 /\ at' = "none"
    BY <1>4 DEF Crash, CanStop, Ends, Return, rotated
  <2>. QED
    BY <1>w, <1>n, <2>1
<1>5. CASE CompressBegins \/ CopyEnds
  <2>1. /\ plain' = plain /\ faults' = faults /\ stops' = stops
        /\ at \in Compressing /\ at' \in Compressing
    BY <1>5 DEF CompressBegins, CopyEnds, RotateStep
  <2>. QED
    BY <2>1
<1>6. CASE /\ plain' = plain /\ faults' >= faults /\ stops' >= stops
           /\ at' \in Compressing <=> at \in Compressing
  BY <1>w, <1>n, <1>6
<1>. QED
  <2>1. faults' >= faults /\ stops' >= stops
    BY <1>w, FaultsGrow DEF Fault, CanStop
  <2>2. CASE Send \/ Write \/ WriteFails \/ Flush \/ FlushOk \/ FlushFails \/ CallRaises
    BY <1>6, <2>1, <2>2
       DEF Send, Write, Writing, WriteFails, Flush, FlushOk, FlushFails, CallRaises, Return,
           rotated, IInv, CallInv
  <2>3. CASE Rotate
    BY <1>1, <1>2, <1>3, <1>5, <1>6, <2>1, <2>3
       DEF Rotate, RenameFails, RotateClose, RotateCloseFails, CloseFile, CleanUp,
           RotateStep, Reopen, ReopenFails, Return, rotated
  <2>4. CASE Close \/ Closed \/ Crash \/ Restart \/ PassTime \/ UNCHANGED vars
    BY <1>4, <1>6, <2>1, <2>4
       DEF Close, Closed, Ends, Return, Restart, PassTime, vars, rotated, calls, IInv,
           CallInv
  <2>. QED
    BY <2>2, <2>3, <2>4 DEF Next

\* Every plain file that is left is due to a failure or the end of a process.
THEOREM Leftovers == Spec => []LeftoversHaveCause
<1>1. Init => CountInv
  <2>. SUFFICES ASSUME Init PROVE CountInv
    OBVIOUS
  <2>1. DOMAIN plain = {} /\ faults = 0 /\ stops = 0 /\ at = "none"
    BY DEF Init, NoFiles
  <2>2. IsFiniteSet({}) /\ Cardinality({}) = 0
    BY FS_EmptySet
  <2>. QED
    BY <2>1, <2>2 DEF CountInv, Compressing
<1>2. IInv /\ CountInv /\ [Next]_vars => CountInv'
  BY StepCount
<1>3. IInv /\ CountInv => LeftoversHaveCause
  <2>. SUFFICES ASSUME IInv, CountInv, at = "none"
                PROVE  Cardinality(DOMAIN plain) <= faults + stops
    BY DEF LeftoversHaveCause
  <2>1. faults \in Nat /\ stops \in Nat
    BY FileAssumption DEF IInv, WorldInv
  <2>. QED
    BY <2>1 DEF CountInv, Compressing
<1>. QED
  BY <1>1, <1>2, <1>3, Invariance, PTL DEF Spec

-----------------------------------------------------------------------------
(* When a file is rotated.                                                 *)

\* The size and the age that the sink goes by are those of the active file.
AgeInv ==
  ~unrenamed =>
    /\ Cardinality(active \union buf) <= size
    /\ at \in Renamed => active = {}
    /\ \A e \in active \union buf : e >= since => sentAt[e] >= opened
    /\ at = "write" => sentAt[sent] >= opened

\* What is in the file or the buffer is a finite number of lines.
LEMMA LinesFinite ==
  ASSUME IInv, NEW S \in SUBSET (active \union buf)
  PROVE  IsFiniteSet(S) /\ Cardinality(S) \in Nat
         /\ Cardinality(S) <= Cardinality(active \union buf)
<1>1. sent \in Nat /\ active \union buf \in SUBSET (1 .. sent)
  BY FileAssumption DEF IInv, WorldInv, ActiveInv, BufferInv, Known
<1>2. IsFiniteSet(active \union buf)
  BY <1>1, FewLines
<1>. QED
  BY <1>2, FS_Subset, FS_CardinalityType

\* A step that takes no line leaves no more than there was.
LEMMA FewerLines ==
  ASSUME IInv, AgeInv, active' \union buf' \subseteq active \union buf,
         UNCHANGED <<size, opened, since, unrenamed>>,
         \A e \in Known : sentAt'[e] = sentAt[e],
         at' # "write", at' \in Renamed => at \in Renamed /\ active' = active
  PROVE  AgeInv'
<1>. SUFFICES ASSUME ~unrenamed PROVE AgeInv'
  BY DEF AgeInv
<1>1. active \union buf \subseteq Known
  BY DEF IInv, ActiveInv, BufferInv
<1>2. PICK S : S = active' \union buf'
  OBVIOUS
<1>3. Cardinality(S) \in Nat /\ Cardinality(S) <= Cardinality(active \union buf)
  BY <1>2, LinesFinite
<1>4. size \in Nat /\ Cardinality(active \union buf) \in Nat
  BY LinesFinite, FileAssumption DEF IInv, WorldInv, SizeInv
<1>5. Cardinality(active' \union buf') <= size'
  BY <1>2, <1>3, <1>4 DEF AgeInv
<1>6. \A e \in active' \union buf' : e >= since' => sentAt'[e] >= opened'
  BY <1>1 DEF AgeInv
<1>. QED
  BY <1>5, <1>6 DEF AgeInv

\* A write adds its line to those in the file and the buffer.
LEMMA WriteAdds ==
  ASSUME IInv, AgeInv, Write, ~unrenamed
  PROVE  /\ Cardinality(active' \union buf') <= size + 1
         /\ Cardinality(active' \union buf') \in Nat
         /\ \A e \in active' \union buf' : e >= since => sentAt[e] >= opened
<1>1. PICK W : Wrote({sent}, W, {}) /\ W \union buf' = buf \union {sent}
  BY WriteWrites
<1>2. active' \union buf' = (active \union buf) \union {sent}
  BY <1>1 DEF Wrote
<1>3. IsFiniteSet(active \union buf) /\ Cardinality(active \union buf) \in Nat
  BY LinesFinite
<1>4. Cardinality((active \union buf) \union {sent}) \in
        {Cardinality(active \union buf), Cardinality(active \union buf) + 1}
  BY <1>3, FS_AddElement
<1>5. Cardinality(active \union buf) <= size /\ size \in Nat
  BY FileAssumption DEF AgeInv, IInv, WorldInv, SizeInv
<1>6. /\ Cardinality((active \union buf) \union {sent}) <= size + 1
      /\ Cardinality((active \union buf) \union {sent}) \in Nat
  BY <1>3, <1>4, <1>5
<1>. QED
  BY <1>2, <1>6 DEF AgeInv, Write, Writing

\* The size and the age stay true of the file.
LEMMA StepAge ==
  ASSUME IInv, AgeInv, [Next]_vars PROVE AgeInv'
<1>. USE DEF Renamed
<1>k. \A e \in Known : sentAt'[e] = sentAt[e] /\ sentAt[e] \in 0 .. clock
  BY StepWorld
<1>1. CASE Send
  <2>1. /\ sent \in Nat /\ clock \in Nat /\ sent + 1 \in Events
        /\ opened \in Nat /\ opened <= clock
    BY <1>1, FileAssumption DEF Send, IInv, WorldInv, SizeInv, Events
  <2>2. sentAt'[sent + 1] = clock
    BY <1>1, <2>1 DEF Send, IInv, WorldInv
  <2>3. active \union buf \subseteq Known
    BY DEF IInv, ActiveInv, BufferInv
  <2>. QED
    BY <1>1, <1>k, <2>1, <2>2, <2>3 DEF Send, content, rotated, handle, AgeInv
<1>2. CASE Write
  <2>. SUFFICES ASSUME ~unrenamed PROVE AgeInv'
    BY <1>2 DEF Write, rotated, AgeInv
  <2>1. /\ size' = size + 1 /\ at' \in {"close", "none"}
        /\ UNCHANGED <<opened, since, sentAt>>
    BY <1>2 DEF Write, Return, sends
  <2>. QED
    BY <1>2, <2>1, WriteAdds DEF AgeInv
<1>3. CASE WriteFails \/ FlushOk \/ FlushFails \/ RotateClose \/ RotateCloseFails \/ Closed
  <2>1. PICK W, D : Wrote({}, W, D)
    BY <1>3, FailureWrites, RotateCloseWrites, ClosedWrites
  <2>2. active' \union buf' \subseteq active \union buf
    BY <2>1 DEF Wrote
  <2>3. /\ UNCHANGED <<size, opened, since, unrenamed>>
        /\ at' # "write" /\ at' \notin Renamed
    BY <1>3
       DEF WriteFails, Writing, FlushOk, FlushFails, RotateClose, RotateCloseFails,
           CloseFile, Closed, Ends, Return, rotated, sends
  <2>. QED
    BY <1>k, <2>2, <2>3, FewerLines
<1>4. CASE Rename
  <2>1. buf = {} /\ size \in Nat
    BY <1>4, FileAssumption
       DEF Rename, RotateStep, IInv, CallInv, BufferInv, WorldInv, SizeInv, Rotating
  <2>2. active' \union buf' = {} /\ at' = "compress" /\ size' = size /\ active' = {}
    BY <1>4, <2>1 DEF Rename, RotateStep, handle
  <2>3. Cardinality(active' \union buf') = 0
    BY <2>2, FS_EmptySet
  <2>. QED
    BY <2>1, <2>2, <2>3 DEF AgeInv
<1>5. CASE RenameFails
  BY <1>5 DEF RenameFails, AgeInv
<1>6. CASE Reopen
  <2>. SUFFICES ASSUME ~unrenamed PROVE AgeInv'
    BY <1>6 DEF Reopen, AgeInv
  <2>1. buf = {} /\ active = {}
    BY <1>6 DEF Reopen, IInv, CallInv, BufferInv, Rotating, AgeInv
  <2>2. active' \union buf' = {} /\ at' = "none" /\ size' = 0
    BY <1>6, <2>1 DEF Reopen, Return
  <2>3. Cardinality(active' \union buf') = 0
    BY <2>2, FS_EmptySet
  <2>. QED
    BY <2>2, <2>3 DEF AgeInv
<1>7. CASE Restart
  <2>1. /\ buf = {} /\ active \subseteq Known /\ at = "none" /\ sent \in Nat
    BY <1>7, FileAssumption
       DEF Restart, IInv, BufferInv, ActiveInv, CallInv, WorldInv
  <2>2. /\ active' \union buf' = active /\ at' = "none" /\ size' = Cardinality(active)
        /\ since' = sent + 1
    BY <1>7, <2>1 DEF Restart, calls, SizeOnDisk
  <2>3. Cardinality(active) \in Nat
    BY LinesFinite
  <2>4. \A e \in active : ~(e >= since')
    BY <2>1, <2>2 DEF Known
  <2>. QED
    BY <2>2, <2>3, <2>4 DEF AgeInv
<1>8. CASE PassTime \/ UNCHANGED vars
  BY <1>8 DEF PassTime, vars, content, rotated, handle, calls, sends, AgeInv
<1>9. CASE CallRaises \/ Flush \/ Close \/ Crash
  <2>1. /\ active' = active /\ buf' \subseteq buf
        /\ UNCHANGED <<size, opened, since, unrenamed>>
    BY <1>9 DEF CallRaises, Flush, Close, Crash, Ends, content, rotated, handle, sends
  <2>2. at' # "write" /\ at' \notin Renamed
    BY <1>9
       DEF CallRaises, Flush, Close, Crash, Ends, Return, IInv, CallInv
  <2>. QED
    BY <1>k, <2>1, <2>2, FewerLines
<1>10. CASE CompressBegins \/ CopyEnds \/ Unlink \/ CompressFails \/ CleanUp \/ ReopenFails
  <2>1. /\ active' = active /\ buf' \subseteq buf
        /\ UNCHANGED <<size, opened, since, unrenamed>>
    BY <1>10
       DEF CompressBegins, CopyEnds, Unlink, CompressFails, CleanUp, ReopenFails,
           RotateStep, content, rotated, handle, sends
  <2>2. at' # "write" /\ (at' \in Renamed => at \in Renamed)
    BY <1>10
       DEF CompressBegins, CopyEnds, Unlink, CompressFails, CleanUp, ReopenFails,
           RotateStep, Return
  <2>. QED
    BY <1>k, <2>1, <2>2, FewerLines
<1>. QED
  BY <1>1, <1>2, <1>3, <1>4, <1>5, <1>6, <1>7, <1>8, <1>9, <1>10 DEF Next, Rotate

\* Only a write that finds the file small and young enough ends a send with a True
\* before a rotation.
LEMMA StepRotated ==
  ASSUME IInv, AgeInv, [Next]_vars,
         at = "write", at' = "none", result', ~unrenamed
  PROVE  /\ Cardinality(active' \union buf') < MaxSize
         /\ \A e \in active' \union buf' : e >= since => clock - sentAt[e] < MaxAge
<1>1. CASE Write
  <2>1. ~NeedsRotation(size + 1)
    BY <1>1 DEF Write
  <2>2. /\ Cardinality(active' \union buf') <= size + 1
        /\ Cardinality(active' \union buf') \in Nat
        /\ \A e \in active' \union buf' : e >= since => sentAt[e] >= opened
    BY <1>1, WriteAdds
  <2>3. size \in Nat /\ opened \in Nat /\ clock \in Nat
    BY FileAssumption DEF IInv, WorldInv, SizeInv
  <2>4. \A e \in active' \union buf' : sentAt[e] \in Nat
    <3>1. active' \union buf' \subseteq Known \union {sent}
      <4>1. PICK W : Wrote({sent}, W, {})
        BY <1>1, WriteWrites
      <4>. QED
        BY <4>1 DEF Wrote, IInv, ActiveInv, BufferInv
    <3>2. sent \in Known
      BY FileAssumption DEF IInv, WorldInv, SizeInv, Known
    <3>. QED
      BY <3>1, <3>2, StepWorld
  <2>5. size + 1 < MaxSize /\ clock - opened < MaxAge
    BY <2>1, <2>3, FileAssumption DEF NeedsRotation
  <2>. QED
    BY <2>2, <2>3, <2>4, <2>5, FileAssumption
<1>2. CASE ~Write
  <2>1. ~result'
    BY <1>2
       DEF Next, vars, Rotate, Send, WriteFails, Flush, FlushOk, FlushFails, CallRaises,
           Return, Rename, RenameFails, RotateClose, RotateCloseFails, CloseFile,
           CompressBegins, CopyEnds, Unlink, CompressFails, CleanUp, RotateStep, Reopen,
           ReopenFails, Close, Closed, Crash, Ends, Restart, PassTime, calls, IInv, CallInv
  <2>. QED
    BY <2>1
<1>. QED
  BY <1>1, <1>2

\* A send that returns True without a rotation leaves a file that is neither too
\* large nor too old, across restarts, failed writes and lost buffers.
THEOREM RotationInTime == Spec => RotatedInTime
<1>1. Init => AgeInv
  <2>. SUFFICES ASSUME Init PROVE AgeInv
    OBVIOUS
  <2>1. active \union buf = {} /\ size = 0 /\ at = "none"
    BY DEF Init
  <2>2. Cardinality({}) = 0
    BY FS_EmptySet
  <2>. QED
    BY <2>1, <2>2 DEF AgeInv, Renamed
<1>2. IInv /\ AgeInv /\ [Next]_vars => AgeInv'
  BY StepAge
<1>3. IInv /\ AgeInv /\ [Next]_vars =>
        [at = "write" /\ at' = "none" /\ result' /\ ~unrenamed =>
           /\ Cardinality(active' \union buf') < MaxSize
           /\ \A e \in active' \union buf' : e >= since => clock - sentAt[e] < MaxAge]_vars
  BY StepRotated
<1>. QED
  BY <1>1, <1>2, <1>3, Invariance, PTL DEF Spec, RotatedInTime
=============================================================================
