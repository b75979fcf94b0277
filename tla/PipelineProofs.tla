--------------------------- MODULE PipelineProofs ---------------------------
(* Proofs about Pipeline, for every set of keys and every value of the     *)
(* constants.                                                              *)
EXTENDS Pipeline, FiniteSetTheorems, TLAPS

USE DEF NoTime, NoKey, Stages, InTick

-----------------------------------------------------------------------------
(* Operators.                                                              *)

\* A fresh checkpoint and the position of a stored object are checkpoints.
LEMMA CheckpointTypes ==
  ASSUME TypeOK
  PROVE  /\ EmptyCheckpoint \in Checkpoint
         /\ Fresh \in Checkpoint
         /\ \A k \in Present : At(k) \in Checkpoint
  BY ClockAssumption DEF TypeOK, Checkpoint, EmptyCheckpoint, Fresh, At, Present

\* The days that a tick scans are integers.
LEMMA ScanDaysType ==
  ASSUME NEW now \in Nat, NEW lm \in Nat \union {NoTime}
  PROVE  ScanDays(now, lm) \in SUBSET Int
<1>1. \A t \in Int : Day(t) \in Int
  BY DayLengthAssumption DEF Day
<1>2. \A i, j \in Int : i .. j \in SUBSET Int
  OBVIOUS
<1>3. now - DayLength \in Int
  BY DayLengthAssumption
<1>. QED
  BY <1>1, <1>2, <1>3 DEF ScanDays

\* Any bounded insertion keeps the candidates within the bound.
LEMMA OfferBounded ==
  ASSUME TypeOK, NEW k \in Present, Offer(k)
  PROVE  cands' \in SUBSET Present /\ Cardinality(cands') <= MaxFilesPerTick
<1>1. IsFiniteSet(cands) /\ IsFiniteSet(Keys)
  BY KeysAssumption, FS_Subset DEF TypeOK, Present
<1>2. cands' \in SUBSET Present
  BY DEF Offer, TypeOK
<1>3. ASSUME Cardinality(cands) < MaxFilesPerTick, cands' = cands \union {k}
      PROVE  Cardinality(cands') <= MaxFilesPerTick
  <2>1. \/ Cardinality(cands') = Cardinality(cands) + 1
        \/ Cardinality(cands') = Cardinality(cands)
    BY <1>1, <1>3, FS_AddElement
  <2>. QED
    BY <1>1, <1>3, <2>1, FS_CardinalityType, MaxFilesAssumption
<1>4. ASSUME NEW last \in cands, cands' = (cands \ {last}) \union {k}
      PROVE  Cardinality(cands') <= MaxFilesPerTick
  <2>1. /\ IsFiniteSet(cands \ {last})
        /\ Cardinality(cands \ {last}) = Cardinality(cands) - 1
    BY <1>1, FS_RemoveElement
  <2>2. \/ Cardinality(cands') = Cardinality(cands \ {last}) + 1
        \/ Cardinality(cands') = Cardinality(cands \ {last})
    BY <1>4, <2>1, FS_AddElement
  <2>. QED
    BY <1>1, <2>1, <2>2, FS_CardinalityType, MaxFilesAssumption DEF TypeOK
<1>5. CASE UNCHANGED cands
  BY <1>5 DEF TypeOK
<1>. QED
  BY <1>2, <1>3, <1>4, <1>5 DEF Offer

-----------------------------------------------------------------------------
(* Type correctness.                                                       *)

\* The initial state has the types.
LEMMA InitTypeOK == Init => TypeOK
<1>. SUFFICES ASSUME Init PROVE TypeOK
  OBVIOUS
<1>1. Cardinality({}) <= MaxFilesPerTick
  BY FS_EmptySet, MaxFilesAssumption
<1>2. cp \in Checkpoint
  BY DEF Init, Checkpoint, EmptyCheckpoint
<1>3. clock \in Nat /\ clock >= Epoch /\ modified \in [Keys -> Nat \union {NoTime}]
  BY ClockAssumption DEF Init
<1>. QED
  BY <1>1, <1>2, <1>3 DEF Init, TypeOK, SinkInit

\* The conjuncts of TypeOK on what the end of a tick resets.
LEMMA TickOverTypes ==
  ASSUME NEW where \in {"down", "idle"}, TickOver(where)
  PROVE  /\ pc' \in {"down", "idle"} \union Stages
         /\ cp' \in Checkpoint /\ scan' \in SUBSET Int
         /\ cursor' \in Keys \union {NoKey}
         /\ cands' \in SUBSET (Present') /\ Cardinality(cands') <= MaxFilesPerTick
         /\ cur' \in IF pc' \in {"file", "save"} THEN Present' ELSE {NoKey}
         /\ line' \in Nat /\ pc' # "file"
         /\ sentAny' \in BOOLEAN /\ missable' \in SUBSET Keys
<1>1. Cardinality({}) <= MaxFilesPerTick
  BY FS_EmptySet, MaxFilesAssumption
<1>. QED
  BY <1>1 DEF TickOver, Checkpoint, EmptyCheckpoint

\* What a sink call leaves in memory and at the destination are events.
LEMMA SinkTypes ==
  ASSUME TypeOK, NEW E \in SUBSET Sendable,
         \/ \E e \in E : SendOk(e)
         \/ CallFails(E) \/ FlushOk \/ SinkCrash \/ UNCHANGED sinkVars
  PROVE  pending' \in SUBSET Sendable /\ delivered' \in SUBSET Sendable
  BY DEF TypeOK, SendOk, CallFails, FlushOk, SinkCrash, sinkVars

\* An unskipped line of the object in progress is a sendable event.
LEMMA LineSendable ==
  ASSUME TypeOK, AtLine, <<cur, line>> \notin Skipped
  PROVE  <<cur, line>> \in Sendable /\ <<cur, line>> \in EventsOf(cur)
  BY SizeAssumption DEF TypeOK, AtLine, Sendable, EventsOf, Present

\* Stored objects stay stored: PutObject is the only change of the bucket.
LEMMA PresentGrows ==
  ASSUME TypeOK, [Next]_vars
  PROVE  Present \subseteq Present'
<1>1. UNCHANGED modified \/ \E k \in Keys : PutObject(k)
  BY DEF Next, Environment, Failures, Progress, vars, world, PassTime, SpoilFile,
         Crash, SourceFails, SendFails, FlushFails, SaveFails, LoadFails,
         StartFails, Stop,
         Start, LoadCheckpoint, Reset, StartWith, ListObject, Fetch, ListPrefixDone, TickEnds,
         SkipLine, SendLine, FlushFile, SaveCheckpoint
<1>2. CASE UNCHANGED modified
  BY <1>2 DEF Present
<1>3. ASSUME NEW k \in Keys, PutObject(k) PROVE Present \subseteq Present'
  BY <1>3 DEF Present, PutObject, TypeOK
<1>. QED
  BY <1>1, <1>2, <1>3

\* Every step keeps the types.
LEMMA StepTypeOK == TypeOK /\ [Next]_vars => TypeOK'
<1>. SUFFICES ASSUME TypeOK, [Next]_vars PROVE TypeOK'
  OBVIOUS
<1>. USE DEF vars, world, tick, history, bounds, sinkVars
<1>0. Present \subseteq Present'
  BY PresentGrows
<1>1. CASE PassTime
  BY <1>0, <1>1, ClockAssumption DEF PassTime, TypeOK, Present
<1>2. ASSUME NEW k \in Keys, PutObject(k) PROVE TypeOK'
  BY <1>0, <1>2 DEF PutObject, TypeOK
<1>3. ASSUME NEW f \in {Missing, Corrupt}, SpoilFile(f) PROVE TypeOK'
  BY <1>0, <1>3 DEF SpoilFile, TypeOK, Present
<1>4. CASE Crash
  BY <1>4, TickOverTypes DEF Crash, SinkCrash, TypeOK
<1>5. CASE Start
  BY <1>5, CheckpointTypes, ClockAssumption DEF Start, Raise, Fresh, TypeOK, Present
<1>6. CASE Stop
  BY <1>6 DEF Stop, TypeOK, Present
<1>7. CASE LoadCheckpoint \/ LoadFails
  <2>1. file' \in Checkpoint \union {Missing, Corrupt} /\ floor' \in Nat
    BY <1>7, CheckpointTypes, ClockAssumption
    DEF LoadCheckpoint, LoadFails, Reset, StartWith, Raise, Fresh, TypeOK
  <2>2. PICK c \in Checkpoint : StartWith(c)
    BY <1>7, CheckpointTypes DEF LoadCheckpoint, LoadFails, Reset
  <2>3. scan' \in SUBSET Int
    BY <2>2, ScanDaysType DEF StartWith, Checkpoint, TypeOK
  <2>4. pc = "idle" /\ faults' \in Nat /\ UNCHANGED <<stops, fileEvents>>
    BY <1>7 DEF LoadCheckpoint, LoadFails, Fault, TypeOK
  <2>. QED
    BY <2>1, <2>2, <2>3, <2>4 DEF StartWith, TypeOK, Present
<1>21. CASE StartFails
  BY <1>0, <1>21 DEF StartFails, Fault, TypeOK, Present
<1>8. ASSUME NEW k \in Keys, ListObject(k) PROVE TypeOK'
  <2>1. cands' \in SUBSET Present /\ Cardinality(cands') <= MaxFilesPerTick
    BY <1>8, OfferBounded DEF ListObject, ToList, TypeOK
  <2>. QED
    BY <1>8, <2>1 DEF ListObject, TypeOK, Present
<1>9. ASSUME NEW d \in scan, ListPrefixDone(d) PROVE TypeOK'
  BY <1>9 DEF ListPrefixDone, TypeOK, Present
<1>10. CASE SourceFails
  BY <1>10, TickOverTypes DEF SourceFails, Fault, TypeOK
<1>11. ASSUME NEW k \in Keys, Fetch(k) PROVE TypeOK'
  <2>1. CASE Kind[k] = "truncated" /\ TickOver("idle")
    BY <1>11, <2>1, TickOverTypes DEF Fetch, TypeOK
  <2>2. ASSUME k \in cands, cands' = cands \ {k}
        PROVE  Cardinality(cands') <= MaxFilesPerTick
    <3>1. IsFiniteSet(cands)
      BY KeysAssumption, FS_Subset DEF TypeOK, Present
    <3>2. Cardinality(cands') = Cardinality(cands) - 1
      BY <2>2, <3>1, FS_RemoveElement
    <3>. QED
      BY <3>1, <3>2, FS_CardinalityType, MaxFilesAssumption DEF TypeOK
  <2>3. CASE Kind[k] = "gzip" /\ pc' = "file" /\ cur' = k
    <3>1. line' = 1 /\ k \in cands /\ cands' = cands \ {k}
          /\ UNCHANGED <<cp, scan, cursor, sentAny, missable>>
          /\ UNCHANGED <<world, file, history, bounds, sinkVars>>
      BY <1>11, <2>3 DEF Fetch, First
    <3>2. cur' \in Present' /\ cands' \in SUBSET (Present')
      BY <1>0, <2>3, <3>1 DEF TypeOK
    <3>. QED
      BY <2>2, <2>3, <3>1, <3>2 DEF TypeOK
  <2>4. CASE Kind[k] = "notgzip" /\ cands' = cands \ {k} /\ UNCHANGED <<pc, cur>>
    BY <1>11, <2>2, <2>4 DEF Fetch, First, TypeOK, Present
  <2>. QED
    BY <1>11, <2>1, <2>3, <2>4 DEF Fetch
<1>12. CASE TickEnds
  BY <1>12, TickOverTypes DEF TickEnds, TypeOK
<1>13. CASE SkipLine
  BY <1>13 DEF SkipLine, AtLine, TypeOK, Present
<1>14. CASE SendLine
  <2>1. <<cur, line>> \in Sendable
    BY <1>14, LineSendable DEF SendLine
  <2>2. pending' \in SUBSET Sendable /\ delivered' \in SUBSET Sendable
    BY <1>14, <2>1 DEF SendLine, SendOk, TypeOK
  <2>. QED
    BY <1>14, <2>2 DEF SendLine, AtLine, TypeOK, Present
<1>15. CASE SendFails
  BY <1>15, LineSendable, SinkTypes, TickOverTypes DEF SendFails, Fault, TypeOK
<1>16. CASE FlushFile
  BY <1>16, SinkTypes DEF FlushFile, TypeOK, Present
<1>17. CASE FlushFails
  BY <1>17, SinkTypes, TickOverTypes DEF FlushFails, Fault, TypeOK
<1>18. CASE SaveCheckpoint
  BY <1>18, CheckpointTypes DEF SaveCheckpoint, TypeOK, Present, Passed
<1>19. CASE SaveFails
  BY <1>19, TickOverTypes DEF SaveFails, Fault, TypeOK
<1>20. CASE UNCHANGED vars
  BY <1>20 DEF TypeOK, Present
<1>. QED
  BY <1>1, <1>2, <1>3, <1>4, <1>5, <1>6, <1>7, <1>8, <1>9, <1>10, <1>11, <1>12,
     <1>13, <1>14, <1>15, <1>16, <1>17, <1>18, <1>19, <1>20, <1>21
  DEF Next, Environment, Failures, Progress

\* Every variable keeps its type, and no more candidates than
\* max_files_per_tick are ever held.
THEOREM TypeCorrect == Spec => []TypeOK
  BY InitTypeOK, StepTypeOK, PTL DEF Spec
-----------------------------------------------------------------------------
(* The order of (LastModified, Key).                                       *)

\* The numbers that the comparisons are about.
LEMMA Positions ==
  ASSUME TypeOK
  PROVE  /\ \A k \in Present : k \in Nat /\ modified[k] \in Nat
         /\ \A c \in Checkpoint : /\ c.lm \in Int /\ c.lm >= -1
                                  /\ c.key \in Int /\ c.key >= -1
<1>1. \A k \in Present : k \in Nat /\ modified[k] \in Nat
  BY KeysAssumption DEF TypeOK, Present
<1>2. ASSUME NEW c \in Checkpoint
      PROVE  c.lm \in Nat \union {-1} /\ c.key \in Nat \union {-1}
  BY KeysAssumption DEF Checkpoint
<1>. QED
  BY <1>1, <1>2

\* _is_new and "behind the checkpoint" are opposites.
LEMMA NewIsNotPassed ==
  ASSUME TypeOK, NEW k \in Present, NEW c \in Checkpoint
  PROVE  New(k, c) <=> k \notin Passed(c)
  BY Positions DEF New, IsNew, Passed, Behind

\* Nothing is behind the checkpoint that has no last_modified, and only older
\* objects are behind a fresh one.
LEMMA PassedEmpty == ASSUME TypeOK PROVE Passed(EmptyCheckpoint) = {}
  BY DEF TypeOK, Present, EmptyCheckpoint, Passed, Behind

\* A new checkpoint has only gone past what is older than its lookback.
LEMMA PassedFresh ==
  ASSUME TypeOK, NEW k \in Passed(Fresh)
  PROVE  modified[k] < Fresh.lm
  BY DEF Passed, Fresh, Behind

\* The order of the candidates is strict and total.
LEMMA BeforeOrder ==
  ASSUME TypeOK, NEW i \in Present, NEW j \in Present, NEW k \in Present
  PROVE  /\ ~Before(i, i)
         /\ Before(i, j) /\ Before(j, k) => Before(i, k)
         /\ i = j \/ Before(i, j) \/ Before(j, i)
  BY KeysAssumption DEF TypeOK, Present, Before, Precedes

\* After cp.advance, what is behind is the object itself and all before it.
LEMMA PassedAt ==
  ASSUME TypeOK, NEW j \in Present, NEW k \in Present
  PROVE  j \in Passed(At(k)) <=> j = k \/ Before(j, k)
  BY KeysAssumption DEF TypeOK, Present, Passed, At, Behind, Before, Precedes

\* An object ahead of a checkpoint comes after every object behind it.
LEMMA PassedBeforeNew ==
  ASSUME TypeOK, NEW c \in Checkpoint, NEW j \in Passed(c),
         NEW k \in Present, k \notin Passed(c)
  PROVE  Before(j, k)
  BY Positions DEF Passed, Behind, Before, Precedes

-----------------------------------------------------------------------------
(* The inductive invariant.                                                *)

\* What is settled stays so: deliveries, overtaken and floor only grow.
LEMMA SettledStable ==
  ASSUME TypeOK, TypeOK', NEW k \in Keys, Settled(k), modified'[k] = modified[k],
         delivered \subseteq delivered', overtaken \subseteq overtaken',
         floor' >= floor
  PROVE  Settled(k)'
  BY DEF TypeOK, Settled, EventsOf

\* While no object is put, a checkpoint stays past the same objects.
LEMMA PassedStable ==
  ASSUME UNCHANGED modified
  PROVE  Present' = Present /\ \A c : Passed(c)' = Passed(c)
  BY DEF Present, Passed

\* Every way for a tick to end, or not to run, keeps the invariant.
LEMMA TickOverKeeps ==
  ASSUME IInv, TypeOK', pc' \in {"down", "idle"},
         cands' = {}, cursor' = NoKey, cp' = EmptyCheckpoint, scan' = {},
         UNCHANGED modified, UNCHANGED overtaken,
         delivered \subseteq delivered', floor' >= floor,
         \/ UNCHANGED file
         \/ file' \notin Checkpoint
         \/ file' = Fresh /\ floor' >= Fresh.lm
  PROVE  IInv'
<1>. USE DEF IInv
<1>1. NoSilentLoss'
  <2>1. CASE UNCHANGED file
    BY <2>1, PassedStable, SettledStable DEF NoSilentLoss, Passed, Present
  <2>2. CASE file' \notin Checkpoint
    BY <2>2 DEF NoSilentLoss
  <2>3. CASE file' = Fresh /\ floor' >= Fresh.lm
    <3>1. \A k \in Passed(Fresh) : modified[k] < floor'
      BY <2>3, PassedFresh, CheckpointTypes DEF TypeOK, Passed, Present, Checkpoint
    <3>. QED
      BY <2>3, <3>1, PassedStable DEF NoSilentLoss, Settled
  <2>. QED
    BY <2>1, <2>2, <2>3
<1>2. Kept' = {} /\ Passed(cp)' = {}
  BY PassedEmpty, PassedStable DEF TypeOK, Kept
<1>3. KeptInOrder' /\ LinesInSink' /\ CheckpointSound' /\ LocalsUnset'
  BY <1>2 DEF KeptInOrder, LinesInSink, CheckpointSound, LocalsUnset
<1>4. ListingAccounted'
  BY DEF ListingAccounted
<1>. QED
  BY <1>1, <1>3, <1>4

\* The initial state satisfies the invariant.
LEMMA InitIInv == Init => IInv
<1>. SUFFICES ASSUME Init PROVE IInv
  OBVIOUS
<1>1. TypeOK
  BY InitTypeOK
<1>2. Present = {} /\ Kept = {}
  BY DEF Init, Present, Kept
<1>3. NoSilentLoss
  BY FileAssumption DEF Init, NoSilentLoss
<1>. QED
  BY <1>1, <1>2, <1>3 DEF Init, IInv, ListingAccounted, KeptInOrder, LinesInSink,
     CheckpointSound, LocalsUnset, Passed

\* A step that saves nothing leaves both checkpoints sound.
LEMMA SoundStays ==
  ASSUME IInv, TypeOK', UNCHANGED <<modified, file, cp, overtaken, floor>>,
         InTick, delivered \subseteq delivered'
  PROVE  NoSilentLoss' /\ CheckpointSound'
<1>1. \A k \in Keys : Settled(k) => Settled(k)'
  BY SettledStable DEF IInv, TypeOK
<1>2. Passed(file)' = Passed(file) /\ Passed(cp)' = Passed(cp)
  BY PassedStable
<1>. QED
  BY <1>1, <1>2 DEF IInv, NoSilentLoss, CheckpointSound, Passed, Present

\* A tick starts with nothing kept and everything it can list still to list,
\* also when it could not read the checkpoint.
LEMMA LoadKeeps ==
  ASSUME IInv, TypeOK', LoadCheckpoint \/ LoadFails
  PROVE  IInv'
<1>. USE DEF IInv
<1>1. PICK c \in Checkpoint :
        /\ StartWith(c)
        /\ \/ file = c /\ UNCHANGED <<file, floor>>
           \/ file = Missing /\ c = EmptyCheckpoint /\ UNCHANGED <<file, floor>>
           \/ c = Fresh /\ file' = Fresh /\ Raise(Fresh)
  BY CheckpointTypes DEF LoadCheckpoint, LoadFails, Reset
<1>2. /\ UNCHANGED <<modified, cursor, cands, cur, overtaken, delivered>>
      /\ cp' = c /\ pc' = "list" /\ cands' = {} /\ cursor' = NoKey /\ cur' = NoKey
  BY <1>1 DEF StartWith, LoadCheckpoint, LoadFails, world, sinkVars, LocalsUnset, TypeOK
<1>3. \A k \in Passed(c) : Settled(k)'
  <2>1. CASE c = file /\ UNCHANGED floor
    BY <1>2, <2>1, SettledStable DEF NoSilentLoss, Passed, Present, TypeOK
  <2>2. CASE c = EmptyCheckpoint
    BY <2>2, PassedEmpty
  <2>3. CASE c = Fresh /\ Raise(Fresh)
    BY <1>2, <2>3, PassedFresh, CheckpointTypes
    DEF Raise, Settled, TypeOK, Passed, Present, Checkpoint
  <2>. QED
    BY <1>1, <2>1, <2>2, <2>3
<1>4. Passed(cp)' = Passed(c)
  BY <1>2 DEF Passed, Present
<1>5. NoSilentLoss' /\ CheckpointSound'
  BY <1>1, <1>2, <1>3, <1>4, FileAssumption DEF NoSilentLoss, CheckpointSound
<1>6. KeptInOrder' /\ LinesInSink' /\ LocalsUnset'
  BY <1>2 DEF KeptInOrder, LinesInSink, LocalsUnset, Kept
<1>7. ListingAccounted'
  <2>1. SUFFICES ASSUME NEW k \in Present, k \notin missable' PROVE ToList(k)'
    BY <1>2 DEF ListingAccounted, Present
  <2>2. NameDay[k] \in scan'
    BY <1>1, <2>1 DEF StartWith
  <2>. QED
    BY <1>2, <2>1, <2>2, Positions DEF ToList, Present
<1>. QED
  BY <1>5, <1>6, <1>7

\* An object stored during a tick is still to be listed, or it is missable.
LEMMA PutKeeps ==
  ASSUME IInv, TypeOK', NEW k \in Keys, PutObject(k)
  PROVE  IInv'
<1>. USE DEF IInv
<1>1. /\ k \notin Present /\ Present' = Present \union {k}
      /\ \A j \in Present : modified'[j] = modified[j]
      /\ modified'[k] = clock
      /\ UNCHANGED <<file, pc, cp, scan, cursor, cands, cur, line, sentAny, floor>>
      /\ UNCHANGED sinkVars
  BY DEF PutObject, Present, TypeOK
<1>2. \A j \in Present : Settled(j) => Settled(j)'
  BY <1>1, SettledStable DEF PutObject, sinkVars, Present, TypeOK
<1>3. \A c : Passed(c)' \subseteq Passed(c) \union {k}
  BY <1>1 DEF Passed
<1>4. NoSilentLoss' /\ CheckpointSound'
  <2>1. file \in Checkpoint /\ k \in Passed(file)' => k \in overtaken'
    BY <1>1 DEF PutObject, Passed
  <2>2. k \in Passed(cp)' => k \in overtaken'
    BY <1>1 DEF PutObject, Passed
  <2>. QED
    BY <1>1, <1>2, <1>3, <2>1, <2>2
    DEF NoSilentLoss, CheckpointSound, Settled, Passed
<1>5. Kept' = Kept /\ Kept \subseteq Present
  BY <1>1 DEF Kept, TypeOK
<1>6. \A i, j \in Present : Before(i, j)' <=> Before(i, j)
  BY <1>1 DEF Before
<1>7. \A j \in Present : ToList(j)' <=> ToList(j)
  BY <1>1 DEF ToList
<1>8. KeptInOrder' /\ LinesInSink' /\ LocalsUnset'
  <2>1. Kept' \intersect Passed(cp)' = {}
    BY <1>1, <1>3, <1>5 DEF KeptInOrder
  <2>2. \A j \in cands : ~ToList(j)'
    BY <1>5, <1>7 DEF KeptInOrder, TypeOK
  <2>. QED
    BY <1>1, <1>5, <1>6, <2>1, <2>2
    DEF KeptInOrder, LinesInSink, LocalsUnset, TypeOK, sinkVars, EventsOf
<1>9. ListingAccounted'
  <2>1. SUFFICES ASSUME InTick, NEW j \in Present', j \notin missable',
                        j \notin Kept, j \notin Passed(cp)'
                 PROVE  \/ ToList(j)'
                        \/ Kind[j] = "notgzip"
                        \/ BeyondKept(j)' /\ (pc = "list" =>
                             Cardinality(cands) >= MaxFilesPerTick)
    BY <1>1, <1>5 DEF ListingAccounted
  <2>2. CASE j = k
    <3>1. NameDay[k] \in scan /\ ~(k <= cursor)
      BY <2>1, <2>2 DEF PutObject
    <3>2. k \in Int /\ cursor \in Int
      BY KeysAssumption DEF TypeOK
    <3>. QED
      BY <1>1, <2>2, <3>1, <3>2 DEF ToList
  <2>3. CASE j \in Present
    <3>1. j \notin missable /\ j \notin Passed(cp)
      BY <1>1, <2>1, <2>3 DEF PutObject, Passed
    <3>2. BeyondKept(j) => BeyondKept(j)'
      BY <1>5, <1>6, <2>3 DEF BeyondKept
    <3>. QED
      BY <1>7, <2>1, <2>3, <3>1, <3>2 DEF ListingAccounted
  <2>. QED
    BY <1>1, <2>1, <2>2, <2>3
<1>. QED
  BY <1>4, <1>8, <1>9

\* The bounded insertion loses nothing silently: what is offered, or drops out
\* of the list, comes after everything that is kept.
LEMMA OfferAccounts ==
  ASSUME IInv, NEW k \in Present, ToList(k), pc = "list", Offer(k)
  PROVE  /\ cands' \subseteq cands \union {k}
         /\ \A j \in (cands \union {k}) \ cands' : \A c \in cands' : Before(c, j)
         /\ \A j \in Present :
              (\A c \in cands : Before(c, j)) /\ Cardinality(cands) >= MaxFilesPerTick
                => \A c \in cands' : Before(c, j)
         /\ Cardinality(cands') >= Cardinality(cands)
         /\ cands \union {k} # cands' => Cardinality(cands) >= MaxFilesPerTick
<1>. USE DEF IInv
<1>1. IsFiniteSet(cands) /\ cands \subseteq Present /\ k \notin cands
  BY KeysAssumption, FS_Subset DEF TypeOK, Present, KeptInOrder
<1>2. CASE Cardinality(cands) < MaxFilesPerTick /\ cands' = cands \union {k}
  <2>1. Cardinality(cands') = Cardinality(cands) + 1
    BY <1>1, <1>2, FS_AddElement
  <2>. QED
    BY <1>1, <1>2, <2>1, FS_CardinalityType, MaxFilesAssumption
<1>3. ASSUME NEW last \in cands, Last(last), Cardinality(cands) >= MaxFilesPerTick,
             Before(k, last), cands' = (cands \ {last}) \union {k}
      PROVE  /\ \A c \in cands' : Before(c, last)
             /\ \A j \in Present : (\A c \in cands : Before(c, j))
                                     => \A c \in cands' : Before(c, j)
             /\ Cardinality(cands') = Cardinality(cands)
  <2>1. \A c \in cands' : Before(c, last)
    BY <1>3 DEF Last
  <2>2. \A j \in Present : Before(last, j) => Before(k, j)
    BY <1>1, <1>3, BeforeOrder
  <2>3. /\ IsFiniteSet(cands \ {last})
        /\ Cardinality(cands \ {last}) = Cardinality(cands) - 1
    BY <1>1, FS_RemoveElement
  <2>4. Cardinality(cands') = Cardinality(cands \ {last}) + 1
    BY <1>1, <1>3, <2>3, FS_AddElement
  <2>. QED
    BY <1>1, <1>3, <2>1, <2>2, <2>3, <2>4, FS_CardinalityType
<1>4. ASSUME NEW last \in cands, Last(last), Cardinality(cands) >= MaxFilesPerTick,
             ~Before(k, last), cands' = cands
      PROVE  \A c \in cands' : Before(c, k)
  <2>1. Before(last, k)
    BY <1>1, <1>4, BeforeOrder
  <2>. QED
    BY <1>1, <1>4, <2>1, BeforeOrder DEF Last
<1>5. CASE Cardinality(cands) >= MaxFilesPerTick
  <2>1. PICK last \in cands :
          /\ Last(last)
          /\ cands' = IF Before(k, last) THEN (cands \ {last}) \union {k}
                                         ELSE cands
    BY <1>1, <1>5, FS_CardinalityType, MaxFilesAssumption DEF Offer
  <2>2. CASE Before(k, last)
    <3>1. /\ cands' = (cands \ {last}) \union {k}
          /\ \A c \in cands' : Before(c, last)
          /\ \A j \in Present : (\A c \in cands : Before(c, j))
                                  => \A c \in cands' : Before(c, j)
          /\ Cardinality(cands') = Cardinality(cands)
      BY <1>3, <1>5, <2>1, <2>2
    <3>2. \A j \in (cands \union {k}) \ cands' : j = last
      BY <3>1
    <3>. QED
      BY <1>1, <1>5, <3>1, <3>2, FS_CardinalityType
  <2>3. CASE ~Before(k, last)
    <3>1. cands' = cands /\ \A c \in cands' : Before(c, k)
      BY <1>4, <1>5, <2>1, <2>3
    <3>. QED
      BY <1>1, <1>5, <3>1, FS_CardinalityType
  <2>. QED
    BY <2>2, <2>3
<1>. QED
  BY <1>2, <1>5 DEF Offer

\* Listing one object keeps the invariant.
LEMMA ListKeeps ==
  ASSUME IInv, TypeOK', NEW k \in Keys, ListObject(k)
  PROVE  IInv'
<1>. USE DEF IInv
<1>1. /\ k \in Present /\ ToList(k) /\ pc = "list" /\ pc' = "list" /\ cursor' = k
      /\ \A j \in Keys : ToList(j) => k <= j
      /\ UNCHANGED <<modified, file, cp, scan, cur, missable, overtaken, floor>>
      /\ UNCHANGED delivered /\ cur = NoKey /\ cands \subseteq Present
  BY DEF ListObject, ToList, world, history, sinkVars, TypeOK
<1>2. Present' = Present /\ Passed(cp)' = Passed(cp)
  BY <1>1, PassedStable
<1>3. \/ k \in Passed(cp) /\ cands' = cands
      \/ k \notin Passed(cp) /\ Offer(k)
  BY <1>1, NewIsNotPassed DEF ListObject, TypeOK
<1>4. ASSUME NEW j \in Keys PROVE ToList(j)' <=> ToList(j) /\ j # k
  <2>1. j \in Int /\ k \in Int /\ cursor \in Int /\ k > cursor
    BY <1>1, KeysAssumption DEF TypeOK, ToList
  <2>2. ToList(j)' <=> j \in Present /\ NameDay[j] \in scan /\ j > k
    BY <1>1, <1>2 DEF ToList
  <2>3. ToList(j) => k <= j
    BY <1>1
  <2>. QED
    BY <2>1, <2>2, <2>3 DEF ToList
<1>5. \A i, j : Before(i, j)' <=> Before(i, j)
  BY <1>1 DEF Before
<1>6. NoSilentLoss' /\ CheckpointSound'
  BY <1>1, SoundStays
<1>7. cands' \subseteq cands \union {k} /\ Kept = cands /\ Kept' = cands'
  BY <1>1, <1>3, OfferAccounts DEF Kept
<1>10. Cardinality(cands) \in Nat /\ Cardinality(cands') \in Nat
  BY <1>1, <1>7, KeysAssumption, FS_Subset, FS_CardinalityType DEF Present
<1>8. KeptInOrder' /\ LinesInSink' /\ LocalsUnset'
  <2>1. Kept' \intersect Passed(cp)' = {}
    BY <1>1, <1>2, <1>3, <1>7 DEF KeptInOrder
  <2>2. \A j \in cands' : ~ToList(j)'
    BY <1>1, <1>4, <1>7 DEF KeptInOrder, TypeOK, Present
  <2>. QED
    BY <1>1, <2>1, <2>2 DEF KeptInOrder, LinesInSink, LocalsUnset
<1>9. ListingAccounted'
  <2>1. SUFFICES ASSUME NEW j \in Present, j \notin missable, j \notin cands',
                        j \notin Passed(cp), ~ToList(j)', Kind[j] # "notgzip"
                 PROVE  /\ \A c \in cands' : Before(c, j)
                        /\ Cardinality(cands') >= MaxFilesPerTick
    BY <1>1, <1>2, <1>5, <1>7 DEF ListingAccounted, BeyondKept
  <2>2. CASE j \in cands \union {k}
    <3>1. Offer(k) /\ cands \union {k} # cands'
      BY <1>1, <1>3, <2>1, <2>2
    <3>2. /\ Cardinality(cands) >= MaxFilesPerTick
          /\ Cardinality(cands') >= Cardinality(cands)
          /\ \A c \in cands' : Before(c, j)
      BY <1>1, <2>1, <2>2, <3>1, OfferAccounts
    <3>. QED
      BY <1>10, <3>2, MaxFilesAssumption
  <2>3. CASE j \notin cands \union {k}
    <3>1. ~ToList(j)
      BY <1>4, <2>1, <2>3 DEF Present
    <3>2. /\ \A c \in cands : Before(c, j)
          /\ Cardinality(cands) >= MaxFilesPerTick
      BY <1>1, <1>7, <2>1, <2>3, <3>1 DEF ListingAccounted, BeyondKept
    <3>3. /\ \A c \in cands' : Before(c, j)
          /\ Cardinality(cands') >= Cardinality(cands) \/ cands' = cands
      BY <1>1, <1>3, <2>1, <3>2, OfferAccounts
    <3>. QED
      BY <1>10, <3>2, <3>3, MaxFilesAssumption
  <2>. QED
    BY <2>2, <2>3
<1>. QED
  BY <1>6, <1>8, <1>9

\* The end of a prefix keeps the invariant.
LEMMA PrefixDoneKeeps ==
  ASSUME IInv, TypeOK', NEW d \in scan, ListPrefixDone(d)
  PROVE  IInv'
<1>. USE DEF IInv
<1>1. /\ pc = "list" /\ pc' \in {"list", "fetch"} /\ (pc' # "list" => scan' = {})
      /\ ~ \E k \in Keys : ToList(k) /\ NameDay[k] = d
      /\ scan' = scan \ {d} /\ cur = NoKey
      /\ UNCHANGED <<modified, file, cp, cursor, cands, cur, missable, overtaken,
                     floor, delivered>>
  BY DEF ListPrefixDone, world, history, sinkVars, TypeOK
<1>2. Present' = Present /\ Passed(cp)' = Passed(cp) /\ Kept' = Kept
  BY <1>1, PassedStable DEF Kept
<1>3. \A j \in Keys : ToList(j)' <=> ToList(j)
  BY <1>1, <1>2 DEF ToList
<1>4. \A i, j : Before(i, j)' <=> Before(i, j)
  BY <1>1 DEF Before
<1>5. NoSilentLoss' /\ CheckpointSound'
  BY <1>1, SoundStays
<1>6. KeptInOrder' /\ LinesInSink' /\ LocalsUnset'
  BY <1>1, <1>2, <1>3
  DEF KeptInOrder, LinesInSink, LocalsUnset, TypeOK, Present
<1>7. ListingAccounted'
  BY <1>1, <1>2, <1>3, <1>4 DEF ListingAccounted, BeyondKept, Present
<1>. QED
  BY <1>5, <1>6, <1>7

\* The first candidate leaves the list, to be processed or skipped.
LEMMA FetchKeeps ==
  ASSUME IInv, TypeOK', NEW k \in Keys, Fetch(k), k \in cands,
         cands' = cands \ {k},
         \/ Kind[k] = "gzip" /\ pc' = "file" /\ cur' = k /\ line' = 1
         \/ Kind[k] = "notgzip" /\ UNCHANGED <<pc, cur, line>>,
         UNCHANGED <<cp, scan, cursor, sentAny, missable>>
  PROVE  IInv'
<1>. USE DEF IInv
<1>1. /\ pc = "fetch" /\ cur = NoKey /\ First(k) /\ cands \subseteq Present
      /\ UNCHANGED <<modified, file, overtaken, floor, delivered>>
  BY DEF Fetch, world, history, sinkVars, TypeOK
<1>2. Present' = Present /\ Passed(cp)' = Passed(cp)
  BY <1>1, PassedStable
<1>3. Kept = cands /\ Kept' \subseteq cands
      /\ (k \in Kept' \/ Kind[k] = "notgzip") /\ cands \subseteq Kept' \union {k}
  BY <1>1, KeysAssumption DEF Kept
<1>4. \A i, j : /\ Before(i, j)' <=> Before(i, j)
                /\ ToList(i)' <=> ToList(i)
  BY <1>1, <1>2 DEF Before, ToList
<1>5. NoSilentLoss' /\ CheckpointSound'
  BY <1>1, SoundStays
<1>6. KeptInOrder'
  <2>1. \A j \in cands \ {k} : Before(k, j)
    BY <1>1 DEF First
  <2>. QED
    BY <1>1, <1>2, <1>3, <1>4, <2>1 DEF KeptInOrder
<1>7. LinesInSink' /\ LocalsUnset'
  BY <1>1, KindAssumption DEF LinesInSink, LocalsUnset, EventsOf
<1>8. ListingAccounted'
  <2>1. SUFFICES ASSUME NEW j \in Present, j \notin missable, j \notin Kept',
                        j \notin Passed(cp), ~ToList(j), Kind[j] # "notgzip"
                 PROVE  \A c \in Kept' : Before(c, j)
    BY <1>1, <1>2, <1>4 DEF ListingAccounted, BeyondKept
  <2>2. j \notin Kept
    BY <1>3, <2>1
  <2>. QED
    BY <1>1, <1>3, <2>1, <2>2 DEF ListingAccounted, BeyondKept
<1>. QED
  BY <1>5, <1>6, <1>7, <1>8

\* The steps on the lines of an object touch neither list nor checkpoint.
LEMMA SameTickKeeps ==
  ASSUME IInv, TypeOK', pc = "file", pc' \in {"file", "save"},
         UNCHANGED <<modified, file, cp, scan, cursor, cands, cur, missable,
                     overtaken, floor>>,
         delivered \subseteq delivered'
  PROVE  /\ NoSilentLoss' /\ CheckpointSound' /\ ListingAccounted'
         /\ KeptInOrder' /\ LocalsUnset'
<1>. USE DEF IInv
<1>1. NoSilentLoss' /\ CheckpointSound'
  BY SoundStays
<1>2. Present' = Present /\ Passed(cp)' = Passed(cp) /\ Kept' = Kept
  BY PassedStable DEF Kept
<1>3. \A i, j : /\ Before(i, j)' <=> Before(i, j)
                /\ ToList(i)' <=> ToList(i)
  BY <1>2 DEF Before, ToList
<1>4. ListingAccounted'
  BY <1>2, <1>3 DEF ListingAccounted, BeyondKept
<1>5. KeptInOrder' /\ LocalsUnset'
  BY <1>2, <1>3 DEF KeptInOrder, LocalsUnset
<1>. QED
  BY <1>1, <1>4, <1>5

\* A line, sent or skipped, keeps the invariant.
LEMMA LineKeeps ==
  ASSUME IInv, TypeOK', SkipLine \/ SendLine
  PROVE  IInv'
<1>. USE DEF IInv
<1>1. /\ pc = "file" /\ pc' = "file" /\ line' = line + 1 /\ line \in Nat
      /\ UNCHANGED <<modified, file, cp, scan, cursor, cands, cur, missable,
                     overtaken, floor>>
  BY DEF SkipLine, SendLine, AtLine, world, history, TypeOK
<1>2. /\ delivered \subseteq delivered'
      /\ pending \union delivered \subseteq pending' \union delivered'
      /\ sentAny => sentAny'
  BY DEF SkipLine, SendLine, SendOk, sinkVars
<1>3. LinesInSink'
  <2>1. SUFFICES ASSUME NEW e \in EventsOf(cur), e[2] < line + 1
                 PROVE  sentAny' /\ e \in pending' \union delivered'
    BY <1>1 DEF LinesInSink, EventsOf
  <2>2. e = <<cur, e[2]>> /\ e[2] \in Int /\ e \notin Skipped
    BY SizeAssumption, <1>1 DEF EventsOf, TypeOK
  <2>3. CASE e[2] < line
    BY <1>1, <1>2, <2>1, <2>3 DEF LinesInSink
  <2>4. CASE e = <<cur, line>>
    BY <2>2, <2>4 DEF SkipLine, SendLine, SendOk
  <2>. QED
    BY <1>1, <2>1, <2>2, <2>3, <2>4
<1>. QED
  BY <1>1, <1>2, <1>3, SameTickKeeps

\* The flush after an object keeps the invariant.
LEMMA FlushKeeps ==
  ASSUME IInv, TypeOK', FlushFile
  PROVE  IInv'
<1>. USE DEF IInv
<1>1. /\ pc = "file" /\ pc' = "save" /\ line > Size[cur] /\ line \in Nat
      /\ UNCHANGED <<modified, file, cp, scan, cursor, cands, cur, missable,
                     overtaken, floor>>
      /\ delivered \subseteq delivered' /\ cur \in Keys
  BY DEF FlushFile, FlushOk, world, history, tick, sinkVars, TypeOK, Present
<1>2. LinesInSink'
  <2>1. SUFFICES ASSUME NEW e \in EventsOf(cur) PROVE e \in delivered'
    BY <1>1 DEF LinesInSink, EventsOf
  <2>2. e[2] \in 1 .. Size[cur] /\ Size[cur] \in Nat
    BY <1>1, SizeAssumption DEF EventsOf
  <2>3. sentAny /\ e \in pending \union delivered
    BY <1>1, <2>1, <2>2 DEF LinesInSink
  <2>. QED
    BY <2>3 DEF FlushFile, FlushOk
<1>. QED
  BY <1>1, <1>2, SameTickKeeps

\* The checkpoint moves to the object just processed: what it goes past was
\* behind the old one, or is that object, or could not be listed.
LEMMA SaveKeeps ==
  ASSUME IInv, TypeOK', SaveCheckpoint
  PROVE  IInv'
<1>. USE DEF IInv
<1>1. /\ pc = "save" /\ pc' = "fetch" /\ cp' = At(cur) /\ file' = At(cur)
      /\ cur \in Present /\ cur # NoKey /\ cur' = NoKey /\ scan = {}
      /\ cands \subseteq Present
      /\ UNCHANGED <<modified, scan, cursor, cands, missable, floor, delivered>>
  BY Positions DEF SaveCheckpoint, world, sinkVars, TypeOK, LocalsUnset
<1>2. Present' = Present
  BY <1>1, PassedStable
<1>3. Passed(cp)' = Passed(At(cur)) /\ Passed(file)' = Passed(At(cur))
  BY <1>1 DEF Passed, Present
<1>4. Kept = cands \union {cur} /\ Kept' = cands
  BY <1>1 DEF Kept
<1>5. /\ \A k \in cands : Before(cur, k) /\ k \notin Passed(At(cur))
      /\ cur \notin Passed(cp) /\ cur \in Passed(At(cur)) /\ cur \notin cands
  BY <1>1, <1>4, PassedAt, BeforeOrder DEF KeptInOrder
<1>6. Passed(cp) \subseteq Passed(At(cur))
  BY <1>1, <1>5, PassedAt, PassedBeforeNew DEF TypeOK, Passed
<1>7. \A k \in Present : Settled(k) => Settled(k)'
  BY <1>1, SettledStable DEF SaveCheckpoint, TypeOK, Present
<1>8. ASSUME NEW k \in Passed(At(cur)) PROVE Settled(k)'
  <2>1. k \in Present /\ ~ToList(k)
    BY <1>1 DEF Passed, ToList
  <2>2. CASE k = cur
    BY <1>1, <2>2 DEF LinesInSink, Settled, EventsOf
  <2>3. CASE k \in missable
    BY <1>8, <2>3 DEF SaveCheckpoint, Settled
  <2>4. CASE k \in Passed(cp)
    BY <1>7, <2>1, <2>4 DEF CheckpointSound
  <2>5. CASE Kind[k] = "notgzip"
    BY <2>5 DEF Settled
  <2>6. CASE k # cur /\ k \notin missable \union Passed(cp) /\ Kind[k] # "notgzip"
    <3>1. k \notin Kept
      BY <1>4, <1>5, <1>8, <2>6
    <3>2. Before(cur, k)
      BY <1>1, <1>4, <2>1, <2>6, <3>1 DEF ListingAccounted, BeyondKept
    <3>3. Before(k, cur)
      BY <1>1, <1>8, <2>1, <2>6, PassedAt
    <3>. QED
      BY <1>1, <2>1, <3>2, <3>3, BeforeOrder
  <2>. QED
    BY <2>2, <2>3, <2>4, <2>5, <2>6
<1>9. NoSilentLoss' /\ CheckpointSound'
  BY <1>1, <1>3, <1>8 DEF NoSilentLoss, CheckpointSound
<1>10. KeptInOrder' /\ LinesInSink' /\ LocalsUnset'
  BY <1>1, <1>3, <1>4, <1>5 DEF KeptInOrder, LinesInSink, LocalsUnset, ToList
<1>11. ListingAccounted'
  <2>1. SUFFICES ASSUME NEW k \in Present, k \notin missable, k \notin cands,
                        k \notin Passed(At(cur)), Kind[k] # "notgzip"
                 PROVE  \A c \in cands : Before(c, k)
    BY <1>1, <1>2, <1>3, <1>4 DEF ListingAccounted, BeyondKept, Before
  <2>2. k \notin Kept /\ k \notin Passed(cp) /\ ~ToList(k)
    BY <1>1, <1>4, <1>5, <1>6, <2>1 DEF ToList
  <2>. QED
    BY <1>1, <1>4, <2>1, <2>2 DEF ListingAccounted, BeyondKept
<1>. QED
  BY <1>9, <1>10, <1>11

\* Every step keeps the invariant.
LEMMA StepIInv == IInv /\ [Next]_vars => IInv'
<1>. SUFFICES ASSUME IInv, [Next]_vars PROVE IInv'
  OBVIOUS
<1>0. TypeOK /\ TypeOK'
  BY StepTypeOK DEF IInv
<1>. USE DEF vars, world, tick, history, bounds, sinkVars
<1>1. ASSUME TickOver("down") \/ TickOver("idle"), UNCHANGED <<world, file, history>>,
             delivered \subseteq delivered'
      PROVE  IInv'
  BY <1>0, <1>1, TickOverKeeps DEF TickOver, TypeOK
<1>2. CASE PassTime \/ UNCHANGED vars \/ StartFails
  <2>1. UNCHANGED <<modified, file, pc, tick, history, pending, delivered>>
    BY <1>2 DEF PassTime, StartFails
  <2>2. /\ UNCHANGED <<Present, Kept>>
        /\ \A c : UNCHANGED Passed(c)
        /\ \A k : UNCHANGED <<Settled(k), ToList(k), EventsOf(k), BeyondKept(k)>>
        /\ \A i, j : UNCHANGED Before(i, j)
    BY <2>1 DEF Present, Kept, Passed, Settled, ToList, EventsOf, BeyondKept, Before
  <2>. QED
    BY <1>0, <2>1, <2>2
    DEF IInv, NoSilentLoss, ListingAccounted, KeptInOrder, LinesInSink,
        CheckpointSound, LocalsUnset
<1>3. ASSUME NEW k \in Keys, PutObject(k) PROVE IInv'
  BY <1>0, <1>3, PutKeeps
<1>4. ASSUME NEW f \in {Missing, Corrupt}, SpoilFile(f) PROVE IInv'
  <2>1. UNCHANGED <<modified, pc, tick, history, pending, delivered>>
        /\ file' \notin Checkpoint
    BY <1>4, FileAssumption DEF SpoilFile
  <2>2. /\ UNCHANGED <<Present, Kept>>
        /\ \A k : UNCHANGED <<Settled(k), ToList(k), EventsOf(k), BeyondKept(k)>>
        /\ \A i, j : UNCHANGED Before(i, j)
    BY <2>1 DEF Present, Kept, Settled, ToList, EventsOf, BeyondKept, Before
  <2>3. Passed(cp)' = Passed(cp)
    BY <2>1 DEF Passed, Present
  <2>. QED
    BY <1>0, <2>1, <2>2, <2>3
    DEF IInv, NoSilentLoss, ListingAccounted, KeptInOrder, LinesInSink,
        CheckpointSound, LocalsUnset
<1>5. CASE Crash
  BY <1>1, <1>5 DEF Crash, SinkCrash
<1>6. CASE Start
  <2>1. cands = {} /\ cursor = NoKey /\ cp = EmptyCheckpoint /\ scan = {}
    BY <1>6 DEF Start, IInv, LocalsUnset
  <2>2. /\ floor' >= floor
        /\ \/ file' = file
           \/ file' = Fresh /\ floor' >= Fresh.lm
    <3>1. floor \in Int /\ Fresh.lm \in Int
      BY <1>0, CheckpointTypes, Positions DEF TypeOK
    <3>2. \/ file' = file /\ floor' = floor
          \/ file' = Fresh /\ Raise(Fresh)
      BY <1>6 DEF Start
    <3>3. Raise(Fresh) => floor' >= floor /\ floor' >= Fresh.lm
      BY <3>1 DEF Raise
    <3>. QED
      BY <3>1, <3>2, <3>3
  <2>. QED
    BY <1>0, <1>6, <2>1, <2>2, TickOverKeeps DEF Start
<1>7. CASE Stop
  <2>1. cands = {} /\ cursor = NoKey /\ cp = EmptyCheckpoint /\ scan = {}
    BY <1>7 DEF Stop, IInv, LocalsUnset
  <2>. QED
    BY <1>0, <1>7, <2>1, TickOverKeeps DEF Stop, TypeOK
<1>8. CASE LoadCheckpoint \/ LoadFails
  BY <1>0, <1>8, LoadKeeps
<1>9. ASSUME NEW k \in Keys, ListObject(k) PROVE IInv'
  BY <1>0, <1>9, ListKeeps
<1>10. ASSUME NEW d \in scan, ListPrefixDone(d) PROVE IInv'
  BY <1>0, <1>10, PrefixDoneKeeps
<1>11. ASSUME NEW k \in Keys, Fetch(k) PROVE IInv'
  <2>1. CASE TickOver("idle")
    BY <1>1, <1>11, <2>1 DEF Fetch
  <2>2. CASE ~TickOver("idle")
    BY <1>0, <1>11, <2>2, FetchKeeps DEF Fetch, First
  <2>. QED
    BY <2>1, <2>2
<1>12. CASE SourceFails \/ TickEnds \/ SaveFails
  BY <1>1, <1>12 DEF SourceFails, TickEnds, SaveFails
<1>13. CASE SkipLine \/ SendLine
  BY <1>0, <1>13, LineKeeps
<1>14. CASE SendFails \/ FlushFails
  BY <1>1, <1>14 DEF SendFails, FlushFails, CallFails
<1>15. CASE FlushFile
  BY <1>0, <1>15, FlushKeeps
<1>16. CASE SaveCheckpoint
  BY <1>0, <1>16, SaveKeeps
<1>. QED
  BY <1>2, <1>3, <1>4, <1>5, <1>6, <1>7, <1>8, <1>9, <1>10, <1>11, <1>12, <1>13,
     <1>14, <1>15, <1>16
  DEF Next, Environment, Failures, Progress

-----------------------------------------------------------------------------
(* The theorems.                                                           *)

\* The inductive invariant holds of every behaviour.
THEOREM Invariance == Spec => []IInv
  BY InitIInv, StepIInv, PTL DEF Spec

\* Pipeline.tick with S3Source: whatever lies behind the saved checkpoint was
\* delivered, but for the exceptions that Settled names.
THEOREM Delivery == Spec => []NoSilentLoss
<1>1. IInv => NoSilentLoss
  BY DEF IInv
<1>. QED
  BY <1>1, Invariance, PTL

\* S3Source._is_new and Pipeline.tick: a checkpointed object is not sent again.
THEOREM NoReplayBehind == Spec => []ReplaysOnlyAhead
<1>1. IInv => ReplaysOnlyAhead
  BY KeysAssumption
  DEF IInv, ReplaysOnlyAhead, CheckpointSound, KeptInOrder, Kept, TypeOK, Present
<1>. QED
  BY <1>1, Invariance, PTL

\* CheckpointStore under Pipeline.tick: undamaged, the checkpoint only moves
\* forward, but for a tick that cannot read it and resets it.
THEOREM Monotone == Spec => CheckpointNeverRegresses
<1>. DEFINE Forward == \/ file' = file
                       \/ Precedes(file.lm, file.key, file'.lm, file'.key)
                       \/ ReadFailed /\ file' = Fresh
<1>1. ASSUME IInv, IInv', [Next]_vars, {file, file'} \subseteq Checkpoint
      PROVE  Forward
  <2>. USE DEF vars, world, tick, history, bounds, sinkVars
  <2>1. UNCHANGED file \/ SaveCheckpoint \/ (LoadFails /\ file' = Fresh)
    BY <1>1, FileAssumption
    DEF Next, Environment, Failures, Progress, PassTime, PutObject, SpoilFile, Crash,
        SourceFails, SendFails, FlushFails, SaveFails, LoadFails, StartFails, Stop,
        Start, LoadCheckpoint, Reset, ListObject, Fetch, ListPrefixDone, TickEnds,
        SkipLine, SendLine, FlushFile
  <2>2. CASE SaveCheckpoint
    <3>1. /\ file = cp /\ file' = At(cur) /\ cur \in Present
          /\ cur \notin Passed(file)
      BY <1>1, <2>2, Positions
      DEF SaveCheckpoint, IInv, CheckpointSound, KeptInOrder, Kept, TypeOK
    <3>. QED
      BY <1>1, <3>1, Positions DEF IInv, At, Passed, Behind, Precedes
  <2>3. CASE LoadFails /\ file' = Fresh
    <3>1. faults' > faults
      BY <1>1, <2>3 DEF LoadFails, Fault, IInv, TypeOK
    <3>. QED
      BY <2>3, <3>1 DEF LoadFails, ReadFailed
  <2>. QED
    BY <2>1, <2>2, <2>3
<1>2. IInv /\ IInv' /\ [Next]_vars =>
        [{file, file'} \subseteq Checkpoint => Forward]_vars
  BY <1>1
<1>. QED
  BY <1>2, Invariance, PTL DEF Spec, CheckpointNeverRegresses
=============================================================================
