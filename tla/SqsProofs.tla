------------------------------ MODULE SqsProofs ------------------------------
(* Proofs about SqsDispatcher, for every set of messages and objects and   *)
(* every value of the constants.                                           *)
EXTENDS SqsDispatcher, FiniteSetTheorems, TLAPS

USE DEF Between, Working, queue, msg, timer, bounds, sinkVars

-----------------------------------------------------------------------------
(* Operators.                                                              *)

\* The references of an event are a sequence of objects.
LEMMA RefsTypes ==
  ASSUME NEW m \in Messages
  PROVE  /\ Refs[m] \in Seq(Objects) /\ Len(Refs[m]) \in Nat
         /\ Refs[m] # <<>> => 1 \in 1 .. Len(Refs[m])
         /\ \A i \in 1 .. Len(Refs[m]) : Refs[m][i] \in Objects
BY RefsAssumption

\* While an object is in progress it is one of the objects.
LEMMA ObjectType ==
  ASSUME HandTypes, pc \in Working
  PROVE  cur \in Messages /\ Object \in Objects /\ Size[Object] \in Nat
<1>1. cur \in Messages /\ ref \in 1 .. Len(Refs[cur])
  BY DEF HandTypes
<1>. QED
  BY <1>1, RefsTypes, ObjectAssumption DEF Object

\* A batch that is used up stays within the limit.
LEMMA BatchShrinks ==
  ASSUME BatchTypes, batch' = {} \/ batch' = batch \/ \E m \in batch : batch' = batch \ {m},
         stopping' \in BOOLEAN
  PROVE  BatchTypes'
<1>1. Cardinality({}) = 0 /\ Cardinality(batch) \in Nat /\ MaxMessages \in Nat
  BY FS_EmptySet, FS_CardinalityType, LimitAssumption DEF BatchTypes
<1>2. ASSUME NEW m \in batch, batch' = batch \ {m} PROVE BatchTypes'
  <2>1. IsFiniteSet(batch') /\ Cardinality(batch') = Cardinality(batch) - 1
    BY <1>2, FS_RemoveElement DEF BatchTypes
  <2>. QED
    BY <1>1, <1>2, <2>1 DEF BatchTypes
<1>3. CASE batch' = {}
  BY <1>1, <1>3, FS_EmptySet DEF BatchTypes
<1>4. CASE batch' = batch
  BY <1>4 DEF BatchTypes
<1>. QED
  BY <1>2, <1>3, <1>4

\* What a receive leaves in the queue and hands over.
LEMMA ReceivedTypes ==
  ASSUME QueueTypes, NEW B \in Batches, Received(B),
         UNCHANGED <<tried, dropped, stops>>, faults' \in Nat
  PROVE  /\ QueueTypes'
         /\ B \in SUBSET Messages
         /\ IsFiniteSet(B) /\ Cardinality(B) <= MaxMessages
<1>1. B \in SUBSET Messages /\ \A m \in B : receives[m] < MaxReceives
  BY DEF Batches, Due, Visible, Queued
<1>2. \A m \in Messages :
        receives[m] + (IF m \in B THEN 1 ELSE 0) \in 0 .. MaxReceives
  BY <1>1, LimitAssumption DEF QueueTypes
<1>3. \A m \in Messages : (IF m \in B THEN VisibilityTimeout ELSE hidden[m]) \in Nat
  BY TimeAssumption DEF QueueTypes
<1>4. /\ hidden' \in [Messages -> Nat]
      /\ receives' \in [Messages -> 0 .. MaxReceives]
  BY <1>1, <1>2, <1>3 DEF Received
<1>. QED
  BY <1>1, <1>4 DEF Received, Batches, QueueTypes

\* What a check of the visibility leaves.
LEMMA ExtendTypes ==
  ASSUME QueueTypes, TimerTypes, Extend, cur \in Messages,
         UNCHANGED <<state, receives, tried, dropped, stops>>
  PROVE  QueueTypes' /\ TimerTypes'
<1>0. hidden \in [Messages -> Nat] /\ faults \in Nat
  BY DEF QueueTypes
<1>1. CASE ExtendNotDue
  BY <1>1 DEF Extend, ExtendNotDue, QueueTypes, TimerTypes
<1>2. CASE ExtendFails
  <2>1. covered' \in BOOLEAN
    BY <1>2 DEF ExtendFails
  <2>2. faults' \in Nat
    BY <1>0, <1>2 DEF ExtendFails
  <2>. QED
    BY <1>2, <2>1, <2>2 DEF Extend, ExtendFails, QueueTypes, TimerTypes
<1>3. CASE Extended
  <2>1. hidden' \in [Messages -> Nat] /\ window' \in Nat /\ elapsed' \in Nat
    BY <1>0, <1>3, TimeAssumption DEF Extended
  <2>. QED
    BY <1>3, <2>1 DEF Extend, Extended, QueueTypes, TimerTypes
<1>. QED
  BY <1>1, <1>2, <1>3 DEF Extend

\* What is left when no message is in hand.
LEMMA HandlingOverTypes ==
  ASSUME HandTypes, NEW where \in Between \union {"batch"}, NEW rest,
         HandlingOver(where, rest)
  PROVE  HandTypes' /\ TimerTypes'
<1>1. sentAny' = FALSE /\ covered' = FALSE /\ allOk' = allOk
  BY DEF HandlingOver
<1>2. sentAny' \in BOOLEAN /\ covered' \in BOOLEAN /\ allOk' \in BOOLEAN
  BY <1>1 DEF HandTypes
<1>. QED
  BY <1>2 DEF HandlingOver, HandTypes, TimerTypes

\* An outcome leaves the message in hand.
LEMMA ObjectIsTypes ==
  ASSUME HandTypes, pc \in Working, NEW ok \in BOOLEAN, ObjectIs(ok),
         UNCHANGED <<cur, ref>>
  PROVE  HandTypes'
<1>1. allOk' \in BOOLEAN /\ sentAny' \in BOOLEAN
  BY DEF ObjectIs, HandTypes
<1>. QED
  BY <1>1 DEF ObjectIs, HandTypes

\* What a sink call leaves in memory and at the destination are events.
LEMMA SinkCallTypes ==
  ASSUME SinkTypes, NEW E \in SUBSET Sendable,
         \/ \E e \in E : SendOk(e)
         \/ CallFails(E) \/ FlushOk \/ SinkCrash
  PROVE  SinkTypes'
BY DEF SinkTypes, SendOk, CallFails, FlushOk, SinkCrash

\* An unskipped line of the object in progress is a sendable event.
LEMMA LineSendable ==
  ASSUME HandTypes, AtLine, <<Object, line>> \notin Skipped
  PROVE  /\ Object \in Objects /\ <<Object, line>> \in EventsOf(Object)
         /\ {<<Object, line>>} \in SUBSET Sendable
<1>1. Object \in Objects /\ Size[Object] \in Nat
  BY ObjectType DEF AtLine
<1>2. line \in 1 .. Size[Object]
  BY <1>1 DEF HandTypes, AtLine
<1>. QED
  BY <1>1, <1>2 DEF Sendable, EventsOf

-----------------------------------------------------------------------------
(* Type correctness.                                                       *)

\* The initial state has the types.
LEMMA InitTypeOK == Init => TypeOK
<1>. SUFFICES ASSUME Init PROVE TypeOK
  OBVIOUS
<1>0. /\ stopping \in BOOLEAN /\ allOk \in BOOLEAN /\ sentAny \in BOOLEAN
      /\ covered \in BOOLEAN
  BY DEF Init
<1>1. BatchTypes
  BY <1>0, FS_EmptySet, LimitAssumption DEF Init, BatchTypes
<1>2. QueueTypes
  BY LimitAssumption DEF Init, QueueTypes
<1>3. HandTypes /\ TimerTypes
  BY <1>0 DEF Init, HandTypes, TimerTypes
<1>. QED
  BY <1>1, <1>2, <1>3 DEF Init, TypeOK, SinkTypes, SinkInit

\* A step that leaves the variables of a part alone keeps the types of the part.
LEMMA PartsKept ==
  /\ QueueTypes /\ UNCHANGED <<queue, tried, dropped, bounds>> => QueueTypes'
  /\ BatchTypes /\ UNCHANGED <<stopping, batch>> => BatchTypes'
  /\ HandTypes /\ UNCHANGED <<pc, msg>> => HandTypes'
  /\ TimerTypes /\ UNCHANGED timer => TimerTypes'
  /\ SinkTypes /\ UNCHANGED sinkVars => SinkTypes'
BY DEF QueueTypes, BatchTypes, HandTypes, TimerTypes, SinkTypes, Object

\* The rest of a batch is counted.
LEMMA DropTypes ==
  ASSUME NEW rest, QueueTypes, DropsRest(rest)
  PROVE  dropped' \in [Messages -> Nat]
BY DEF DropsRest, QueueTypes

\* Every step keeps the types.
LEMMA StepTypeOK == TypeOK /\ [Next]_vars => TypeOK'
<1>. SUFFICES ASSUME TypeOK, [Next]_vars PROVE TypeOK'
  OBVIOUS
<1>. USE PartsKept DEF TypeOK
<1>1. ASSUME NEW m \in Messages, Publish(m) PROVE TypeOK'
  BY <1>1 DEF Publish, QueueTypes
<1>2. CASE RequestStop
  BY <1>2, BatchShrinks DEF RequestStop, QueueTypes
<1>3. CASE Crash
  <2>1. QueueTypes'
    BY <1>3 DEF Crash, QueueTypes
  <2>2. BatchTypes'
    BY <1>3, BatchShrinks DEF Crash, HandlingOver
  <2>3. HandTypes' /\ TimerTypes'
    BY <1>3, HandlingOverTypes DEF Crash
  <2>4. SinkTypes'
    BY <1>3 DEF Crash, SinkCrash, SinkTypes
  <2>. QED
    BY <2>1, <2>2, <2>3, <2>4
<1>4. ASSUME NEW B \in Batches, ReceiveFails(B) PROVE TypeOK'
  BY <1>4, ReceivedTypes DEF ReceiveFails, Fault, QueueTypes, HandTypes
<1>5. CASE GetFails
  <2>1. QueueTypes'
    BY <1>5 DEF GetFails, Fault, QueueTypes
  <2>2. HandTypes'
    BY <1>5, ObjectIsTypes DEF GetFails
  <2>3. BatchTypes' /\ TimerTypes' /\ SinkTypes'
    BY <1>5 DEF GetFails
  <2>. QED
    BY <2>1, <2>2, <2>3
<1>6. CASE DeleteFails
  <2>1. QueueTypes'
    BY <1>6 DEF DeleteFails, Fault, QueueTypes
  <2>2. BatchTypes'
    BY <1>6 DEF DeleteFails, HandlingOver
  <2>3. HandTypes' /\ TimerTypes'
    BY <1>6, HandlingOverTypes DEF DeleteFails
  <2>4. SinkTypes'
    BY <1>6 DEF DeleteFails
  <2>. QED
    BY <2>1, <2>2, <2>3, <2>4
<1>7. CASE SendFails
  <2>1. QueueTypes'
    BY <1>7 DEF SendFails, Fault, QueueTypes
  <2>2. HandTypes'
    BY <1>7, ObjectIsTypes DEF SendFails, AtLine
  <2>3. SinkTypes'
    BY <1>7, LineSendable, SinkCallTypes DEF SendFails
  <2>4. BatchTypes' /\ TimerTypes'
    BY <1>7 DEF SendFails
  <2>. QED
    BY <2>1, <2>2, <2>3, <2>4
<1>8. CASE SendRaises
  <2>1. QueueTypes'
    BY <1>8 DEF SendRaises, BatchAborted, Fault, QueueTypes
  <2>2. BatchTypes'
    BY <1>8, BatchShrinks DEF SendRaises, BatchAborted, HandlingOver, BatchTypes
  <2>3. HandTypes' /\ TimerTypes'
    BY <1>8, HandlingOverTypes DEF SendRaises, BatchAborted
  <2>4. SinkTypes'
    BY <1>8, LineSendable, SinkCallTypes DEF SendRaises
  <2>. QED
    BY <2>1, <2>2, <2>3, <2>4
<1>9. CASE FlushFails
  <2>1. QueueTypes'
    BY <1>9 DEF FlushFails, Fault, QueueTypes
  <2>2. HandTypes'
    BY <1>9, ObjectIsTypes DEF FlushFails, LinesDone
  <2>3. SinkTypes'
    BY <1>9, SinkCallTypes DEF FlushFails
  <2>4. BatchTypes' /\ TimerTypes'
    BY <1>9 DEF FlushFails
  <2>. QED
    BY <2>1, <2>2, <2>3, <2>4
<1>10. CASE Start
  BY <1>10 DEF Start, HandTypes
<1>11. CASE LoopTop
  <2>1. BatchTypes'
    BY <1>11 DEF LoopTop, BatchTypes
  <2>2. HandTypes'
    BY <1>11 DEF LoopTop, HandTypes
  <2>3. SinkTypes'
    BY <1>11 DEF LoopTop, SinkTypes
  <2>4. QueueTypes' /\ TimerTypes'
    BY <1>11 DEF LoopTop
  <2>. QED
    BY <2>1, <2>2, <2>3, <2>4
<1>12. CASE BatchDone
  BY <1>12 DEF BatchDone, HandTypes
<1>13. ASSUME NEW B \in Batches, Receive(B) PROVE TypeOK'
  BY <1>13, ReceivedTypes DEF Receive, QueueTypes, BatchTypes, HandTypes
<1>14. ASSUME NEW m \in Messages, Redrive(m) PROVE TypeOK'
  BY <1>14 DEF Redrive, QueueTypes
<1>15. ASSUME NEW m \in Messages, Malformed(m) PROVE TypeOK'
  <2>1. QueueTypes'
    BY <1>15 DEF Malformed, Taken, QueueTypes
  <2>2. BatchTypes'
    BY <1>15, BatchShrinks DEF Malformed, Taken, HandlingOver, BatchTypes
  <2>3. HandTypes' /\ TimerTypes'
    BY <1>15, HandlingOverTypes DEF Malformed
  <2>4. SinkTypes'
    BY <1>15 DEF Malformed
  <2>. QED
    BY <2>1, <2>2, <2>3, <2>4
<1>16. ASSUME NEW m \in Messages, Poison(m) PROVE TypeOK'
  <2>1. QueueTypes'
    BY <1>16, DropTypes DEF Poison, Taken, BatchAborted, DropsRest, QueueTypes
  <2>2. BatchTypes'
    BY <1>16, BatchShrinks
       DEF Poison, Taken, DropsRest, BatchAborted, HandlingOver, BatchTypes
  <2>3. HandTypes' /\ TimerTypes'
    BY <1>16, HandlingOverTypes DEF Poison, DropsRest, BatchAborted
  <2>4. SinkTypes'
    BY <1>16 DEF Poison
  <2>. QED
    BY <2>1, <2>2, <2>3, <2>4
<1>17. ASSUME NEW m \in Messages, Begin(m) PROVE TypeOK'
  <2>1. QueueTypes'
    BY <1>17 DEF Begin, Taken, QueueTypes
  <2>4. BatchTypes'
    BY <1>17, BatchShrinks DEF Begin, Taken, BatchTypes
  <2>2. HandTypes'
    BY <1>17, RefsTypes DEF Begin, HandTypes
  <2>3. TimerTypes'
    BY <1>17, TimeAssumption DEF Begin, InGoodTime, TimerTypes
  <2>. QED
    BY <1>17, <2>1, <2>2, <2>3, <2>4 DEF Begin
<1>18. CASE Route
  <2>1. QueueTypes' /\ TimerTypes'
    BY <1>18, ObjectType, ExtendTypes DEF Route
  <2>2. HandTypes'
    BY <1>18, ObjectIsTypes DEF Route, HandTypes
  <2>. QED
    BY <1>18, <2>1, <2>2 DEF Route
<1>19. CASE Get
  <2>1. QueueTypes' /\ TimerTypes'
    BY <1>19, ObjectType, ExtendTypes DEF Get
  <2>2. HandTypes'
    <3>1. CASE Kind[Object] = "notgzip"
      BY <1>19, <3>1, ObjectIsTypes DEF Get
    <3>2. CASE Kind[Object] = "gzip"
      BY <1>19, <3>2 DEF Get, HandTypes, Object
    <3>. QED
      BY <1>19, <3>1, <3>2 DEF Get
  <2>. QED
    BY <1>19, <2>1, <2>2 DEF Get
<1>20. CASE GetTruncated
  <2>1. QueueTypes'
    BY <1>20, DropTypes DEF GetTruncated, BatchAborted, DropsRest, QueueTypes
  <2>2. BatchTypes'
    BY <1>20, BatchShrinks
       DEF GetTruncated, DropsRest, BatchAborted, HandlingOver, BatchTypes
  <2>3. HandTypes' /\ TimerTypes'
    BY <1>20, HandlingOverTypes DEF GetTruncated, DropsRest, BatchAborted
  <2>4. SinkTypes'
    BY <1>20 DEF GetTruncated
  <2>. QED
    BY <2>1, <2>2, <2>3, <2>4
<1>21. CASE ObjectDone
  <2>1. QueueTypes' /\ TimerTypes'
    BY <1>21, ObjectType, ExtendTypes DEF ObjectDone
  <2>2. HandTypes'
    BY <1>21, RefsTypes DEF ObjectDone, HandTypes
  <2>. QED
    BY <1>21, <2>1, <2>2 DEF ObjectDone
<1>22. CASE Delete
  BY <1>22, HandlingOverTypes DEF Delete, HandlingOver, QueueTypes
<1>23. CASE Keep
  BY <1>23, HandlingOverTypes DEF Keep, HandlingOver
<1>24. CASE SkipLine
  BY <1>24 DEF SkipLine, AtLine, HandTypes, Object
<1>25. CASE SendLine
  <2>1. HandTypes'
    BY <1>25 DEF SendLine, AtLine, HandTypes, Object
  <2>2. SinkTypes'
    BY <1>25, LineSendable, SinkCallTypes DEF SendLine
  <2>3. QueueTypes' /\ BatchTypes' /\ TimerTypes'
    BY <1>25 DEF SendLine
  <2>. QED
    BY <2>1, <2>2, <2>3
<1>26. CASE FlushObject
  BY <1>26, SinkCallTypes, ObjectIsTypes DEF FlushObject, LinesDone
<1>27. CASE PassTime
  BY <1>27 DEF PassTime, QueueTypes, TimerTypes
<1>28. CASE UNCHANGED vars
  BY <1>28 DEF vars
<1>. QED
  BY <1>1, <1>2, <1>3, <1>4, <1>5, <1>6, <1>7, <1>8, <1>9, <1>10, <1>11, <1>12,
     <1>13, <1>14, <1>15, <1>16, <1>17, <1>18, <1>19, <1>20, <1>21, <1>22, <1>23,
     <1>24, <1>25, <1>26, <1>27, <1>28
     DEF Next, Environment, Failures, Progress

\* The dispatcher's variables have their types, for every queue.
THEOREM TypeCorrect == Spec => []TypeOK
BY InitTypeOK, StepTypeOK, PTL DEF Spec

-----------------------------------------------------------------------------
(* What was deleted had been delivered.                                    *)

\* What the destination has received, it keeps.
LEMMA DeliveredGrows ==
  ASSUME [Next]_vars
  PROVE  delivered \subseteq delivered'
<1>1. ASSUME \/ \E e : SendOk(e)
             \/ \E E : CallFails(E)
             \/ FlushOk \/ SinkCrash \/ UNCHANGED sinkVars
      PROVE  delivered \subseteq delivered'
  BY <1>1 DEF SendOk, CallFails, FlushOk, SinkCrash
<1>2. CASE LoopTop
  BY <1>2 DEF LoopTop
<1>3. CASE SendLine
  BY <1>1, <1>3 DEF SendLine
<1>4. CASE SendFails \/ SendRaises \/ FlushFails
  BY <1>1, <1>4 DEF SendFails, SendRaises, FlushFails
<1>5. CASE FlushObject
  BY <1>1, <1>5 DEF FlushObject
<1>6. CASE Crash
  BY <1>1, <1>6 DEF Crash
<1>. QED
  BY <1>1, <1>2, <1>3, <1>4, <1>5, <1>6
     DEF Next, Environment, Failures, Progress, Publish, RequestStop, ReceiveFails,
         GetFails, DeleteFails, Start, BatchDone, Receive, Redrive, Malformed, Poison,
         Begin, Route, Get, GetTruncated, ObjectDone, Delete, Keep, SkipLine,
         PassTime, vars

\* An object that needs no further handling never needs any again.
LEMMA ServedStays ==
  ASSUME [Next]_vars, NEW o, Served(o)
  PROVE  Served(o)'
BY DeliveredGrows DEF Served, EventsOf

\* Only a message whose objects were all handled leaves the queue by deletion.
LEMMA OnlySettledDeleted ==
  ASSUME TypeOK, [Next]_vars, NEW m \in Messages, state'[m] = "deleted"
  PROVE  state[m] = "deleted" \/ (pc = "settle" /\ allOk /\ m = cur)
<1>1. CASE \E x \in Messages : Publish(x)
  BY <1>1 DEF Publish, TypeOK, QueueTypes
<1>2. CASE \E x \in Messages : Redrive(x)
  BY <1>2 DEF Redrive, TypeOK, QueueTypes
<1>3. CASE Delete \/ DeleteFails
  BY <1>3 DEF Delete, DeleteFails, TypeOK, QueueTypes
<1>4. CASE \/ \E B \in Batches : Receive(B) \/ ReceiveFails(B)
           \/ UNCHANGED state
  BY <1>4 DEF Receive, ReceiveFails, Received
<1>. QED
  BY <1>1, <1>2, <1>3, <1>4
     DEF Next, Environment, Failures, Progress, RequestStop, Crash,
         GetFails, SendFails, SendRaises, FlushFails, Start, LoopTop, BatchDone,
         Malformed, Poison, Begin, Route, Get, GetTruncated, ObjectDone, Keep,
         SkipLine, SendLine, FlushObject, PassTime, vars, DropsRest, BatchAborted,
         Extend

\* Only a message whose objects are all served is deleted.
LEMMA StepDeleted ==
  ASSUME IInv, [Next]_vars
  PROVE  DeletedWasDelivered'
<1>. SUFFICES ASSUME NEW m \in Messages, state'[m] = "deleted"
              PROVE  /\ Form[m] = "event"
                     /\ \A i \in 1 .. Len(Refs[m]) : Served(Refs[m][i])'
  BY DEF DeletedWasDelivered
<1>1. CASE state[m] = "deleted"
  BY <1>1, ServedStays DEF IInv, DeletedWasDelivered
<1>2. CASE pc = "settle" /\ allOk /\ m = cur
  <2>1. Form[m] = "event"
    BY <1>2, NoMessageAssumption DEF IInv, AllOkIsTrue
  <2>. QED
    BY <1>2, <2>1, ServedStays, NoMessageAssumption DEF IInv, AllOkIsTrue
<1>. QED
  BY <1>1, <1>2, OnlySettledDeleted DEF IInv

\* The messages of a batch are in the queue.
LEMMA StepBatch ==
  ASSUME IInv, [Next]_vars
  PROVE  BatchIsQueued'
<1>. USE DEF IInv, BatchIsQueued
<1>1. ASSUME NEW m \in Messages, Publish(m) PROVE BatchIsQueued'
  BY <1>1 DEF Publish, TypeOK, QueueTypes, BatchTypes
<1>2. ASSUME NEW B \in Batches, Receive(B) PROVE BatchIsQueued'
  BY <1>2, NoMessageAssumption
     DEF Receive, Received, Batches, Due, Visible, Queued, TypeOK, HandTypes
<1>3. ASSUME NEW m \in Messages, Redrive(m) PROVE BatchIsQueued'
  BY <1>3 DEF Redrive
<1>4. ASSUME NEW m \in Messages, Malformed(m) \/ Begin(m) PROVE BatchIsQueued'
  BY <1>4, NoMessageAssumption
     DEF Malformed, Begin, Taken, HandlingOver, TypeOK, BatchTypes
<1>5. CASE Delete \/ DeleteFails \/ Keep
  BY <1>5, NoMessageAssumption
     DEF Delete, DeleteFails, Keep, HandlingOver, TypeOK, BatchTypes, QueueTypes,
         HandTypes
<1>6. CASE \/ Crash \/ SendRaises \/ GetTruncated
           \/ \E m \in Messages : Poison(m)
  BY <1>6 DEF Crash, SendRaises, GetTruncated, Poison, DropsRest, BatchAborted,
           HandlingOver
<1>7. CASE \/ RequestStop \/ GetFails \/ SendFails \/ FlushFails \/ Start
           \/ LoopTop \/ BatchDone \/ PassTime
           \/ Route \/ Get \/ ObjectDone \/ SkipLine \/ SendLine \/ FlushObject
           \/ UNCHANGED vars \/ \E B \in Batches : ReceiveFails(B)
  BY <1>7 DEF RequestStop, GetFails, SendFails, FlushFails, Start, LoopTop, BatchDone,
              PassTime, Route, Get, ObjectDone, SkipLine, SendLine, FlushObject,
              ReceiveFails, Received, ObjectIs, vars
<1>. QED
  BY <1>1, <1>2, <1>3, <1>4, <1>5, <1>6, <1>7 DEF Next, Environment, Failures, Progress

\* An outcome that is true leaves nothing of the object to be handled.
LEMMA OutcomeIsTrue ==
  ASSUME IInv, [Next]_vars, pc \in Working, NEW ok \in BOOLEAN, ObjectIs(ok),
         UNCHANGED <<cur, ref, state>>, ok => Served(Object)'
  PROVE  AllOkIsTrue' /\ LinesInSink'
<1>1. cur \in Messages /\ Form[cur] = "event" /\ state[cur] = "queued"
  BY NoMessageAssumption DEF IInv, AllOkIsTrue, TypeOK, HandTypes
<1>2. ASSUME allOk', NEW i \in 1 .. Len(Refs[cur]), i < ref \/ i = ref
      PROVE  Served(Refs[cur][i])'
  <2>1. allOk /\ ok
    BY <1>2 DEF ObjectIs
  <2>2. CASE i < ref
    BY <1>1, <2>1, <2>2, ServedStays, NoMessageAssumption DEF IInv, AllOkIsTrue
  <2>3. CASE i = ref
    BY <2>1, <2>3 DEF Object
  <2>. QED
    BY <1>2, <2>2, <2>3
<1>. QED
  BY <1>1, <1>2 DEF ObjectIs, AllOkIsTrue, LinesInSink

\* A step without a message in hand, or that puts it down.
LEMMA OutOfHand ==
  ASSUME cur' = NoMessage, pc' # "process"
  PROVE  AllOkIsTrue' /\ LinesInSink'
BY DEF AllOkIsTrue, LinesInSink

\* A step that goes on with the object in progress and sends nothing.
LEMMA HandGoesOn ==
  ASSUME IInv, [Next]_vars, UNCHANGED <<cur, ref, allOk, line, sentAny, state>>,
         pc' = pc, UNCHANGED sinkVars
  PROVE  AllOkIsTrue' /\ LinesInSink'
BY DEF IInv, AllOkIsTrue, LinesInSink, Served, Object, EventsOf

\* all_ok accounts for the objects gone by, and the sink has the lines gone by.
LEMMA StepHand ==
  ASSUME IInv, [Next]_vars
  PROVE  AllOkIsTrue' /\ LinesInSink'
<1>0. /\ pc \in Working => /\ cur \in Messages /\ Object \in Objects
                           /\ Size[Object] \in Nat
      /\ delivered \subseteq delivered'
  BY ObjectType, DeliveredGrows DEF IInv, TypeOK
<1>1. ASSUME NEW m \in Messages, Publish(m) PROVE AllOkIsTrue' /\ LinesInSink'
  BY <1>1, NoMessageAssumption
     DEF Publish, IInv, AllOkIsTrue, LinesInSink, Served, Object, EventsOf, TypeOK,
         HandTypes, QueueTypes
<1>2. CASE RequestStop \/ PassTime \/ UNCHANGED vars
  BY <1>2, HandGoesOn DEF RequestStop, PassTime, vars
<1>3. CASE \/ Crash \/ SendRaises \/ GetTruncated \/ Delete \/ DeleteFails \/ Keep
           \/ \E m \in Messages : Malformed(m) \/ Poison(m)
  BY <1>3, OutOfHand
     DEF Crash, SendRaises, GetTruncated, Delete, DeleteFails, Keep, Malformed, Poison,
         DropsRest, BatchAborted, HandlingOver
<1>4. CASE \/ Start \/ LoopTop \/ BatchDone
           \/ \E B \in Batches : Receive(B) \/ ReceiveFails(B)
           \/ \E m \in Messages : Redrive(m)
  BY <1>4, OutOfHand
     DEF Start, LoopTop, BatchDone, Receive, ReceiveFails, Redrive, IInv, TypeOK,
         HandTypes
<1>5. CASE GetFails \/ SendFails \/ FlushFails
  BY <1>5, OutcomeIsTrue DEF GetFails, SendFails, FlushFails, AtLine, LinesDone
<1>6. ASSUME NEW m \in Messages, Begin(m) PROVE AllOkIsTrue' /\ LinesInSink'
  BY <1>6, RefsTypes DEF Begin, Taken, AllOkIsTrue, LinesInSink, IInv, BatchIsQueued
<1>7. CASE Route
  <2>1. CASE Kind[Object] = "foreign" /\ ObjectIs(FALSE)
    BY <1>7, <2>1, OutcomeIsTrue DEF Route
  <2>2. CASE Kind[Object] = "unrouted" /\ ObjectIs(TRUE)
    BY <1>7, <2>2, OutcomeIsTrue DEF Route, Served, Object
  <2>3. CASE pc' = "get" /\ UNCHANGED <<allOk, line, sentAny>>
    BY <1>7, <2>3
       DEF Route, IInv, AllOkIsTrue, LinesInSink, Served, EventsOf
  <2>. QED
    BY <1>7, <2>1, <2>2, <2>3 DEF Route
<1>8. CASE Get
  <2>1. CASE ObjectIs(FALSE)
    BY <1>8, <2>1, OutcomeIsTrue DEF Get
  <2>2. CASE Kind[Object] = "gzip" /\ line' = 1 /\ UNCHANGED allOk /\ pc' = "process"
    BY <1>0, <1>8, <2>2
       DEF Get, IInv, AllOkIsTrue, LinesInSink, Served, EventsOf, Object
  <2>. QED
    BY <1>8, <2>1, <2>2 DEF Get
<1>9. CASE ObjectDone
  BY <1>0, <1>9, RefsTypes, NoMessageAssumption
     DEF ObjectDone, IInv, AllOkIsTrue, LinesInSink, Served, EventsOf, TypeOK, HandTypes
<1>10. CASE SkipLine
  BY <1>0, <1>10
     DEF SkipLine, AtLine, IInv, AllOkIsTrue, LinesInSink, Served, EventsOf, Object,
         TypeOK, HandTypes
<1>11. CASE SendLine
  <2>1. AllOkIsTrue'
    BY <1>0, <1>11 DEF SendLine, AtLine, IInv, AllOkIsTrue, Served, EventsOf
  <2>2. pending \union {<<Object, line>>} \subseteq pending' \union delivered'
    BY <1>11 DEF SendLine, SendOk
  <2>3. Object' = Object
    BY <1>11 DEF SendLine, Object
  <2>4. ASSUME NEW e \in EventsOf(Object), e[2] < line + 1
        PROVE  e \in pending' \union delivered'
    <3>1. CASE e[2] < line
      BY <1>0, <1>11, <2>2, <3>1 DEF SendLine, AtLine, IInv, LinesInSink
    <3>2. CASE e = <<Object, line>>
      BY <2>2, <3>2
    <3>. QED
      BY <1>0, <1>11, <2>4, <3>1, <3>2
         DEF SendLine, AtLine, EventsOf, IInv, TypeOK, HandTypes
  <2>. QED
    BY <1>11, <2>1, <2>3, <2>4 DEF SendLine, LinesInSink, EventsOf
<1>12. CASE FlushObject
  <2>1. Kind[Object] = "gzip" /\ \A e \in EventsOf(Object) : e[2] < line
    BY <1>0, <1>12 DEF FlushObject, LinesDone, EventsOf, IInv, TypeOK, HandTypes
  <2>2. EventsOf(Object) \subseteq delivered'
    <3>1. CASE sentAny
      BY <1>12, <2>1, <3>1 DEF FlushObject, LinesDone, FlushOk, IInv, LinesInSink
    <3>2. CASE ~sentAny
      BY <1>12, <2>1, <3>2 DEF FlushObject, LinesDone, IInv, LinesInSink
    <3>. QED
      BY <3>1, <3>2
  <2>. QED
    BY <1>12, <2>1, <2>2, OutcomeIsTrue
       DEF FlushObject, LinesDone, Served, EventsOf, Object
<1>. QED
  BY <1>1, <1>2, <1>3, <1>4, <1>5, <1>6, <1>7, <1>8, <1>9, <1>10, <1>11, <1>12
     DEF Next, Environment, Failures, Progress

-----------------------------------------------------------------------------
(* What became of each receive.                                            *)

\* The terms of Accounted.
LEMMA ReceiveNumbers ==
  ASSUME TypeOK
  PROVE  /\ receives \in [Messages -> Nat] /\ tried \in [Messages -> Nat]
         /\ dropped \in [Messages -> Nat]
         /\ faults \in Nat /\ stops \in Nat /\ MaxReceives \in Nat
         /\ \A m \in Messages : receives[m] <= MaxReceives
BY LimitAssumption DEF TypeOK, QueueTypes

\* A step that receives nothing and gives up nothing of the batch, or pays for
\* it with an attempt, a failure or an end of the process.
LEMMA Paid ==
  ASSUME TypeOK, NEW m \in Messages, Accounted(m),
         UNCHANGED receives, state'[m] = "dead" => state[m] = "dead",
         tried'[m] \in Nat, faults' \in Nat, stops' \in Nat, UNCHANGED dropped,
         \/ /\ tried'[m] + faults' + stops' >= tried[m] + faults + stops
            /\ m \in batch => m \in batch'
         \/ tried'[m] + faults' + stops' >= tried[m] + faults + stops + 1
  PROVE  Accounted(m)'
<1>1. /\ receives[m] \in Nat /\ tried[m] \in Nat /\ faults \in Nat /\ stops \in Nat
      /\ receives'[m] = receives[m] /\ dropped[m] \in Nat /\ dropped'[m] = dropped[m]
  BY ReceiveNumbers
<1>. QED
  BY <1>1 DEF Accounted

\* A step that gives up the rest of the batch, for the sake of another message.
LEMMA Dropped ==
  ASSUME TypeOK, NEW m \in Messages, Accounted(m), NEW rest, DropsRest(rest),
         rest \subseteq batch, UNCHANGED <<faults, stops>>,
         tried'[m] \in Nat, tried'[m] >= tried[m],
         m \in rest => \E x \in Messages \ {m} : EndsBatch(x),
         m \in batch => m \in rest \/ tried'[m] = tried[m] + 1
  PROVE  Accounted(m)'
<1>1. /\ UNCHANGED <<receives, state>> /\ m \notin batch'
      /\ dropped'[m] = dropped[m] + (IF m \in rest THEN 1 ELSE 0)
  BY DEF DropsRest, BatchAborted, HandlingOver, queue
<1>2. /\ receives[m] \in Nat /\ tried[m] \in Nat /\ dropped[m] \in Nat
      /\ faults \in Nat /\ stops \in Nat
  BY ReceiveNumbers
<1>. QED
  BY <1>1, <1>2 DEF Accounted

\* Every message stays accounted for.
LEMMA StepPaid ==
  ASSUME IInv, [Next]_vars, NEW m \in Messages
  PROVE  Accounted(m)'
<1>. USE ReceiveNumbers DEF IInv
<1>a. Accounted(m)
  BY DEF ReceivesAccounted
<1>. USE <1>a
<1>0. /\ tried[m] \in Nat /\ dropped[m] \in Nat /\ faults \in Nat /\ stops \in Nat
      /\ receives[m] \in Nat /\ receives[m] <= MaxReceives /\ MaxReceives \in Nat
      /\ m \in batch => pc \notin Between
  BY DEF BatchIsQueued
<1>1. CASE RequestStop
  BY <1>0, <1>1, Paid DEF RequestStop
<1>2. CASE Crash
  BY <1>0, <1>2, Paid DEF Crash
<1>3. CASE GetFails \/ SendFails \/ FlushFails \/ SendRaises
  <2>1. UNCHANGED <<tried, dropped, receives, state, stops>> /\ faults' = faults + 1
    BY <1>3 DEF GetFails, SendFails, FlushFails, SendRaises, Fault, BatchAborted
  <2>. QED
    BY <1>0, <2>1, Paid
<1>4. CASE DeleteFails
  <2>1. UNCHANGED <<tried, dropped, receives, stops>> /\ faults' = faults + 1
    BY <1>4 DEF DeleteFails, Fault
  <2>2. state'[m] = "dead" => state[m] = "dead"
    BY <1>4 DEF DeleteFails, TypeOK, QueueTypes
  <2>. QED
    BY <1>0, <2>1, <2>2, Paid
<1>5. ASSUME NEW B \in Batches, Receive(B) PROVE Accounted(m)'
  <2>1. /\ m \notin batch /\ batch' = B
        /\ UNCHANGED <<state, tried, dropped, faults, stops>>
    BY <1>0, <1>5 DEF Receive, Received
  <2>2. receives'[m] = receives[m] + (IF m \in B THEN 1 ELSE 0)
    BY <1>5 DEF Receive, Received
  <2>3. state[m] = "dead" => m \notin B
    BY DEF Batches, Due, Visible, Queued
  <2>. QED
    BY <1>0, <2>1, <2>2, <2>3 DEF Accounted
<1>6. ASSUME NEW B \in Batches, ReceiveFails(B) PROVE Accounted(m)'
  <2>1. /\ m \notin batch /\ batch' = batch /\ UNCHANGED <<state, tried, dropped, stops>>
        /\ faults' = faults + 1
    BY <1>0, <1>6 DEF ReceiveFails, Received, Fault
  <2>2. receives'[m] = receives[m] + (IF m \in B THEN 1 ELSE 0)
    BY <1>6 DEF ReceiveFails, Received
  <2>3. state[m] = "dead" => m \notin B
    BY DEF Batches, Due, Visible, Queued
  <2>. QED
    BY <1>0, <2>1, <2>2, <2>3 DEF Accounted
<1>7. ASSUME NEW x \in Messages, Redrive(x) PROVE Accounted(m)'
  <2>1. /\ UNCHANGED <<receives, batch, tried, dropped, faults, stops>>
        /\ state' = [state EXCEPT ![x] = "dead"]
        /\ x \in Messages /\ ~(receives[x] < MaxReceives)
    BY <1>7 DEF Redrive, Due, Visible, Queued
  <2>2. state'[m] = "dead" => state[m] = "dead" \/ receives[m] = MaxReceives
    BY <1>0, <2>1 DEF TypeOK, QueueTypes
  <2>. QED
    BY <1>0, <2>1, <2>2 DEF Accounted
<1>8. ASSUME NEW x \in Messages, Malformed(x) \/ Begin(x) PROVE Accounted(m)'
  <2>1. /\ tried' = [tried EXCEPT ![x] = @ + 1] /\ batch' = batch \ {x}
        /\ UNCHANGED <<receives, state, dropped, faults, stops>>
    BY <1>8 DEF Malformed, Begin, Taken, HandlingOver
  <2>2. CASE m = x
    BY <1>0, <2>1, <2>2, Paid
  <2>3. CASE m # x
    BY <1>0, <2>1, <2>3, Paid
  <2>. QED
    BY <2>2, <2>3
<1>9. ASSUME NEW x \in Messages, Publish(x) PROVE Accounted(m)'
  BY <1>0, <1>9, Paid DEF Publish, TypeOK, QueueTypes
<1>10. CASE Delete
  BY <1>0, <1>10, Paid DEF Delete, HandlingOver, TypeOK, QueueTypes
<1>11. CASE GetTruncated
  <2>1. m \in batch => cur \in Messages \ {m} /\ EndsBatch(cur)
    BY <1>11, ObjectType, NoMessageAssumption
       DEF GetTruncated, EndsBatch, Object, TypeOK, HandTypes, Working, BatchIsQueued,
           AllOkIsTrue
  <2>. QED
    BY <1>11, <2>1, Dropped DEF GetTruncated
<1>13. ASSUME NEW x \in Messages, Poison(x) PROVE Accounted(m)'
  <2>1. /\ tried' = [tried EXCEPT ![x] = @ + 1] /\ DropsRest(batch \ {x})
        /\ UNCHANGED <<faults, stops>> /\ EndsBatch(x)
    BY <1>13 DEF Poison, Taken, EndsBatch
  <2>. QED
    BY <2>1, Dropped DEF TypeOK, QueueTypes
<1>12. CASE \/ Start \/ LoopTop \/ BatchDone \/ Route \/ Get \/ ObjectDone \/ Keep
            \/ SkipLine \/ SendLine \/ FlushObject \/ PassTime \/ UNCHANGED vars
  <2>1. UNCHANGED <<tried, dropped, receives, state, stops, batch>>
    BY <1>12 DEF Start, LoopTop, BatchDone, Route, Get, ObjectDone, Keep, SkipLine,
                 SendLine, FlushObject, PassTime, HandlingOver, vars
  <2>2. faults' \in Nat /\ faults' >= faults
    <3>1. CASE Extend
      BY <1>0, <3>1 DEF Extend, ExtendNotDue, ExtendFails, Extended
    <3>2. CASE UNCHANGED faults
      BY <1>0, <3>2
    <3>. QED
      BY <1>12, <3>1, <3>2
         DEF Start, LoopTop, BatchDone, Route, Get, ObjectDone, Keep, SkipLine,
             SendLine, FlushObject, PassTime, vars
  <2>. QED
    BY <1>0, <2>1, <2>2, Paid
<1>. QED
  BY <1>1, <1>2, <1>3, <1>4, <1>5, <1>6, <1>7, <1>8, <1>9, <1>10, <1>11, <1>12,
     <1>13
     DEF Next, Environment, Failures, Progress

\* IInv is inductive.
THEOREM Invariance == Spec => []IInv
<1>1. Init => IInv
  BY InitTypeOK, NoMessageAssumption, LimitAssumption
     DEF Init, IInv, DeletedWasDelivered, AllOkIsTrue, LinesInSink, BatchIsQueued,
         ReceivesAccounted, Accounted
<1>2. IInv /\ [Next]_vars => IInv'
  BY StepTypeOK, StepDeleted, StepHand, StepBatch, StepPaid DEF IInv, ReceivesAccounted
<1>. QED
  BY <1>1, <1>2, PTL DEF Spec

\* A message is only deleted when every object it names is of no interest or
\* has had all of its events delivered.
THEOREM DeletedDelivered == Spec => []DeletedWasDelivered
BY Invariance, PTL DEF IInv

-----------------------------------------------------------------------------
(* The message in hand stays invisible.                                    *)

\* The terms of ExtensionInReach are numbers.
LEMMA TimerNumbers ==
  ASSUME TypeOK
  PROVE  /\ elapsed \in Nat /\ window \in Nat /\ spent \in Nat
         /\ hidden \in [Messages -> Nat]
         /\ MaxWork \in Nat \ {0} /\ Extension \in Nat \ {0}
         /\ VisibilityTimeout \in Nat \ {0}
         /\ cur # NoMessage => cur \in Messages
         /\ pc \in Working => cur \in Messages /\ cur # NoMessage
BY TimeAssumption, NoMessageAssumption
   DEF TypeOK, TimerTypes, QueueTypes, HandTypes

\* A check of the visibility leaves enough for the longest step.
LEMMA CheckInTime ==
  ASSUME TypeOK, ExtensionInReach, pc \in Working, Extend, UNCHANGED cur
  PROVE  ExtensionInReach'
<1>0. cur \in Messages /\ cur # NoMessage
  BY TimerNumbers
<1>1. CASE ExtendNotDue
  BY <1>0, <1>1, TimerNumbers DEF ExtensionInReach, Extend, ExtendNotDue
<1>2. CASE ExtendFails
  BY <1>0, <1>2, TimerNumbers DEF ExtensionInReach, Extend, ExtendFails
<1>3. CASE Extended
  BY <1>0, <1>3, TimerNumbers DEF ExtensionInReach, Extend, Extended
<1>. QED
  BY <1>1, <1>2, <1>3 DEF Extend

\* Nothing is in reach of anything while no message is in hand.
LEMMA HandOverInTime ==
  ASSUME TypeOK, cur' = NoMessage, spent' = 0
  PROVE  ExtensionInReach'
BY TimeAssumption DEF ExtensionInReach

\* Every step leaves the next extension in reach.
LEMMA StepInTime ==
  ASSUME TypeOK, ExtensionInReach, [Next]_vars
  PROVE  ExtensionInReach'
<1>1. CASE PassTime
  <2>1. CASE cur = NoMessage
    BY <1>1, <2>1, HandOverInTime DEF PassTime
  <2>2. CASE cur # NoMessage
    BY <1>1, <2>2, TimerNumbers DEF PassTime, ExtensionInReach
  <2>. QED
    BY <2>1, <2>2
<1>2. ASSUME NEW m \in Messages, Begin(m) PROVE ExtensionInReach'
  <2>1. spent = 0
    BY <1>2 DEF Begin, Taken, TypeOK, HandTypes, ExtensionInReach
  <2>2. 2 * hidden[m] >= VisibilityTimeout + 2 * MaxWork => hidden[m] > MaxWork
    BY TimerNumbers
  <2>3. ASSUME covered'
        PROVE  2 * hidden[m] >= VisibilityTimeout + 2 * MaxWork
    BY <1>2, <2>3 DEF Begin, InGoodTime
  <2>4. cur' = m /\ hidden' = hidden /\ spent' = 0 /\ elapsed' = 0
        /\ window' = VisibilityTimeout
    BY <1>2, <2>1 DEF Begin
  <2>. QED
    BY <2>2, <2>3, <2>4, TimerNumbers DEF ExtensionInReach
<1>3. CASE Route \/ ObjectDone
  BY <1>3, CheckInTime DEF Route, ObjectDone
<1>4. CASE Get
  <2>1. CASE Extend
    BY <1>4, <2>1, CheckInTime DEF Get
  <2>2. CASE UNCHANGED <<hidden, timer>>
    BY <1>4, <2>2 DEF Get, ExtensionInReach
  <2>. QED
    BY <1>4, <2>1, <2>2 DEF Get
<1>5. CASE \/ Crash \/ SendRaises \/ GetTruncated \/ Delete \/ DeleteFails \/ Keep
           \/ \E m \in Messages : Malformed(m) \/ Poison(m)
  BY <1>5, HandOverInTime
     DEF Crash, SendRaises, GetTruncated, Delete, DeleteFails, Keep, Malformed, Poison,
         DropsRest, BatchAborted, HandlingOver
<1>6. CASE \/ \E B \in Batches : Receive(B) \/ ReceiveFails(B)
  BY <1>6, HandOverInTime
     DEF Receive, ReceiveFails, ExtensionInReach, TypeOK, HandTypes
<1>7. CASE \/ \E m \in Messages : Publish(m) \/ Redrive(m)
           \/ RequestStop \/ GetFails \/ SendFails \/ FlushFails \/ Start \/ LoopTop
           \/ BatchDone \/ SkipLine \/ SendLine \/ FlushObject \/ UNCHANGED vars
  <2>1. UNCHANGED <<hidden, cur, elapsed, window, spent, covered>>
    BY <1>7 DEF Publish, Redrive, RequestStop, GetFails, SendFails, FlushFails, Start,
                LoopTop, BatchDone, SkipLine, SendLine, FlushObject, vars
  <2>. QED
    BY <2>1 DEF ExtensionInReach
<1>. QED
  BY <1>1, <1>2, <1>3, <1>4, <1>5, <1>6, <1>7
     DEF Next, Environment, Failures, Progress

\* A message taken up in good time stays invisible until it is settled.
THEOREM Extending == Spec => []ExtendedInTime
<1>1. Init => ExtensionInReach
  BY TimeAssumption DEF Init, ExtensionInReach
<1>2. TypeOK /\ ExtensionInReach /\ [Next]_vars => ExtensionInReach'
  BY StepInTime
<1>3. TypeOK /\ ExtensionInReach => ExtendedInTime
  BY TimerNumbers DEF ExtensionInReach, ExtendedInTime
<1>. QED
  BY <1>1, <1>2, <1>3, TypeCorrect, PTL DEF Spec

-----------------------------------------------------------------------------
(* The dead-letter queue.                                                  *)

\* A dead message was tried as often as the redrive policy allows receives, less
\* one for each failing call, each end of the process and each time that another
\* message ended its batch.
THEOREM DeadTried == Spec => []DeadWereTried
<1>1. IInv => DeadWereTried
  BY ReceiveNumbers, LimitAssumption
     DEF DeadWereTried, IInv, ReceivesAccounted, Accounted, BatchIsQueued
<1>. QED
  BY <1>1, Invariance, PTL
=============================================================================
