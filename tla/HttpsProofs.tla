----------------------------- MODULE HttpsProofs -----------------------------
(* Proofs about HttpsSink, for every batch size, every number of retries   *)
(* and every set of events: it implements SinkSpec.                        *)
EXTENDS HttpsSink, TLAPS

-----------------------------------------------------------------------------
(* Sequences.                                                              *)

\* An empty batch has no events.
LEMMA EmptyBatch == Range(<<>>) = {}
BY DEF Range

\* The event just appended is the last of the batch.
LEMMA AppendLast ==
  ASSUME NEW s \in Seq(Events), NEW e \in Events
  PROVE  /\ Append(s, e) # <<>>
         /\ Front(Append(s, e)) = s
         /\ Last(Append(s, e)) = e
BY DEF Front, Last

\* A batch consists of its last event and those before it.
LEMMA RangeFrontLast ==
  ASSUME NEW s \in Seq(Events), s # <<>>
  PROVE  /\ Last(s) \in Events
         /\ Range(s) = Range(Front(s)) \union {Last(s)}
<1>1. Len(s) \in Nat \ {0} /\ DOMAIN s = 1 .. Len(s)
  OBVIOUS
<1>2. Front(s) \in Seq(Events) /\ Len(Front(s)) = Len(s) - 1
      /\ \A i \in 1 .. Len(s) - 1 : Front(s)[i] = s[i]
  BY <1>1 DEF Front
<1>3. Range(s) = {s[i] : i \in 1 .. Len(s)}
  BY <1>1 DEF Range
<1>4. Range(Front(s)) = {s[i] : i \in 1 .. Len(s) - 1}
  BY <1>1, <1>2 DEF Range
<1>. QED
  BY <1>1, <1>3, <1>4 DEF Last

-----------------------------------------------------------------------------
(* Type correctness.                                                       *)

\* During send there is an event to be sent.
Sending == call = "send" => buffer # <<>>

\* Every step keeps the types.
LEMMA StepTypes ==
  ASSUME TypeOK, Sending, [Next]_vars
  PROVE  TypeOK' /\ Sending'
<1>. USE HttpsAssumption DEF Sending
<1>1. ASSUME NEW e \in Events, Send(e) PROVE TypeOK' /\ Sending'
  BY <1>1, AppendLast DEF Send, TypeOK
<1>2. CASE Flush
  BY <1>2 DEF Flush, TypeOK
<1>3. CASE NothingToPost
  BY <1>3 DEF NothingToPost, Return, TypeOK
<1>4. Range(buffer) \in SUBSET Events
  BY DEF TypeOK, Range
<1>5. CASE PostAccepted
  BY <1>4, <1>5 DEF PostAccepted, Return, TypeOK
<1>6. CASE Retry
  BY <1>4, <1>6 DEF Retry, PostFails, TypeOK
<1>7. CASE GiveUp
  <2>1. result' \in BOOLEAN
    BY <1>7 DEF GiveUp, Return
  <2>. QED
    BY <1>4, <1>7, <2>1 DEF GiveUp, PostFails, Return, TypeOK
<1>8. CASE Crash
  <2>1. result' \in BOOLEAN
    BY <1>8 DEF Crash, Return
  <2>. QED
    BY <1>8, <2>1 DEF Crash, Return, TypeOK
<1>9. CASE UNCHANGED vars
  BY <1>9 DEF vars, TypeOK
<1>. QED
  BY <1>1, <1>2, <1>3, <1>5, <1>6, <1>7, <1>8, <1>9 DEF Next, Call, Step

\* The initial state has the types.
LEMMA InitTypes == Init => TypeOK /\ Sending
<1>. SUFFICES ASSUME Init PROVE TypeOK /\ Sending
  OBVIOUS
<1>1. result \in BOOLEAN
  BY DEF Init
<1>. QED
  BY <1>1, HttpsAssumption DEF Init, TypeOK, Sending

\* The variables have their types; attempts stays within max_retries.
THEOREM TypeCorrect == Spec => []TypeOK
<1>1. TypeOK /\ Sending /\ [Next]_vars => (TypeOK /\ Sending)'
  BY StepTypes
<1>. QED
  BY <1>1, InitTypes, PTL DEF Spec

-----------------------------------------------------------------------------
(* The refinement.                                                         *)

\* What the caller has handed over is the batch.
LEMMA Handed ==
  ASSUME TypeOK, Sending
  PROVE  /\ Range(buffer) = Accepted \union Added
         /\ call = "send" => Added = {Last(buffer)}
         /\ call # "send" => Added = {} /\ Accepted = Range(buffer)
BY RangeFrontLast DEF TypeOK, Sending, Accepted, Added

\* An empty batch holds nothing that was accepted, once no call is in progress.
LEMMA NothingHeld ==
  ASSUME buffer' = <<>>, call' = "none"
  PROVE  Accepted' = {} /\ Added' = {}
BY EmptyBatch DEF Accepted, Added

\* Every step is a step of the promised sink, or one that does not concern it.
LEMMA StepPromised ==
  ASSUME TypeOK, Sending, [Next]_vars
  PROVE  [Promise!SpecNext]_(Promise!specVars)
<1>. USE DEF Promise!specVars, Promise!sinkVars
<1>1. ASSUME NEW e \in Events, Send(e) PROVE Promise!BeginSend(e)
  <2>1. Accepted' = Accepted /\ Added' = {e}
    BY <1>1, AppendLast DEF Send, Accepted, Added, TypeOK
  <2>. QED
    BY <1>1, <2>1 DEF Send, Promise!BeginSend
<1>2. CASE Flush
  BY <1>2 DEF Flush, Accepted, Added, Promise!BeginFlush, Promise!SpecNext
<1>3. CASE NothingToPost
  <2>1. /\ Accepted' = Range(buffer) /\ Added' = {}
        /\ received' = received /\ call' = "none" /\ result' = TRUE
    BY <1>3 DEF NothingToPost, Return, Accepted, Added
  <2>2. CASE call = "send"
    <3>1. Promise!SendOk(Last(buffer)) /\ Last(buffer) \in Added
      BY <2>1, <2>2, Handed DEF Promise!SendOk
    <3>. QED
      BY <2>1, <2>2, <3>1 DEF Promise!ReturnTrue, Promise!Return, Promise!SpecNext
  <2>3. CASE call = "flush" /\ buffer = <<>>
    <3>1. Promise!FlushOk
      BY <2>1, <2>3, EmptyBatch, Handed DEF Promise!FlushOk
    <3>. QED
      BY <2>1, <2>3, <3>1 DEF Promise!ReturnTrue, Promise!Return, Promise!SpecNext
  <2>. QED
    BY <1>3, <2>2, <2>3 DEF NothingToPost
<1>4. CASE PostAccepted
  <2>1. /\ Accepted' = {} /\ Added' = {} /\ received' = received \union Range(buffer)
        /\ call' = "none" /\ result' = TRUE
    BY <1>4, NothingHeld DEF PostAccepted, Return
  <2>2. CASE call = "send"
    <3>1. Promise!SendOk(Last(buffer)) /\ Last(buffer) \in Added
      BY <2>1, <2>2, Handed DEF Promise!SendOk
    <3>. QED
      BY <2>1, <2>2, <3>1 DEF Promise!ReturnTrue, Promise!Return, Promise!SpecNext
  <2>3. CASE call = "flush"
    <3>1. Promise!FlushOk
      BY <2>1, <2>3, Handed DEF Promise!FlushOk
    <3>. QED
      BY <2>1, <2>3, <3>1 DEF Promise!ReturnTrue, Promise!Return, Promise!SpecNext
  <2>. QED
    BY <1>4, <2>2, <2>3 DEF PostAccepted, Posting
<1>5. PostFails =>
        \E D \in SUBSET (Accepted \union Added) : received' = received \union D
  <2>1. received \union {} = received
    OBVIOUS
  <2>. QED
    BY <2>1, Handed DEF PostFails
<1>6. CASE Retry
  <2>1. /\ Accepted' = Accepted /\ Added' = Added /\ call # "none"
        /\ UNCHANGED <<call, result>>
    BY <1>6 DEF Retry, PostFails, Posting, Accepted, Added
  <2>. QED
    BY <1>5, <1>6, <2>1 DEF Retry, Promise!Reaches, Promise!SpecNext
<1>7. CASE GiveUp
  <2>1. /\ Accepted' = {} /\ Added' = {} /\ call # "none"
        /\ call' = "none" /\ result' = FALSE
    BY <1>7, NothingHeld DEF GiveUp, PostFails, Posting, Return
  <2>2. Promise!CallFails(Added)
    BY <1>5, <1>7, <2>1 DEF GiveUp, Promise!CallFails
  <2>. QED
    BY <2>1, <2>2 DEF Promise!ReturnFalse, Promise!Return, Promise!SpecNext
<1>8. CASE Crash
  <2>1. /\ Accepted' = {} /\ Added' = {} /\ call' = "none" /\ result' = FALSE
        /\ received' = received
    BY <1>8, NothingHeld DEF Crash, Return
  <2>. QED
    BY <2>1
       DEF Promise!SinkCrash, Promise!ProcessDies, Promise!Return, Promise!SpecNext
<1>9. CASE UNCHANGED vars
  BY <1>9 DEF vars, Accepted, Added
<1>. QED
  BY <1>1, <1>2, <1>3, <1>4, <1>6, <1>7, <1>8, <1>9
     DEF Next, Call, Step, Promise!SpecNext

\* HttpsSink implements SinkSpec: after a True from flush the server has every
\* event accepted since the last failure, for every size of the batch.
THEOREM Refinement == Spec => KeepsPromise
<1>1. Init => Promise!SpecInit
  BY EmptyBatch DEF Init, Accepted, Added, Promise!SpecInit, Promise!SinkInit
<1>2. TypeOK /\ Sending /\ [Next]_vars => (TypeOK /\ Sending)'
  BY StepTypes
<1>3. TypeOK /\ Sending /\ [Next]_vars => [Promise!SpecNext]_(Promise!specVars)
  BY StepPromised
<1>. QED
  BY <1>1, <1>2, <1>3, InitTypes, PTL DEF Spec, KeepsPromise, Promise!SinkPromise
=============================================================================
