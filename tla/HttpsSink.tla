------------------------------ MODULE HttpsSink ------------------------------
(***************************************************************************)
(* sinks/https_sink.py: events are batched in memory and POSTed when the   *)
(* batch is full or flush is called; a POST is retried max_retries times,  *)
(* and the batch is dropped when the last attempt fails.  The server may   *)
(* store a batch and its answer still be lost.  The back-off between       *)
(* attempts is not modelled (it only takes time), and close is a flush     *)
(* whose answer nobody reads.                                              *)
(***************************************************************************)
EXTENDS Integers, SequencesExt

CONSTANTS Events, BatchSize, MaxRetries

ASSUME HttpsAssumption == BatchSize \in Nat \ {0} /\ MaxRetries \in Nat

VARIABLES
  buffer,    \* self.buffer
  received,  \* events the server has stored
  call,      \* the method in progress: "none", "send", "flush"
  attempts,
  result     \* what the last finished call returned; FALSE after a crash

vars == <<buffer, received, call, attempts, result>>

Init ==
  /\ buffer = <<>> /\ received = {} /\ call = "none" /\ attempts = 0
  /\ result = TRUE

Return(r) == call' = "none" /\ attempts' = 0 /\ result' = r

Send(e) ==
  /\ call = "none"
  /\ buffer' = Append(buffer, e)
  /\ call' = "send"
  /\ UNCHANGED <<received, attempts, result>>

Flush ==
  /\ call = "none"
  /\ call' = "flush"
  /\ UNCHANGED <<buffer, received, attempts, result>>

\* send with room left in the batch; flush of an empty batch.
NothingToPost ==
  /\ \/ call = "send" /\ Len(buffer) < BatchSize
     \/ call = "flush" /\ buffer = <<>>
  /\ Return(TRUE)
  /\ UNCHANGED <<buffer, received>>

Posting ==
  \/ call = "send" /\ Len(buffer) >= BatchSize
  \/ call = "flush" /\ buffer # <<>>

\* The server answers 2xx.
PostAccepted ==
  /\ Posting
  /\ received' = received \union Range(buffer)
  /\ buffer' = <<>>
  /\ Return(TRUE)

\* Another status, a timeout or a broken connection, before or after the
\* server stored the batch.
PostFails == Posting /\ received' \in {received, received \union Range(buffer)}

\* Mutant of Retry: one attempt too many.
RetryOnceMore ==
  PostFails /\ attempts <= MaxRetries /\ attempts' = attempts + 1
  /\ UNCHANGED <<buffer, call, result>>

Retry ==
  /\ PostFails
  /\ attempts < MaxRetries
  /\ attempts' = attempts + 1
  /\ UNCHANGED <<buffer, call, result>>

\* Mutants of GiveUp: the failure is reported as a success; the attempts start
\* over.
GiveUpSilently ==
  PostFails /\ attempts >= MaxRetries /\ buffer' = <<>> /\ Return(TRUE)

GiveUpNever ==
  PostFails /\ attempts >= MaxRetries /\ attempts' = 0
  /\ UNCHANGED <<buffer, call, result>>

GiveUp ==
  PostFails /\ attempts >= MaxRetries /\ buffer' = <<>> /\ Return(FALSE)

\* No call has returned True since.
Crash == buffer' = <<>> /\ Return(FALSE) /\ UNCHANGED received

Call == Flush \/ \E e \in Events : Send(e)
Step == NothingToPost \/ PostAccepted \/ Retry \/ GiveUp
Next == Call \/ Step \/ Crash

Spec == Init /\ [][Next]_vars

\* Every POST has a timeout, so that a call in progress goes on.
FairSpec == Spec /\ WF_vars(Step)
-----------------------------------------------------------------------------
TypeOK ==
  /\ buffer \in Seq(Events) /\ received \in SUBSET Events
  /\ call \in {"none", "send", "flush"} /\ attempts \in 0 .. MaxRetries
  /\ result \in BOOLEAN

\* The batch without the event that the call in progress has just added.
Accepted == IF call = "send" THEN Range(Front(buffer)) ELSE Range(buffer)
Added    == IF call = "send" THEN {Last(buffer)} ELSE {}

Promise == INSTANCE SinkSpec
             WITH pending <- Accepted, delivered <- received, arg <- Added

\* HttpsSink is a sink in the sense of SinkSpec: a True from flush means that
\* the server has every event accepted since the last failure.
KeepsPromise == Promise!SinkPromise

\* Every call returns, whatever the server does (bounded retries).
CallsReturn == (call # "none") ~> (call = "none")
=============================================================================
