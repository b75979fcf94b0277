------------------------------ MODULE SinkSpec ------------------------------
(***************************************************************************)
(* The promise of a sink as a specification of its own: calls begin, may   *)
(* reach the destination before they return, and return True or False with *)
(* the effect that SinkContract gives to each answer.  A sink that         *)
(* implements SinkSpec may be plugged into Pipeline.                       *)
(***************************************************************************)
EXTENDS SinkContract

CONSTANT Events

VARIABLES
  call,    \* the call in progress: "none", "send", "flush"
  arg,     \* {e} during send(e), else {}
  result   \* what the last finished call returned; FALSE after a crash

specVars == <<sinkVars, call, arg, result>>

SpecInit == SinkInit /\ call = "none" /\ arg = {} /\ result = TRUE

BeginSend(e) ==
  /\ call = "none"
  /\ call' = "send" /\ arg' = {e}
  /\ UNCHANGED <<sinkVars, result>>

BeginFlush ==
  /\ call = "none"
  /\ call' = "flush" /\ arg' = {}
  /\ UNCHANGED <<sinkVars, result>>

\* The destination receives something although the call is not over.
Reaches ==
  /\ call # "none"
  /\ \E D \in SUBSET (pending \union arg) : delivered' = delivered \union D
  /\ UNCHANGED <<pending, call, arg, result>>

Return(r) == call' = "none" /\ arg' = {} /\ result' = r

ReturnTrue ==
  /\ \/ call = "send" /\ \E e \in arg : SendOk(e)
     \/ call = "flush" /\ FlushOk
  /\ Return(TRUE)

ReturnFalse == call # "none" /\ CallFails(arg) /\ Return(FALSE)

ProcessDies == SinkCrash /\ Return(FALSE)

SpecNext ==
  \/ \E e \in Events : BeginSend(e)
  \/ BeginFlush \/ Reaches \/ ReturnTrue \/ ReturnFalse \/ ProcessDies

SinkPromise == SpecInit /\ [][SpecNext]_specVars
=============================================================================
