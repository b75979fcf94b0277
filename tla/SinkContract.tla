---------------------------- MODULE SinkContract ----------------------------
(***************************************************************************)
(* What a caller may rely on when it hands events to a sink                *)
(* (sinks/base.py: send -> bool, flush -> bool).  The state is split into  *)
(*                                                                         *)
(*   pending    events accepted but still in the sink's memory: the        *)
(*              HttpsSink batch, the FileSink write buffer; always empty   *)
(*              for TcpSink, TlsSink and UdpSink                           *)
(*   delivered  events the destination has received at least once          *)
(*                                                                         *)
(* A call either succeeds or fails; an exception leaving send is a failure *)
(* for the caller too.  A failed call keeps or drops any part of what is   *)
(* in memory, and the destination may or may not have received what was    *)
(* being written (a POST whose response was lost).                         *)
(***************************************************************************)
VARIABLES pending, delivered

sinkVars == <<pending, delivered>>

SinkInit == pending = {} /\ delivered = {}

\* send(e) returned True: e is buffered, written through, or has pushed the
\* older buffer content out.
SendOk(e) ==
  \E P \in {pending \union {e}, {e}, {}} :
    /\ pending' = P
    /\ delivered' = delivered \union ((pending \union {e}) \ P)

\* send or flush failed while E was being handed over: {e}, or {} for flush.
CallFails(E) ==
  \E P, D \in SUBSET (pending \union E) :
    /\ pending' = P
    /\ delivered' = delivered \union D

\* flush() returned True: nothing accepted is left in memory.
FlushOk ==
  /\ pending' = {}
  /\ delivered' = delivered \union pending

\* The process died: whatever was only in memory is gone.
SinkCrash == pending' = {} /\ UNCHANGED delivered
=============================================================================
