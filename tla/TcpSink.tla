------------------------------- MODULE TcpSink -------------------------------
(***************************************************************************)
(* sinks/tcp_sink.py, and sinks/tls_sink.py, which differs in how a        *)
(* connection is made: one long-lived connection, a frame per event,       *)
(* bounded retries on new connections.  sendall returns when the kernel    *)
(* has the frame; nobody tells the sink what the peer received.  A closed  *)
(* or abandoned connection still delivers what the kernel has, so that     *)
(* several connections may be under way at once.                           *)
(*                                                                         *)
(* The n-th call of send hands over event n.  An event in Long exceeds     *)
(* _TCP_MAX bytes and is cut, newline and all its head intact.  The        *)
(* back-off between attempts only takes time.                              *)
(***************************************************************************)
EXTENDS Integers, FiniteSets, SequencesExt

CONSTANTS MaxRetries, Long,
          MaxSends, MaxConns, MaxBreaks, MaxStops  \* bounds

ASSUME TcpAssumption ==
  /\ MaxRetries \in Nat /\ MaxSends \in Nat /\ MaxConns \in Nat
  /\ MaxBreaks \in Nat /\ MaxStops \in Nat
  /\ Long \subseteq 1 .. MaxSends

Events == 1 .. MaxSends
Conns  == 1 .. MaxConns
Frames == [event : Events, form : {"whole", "cut", "part"}]

VARIABLES
  sock,      \* the connection of self.sock, 0 for None
  opened,    \* connections made so far
  flight,    \* of each connection: frames in the kernels and the network
  got,       \*   what the peer has read, in order
  broken,    \*   the connections whose peer is gone
  call, attempts, result, sent, stops,
  acked,     \* events for which send returned True
  lost       \* events handed to the kernel that no peer will read

vars == <<sock, opened, flight, got, broken, call, attempts, result, sent, stops,
          acked, lost>>
net  == <<flight, got, broken, lost>>

Init ==
  /\ sock = 0 /\ opened = 0 /\ broken = {}
  /\ flight = [c \in Conns |-> <<>>] /\ got = flight
  /\ call = "none" /\ attempts = 0 /\ result = TRUE /\ sent = 0 /\ stops = 0
  /\ acked = {} /\ lost = {}

\* _truncate_if_needed, and the newline.
Frame(e) == [event |-> e, form |-> IF e \in Long THEN "cut" ELSE "whole"]
Part(e)  == [event |-> e, form |-> "part"]

EventsIn(frames) == {f.event : f \in {g \in Range(frames) : g.form # "part"}}

\* The kernel accepts a frame on connection c; when the peer is gone this goes
\* unnoticed at first.
HandOver(c, frame) ==
  IF c \in broken
  THEN /\ lost' = lost \union EventsIn(<<frame>>)
       /\ UNCHANGED <<flight, got, broken>>
  ELSE /\ flight' = [flight EXCEPT ![c] = Append(@, frame)]
       /\ UNCHANGED <<got, broken, lost>>

Return(r) ==
  /\ call' = "none" /\ attempts' = 0 /\ result' = r
  /\ acked' = IF r THEN acked \union {sent} ELSE acked

Send ==
  /\ call = "none" /\ sent < MaxSends
  /\ call' = "send" /\ sent' = sent + 1
  /\ UNCHANGED <<sock, opened, net, attempts, result, stops, acked>>

\* _ensure_socket makes a connection (with TLS: and shakes hands).
Connect ==
  /\ call = "send" /\ sock = 0 /\ opened < MaxConns
  /\ opened' = opened + 1 /\ sock' = opened'
  /\ UNCHANGED <<net, call, attempts, result, sent, stops, acked>>

\* Mutant of SendAll: send instead of sendall, which may take a part of the frame.
SendSome ==
  /\ call = "send" /\ sock # 0
  /\ \E f \in {Part(sent), Frame(sent)} : HandOver(sock, f)
  /\ Return(TRUE)
  /\ UNCHANGED <<sock, opened, sent, stops>>

SendAll ==
  /\ call = "send" /\ sock # 0
  /\ HandOver(sock, Frame(sent))
  /\ Return(TRUE)
  /\ UNCHANGED <<sock, opened, sent, stops>>

\* OSError: no connection could be made, or sendall failed or timed out with a
\* part of the frame, or nothing, in the kernel.
AttemptFails ==
  /\ call = "send"
  /\ IF sock = 0 THEN UNCHANGED net
     ELSE HandOver(sock, Part(sent)) \/ UNCHANGED net

\* Mutant of Retry: the socket is kept.
RetryOnSameSocket ==
  /\ AttemptFails
  /\ attempts < MaxRetries /\ attempts' = attempts + 1
  /\ UNCHANGED <<sock, opened, call, result, sent, stops, acked>>

\* Another mutant of Retry: one attempt too many.
RetryOnceMore ==
  /\ AttemptFails /\ sock' = 0
  /\ attempts <= MaxRetries /\ attempts' = attempts + 1
  /\ UNCHANGED <<opened, call, result, sent, stops, acked>>

Retry ==
  /\ AttemptFails
  /\ sock' = 0  \* _drop_socket
  /\ attempts < MaxRetries /\ attempts' = attempts + 1
  /\ UNCHANGED <<opened, call, result, sent, stops, acked>>

\* Mutants of GiveUp: the attempts start over; the failure is not reported.
GiveUpNever ==
  /\ AttemptFails /\ sock' = 0
  /\ attempts >= MaxRetries /\ attempts' = 0
  /\ UNCHANGED <<opened, call, result, sent, stops, acked>>

GiveUpSilently ==
  /\ AttemptFails /\ sock' = 0
  /\ attempts >= MaxRetries /\ Return(TRUE)
  /\ UNCHANGED <<opened, sent, stops>>

GiveUp ==
  /\ AttemptFails
  /\ sock' = 0
  /\ attempts >= MaxRetries /\ Return(FALSE)
  /\ UNCHANGED <<opened, sent, stops>>

\* close, or the end of the process, followed by a new one: the kernel closes
\* the connection in the same way.
CloseOrCrash ==
  /\ stops < MaxStops /\ stops' = stops + 1
  /\ IF call = "send" THEN AttemptFails ELSE UNCHANGED net
  /\ sock' = 0 /\ Return(FALSE)
  /\ UNCHANGED <<opened, sent>>

\* The peer reads the next frame of a connection.
Deliver(c) ==
  /\ flight[c] # <<>>
  /\ got' = [got EXCEPT ![c] = Append(@, Head(flight[c]))]
  /\ flight' = [flight EXCEPT ![c] = Tail(@)]
  /\ UNCHANGED <<sock, opened, broken, call, attempts, result, sent, stops, acked, lost>>

\* The peer dies, or the network between.
Break(c) ==
  /\ c <= opened /\ c \notin broken /\ Cardinality(broken) < MaxBreaks
  /\ broken' = broken \union {c}
  /\ lost' = lost \union EventsIn(flight[c])
  /\ flight' = [flight EXCEPT ![c] = <<>>]
  /\ UNCHANGED <<sock, opened, got, call, attempts, result, sent, stops, acked>>

Step == Connect \/ SendAll \/ Retry \/ GiveUp
Next ==
  \/ Send \/ Step \/ CloseOrCrash
  \/ \E c \in Conns : Deliver(c) \/ Break(c)

Spec == Init /\ [][Next]_vars

\* Connecting and sending time out (timeout_sec), so that a call goes on; what is
\* in the network arrives unless the connection breaks.
FairSpec == Spec /\ WF_vars(Step) /\ \A c \in Conns : WF_vars(Deliver(c))
-----------------------------------------------------------------------------
TypeOK ==
  /\ sock \in 0 .. opened /\ opened \in 0 .. MaxConns
  /\ flight \in [Conns -> Seq(Frames)] /\ got \in [Conns -> Seq(Frames)]
  /\ broken \in SUBSET Conns
  /\ call \in {"none", "send"} /\ attempts \in 0 .. MaxRetries
  /\ result \in BOOLEAN /\ sent \in 0 .. MaxSends /\ stops \in 0 .. MaxStops
  /\ acked \in SUBSET Events /\ lost \in SUBSET Events

Stream(c) == got[c] \o flight[c]

Before(x, y) == x[1] < y[1] \/ (x[1] = y[1] /\ x[2] < y[2])

\* A peer that splits its streams at newlines reads events one by one, in order, and
\* none of them twice: a frame sent in part is the last of its connection, and the
\* same event is only sent again on a connection made after that one was dropped.
FramesWhole ==
  LET places == {x \in Conns \X (1 .. 2 * MaxSends) : x[2] <= Len(Stream(x[1]))}
      at(x)  == Stream(x[1])[x[2]]
  IN  \A x, y \in places : Before(x, y) =>
        \/ at(x).event < at(y).event
        \/ at(x).event = at(y).event /\ at(x).form = "part" /\ x[1] # y[1]

Promise ==
  INSTANCE SinkSpec
    WITH pending   <- {},
         delivered <- lost \union UNION {EventsIn(Stream(c)) : c \in Conns},
         arg       <- IF call = "send" THEN {sent} ELSE {}

\* TcpSink is a sink in the sense of SinkSpec if what the kernel took and a broken
\* connection lost counts as delivered: that much is an assumption about the peer.
KeepsPromise == Promise!SinkPromise

\* What send acknowledged is read by the peer in the end, unless a connection
\* broke with it under way.
AckedArrives ==
  \A e \in Events :
    e \in acked ~> \/ \E c \in Conns : e \in EventsIn(got[c])
                   \/ e \in lost

\* Every call returns, whatever the network does (bounded retries).
CallsReturn == (call # "none") ~> (call = "none")
=============================================================================
